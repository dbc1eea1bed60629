-------------------------- MODULE SwapJournalProofs -------------------------
(***************************************************************************)
(* Every record of the conversion journal stays acceptable to the          *)
(* journal's own validator, and its history is kept, for every set of      *)
(* operations, writes, plans and messages.                                 *)
(***************************************************************************)
EXTENDS SwapJournal, TLAPS

(* A call replaces one record and leaves every other one alone.            *)
LEMMA SaveIsLocal ==
    ASSUME TypeOK, NEW id \in Ids, NEW r, Save(id, r)
    PROVE  /\ journal'[id] = r
           /\ \A other \in Ids \ {id} : journal'[other] = journal[other]
           /\ r \in Record => TypeOK'
  BY DEF TypeOK, Save

(* What an existing record looks like.                                     *)
LEMMA RecordTyped ==
    ASSUME TypeOK, NEW id \in Ids, Exists(id)
    PROVE  journal[id] \in Record
  BY DEF TypeOK, Exists

(* A step is one call on one operation.                                    *)
Call(id) ==
    \/ \E p \in Plans : Create(id, p)
    \/ \E n \in Names : MarkWriteIntent(id, n)
    \/ \E n \in Names : MarkWriteComplete(id, n)
    \/ MarkAwaitingCycle(id)
    \/ MarkFinalVerified(id)
    \/ \E msg \in Messages : MarkFailed(id, msg)
    \/ Resume(id)
    \/ MarkRestored(id)

(* What a record must be for IInv to hold of it.                           *)
Good(r) ==
    /\ r \in Record
    /\ ValidRecord(r)
    /\ r.failedFrom = "awaiting_cycle" => AllComplete(r)

LEMMA GoodRecords ==
    IInv <=> /\ journal \in [Ids -> Record \cup {NoRecord}]
             /\ \A id \in Ids : Exists(id) => Good(journal[id])
<1>1. ASSUME IInv, NEW id \in Ids, Exists(id)
      PROVE  Good(journal[id])
  <2>1. journal[id] \in Record
    BY <1>1, RecordTyped DEF IInv
  <2>2. QED
    BY <1>1, <2>1 DEF IInv, NeverLockedOut, FailedKeepsWrites, Good
<1>2. ASSUME journal \in [Ids -> Record \cup {NoRecord}],
             \A id \in Ids : Exists(id) => Good(journal[id])
      PROVE  IInv
  BY <1>2 DEF IInv, TypeOK, NeverLockedOut, FailedKeepsWrites, Good
<1>3. QED
  BY <1>1, <1>2 DEF IInv, TypeOK

(* A call that saves a good record keeps the invariant.                    *)
LEMMA SaveGood ==
    ASSUME IInv, NEW id \in Ids, NEW r, Good(r), Save(id, r)
    PROVE  IInv'
<1>1. journal' \in [Ids -> Record \cup {NoRecord}]
  BY DEF IInv, TypeOK, Save, Good
<1>2. ASSUME NEW other \in Ids, Exists(other)'
      PROVE  Good(journal'[other])
  <2>1. CASE other = id
    BY <2>1 DEF IInv, TypeOK, Save
  <2>2. CASE other # id
    <3>1. journal'[other] = journal[other]
      BY <2>2, SaveIsLocal DEF IInv
    <3>2. Exists(other)
      BY <1>2, <3>1 DEF Exists
    <3>3. QED
      BY <3>1, <3>2, GoodRecords
  <2>3. QED
    BY <2>1, <2>2
<1>3. QED
  BY <1>1, <1>2 DEF IInv, TypeOK, NeverLockedOut, FailedKeepsWrites, Good, Exists

(* No record the journal ever saves is one its validator would refuse.     *)
LEMMA CallKeepsIInv ==
    ASSUME IInv, NEW id \in Ids, Call(id)
    PROVE  IInv'
<1> DEFINE r == journal[id]
<1>1. ASSUME NEW p \in Plans, Create(id, p)
      PROVE  IInv'
  <2> DEFINE new == [ phase |-> "writing", plan |-> p,
                      writes |-> [n \in Names |-> "absent"],
                      failure |-> NoFailure, failedFrom |-> NoFailure ]
  <2>1. Good(new)
    BY DEF Good, Record, ValidRecord, WriteState, Phases, NoFailure
  <2>2. QED
    BY <1>1, <2>1, SaveGood DEF Create
<1>2. ASSUME Exists(id)
      PROVE  /\ Good(r)
             /\ r \in Record
             /\ r.writes \in [Names -> WriteState]
  BY <1>2, GoodRecords DEF Good, Record
<1>3. ASSUME NEW n \in Names, NEW v \in {"intent", "complete"},
             InPhase(id, "writing"), Save(id, [r EXCEPT !.writes[n] = v])
      PROVE  IInv'
  <2> DEFINE new == [r EXCEPT !.writes[n] = v]
  <2>1. new \in Record
    BY <1>2, <1>3 DEF InPhase, Record, WriteState
  <2>2. /\ new.phase = "writing" /\ r.phase = "writing"
        /\ new.failure = r.failure
        /\ new.failedFrom = r.failedFrom
    BY <1>2, <1>3 DEF InPhase, Record
  <2>3. Good(new)
    BY <1>2, <1>3, <2>1, <2>2 DEF InPhase, Good, ValidRecord, NoFailure
  <2>4. QED
    BY <1>3, <2>3, SaveGood
<1>4. ASSUME NEW n \in Names, MarkWriteIntent(id, n)
      PROVE  IInv'
  BY <1>3, <1>4 DEF MarkWriteIntent, CanMarkWriteIntent
<1>5. ASSUME NEW n \in Names, MarkWriteComplete(id, n)
      PROVE  IInv'
  BY <1>3, <1>5 DEF MarkWriteComplete, CanMarkWriteComplete
<1>6. ASSUME MarkAwaitingCycle(id)
      PROVE  IInv'
  <2> DEFINE new == [r EXCEPT !.phase = "awaiting_cycle"]
  <2>1. Exists(id) /\ AllComplete(r) /\ r.phase \notin {"failed", "restored"}
    BY <1>2, <1>6 DEF MarkAwaitingCycle, CanMarkAwaitingCycle, InPhase, Good, ValidRecord
  <2>2. new \in Record /\ AllComplete(new)
    BY <1>2, <2>1 DEF Record, Phases, AllComplete
  <2>3. Good(new)
    BY <1>2, <2>1, <2>2 DEF Good, ValidRecord, Record
  <2>4. QED
    BY <1>6, <2>3, SaveGood DEF MarkAwaitingCycle
<1>7. ASSUME MarkFinalVerified(id)
      PROVE  IInv'
  <2> DEFINE new == [r EXCEPT !.phase = "verified"]
  <2>1. Exists(id) /\ AllComplete(r) /\ r.phase \notin {"failed", "restored"}
    BY <1>2, <1>7 DEF MarkFinalVerified, CanMarkFinalVerified, InPhase, Good, ValidRecord
  <2>2. new \in Record /\ AllComplete(new)
    BY <1>2, <2>1 DEF Record, Phases, AllComplete
  <2>3. Good(new)
    BY <1>2, <2>1, <2>2 DEF Good, ValidRecord, Record
  <2>4. QED
    BY <1>7, <2>3, SaveGood DEF MarkFinalVerified
<1>8. ASSUME NEW msg \in Messages, MarkFailed(id, msg)
      PROVE  IInv'
  <2>1. CASE r.phase = "failed"
    BY <1>8, <2>1 DEF MarkFailed, IInv, TypeOK, NeverLockedOut, FailedKeepsWrites, Exists
  <2>2. CASE r.phase # "failed"
    <3> DEFINE new == [r EXCEPT !.failedFrom = r.phase, !.phase = "failed", !.failure = msg]
    <3>1. Exists(id) /\ r.phase \in {"writing", "awaiting_cycle"}
      BY <1>8, <2>2 DEF MarkFailed, CanMarkFailed, InPhase
    <3>2. new \in Record
      BY <1>2, <3>1 DEF Record, Phases
    <3>3. /\ new.phase = "failed" /\ new.failure = msg
          /\ new.failedFrom = r.phase /\ new.writes = r.writes
      BY <1>2, <3>1 DEF Record
    <3>4. r.phase = "awaiting_cycle" => AllComplete(new)
      BY <1>2, <3>1, <3>3 DEF Good, ValidRecord, AllComplete
    <3>5. msg # NoFailure /\ r.phase # NoFailure
      BY <3>1, MessagesAssumption DEF NoFailure
    <3>6. Good(new)
      BY <3>2, <3>3, <3>4, <3>5 DEF Good, ValidRecord
    <3>7. QED
      BY <1>8, <2>2, <3>6, SaveGood DEF MarkFailed
  <2>3. QED
    BY <2>1, <2>2
<1>9. ASSUME Resume(id)
      PROVE  IInv'
  <2> DEFINE new == [r EXCEPT !.phase = r.failedFrom,
                              !.failure = NoFailure, !.failedFrom = NoFailure]
  <2>1. /\ Exists(id) /\ r.phase = "failed"
        /\ r.failedFrom \in {"writing", "awaiting_cycle"}
    BY <1>2, <1>9 DEF Resume, CanResume, InPhase, Good, ValidRecord, Record
  <2>2. new \in Record
    BY <1>2, <2>1 DEF Record, Phases
  <2>3. /\ new.phase = r.failedFrom /\ new.failure = NoFailure
        /\ new.failedFrom = NoFailure /\ new.writes = r.writes
    BY <1>2, <2>1 DEF Record
  <2>4. new.phase = "awaiting_cycle" => AllComplete(new)
    BY <1>2, <2>1, <2>3 DEF Good, AllComplete
  <2>5. Good(new)
    BY <2>1, <2>2, <2>3, <2>4 DEF Good, ValidRecord, NoFailure
  <2>6. QED
    BY <1>9, <2>5, SaveGood DEF Resume
<1>10. ASSUME MarkRestored(id)
       PROVE  IInv'
  <2> DEFINE new == [r EXCEPT !.phase = "restored"]
  <2>1. Exists(id) /\ r.phase \in {"failed", "restored"}
    BY <1>10 DEF MarkRestored, CanMarkRestored, InPhase
  <2>2. new \in Record
    BY <1>2, <2>1 DEF Record, Phases
  <2>3. /\ new.phase = "restored" /\ new.failure = r.failure
        /\ new.failedFrom = r.failedFrom /\ new.writes = r.writes
    BY <1>2, <2>1 DEF Record
  <2>4. Good(new)
    BY <1>2, <2>1, <2>2, <2>3 DEF Good, ValidRecord, AllComplete
  <2>5. QED
    BY <1>10, <2>4, SaveGood DEF MarkRestored
<1>11. QED
  BY <1>1, <1>4, <1>5, <1>6, <1>7, <1>8, <1>9, <1>10 DEF Call

LEMMA InitIInv == Init => IInv
  BY DEF Init, IInv, TypeOK, NeverLockedOut, FailedKeepsWrites, Exists, NoRecord

LEMMA NextIInv == IInv /\ [Next]_journal => IInv'
<1>1. ASSUME IInv, Next
      PROVE  IInv'
  BY <1>1, CallKeepsIInv DEF Next, Call
<1>2. ASSUME IInv, UNCHANGED journal
      PROVE  IInv'
  BY <1>2 DEF IInv, TypeOK, NeverLockedOut, FailedKeepsWrites, Exists
<1>3. QED
  BY <1>1, <1>2

(* The inductive invariant holds in every reachable state of the journal.  *)
THEOREM JournalInvariant == Spec => []IInv
  BY InitIInv, NextIInv, PTL DEF Spec

(* The fields of every record keep the types of the schema.                *)
THEOREM JournalTyped == Spec => []TypeOK
<1>1. IInv => TypeOK
  BY DEF IInv
<1>2. QED
  BY <1>1, JournalInvariant, PTL

(* No sequence of calls leaves a record that the validator would refuse,   *)
(* whatever operations, writes and messages there are.                     *)
THEOREM JournalNeverLockedOut == Spec => []NeverLockedOut
<1>1. IInv => NeverLockedOut
  BY DEF IInv
<1>2. QED
  BY <1>1, JournalInvariant, PTL
---------------------------------------------------------------------------
(* A call keeps the history of the record it is made on.                   *)
LEMMA CallKeepsHistory ==
    ASSUME TypeOK, NEW id \in Ids, Call(id)
    PROVE  KeptFor(id)
<1> DEFINE r == journal[id]
<1>1. SUFFICES ASSUME Exists(id)
               PROVE  KeptFor(id)
  BY DEF KeptFor
<1>2. r \in Record
  BY <1>1, RecordTyped
<1>3. ASSUME NEW p \in Plans, Create(id, p)
      PROVE  KeptFor(id)
  BY <1>1, <1>3 DEF Create, CanCreate
<1>4. ASSUME NEW n \in Names, NEW v \in {"intent", "complete"},
             r.phase = "writing", Save(id, [r EXCEPT !.writes[n] = v]),
             <<r.writes[n], v>> \in {<<"absent", "intent">>, <<"intent", "intent">>,
                                    <<"intent", "complete">>, <<"complete", "complete">>}
      PROVE  KeptFor(id)
  <2>1. journal'[id] = [r EXCEPT !.writes[n] = v]
    BY <1>4, SaveIsLocal
  <2>2. /\ journal'[id].plan = r.plan
        /\ \A m \in Names : journal'[id].writes[m] = IF m = n THEN v ELSE r.writes[m]
    BY <1>2, <2>1 DEF Record
  <2>3. QED
    BY <1>1, <1>4, <2>2 DEF KeptFor, Incomplete
<1>5. ASSUME NEW n \in Names, MarkWriteIntent(id, n)
      PROVE  KeptFor(id)
  <2>1. r.phase = "writing" /\ r.writes[n] \in {"absent", "intent"}
    BY <1>2, <1>5 DEF MarkWriteIntent, CanMarkWriteIntent, InPhase, Record, WriteState
  <2>2. QED
    BY <1>4, <1>5, <2>1 DEF MarkWriteIntent
<1>6. ASSUME NEW n \in Names, MarkWriteComplete(id, n)
      PROVE  KeptFor(id)
  <2>1. r.phase = "writing" /\ r.writes[n] \in {"intent", "complete"}
    BY <1>2, <1>6 DEF MarkWriteComplete, CanMarkWriteComplete, InPhase, Record, WriteState
  <2>2. QED
    BY <1>4, <1>6, <2>1 DEF MarkWriteComplete
<1>7. ASSUME NEW new, Save(id, new),
             new.plan = r.plan, new.writes = r.writes,
             Incomplete(id) \/ new = r
      PROVE  KeptFor(id)
  BY <1>7, SaveIsLocal DEF KeptFor
<1>8. ASSUME UNCHANGED journal
      PROVE  KeptFor(id)
  BY <1>8 DEF KeptFor
<1>9. ASSUME MarkAwaitingCycle(id)
      PROVE  KeptFor(id)
  <2> DEFINE new == [r EXCEPT !.phase = "awaiting_cycle"]
  <2>1. new.plan = r.plan /\ new.writes = r.writes
    BY <1>2 DEF Record
  <2>2. Incomplete(id)
    BY <1>1, <1>9 DEF MarkAwaitingCycle, CanMarkAwaitingCycle, InPhase, Incomplete
  <2>3. QED
    BY <1>7, <1>9, <2>1, <2>2 DEF MarkAwaitingCycle
<1>10. ASSUME MarkFinalVerified(id)
       PROVE  KeptFor(id)
  <2> DEFINE new == [r EXCEPT !.phase = "verified"]
  <2>1. new.plan = r.plan /\ new.writes = r.writes
    BY <1>2 DEF Record
  <2>2. Incomplete(id) \/ new = r
    BY <1>1, <1>2, <1>10
       DEF MarkFinalVerified, CanMarkFinalVerified, InPhase, Incomplete, Record
  <2>3. QED
    BY <1>7, <1>10, <2>1, <2>2 DEF MarkFinalVerified
<1>11. ASSUME NEW msg \in Messages, MarkFailed(id, msg)
       PROVE  KeptFor(id)
  <2>1. CASE r.phase = "failed"
    BY <1>8, <1>11, <2>1 DEF MarkFailed
  <2>2. CASE r.phase # "failed"
    <3> DEFINE new == [r EXCEPT !.failedFrom = r.phase, !.phase = "failed", !.failure = msg]
    <3>1. new.plan = r.plan /\ new.writes = r.writes
      BY <1>2 DEF Record
    <3>2. Incomplete(id)
      BY <1>1, <1>11, <2>2 DEF MarkFailed, CanMarkFailed, InPhase, Incomplete
    <3>3. QED
      BY <1>7, <1>11, <2>2, <3>1, <3>2 DEF MarkFailed
  <2>3. QED
    BY <2>1, <2>2
<1>12. ASSUME Resume(id)
       PROVE  KeptFor(id)
  <2> DEFINE new == [r EXCEPT !.phase = r.failedFrom,
                              !.failure = NoFailure, !.failedFrom = NoFailure]
  <2>1. new.plan = r.plan /\ new.writes = r.writes
    BY <1>2 DEF Record
  <2>2. Incomplete(id)
    BY <1>1, <1>12 DEF Resume, CanResume, InPhase, Incomplete
  <2>3. QED
    BY <1>7, <1>12, <2>1, <2>2 DEF Resume
<1>13. ASSUME MarkRestored(id)
       PROVE  KeptFor(id)
  <2> DEFINE new == [r EXCEPT !.phase = "restored"]
  <2>1. new.plan = r.plan /\ new.writes = r.writes
    BY <1>2 DEF Record
  <2>2. Incomplete(id) \/ new = r
    BY <1>1, <1>2, <1>13 DEF MarkRestored, CanMarkRestored, InPhase, Incomplete, Record
  <2>3. QED
    BY <1>7, <1>13, <2>1, <2>2 DEF MarkRestored
<1>14. QED
  BY <1>3, <1>5, <1>6, <1>9, <1>10, <1>11, <1>12, <1>13 DEF Call

(* A call on one operation leaves every other operation's record alone.    *)
LEMMA CallIsLocal ==
    ASSUME TypeOK, NEW id \in Ids, Call(id), NEW other \in Ids \ {id}
    PROVE  journal'[other] = journal[other]
  BY DEF Call, Create, MarkWriteIntent, MarkWriteComplete, MarkAwaitingCycle,
         MarkFinalVerified, MarkFailed, Resume, MarkRestored, Save, TypeOK

(* No call reopens a closed record, loses an intent or takes back a        *)
(* completion: what recovery reads is the whole history of the writes.     *)
THEOREM JournalHistoryKept == Spec => HistoryKept
<1>1. ASSUME TypeOK, Next, NEW id \in Ids
      PROVE  KeptFor(id)
  <2>1. PICK called \in Ids : Call(called)
    BY <1>1 DEF Next, Call
  <2>2. CASE called = id
    BY <1>1, <2>1, <2>2, CallKeepsHistory
  <2>3. CASE called # id
    BY <1>1, <2>1, <2>3, CallIsLocal DEF KeptFor
  <2>4. QED
    BY <2>2, <2>3
<1>2. TypeOK /\ [Next]_journal => [\A id \in Ids : KeptFor(id)]_journal
  BY <1>1
<1>3. QED
  BY <1>2, JournalTyped, PTL DEF Spec, HistoryKept
=============================================================================
