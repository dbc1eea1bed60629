---------------------- MODULE TransmissionConversionProofs ----------------------
(***************************************************************************)
(* The guided conversion for every number of owners, records, failures and *)
(* outside changes: what is proved here is checked by TLC on one instance. *)
(***************************************************************************)
EXTENDS TransmissionConversion, WellFoundedInduction, FiniteSetTheorems, TLAPS

LEMMA Constants ==
    /\ NOwners \in Nat \ {0} /\ MaxRecords \in Nat \ {0}
    /\ Owners \subseteq Nat /\ Owners \subseteq Subjects
    /\ Dme \in Subjects /\ Eeprom \in Subjects
    /\ Dme \notin Owners /\ Eeprom \notin Owners /\ Dme # Eeprom
    /\ Subjects \subseteq Nat
    /\ Ids \subseteq Nat /\ NoId \notin Ids
  BY ConversionAssumption DEF Owners, Dme, Eeprom, Subjects, Ids, NoId

(* A non-empty set of numbers has a least and, below a bound, a greatest   *)
(* element.                                                                *)
LEMMA LeastNumber ==
    ASSUME NEW S, S \subseteq Nat, S # {}
    PROVE  \E x \in S : \A y \in S : x <= y
<1>1. PICK x \in S : \A y \in S : ~(<<y, x>> \in OpToRel(<, Nat))
  BY NatLessThanWellFounded, WFMin
<1>2. ASSUME NEW y \in S
      PROVE  x <= y
  <2>1. <<y, x>> \in Nat \X Nat /\ ~(y < x)
    BY <1>1 DEF OpToRel
  <2>2. QED
    BY <2>1
<1>3. QED
  BY <1>2

LEMMA GreatestId ==
    ASSUME NEW S, S \subseteq Ids, S # {}
    PROVE  Newest(S) \in S /\ \A other \in S : other <= Newest(S)
<1> DEFINE Down == {MaxRecords - id : id \in S}
<1>0. MaxRecords \in Nat /\ \A id \in S : id \in Nat /\ id <= MaxRecords
  BY ConversionAssumption DEF Ids
<1>1. Down \subseteq Nat /\ Down # {}
  BY <1>0
<1>2. PICK x \in Down : \A y \in Down : x <= y
  BY <1>1, LeastNumber
<1>3. PICK id \in S : x = MaxRecords - id
  BY <1>2
<1>4. \A other \in S : other <= id
  <2>1. ASSUME NEW other \in S
        PROVE  other <= id
    <3>1. MaxRecords - other \in Down
      OBVIOUS
    <3>2. MaxRecords - id <= MaxRecords - other
      BY <1>2, <1>3, <3>1
    <3>3. QED
      BY <1>0, <3>2
  <2>2. QED
    BY <2>1
<1>5. QED
  BY <1>4 DEF Newest

LEMMA RankTyped ==
    ASSUME NEW n \in Names
    PROVE  Rank(n) \in Nat
<1>1. CASE n[2] \notin Owners
  <2>1. Rank(n) = 3 * NOwners
    BY <1>1 DEF Rank
  <2>2. QED
    BY <2>1, ConversionAssumption
<1>2. CASE n[2] \in Owners
  <2>1. n[2] \in Nat /\ n[2] <= NOwners /\ NOwners \in Nat
    BY <1>2, ConversionAssumption DEF Owners
  <2>2. Rank(n) = NOwners - n[2] \/ Rank(n) = NOwners + n[2]
    BY <1>2 DEF Rank
  <2>3. QED
    BY <2>1, <2>2
<1>3. QED
  BY <1>1, <1>2

(* The next write is one of the writes.                                    *)
LEMMA FirstIsOne ==
    ASSUME NEW names, names \subseteq Names, names # {}
    PROVE  First(names) \in names
<1> DEFINE Ranks == {Rank(n) : n \in names}
<1>1. Ranks \subseteq Nat /\ Ranks # {}
  BY RankTyped
<1>2. PICK x \in Ranks : \A y \in Ranks : x <= y
  BY <1>1, LeastNumber
<1>3. PICK n \in names : x = Rank(n)
  BY <1>2
<1>4. \A m \in names : Rank(n) <= Rank(m)
  BY <1>2, <1>3
<1>5. QED
  BY <1>4 DEF First

LEMMA NamesTyped ==
    ASSUME NEW n \in Names
    PROVE  n = <<n[1], n[2]>> /\ n[1] \in Stages /\ n[2] \in Subjects
  BY DEF Names
(* The engine computer's write that does not belong to the vehicle's       *)
(* family: an MS41 is never reset, an MS42/MS43 has no transmission record.*)
OfFamily(s) == s # (IF Ms41 THEN Dme ELSE Eeprom)

(* What recovery of a record reads: the writes of its whole chain.         *)
Att(id) == Attempted(Chain(id))
Unc(id) == Uncertain(Chain(id))

Awaits(id) == J!Exists(id) /\ ActivePhase(id) = "awaiting_cycle"

(* The steps that make a write, and all steps that work under an open      *)
(* record of their own.                                                    *)
Stepping == {"intent", "device", "complete"}
Writing  == Stepping \cup {"await", "rollback", "rb_failed"}

(* The records: numbered without a gap, superseding only earlier ones, at  *)
(* most one of them open and not superseded.                               *)
JournalInv ==
    /\ \E n \in 0 .. MaxRecords : Used = 1 .. n
    /\ \A id \in Used : Supersedes(id) \in Used \cup {NoId}
    /\ \A id \in Used : journal[id].phase = "failed" =>
                            journal[id].failedFrom \in {"writing", "awaiting_cycle"}
    /\ \A a, b \in Recoverable : a = b
    /\ \A id \in Used : \A n \in Names :
            journal[id].writes[n] # "absent" => OfFamily(n[2])

(* Between two tasks there is no session, or a plan not yet begun, or a    *)
(* conversion that waits for its ignition cycle.                           *)
UnusedSession ==
    /\ session \in Sessions
    /\ session.written = {} /\ ~session.reset /\ ~session.dirty
IdleInv ==
    \/ session = NoSession
    \/ UnusedSession /\ session.phase = "prepared" /\ session.action = "convert"
                     /\ session.prior = NoId
    \/ session \in Sessions /\ session.op \in Ids /\ AwaitingCycle /\ Awaits(session.op)

(* About to create a record: nothing is open, or only the record that the  *)
(* new one will supersede and that has passed the preflight.               *)
CreateInv ==
    /\ UnusedSession
    /\ session.op = NextId
    /\ session.action = "convert" =>
          /\ session.phase = "prepared" /\ session.prior = NoId
          /\ Recoverable = {} /\ Original
    /\ session.action # "convert" =>
          /\ session.phase = "recovery" /\ session.prior \in Recoverable
          /\ session.action = "original" => Att(session.prior) # {}
          /\ \A o \in Owners : image[o] = "torn" => o \in Unc(session.prior)

(* Working under an open record: it is the one recovery would find.        *)
OpenInv ==
    /\ session.op \in Recoverable
    /\ journal[session.op].plan.action = session.action
    /\ session.phase \notin {"awaiting_cycle", "rollback_awaiting_cycle"}
    /\ pc = "rb_restored" => journal[session.op].phase = "failed"
    /\ pc # "rb_restored" => journal[session.op].phase = "writing"

(* Making the writes of the task: what is still to do is absent from the   *)
(* record, but for the write at hand; what is done is complete.            *)
StepInv ==
    LET w == journal[session.op].writes
    IN  /\ todo # {}
        /\ \A n \in todo : OfFamily(n[2])
        /\ session.action = "convert" => \A n \in todo : n[1] = "write"
        /\ \A n \in Names :
              /\ n \in todo /\ n # First(todo) => w[n] = "absent"
              /\ n \notin todo => w[n] # "intent"
        /\ w[First(todo)] = IF pc = "intent" THEN "absent" ELSE "intent"
        /\ Subject = Eeprom => session.phase # "prepared"
        /\ pc = "complete" => /\ Subject \in Owners => image[Subject] # "torn"
                              /\ Subject = Eeprom => eeprom # "torn"

(* The first attempt, until the transmission record or the ignition cycle: *)
(* only what it has reached differs from the original.                     *)
ConvertInv ==
    /\ \A o \in Owners : o \notin session.written => image[o] = "before"
    /\ eeprom = "before"
    /\ ~session.reset => mode = "source" /\ ~relearn

RollbackInv ==
    /\ InsideModuleWrite
    /\ pc = "rollback" =>
          /\ todo \subseteq {"restore"} \X Owners
          /\ ~session.dirty => \A o \in Owners :
                image[o] # "before" => <<"restore", o>> \in todo
    /\ pc = "rb_failed" => \A o \in Owners : image[o] = "before"
    /\ pc = "rb_restored" => Original /\ ~relearn

VerifyInv ==
    /\ AwaitingCycle /\ ~relearn
    /\ J!InPhase(session.op, "awaiting_cycle")
    /\ pc = "v_mark" => IF session.phase = "rollback_awaiting_cycle"
                        THEN Original ELSE Converted

TaskInv ==
    /\ pc = "idle" => IdleInv
    /\ pc # "idle" => session \in Sessions /\ session.op \in Ids
    /\ pc = "create" => CreateInv
    /\ pc \in Writing \cup {"rb_restored"} => OpenInv
    /\ pc \in Stepping => StepInv
    /\ pc = "await" => J!AllComplete(journal[session.op])
    /\ (pc \in Writing /\ InsideModuleWrite) => ConvertInv
    /\ pc \in {"rollback", "rb_failed", "rb_restored"} => RollbackInv
    /\ pc \in {"verify", "v_mark"} => VerifyInv
    /\ pc = "fail" => (AwaitingCycle => Awaits(session.op))
    /\ pc = "settle" => session.op \in Used
    /\ pc = "close" => /\ Original /\ ~relearn
                       /\ session.phase = "recovery" /\ session.prior \in Used

(* A foreign coding is never there while a task writes.                    *)
NoForeign == (\A o \in Owners : image[o] # "foreign") /\ eeprom # "foreign"

(* The vehicle against the chain of the open record.                       *)
VehicleInv ==
    /\ pc \in Writing \cup {"create"} => NoForeign
    /\ outside = 0 => NoForeign
    /\ ~Ms41 => eeprom = "before"
    /\ relearn => Recoverable # {}
    /\ \A id \in Recoverable :
          /\ \A o \in Owners :
                /\ image[o] \in {"target", "torn"} => o \in Att(id)
                /\ (image[o] = "torn" /\ journal[id].plan.action # "convert") => o \in Unc(id)
          /\ eeprom \in {"target", "torn"} => Eeprom \in Att(id)
          /\ eeprom = "torn" => Eeprom \in Unc(id)
          /\ (mode = "target" /\ outside = 0) => Att(id) \cap {Dme, Eeprom} # {}
          /\ relearn => Dme \in Att(id)

IInv == TypeOK /\ JournalInv /\ TaskInv /\ VehicleInv
---------------------------------------------------------------------------
(* The chain of a record, and what a call on the journal does to it.       *)

LEMMA ChainBasics ==
    ASSUME NEW id \in Used
    PROVE  id \in Chain(id) /\ Chain(id) \subseteq Used
  BY DEF Chain

LEMMA NoRecordTyped == J!NoRecord \notin J!Record
  BY DEF J!NoRecord, J!Record

(* Everything else in a chain is superseded, so it is never recoverable.   *)
LEMMA OlderSuperseded ==
    ASSUME JournalInv, NEW id \in Used, NEW j \in Chain(id), j # id
    PROVE  Superseded(j) /\ j \notin Recoverable
<1> DEFINE S == {x \in Used : x = id \/ Superseded(x)}
<1>1. ASSUME NEW x \in S
      PROVE  Supersedes(x) \in S \cup {NoId}
  BY DEF JournalInv, Superseded
<1>2. S \in SUBSET Used /\ id \in S /\ ClosedUnderSupersedes(S)
  BY <1>1 DEF ClosedUnderSupersedes
<1>3. j \in S
  BY <1>2 DEF Chain
<1>4. QED
  BY <1>3 DEF Recoverable

(* A call on an existing record changes no plan, hence no chain.           *)
Saved(id, r) ==
    /\ J!TypeOK
    /\ id \in Used /\ r \in J!Record
    /\ J!Save(id, r)
    /\ r.plan = journal[id].plan

LEMMA SavedTyped ==
    ASSUME NEW id, NEW r, Saved(id, r)
    PROVE  /\ J!TypeOK'
           /\ journal'[id] = r
           /\ \A j \in Used \ {id} : journal'[j] = journal[j]
           /\ Used' = Used
           /\ \A j \in Used : Supersedes(j)' = Supersedes(j)
           /\ \A j \in Used : Superseded(j)' <=> Superseded(j)
<1>1. id \in Ids /\ J!Exists(id)
  BY DEF Saved, Used
<1>2. journal' = [journal EXCEPT ![id] = r] /\ journal \in [Ids -> J!Record \cup {J!NoRecord}]
  BY DEF Saved, J!Save, J!TypeOK
<1>3. journal' \in [Ids -> J!Record \cup {J!NoRecord}]
  BY <1>1, <1>2 DEF Saved
<1>4. journal'[id] = r /\ \A j \in Ids \ {id} : journal'[j] = journal[j]
  BY <1>1, <1>2
<1>5. \A j \in Ids : J!Exists(j)' <=> J!Exists(j)
  BY <1>1, <1>4, NoRecordTyped DEF Saved, J!Exists
<1>6. Used' = Used
  BY <1>5 DEF Used
<1>7. \A j \in Used : Supersedes(j)' = Supersedes(j)
  BY <1>4 DEF Supersedes, Used, Saved
<1>8. \A j \in Used : Superseded(j)' <=> Superseded(j)
  BY <1>6, <1>7 DEF Superseded
<1>9. QED
  BY <1>3, <1>4, <1>6, <1>7, <1>8 DEF J!TypeOK, Used

LEMMA SameChains ==
    ASSUME Used' = Used, \A j \in Used : Supersedes(j)' = Supersedes(j), NEW id
    PROVE  Chain(id)' = Chain(id)
<1>1. \A S \in SUBSET Used : ClosedUnderSupersedes(S)' <=> ClosedUnderSupersedes(S)
  BY DEF ClosedUnderSupersedes
<1>2. QED
  BY <1>1 DEF Chain

(* A call that marks no write changes nothing that recovery reads of the   *)
(* writes.                                                                 *)
LEMMA SavedPhase ==
    ASSUME NEW id, NEW r, Saved(id, r), r.writes = journal[id].writes
    PROVE  \A j \in Used : Att(j)' = Att(j) /\ Unc(j)' = Unc(j)
<1>1. SUFFICES ASSUME NEW j \in Used
               PROVE  Att(j)' = Att(j) /\ Unc(j)' = Unc(j)
  OBVIOUS
<1>2. Chain(j)' = Chain(j) /\ Chain(j) \subseteq Used
  BY SavedTyped, SameChains, ChainBasics
<1>3. \A i \in Used : J!Exists(i) /\ J!Exists(i)' /\ journal'[i].writes = journal[i].writes
  <2>1. \A i \in Used : J!Exists(i) /\ J!Exists(i)'
    BY SavedTyped DEF Used
  <2>2. QED
    BY <2>1, SavedTyped
<1>4. \A i \in Used, s \in Subjects : WritesOf(i, s)' = WritesOf(i, s)
  BY <1>3 DEF WritesOf
<1>5. Att(j)' = Att(j)
  BY <1>2, <1>4 DEF Att, Attempted
<1>6. Unc(j)' = Unc(j)
  BY <1>2, <1>3, <1>4 DEF Unc, Uncertain
<1>7. QED
  BY <1>5, <1>6

(* What a record's writes contribute to the two sets.                      *)
AttemptsAre(id, s) ==
    /\ s \in Att(id) <=>
          \E i \in Chain(id) : \E n \in Names : n[2] = s /\ journal[i].writes[n] # "absent"
    /\ s \in Unc(id) <=>
          \E i \in Chain(id) : \E n \in Names : n[2] = s /\ journal[i].writes[n] = "intent"

LEMMA Attempts == \A id \in Used, s \in Subjects : AttemptsAre(id, s)
<1> SUFFICES ASSUME NEW id \in Used, NEW s \in Subjects
             PROVE  AttemptsAre(id, s)
  OBVIOUS
<1>1. \A i \in Chain(id) : J!Exists(i)
  BY ChainBasics DEF Used
<1>2. \A i \in Chain(id) : \A n : n \in WritesOf(i, s) <=>
          n \in Names /\ n[2] = s /\ journal[i].writes[n] # "absent"
  BY <1>1 DEF WritesOf
<1>3. s \in Att(id) <=> \E i \in Chain(id) : \E n : n \in WritesOf(i, s)
  BY DEF Att, Attempted
<1>4. s \in Unc(id) <=> \E i \in Chain(id) : \E n \in WritesOf(i, s) : journal[i].writes[n] = "intent"
  BY DEF Unc, Uncertain
<1>5. QED
  BY <1>2, <1>3, <1>4 DEF AttemptsAre

LEMMA AttemptsNext == (\A id \in Used, s \in Subjects : AttemptsAre(id, s))'
  BY Attempts, PTL

LEMMA AttemptsTyped ==
    ASSUME NEW id
    PROVE  Att(id) \subseteq Subjects /\ Unc(id) \subseteq Subjects
  BY DEF Att, Unc, Attempted, Uncertain

(* A saved record stays recoverable as long as it is not closed; no other  *)
(* record becomes or stops being recoverable.                              *)
Closed == {"verified", "restored"}

LEMMA SavedRecoverable ==
    ASSUME NEW id, NEW r, Saved(id, r)
    PROVE  /\ \A j \in Used \ {id} : j \in Recoverable' <=> j \in Recoverable
           /\ id \in Recoverable' <=> ~Superseded(id) /\ r.phase \notin Closed
           /\ id \in Recoverable <=> ~Superseded(id) /\ journal[id].phase \notin Closed
           /\ Recoverable' \subseteq Used
<1>1. id \in Used
  BY DEF Saved
<1>2. J!Exists(id) /\ J!Exists(id)'
  BY <1>1, SavedTyped DEF Used
<1>3. id \in Recoverable' <=> ~Superseded(id) /\ r.phase \notin Closed
  BY <1>1, <1>2, SavedTyped DEF Recoverable, J!Incomplete, Closed
<1>4. id \in Recoverable <=> ~Superseded(id) /\ journal[id].phase \notin Closed
  BY <1>1, <1>2 DEF Recoverable, J!Incomplete, Closed
<1>5. ASSUME NEW j \in Used \ {id}
      PROVE  j \in Recoverable' <=> j \in Recoverable
  <2>1. J!Exists(j) /\ J!Exists(j)' /\ journal'[j] = journal[j]
    BY <1>5, SavedTyped DEF Used
  <2>2. J!Incomplete(j)' <=> J!Incomplete(j)
    BY <2>1 DEF J!Incomplete
  <2>3. QED
    BY <1>5, <2>2, SavedTyped DEF Recoverable
<1>6. Recoverable' \subseteq Used
  BY SavedTyped DEF Recoverable
<1>7. QED
  BY <1>3, <1>4, <1>5, <1>6

LEMMA SavedOpen ==
    ASSUME NEW id, NEW r, Saved(id, r),
           journal[id].phase \notin Closed, r.phase \notin Closed
    PROVE  Recoverable' = Recoverable
<1>1. Recoverable \subseteq Used /\ Recoverable' \subseteq Used
  BY SavedRecoverable DEF Recoverable
<1>2. QED
  BY <1>1, SavedRecoverable

(* Marking a write: the intent is uncertain until it is completed, and     *)
(* either way the owner has been attempted.                                *)
Marked(id, n, v) ==
    /\ \A j \in Used : Att(j) \subseteq Att(j)' /\ Unc(j) \subseteq Unc(j)' \cup {n[2]}
    /\ n[2] \in Att(id)'
    /\ v = "intent" => n[2] \in Unc(id)' /\ \A j \in Used : Unc(j) \subseteq Unc(j)'
    /\ \A m \in Names : journal'[id].writes[m] = IF m = n THEN v ELSE journal[id].writes[m]

LEMMA SavedWrite ==
    ASSUME NEW id, NEW r, NEW n \in Names, NEW v \in {"intent", "complete"},
           r = [journal[id] EXCEPT !.writes[n] = v],
           Saved(id, r)
    PROVE  Marked(id, n, v)
<1>1. id \in Used /\ J!Exists(id)
  BY DEF Saved, Used
<1>2. journal[id] \in J!Record
  BY <1>1 DEF Saved, J!TypeOK, J!Exists, Used
<1>3. \A m \in Names : journal'[id].writes[m] = IF m = n THEN v ELSE journal[id].writes[m]
  <2>1. journal'[id] = r
    BY SavedTyped
  <2>2. QED
    BY <1>2, <2>1 DEF J!Record
<1>4. \A j \in Used : Chain(j)' = Chain(j) /\ Chain(j) \subseteq Used /\ j \in Used'
  BY SavedTyped, SameChains, ChainBasics
<1>5. \A i \in Used \ {id} : journal'[i].writes = journal[i].writes
  BY SavedTyped
<1>6. ASSUME NEW j \in Used, NEW s \in Subjects, NEW k \in Chain(j), NEW m \in Names, m[2] = s
      PROVE  /\ journal'[k].writes[m] # "absent" => s \in Att(j)'
             /\ journal'[k].writes[m] = "intent" => s \in Unc(j)'
  <2>1. k \in Chain(j)' /\ j \in Used'
    BY <1>4, <1>6
  <2>2. QED
    BY <1>6, <2>1, AttemptsNext DEF AttemptsAre
<1>7. ASSUME NEW j \in Used, NEW s \in Att(j)
      PROVE  s \in Att(j)'
  <2>1. s \in Subjects
    BY AttemptsTyped
  <2>2. PICK k \in Chain(j), m \in Names : m[2] = s /\ journal[k].writes[m] # "absent"
    BY <2>1, Attempts DEF AttemptsAre
  <2>3. journal'[k].writes[m] # "absent"
    BY <2>2, <1>3, <1>4, <1>5
  <2>4. QED
    BY <1>6, <2>1, <2>2, <2>3
<1>8. ASSUME NEW j \in Used, NEW s \in Unc(j), s # n[2] \/ v = "intent"
      PROVE  s \in Unc(j)'
  <2>1. s \in Subjects
    BY AttemptsTyped
  <2>2. PICK k \in Chain(j), m \in Names : m[2] = s /\ journal[k].writes[m] = "intent"
    BY <2>1, Attempts DEF AttemptsAre
  <2>3. journal'[k].writes[m] = "intent"
    BY <1>8, <2>2, <1>3, <1>4, <1>5
  <2>4. QED
    BY <1>6, <2>1, <2>2, <2>3
<1>9. n[2] \in Subjects /\ id \in Chain(id)
  BY <1>1, NamesTyped, ChainBasics
<1>10. n[2] \in Att(id)' /\ (v = "intent" => n[2] \in Unc(id)')
  BY <1>1, <1>3, <1>6, <1>9
<1>11. QED
  BY <1>3, <1>7, <1>8, <1>10 DEF Marked

(* Creating a record: the next number, superseding the open record if      *)
(* there is one.                                                           *)
LEMMA UsedCount ==
    ASSUME NEW n \in Nat, Used = 1 .. n
    PROVE  NextId = n + 1
<1>1. Cardinality(1 .. n) = IF 1 > n THEN 0 ELSE n - 1 + 1
  BY FS_Interval
<1>2. Cardinality(1 .. n) = n
  BY <1>1
<1>3. QED
  BY <1>2 DEF NextId

LEMMA Created ==
    ASSUME J!TypeOK, JournalInv, NEW id \in Ids, id = NextId, NEW plan \in Plans,
           plan.supersedes \in Recoverable \cup {NoId},
           plan.supersedes = NoId => Recoverable = {},
           J!Create(id, plan)
    PROVE  /\ J!TypeOK'
           /\ id \notin Used /\ Used' = Used \cup {id}
           /\ \A j \in Used : journal'[j] = journal[j]
           /\ journal'[id] = [ phase |-> "writing", plan |-> plan,
                                   writes |-> [n \in Names |-> "absent"],
                                   failure |-> J!NoFailure, failedFrom |-> J!NoFailure ]
           /\ \E n \in 0 .. MaxRecords : Used' = 1 .. n
           /\ \A j \in Used' : Supersedes(j)' \in Used' \cup {NoId}
           /\ Recoverable' = {id}
           /\ plan.supersedes # NoId => /\ Att(plan.supersedes) \subseteq Att(id)'
                                        /\ Unc(plan.supersedes) \subseteq Unc(id)'
<1> DEFINE prior == plan.supersedes
           r == [ phase |-> "writing", plan |-> plan,
                  writes |-> [n \in Names |-> "absent"],
                  failure |-> J!NoFailure, failedFrom |-> J!NoFailure ]
<1>1. PICK n \in 0 .. MaxRecords : Used = 1 .. n
  BY DEF JournalInv
<1>2. n \in Nat /\ MaxRecords \in Nat
  BY ConversionAssumption
<1>3. id = n + 1
  BY <1>1, <1>2, UsedCount
<1>4. r \in J!Record
  BY DEF J!Record, J!Phases, J!WriteState, J!NoFailure
<1>5. journal' = [journal EXCEPT ![id] = r] /\ journal \in [Ids -> J!Record \cup {J!NoRecord}]
  BY DEF J!Create, J!Save, J!TypeOK
<1>6. journal'[id] = r /\ \A j \in Ids \ {id} : journal'[j] = journal[j]
  BY <1>5
<1>7. J!TypeOK'
  <2>1. journal' \in [Ids -> J!Record \cup {J!NoRecord}]
    BY <1>4, <1>5
  <2>2. QED
    BY <2>1 DEF J!TypeOK
<1>8. id \notin Used
  BY <1>1, <1>2, <1>3
<1>9. Used' = Used \cup {id}
  <2>1. J!Exists(id)'
    BY <1>4, <1>6, NoRecordTyped DEF J!Exists
  <2>2. \A j \in Ids \ {id} : J!Exists(j)' <=> J!Exists(j)
    BY <1>6 DEF J!Exists
  <2>3. QED
    BY <2>1, <2>2 DEF Used
<1>10. \A j \in Used : j \in Ids /\ j # id /\ journal'[j] = journal[j]
  BY <1>6, <1>8 DEF Used
<1>11. \E m \in 0 .. MaxRecords : Used' = 1 .. m
  <2>1. n + 1 \in 0 .. MaxRecords
    BY <1>2, <1>3 DEF Ids
  <2>2. Used' = 1 .. n + 1
    BY <1>1, <1>2, <1>3, <1>9
  <2>3. QED
    BY <2>1, <2>2
<1>12. /\ \A j \in Used : Supersedes(j)' = Supersedes(j)
       /\ Supersedes(id)' = prior
  BY <1>6, <1>10 DEF Supersedes
<1>13. prior \in Used \cup {NoId} /\ NoId \notin Used /\ NoId # id
  BY Constants DEF Recoverable, Used
<1>14. \A j \in Used' : Supersedes(j)' \in Used' \cup {NoId}
  BY <1>9, <1>12, <1>13 DEF JournalInv
<1>15. Recoverable' = {id}
  <2>1. \A j \in Used : Superseded(j)' <=> Superseded(j) \/ j = prior
    BY <1>9, <1>12 DEF Superseded
  <2>2. ~Superseded(id)'
    BY <1>8, <1>9, <1>12, <1>13 DEF Superseded, JournalInv
  <2>3. \A j \in Used : J!Incomplete(j)' <=> J!Incomplete(j)
    BY <1>10 DEF J!Incomplete, J!Exists
  <2>4. J!Incomplete(id)'
    BY <1>4, <1>6, NoRecordTyped DEF J!Incomplete, J!Exists
  <2>5. \A j \in Used : j \notin Recoverable'
    <3>1. \A j \in Recoverable : j = prior
      BY <1>13 DEF JournalInv
    <3>2. QED
      BY <2>1, <2>3, <3>1 DEF Recoverable
  <2>6. id \in Recoverable'
    BY <1>9, <2>2, <2>4 DEF Recoverable
  <2>7. Recoverable' \subseteq Used'
    BY DEF Recoverable
  <2>8. QED
    BY <1>9, <2>5, <2>6, <2>7
<1>16. ASSUME prior # NoId
       PROVE  Att(prior) \subseteq Att(id)' /\ Unc(prior) \subseteq Unc(id)'
  <2>1. prior \in Used
    BY <1>13, <1>16
  <2>2. Chain(prior) \subseteq Chain(id)'
    <3>1. SUFFICES ASSUME NEW j \in Chain(prior), NEW S \in SUBSET Used',
                          id \in S, ClosedUnderSupersedes(S)'
                   PROVE  j \in S
      <4>1. Chain(prior) \subseteq Used'
        BY <1>9, <2>1, ChainBasics
      <4>2. QED
        BY <3>1, <4>1 DEF Chain
    <3>2. \A x \in S : Supersedes(x)' \in S \cup {NoId}
      BY <3>1 DEF ClosedUnderSupersedes
    <3>3. prior \in S
      BY <1>12, <1>16, <3>1, <3>2
    <3>4. \A x \in S \cap Used : Supersedes(x) \in (S \cap Used) \cup {NoId}
      BY <1>12, <3>2 DEF JournalInv
    <3>5. S \cap Used \in SUBSET Used /\ prior \in S \cap Used
      BY <2>1, <3>3
    <3>6. ClosedUnderSupersedes(S \cap Used)
      BY <3>4 DEF ClosedUnderSupersedes
    <3>7. QED
      BY <3>5, <3>6 DEF Chain
  <2>3. \A k \in Chain(prior) : journal'[k] = journal[k]
    BY <1>10, <2>1, ChainBasics
  <2>4. id \in Used'
    BY <1>9
  <2>5. ASSUME NEW s \in Att(prior)
        PROVE  s \in Att(id)'
    <3>1. s \in Subjects
      BY AttemptsTyped
    <3>2. PICK k \in Chain(prior), m \in Names : m[2] = s /\ journal[k].writes[m] # "absent"
      BY <2>1, <3>1, Attempts DEF AttemptsAre
    <3>3. QED
      BY <2>2, <2>3, <2>4, <3>1, <3>2, AttemptsNext DEF AttemptsAre
  <2>6. ASSUME NEW s \in Unc(prior)
        PROVE  s \in Unc(id)'
    <3>1. s \in Subjects
      BY AttemptsTyped
    <3>2. PICK k \in Chain(prior), m \in Names : m[2] = s /\ journal[k].writes[m] = "intent"
      BY <2>1, <3>1, Attempts DEF AttemptsAre
    <3>3. QED
      BY <2>2, <2>3, <2>4, <3>1, <3>2, AttemptsNext DEF AttemptsAre
  <2>7. QED
    BY <2>5, <2>6
<1>17. QED
  BY <1>6, <1>7, <1>8, <1>9, <1>10, <1>11, <1>14, <1>15, <1>16
---------------------------------------------------------------------------
(* The calls that move a record to another phase.  What they leave alone:  *)
(* every other record, every plan and every write.                         *)
PhaseFrame(id) ==
    /\ J!TypeOK' /\ JournalInv'
    /\ Used' = Used /\ Recoverable' \subseteq Recoverable
    /\ \A j \in Used : /\ Att(j)' = Att(j) /\ Unc(j)' = Unc(j)
                       /\ journal'[j].plan = journal[j].plan
    /\ \A j \in Used \ {id} : journal'[j] = journal[j]

LEMMA Rephased ==
    ASSUME J!TypeOK, JournalInv, UNCHANGED family,
           NEW id \in Used, NEW r \in J!Record, J!Save(id, r),
           r.plan = journal[id].plan, r.writes = journal[id].writes,
           r.phase = "failed" => r.failedFrom \in {"writing", "awaiting_cycle"},
           r.phase \notin Closed => journal[id].phase \notin Closed
    PROVE  /\ PhaseFrame(id)
           /\ journal'[id] = r
           /\ r.phase \notin Closed => Recoverable' = Recoverable
<1>1. Saved(id, r)
  BY DEF Saved
<1>2. Recoverable' \subseteq Recoverable
  BY <1>1, SavedRecoverable
<1>3. \A j \in Used : Supersedes(j)' \in Used' \cup {NoId}
  BY <1>1, SavedTyped DEF JournalInv
<1>4. \A j \in Used : journal'[j].phase = "failed" =>
                          journal'[j].failedFrom \in {"writing", "awaiting_cycle"}
  BY <1>1, SavedTyped DEF JournalInv
<1>5. \A j \in Used : journal'[j].writes = journal[j].writes /\ journal'[j].plan = journal[j].plan
  BY <1>1, SavedTyped
<1>6. \A j \in Used : \A n \in Names : journal'[j].writes[n] # "absent" => OfFamily(n[2])'
  <2>1. \A s : OfFamily(s)' <=> OfFamily(s)
    BY DEF OfFamily, Ms41
  <2>2. QED
    BY <1>5, <2>1 DEF JournalInv
<1>7. JournalInv'
  BY <1>1, <1>2, <1>3, <1>4, <1>6, SavedTyped DEF JournalInv
<1>8. PhaseFrame(id)
  BY <1>1, <1>2, <1>5, <1>7, SavedTyped, SavedPhase DEF PhaseFrame
<1>9. QED
  BY <1>1, <1>8, SavedTyped, SavedOpen

LEMMA ExistingRecord ==
    ASSUME J!TypeOK, NEW id \in Used
    PROVE  journal[id] \in J!Record /\ J!Exists(id) /\ id \in Ids
  BY DEF J!TypeOK, J!Exists, Used

LEMMA ResumeCall ==
    ASSUME J!TypeOK, JournalInv, UNCHANGED family, NEW id \in Used, J!Resume(id)
    PROVE  /\ PhaseFrame(id)
           /\ Recoverable' = Recoverable
           /\ journal'[id].phase = journal[id].failedFrom
           /\ Awaits(id) => J!InPhase(id, "awaiting_cycle")'
<1> DEFINE r == [journal[id] EXCEPT !.phase = journal[id].failedFrom,
                   !.failure = J!NoFailure, !.failedFrom = J!NoFailure]
<1>1. journal[id] \in J!Record /\ J!Exists(id) /\ id \in Ids
  BY ExistingRecord
<1>2. journal[id].phase = "failed" /\ journal[id].failedFrom \in {"writing", "awaiting_cycle"}
  BY DEF J!Resume, J!CanResume, J!InPhase, JournalInv
<1>3. r \in J!Record /\ r.phase = journal[id].failedFrom
      /\ r.plan = journal[id].plan /\ r.writes = journal[id].writes
  BY <1>1, <1>2 DEF J!Record, J!Phases, J!NoFailure
<1>4. PhaseFrame(id) /\ journal'[id] = r /\ Recoverable' = Recoverable
  BY <1>2, <1>3, Rephased DEF J!Resume, Closed
<1>5. J!Exists(id)'
  BY <1>3, <1>4, NoRecordTyped DEF J!Exists
<1>6. QED
  BY <1>2, <1>3, <1>4, <1>5 DEF Awaits, ActivePhase, J!InPhase

LEMMA FailedCall ==
    ASSUME J!TypeOK, JournalInv, UNCHANGED family, NEW id \in Used, J!MarkFailed(id, "error")
    PROVE  /\ PhaseFrame(id)
           /\ Recoverable' = Recoverable
           /\ journal'[id].phase = "failed"
           /\ Awaits(id) => Awaits(id)'
<1>1. journal[id] \in J!Record /\ J!Exists(id) /\ id \in Ids
  BY ExistingRecord
<1>2. CASE journal[id].phase = "failed"
  <2>1. J!Save(id, journal[id])
    BY <1>1, <1>2 DEF J!MarkFailed, J!Save, J!TypeOK
  <2>2. PhaseFrame(id) /\ journal'[id] = journal[id] /\ Recoverable' = Recoverable
    BY <1>1, <1>2, <2>1, Rephased DEF JournalInv, Closed
  <2>3. QED
    BY <1>2, <2>2 DEF Awaits, ActivePhase, J!Exists
<1>3. CASE journal[id].phase # "failed"
  <2> DEFINE r == [journal[id] EXCEPT !.failedFrom = journal[id].phase,
                                      !.phase = "failed", !.failure = "error"]
  <2>1. journal[id].phase \in {"writing", "awaiting_cycle"}
    BY <1>3 DEF J!MarkFailed, J!CanMarkFailed, J!InPhase
  <2>2. r \in J!Record /\ r.phase = "failed" /\ r.failedFrom = journal[id].phase
        /\ r.plan = journal[id].plan /\ r.writes = journal[id].writes
    BY <1>1, <2>1 DEF J!Record, J!Phases
  <2>3. J!Save(id, r)
    BY <1>3 DEF J!MarkFailed
  <2>4. PhaseFrame(id) /\ journal'[id] = r /\ Recoverable' = Recoverable
    BY <2>1, <2>2, <2>3, Rephased DEF Closed
  <2>5. J!Exists(id)'
    BY <2>2, <2>4, NoRecordTyped DEF J!Exists
  <2>6. QED
    BY <2>1, <2>2, <2>4, <2>5 DEF Awaits, ActivePhase
<1>4. QED
  BY <1>2, <1>3

LEMMA RestoredCall ==
    ASSUME J!TypeOK, JournalInv, UNCHANGED family, NEW id \in Used, J!MarkRestored(id)
    PROVE  PhaseFrame(id)
<1> DEFINE r == [journal[id] EXCEPT !.phase = "restored"]
<1>1. journal[id] \in J!Record
  BY ExistingRecord
<1>2. r \in J!Record /\ r.phase = "restored"
      /\ r.plan = journal[id].plan /\ r.writes = journal[id].writes
  BY <1>1 DEF J!Record, J!Phases
<1>3. QED
  BY <1>2, Rephased DEF J!MarkRestored, Closed

LEMMA VerifiedCall ==
    ASSUME J!TypeOK, JournalInv, UNCHANGED family, NEW id \in Used, J!MarkFinalVerified(id)
    PROVE  PhaseFrame(id)
<1> DEFINE r == [journal[id] EXCEPT !.phase = "verified"]
<1>1. journal[id] \in J!Record
  BY ExistingRecord
<1>2. r \in J!Record /\ r.phase = "verified"
      /\ r.plan = journal[id].plan /\ r.writes = journal[id].writes
  BY <1>1 DEF J!Record, J!Phases
<1>3. QED
  BY <1>2, Rephased DEF J!MarkFinalVerified, Closed

LEMMA AwaitingCall ==
    ASSUME J!TypeOK, JournalInv, UNCHANGED family, NEW id \in Used, J!MarkAwaitingCycle(id)
    PROVE  /\ PhaseFrame(id)
           /\ Recoverable' = Recoverable
           /\ J!InPhase(id, "awaiting_cycle")'
<1> DEFINE r == [journal[id] EXCEPT !.phase = "awaiting_cycle"]
<1>1. journal[id] \in J!Record
  BY ExistingRecord
<1>2. journal[id].phase \in {"writing", "awaiting_cycle"}
  BY DEF J!MarkAwaitingCycle, J!CanMarkAwaitingCycle, J!InPhase
<1>3. r \in J!Record /\ r.phase = "awaiting_cycle"
      /\ r.plan = journal[id].plan /\ r.writes = journal[id].writes
  BY <1>1 DEF J!Record, J!Phases
<1>4. PhaseFrame(id) /\ journal'[id] = r /\ Recoverable' = Recoverable
  BY <1>2, <1>3, Rephased DEF J!MarkAwaitingCycle, Closed
<1>5. QED
  BY <1>3, <1>4, NoRecordTyped DEF J!InPhase, J!Exists

(* Closing the records of a chain, newest first.                           *)
LEMMA CloseCall ==
    ASSUME J!TypeOK, JournalInv, UNCHANGED family,
           NEW ids, ids \subseteq Used, \E j \in ids : J!Incomplete(j), CloseNewest(ids)
    PROVE  \E id \in ids : PhaseFrame(id)
<1> DEFINE open == {j \in ids : J!Incomplete(j)}
<1>1. open \subseteq Ids /\ open # {}
  BY DEF Used
<1>2. PICK id : id = Newest(open)
  OBVIOUS
<1>3. id \in open /\ id \in Used
  BY <1>1, <1>2, GreatestId
<1>4. J!MarkRestored(id) \/ J!MarkFailed(id, "error")
  BY <1>2 DEF CloseNewest
<1>5. QED
  BY <1>3, <1>4, RestoredCall, FailedCall

(* Nothing that is read from the journal changes while it is not written.  *)
LEMMA JournalKept ==
    ASSUME UNCHANGED <<journal, family>>
    PROVE  /\ J!TypeOK' <=> J!TypeOK
           /\ JournalInv' <=> JournalInv
           /\ Used' = Used /\ Recoverable' = Recoverable /\ NextId' = NextId
           /\ \A id : Att(id)' = Att(id) /\ Unc(id)' = Unc(id)
           /\ \A id : Awaits(id)' <=> Awaits(id)
<1>1. Used' = Used /\ \A id : Supersedes(id)' = Supersedes(id)
  BY DEF Used, Supersedes, J!Exists
<1>2. \A id : Chain(id)' = Chain(id)
  BY <1>1, SameChains
<1>3. \A id, s : WritesOf(id, s)' = WritesOf(id, s)
  BY DEF WritesOf, J!Exists
<1>4. \A id : Att(id)' = Att(id) /\ Unc(id)' = Unc(id)
  BY <1>2, <1>3 DEF Att, Unc, Attempted, Uncertain
<1>5. Recoverable' = Recoverable
  BY <1>1 DEF Recoverable, Superseded, J!Incomplete, J!Exists
<1>6. JournalInv' <=> JournalInv
  BY <1>1, <1>5 DEF JournalInv, OfFamily, Ms41, Dme, Eeprom
<1>7. \A id : Awaits(id)' <=> Awaits(id)
  BY DEF Awaits, ActivePhase, J!Exists
<1>8. QED
  BY <1>1, <1>4, <1>5, <1>6, <1>7 DEF J!TypeOK, NextId
---------------------------------------------------------------------------
(* Marking the write at hand in the open record.                           *)
WriteFrame(id, n, v) ==
    /\ J!TypeOK' /\ JournalInv'
    /\ Used' = Used /\ Recoverable' = Recoverable
    /\ \A j \in Used : journal'[j].plan = journal[j].plan
    /\ journal'[id].phase = "writing"
    /\ Marked(id, n, v)

LEMMA WriteCall ==
    ASSUME J!TypeOK, JournalInv, UNCHANGED family,
           NEW id \in Used, NEW n \in Names, OfFamily(n[2]), NEW v \in {"intent", "complete"},
           journal[id].phase = "writing",
           J!Save(id, [journal[id] EXCEPT !.writes[n] = v])
    PROVE  WriteFrame(id, n, v)
<1> DEFINE r == [journal[id] EXCEPT !.writes[n] = v]
<1>1. journal[id] \in J!Record
  BY ExistingRecord
<1>2. /\ r \in J!Record /\ r.phase = "writing" /\ r.plan = journal[id].plan
  BY <1>1 DEF J!Record, J!WriteState
<1>3. Saved(id, r)
  BY <1>2 DEF Saved
<1>4. Recoverable' = Recoverable
  BY <1>2, <1>3, SavedOpen DEF Closed
<1>5. Marked(id, n, v)
  BY <1>3, SavedWrite
<1>6. \A j \in Used : Supersedes(j)' \in Used' \cup {NoId}
  BY <1>3, SavedTyped DEF JournalInv
<1>7. \A j \in Used : journal'[j].phase = "failed" =>
                          journal'[j].failedFrom \in {"writing", "awaiting_cycle"}
  BY <1>2, <1>3, SavedTyped DEF JournalInv
<1>8. \A j \in Used : \A m \in Names : journal'[j].writes[m] # "absent" => OfFamily(m[2])'
  <2>1. \A s : OfFamily(s)' <=> OfFamily(s)
    BY DEF OfFamily, Ms41
  <2>2. \A m \in Names : journal'[id].writes[m] # "absent" => OfFamily(m[2])
    BY <1>5 DEF JournalInv, Marked
  <2>3. QED
    BY <1>3, <2>1, <2>2, SavedTyped DEF JournalInv
<1>9. JournalInv'
  BY <1>3, <1>4, <1>6, <1>7, <1>8, SavedTyped DEF JournalInv
<1>10. \A j \in Used : journal'[j].plan = journal[j].plan
  BY <1>2, <1>3, SavedTyped
<1>11. journal'[id].phase = "writing"
  BY <1>2, <1>3, SavedTyped
<1>12. QED
  BY <1>3, <1>4, <1>9, <1>10, <1>11, <1>5, SavedTyped DEF WriteFrame
---------------------------------------------------------------------------
(* Assembling the invariant after a step.                                  *)

LEMMA FaultTyped ==
    ASSUME TypeOK, Fault \/ NoFault
    PROVE  faults' \in 0 .. MaxFaults
  BY ConversionAssumption DEF TypeOK, Fault, NoFault

(* A step that leaves the vehicle alone and loses no attempt.              *)
LEMMA VehicleFrame ==
    ASSUME VehicleInv, UNCHANGED <<vehicle, family, outside>>,
           Recoverable' \subseteq Recoverable,
           \A id \in Recoverable' : /\ Att(id) \subseteq Att(id)' /\ Unc(id) \subseteq Unc(id)'
                                    /\ journal'[id].plan = journal[id].plan,
           pc' \in Writing \cup {"create"} => NoForeign,
           relearn => Recoverable' # {}
    PROVE  VehicleInv'
  BY DEF VehicleInv, vehicle, NoForeign, Ms41

Busy == session \in Sessions /\ session.op \in Ids

LEMMA AtIdle ==
    ASSUME pc' = "idle", IdleInv'
    PROVE  TaskInv'
  BY DEF TaskInv, Writing, Stepping

LEMMA AtFail ==
    ASSUME pc' = "fail", Busy', AwaitingCycle' => Awaits(session.op)'
    PROVE  TaskInv'
  BY DEF TaskInv, Writing, Stepping, Busy

LEMMA AtCreate ==
    ASSUME pc' = "create", Busy', CreateInv'
    PROVE  TaskInv'
  BY DEF TaskInv, Writing, Stepping, Busy

LEMMA AtStep ==
    ASSUME pc' \in Stepping, Busy', OpenInv', StepInv', InsideModuleWrite' => ConvertInv'
    PROVE  TaskInv'
  BY DEF TaskInv, Writing, Stepping, Busy

LEMMA AtAwait ==
    ASSUME pc' = "await", Busy', OpenInv', J!AllComplete(journal[session.op])',
           InsideModuleWrite' => ConvertInv'
    PROVE  TaskInv'
  BY DEF TaskInv, Writing, Stepping, Busy

LEMMA AtRollback ==
    ASSUME pc' \in {"rollback", "rb_failed"}, Busy', OpenInv', ConvertInv', RollbackInv'
    PROVE  TaskInv'
  BY DEF TaskInv, Writing, Stepping, Busy

LEMMA AtRestored ==
    ASSUME pc' = "rb_restored", Busy', OpenInv', RollbackInv'
    PROVE  TaskInv'
  BY DEF TaskInv, Writing, Stepping, Busy

LEMMA AtVerify ==
    ASSUME pc' \in {"verify", "v_mark"}, Busy', VerifyInv'
    PROVE  TaskInv'
  BY DEF TaskInv, Writing, Stepping, Busy

LEMMA AtSettle ==
    ASSUME pc' = "settle", Busy', session'.op \in Used'
    PROVE  TaskInv'
  BY DEF TaskInv, Writing, Stepping, Busy

LEMMA AtClose ==
    ASSUME pc' = "close", Busy', Original', ~relearn', session'.phase = "recovery", session'.prior \in Used'
    PROVE  TaskInv'
  BY DEF TaskInv, Writing, Stepping, Busy

(* A failed step of the first attempt goes to the rollback of what it has  *)
(* reached, any other one to the report.                                   *)
LEMMA Aborted ==
    ASSUME NEW written \in SUBSET Owners, Abort(written), TypeOK,
           Busy', session'.phase = session.phase, session'.action = session.action,
           session'.written = written,
           session.phase \notin {"awaiting_cycle", "rollback_awaiting_cycle"},
           session'.op \in Recoverable',
           journal'[session'.op].phase = "writing",
           journal'[session'.op].plan.action = session.action,
           InsideModuleWrite => ConvertInv'
    PROVE  TaskInv' /\ pc' \in Pcs /\ todo' \subseteq Names
           /\ pc' \in Writing \cup {"fail"}
<1>1. CASE InsideModuleWrite
  <2>1. pc' = "rollback" /\ todo' = {"restore"} \X written
    BY <1>1 DEF Abort
  <2>2. InsideModuleWrite'
    BY <1>1 DEF InsideModuleWrite
  <2>3. OpenInv'
    BY <2>1 DEF OpenInv
  <2>4. todo' \subseteq {"restore"} \X Owners
    BY <2>1
  <2>5. \A o \in Owners : image'[o] # "before" => <<"restore", o>> \in todo'
    BY <1>1, <2>1 DEF ConvertInv
  <2>6. RollbackInv'
    BY <2>1, <2>2, <2>4, <2>5 DEF RollbackInv
  <2>7. TaskInv'
    BY <1>1, <2>1, <2>3, <2>6, AtRollback
  <2>8. {"restore"} \X Owners \subseteq Names
    BY Constants DEF Names, Stages
  <2>9. QED
    BY <2>1, <2>4, <2>7, <2>8 DEF Pcs, Writing
<1>2. CASE ~InsideModuleWrite
  <2>1. pc' = "fail" /\ todo' = todo
    BY <1>2 DEF Abort
  <2>2. TaskInv'
    BY <2>1, AtFail DEF AwaitingCycle
  <2>3. QED
    BY <2>1, <2>2 DEF Pcs, TypeOK
<1>3. QED
  BY <1>1, <1>2
---------------------------------------------------------------------------
(* The steps, one lemma for each action.                                   *)

LEMMA FirstNext == First(todo)' = First(todo')
  BY DEF First, Rank

(* Where a task writes: its record, the write at hand, and what the        *)
(* invariant says of them.                                                 *)
LEMMA AtWork ==
    ASSUME IInv, pc \in Writing
    PROVE  /\ TypeOK /\ J!TypeOK /\ JournalInv /\ VehicleInv /\ NoForeign
           /\ session \in Sessions /\ session.op \in Used /\ session.op \in Ids
           /\ OpenInv /\ (InsideModuleWrite => ConvertInv)
           /\ journal[session.op].phase = "writing"
           /\ pc \in Stepping => /\ StepInv /\ First(todo) \in todo /\ First(todo) \in Names
                                 /\ OfFamily(First(todo)[2])
<1>1. TypeOK /\ J!TypeOK /\ JournalInv /\ VehicleInv /\ NoForeign
  BY DEF IInv, TypeOK, VehicleInv
<1>2. session \in Sessions /\ session.op \in Ids /\ OpenInv /\ (InsideModuleWrite => ConvertInv)
  BY DEF IInv, TaskInv, Writing, Stepping
<1>3. session.op \in Used /\ journal[session.op].phase = "writing"
  BY <1>2 DEF OpenInv, Recoverable, Writing, Stepping
<1>4. ASSUME pc \in Stepping
      PROVE  StepInv /\ First(todo) \in todo /\ First(todo) \in Names /\ OfFamily(First(todo)[2])
  <2>1. StepInv
    BY <1>4 DEF IInv, TaskInv
  <2>2. todo \subseteq Names /\ todo # {}
    BY <1>1, <2>1 DEF TypeOK, StepInv
  <2>3. First(todo) \in todo
    BY <2>2, FirstIsOne
  <2>4. QED
    BY <2>1, <2>2, <2>3 DEF StepInv
<1>5. QED
  BY <1>1, <1>2, <1>3, <1>4

(* A journal call that raises: nothing has changed when the task fails.    *)
LEMMA AbortKeeps ==
    ASSUME IInv, pc \in Writing, UNCHANGED <<vehicle, journal, session, family, outside>>,
           Fault \/ NoFault, Abort(session.written)
    PROVE  IInv'
<1>1. TypeOK /\ VehicleInv /\ NoForeign /\ session \in Sessions
  BY AtWork
<1>2. /\ Recoverable' = Recoverable /\ JournalInv' /\ J!TypeOK'
      /\ \A id : Att(id)' = Att(id) /\ Unc(id)' = Unc(id)
  BY AtWork, JournalKept
<1>3. session.written \in SUBSET Owners
  BY <1>1 DEF Sessions
<1>4. InsideModuleWrite => ConvertInv'
  BY AtWork DEF ConvertInv, vehicle
<1>5. /\ Busy' /\ session'.op \in Recoverable'
      /\ journal'[session'.op].phase = "writing"
      /\ journal'[session'.op].plan.action = session.action
      /\ session.phase \notin {"awaiting_cycle", "rollback_awaiting_cycle"}
  BY <1>2, AtWork DEF Busy, OpenInv
<1>6. TaskInv' /\ pc' \in Pcs /\ todo' \subseteq Names
  BY <1>1, <1>3, <1>4, <1>5, Aborted
<1>7. TypeOK'
  BY <1>1, <1>2, <1>6, FaultTyped DEF TypeOK, vehicle
<1>8. VehicleInv'
  <2>1. Recoverable # {}
    BY AtWork DEF OpenInv
  <2>2. QED
    BY <1>1, <1>2, <2>1, VehicleFrame
<1>9. QED
  BY <1>2, <1>6, <1>7, <1>8 DEF IInv

LEMMA MarkIntentKeeps ==
    ASSUME IInv, MarkIntent
    PROVE  IInv'
<1>1. pc = "intent" /\ pc \in Stepping /\ pc \in Writing
  BY DEF MarkIntent, Stepping, Writing
<1>2. PICK id \in Ids, n \in Names : id = session.op /\ n = First(todo)
  BY <1>1, AtWork
<1>3. id \in Used /\ id \in Recoverable /\ OfFamily(n[2]) /\ n \in todo
  BY <1>1, <1>2, AtWork DEF OpenInv
<1>4. UNCHANGED <<vehicle, session, family, outside>>
  BY DEF MarkIntent
<1>5. CASE J!MarkWriteIntent(id, n) /\ pc' = "device" /\ UNCHANGED todo /\ NoFault
  <2>1. WriteFrame(id, n, "intent")
    BY <1>1, <1>2, <1>3, <1>4, <1>5, AtWork, WriteCall DEF J!MarkWriteIntent
  <2>2. TypeOK'
    BY <1>4, <1>5, <2>1, FaultTyped DEF IInv, TypeOK, WriteFrame, Pcs, vehicle
  <2>3. OpenInv'
    BY <1>1, <1>2, <1>3, <1>4, <1>5, <2>1, AtWork DEF OpenInv, WriteFrame
  <2>4. First(todo)' = n
    BY <1>2, <1>5, FirstNext
  <2>5. StepInv'
    BY <1>1, <1>2, <1>3, <1>4, <1>5, <2>1, <2>4, AtWork
       DEF StepInv, WriteFrame, Marked, Subject, OfFamily, Ms41
  <2>6. TaskInv'
    BY <1>1, <1>4, <1>5, <2>3, <2>5, AtWork, AtStep
       DEF Busy, Stepping, InsideModuleWrite, ConvertInv, vehicle
  <2>7. VehicleInv'
    BY <1>1, <1>3, <1>4, <2>1, AtWork, VehicleFrame DEF WriteFrame, Marked, Recoverable, VehicleInv
  <2>8. QED
    BY <2>1, <2>2, <2>6, <2>7 DEF IInv, WriteFrame
<1>6. CASE Raises(J!CanMarkWriteIntent(id, n)) /\ Abort(session.written)
  BY <1>1, <1>4, <1>6, AbortKeeps DEF Raises
<1>7. QED
  BY <1>2, <1>5, <1>6 DEF MarkIntent

(* While the device is written, its subject is on record as uncertain.     *)
LEMMA AtDevice ==
    ASSUME IInv, pc = "device"
    PROVE  /\ \A id \in Recoverable : id = session.op
           /\ Subject \in Att(session.op) /\ Subject \in Unc(session.op)
           /\ Subject \in Subjects
           /\ session.action = "convert" => Stage = "write"
<1>1. pc \in Stepping /\ pc \in Writing
  BY DEF Stepping, Writing
<1>2. \A id \in Recoverable : id = session.op
  BY <1>1, AtWork DEF OpenInv, JournalInv
<1>3. First(todo) \in Names /\ Subject = First(todo)[2] /\ Subject \in Subjects
  BY <1>1, AtWork, NamesTyped DEF Subject
<1>4. journal[session.op].writes[First(todo)] = "intent"
  BY <1>1, AtWork DEF StepInv
<1>5. session.op \in Chain(session.op) /\ session.op \in Used
  BY <1>1, AtWork, ChainBasics
<1>6. session.action = "convert" => Stage = "write"
  BY <1>1, AtWork DEF StepInv, Stage
<1>7. QED
  BY <1>2, <1>3, <1>4, <1>5, <1>6, Attempts DEF AttemptsAre

(* Whatever a write leaves on its owner, recovery knows of it.             *)
LEMMA OwnerWritten ==
    ASSUME IInv, pc = "device", Subject \in Owners,
           NEW v \in {"before", "target", "torn"},
           image' = [image EXCEPT ![Subject] = v],
           UNCHANGED <<eeprom, mode, relearn, journal, family, outside>>
    PROVE  VehicleInv' /\ image' \in [Owners -> Image]
<1>1. pc \in Stepping /\ pc \in Writing
  BY DEF Stepping, Writing
<1>2. TypeOK /\ VehicleInv /\ NoForeign
  BY <1>1, AtWork
<1>3. /\ image' \in [Owners -> Image]
      /\ \A o \in Owners : image'[o] = IF o = Subject THEN v ELSE image[o]
  BY <1>2 DEF TypeOK, Image
<1>4. NoForeign'
  BY <1>2, <1>3 DEF NoForeign
<1>5. /\ Recoverable' = Recoverable
      /\ \A id : Att(id)' = Att(id) /\ Unc(id)' = Unc(id)
  BY JournalKept
<1>6. QED
  BY <1>2, <1>3, <1>4, <1>5, AtDevice DEF VehicleInv, Ms41

LEMMA WriteOwnerKeeps ==
    ASSUME IInv, WriteOwner
    PROVE  IInv'
<1> DEFINE written == IF Stage = "restore" THEN session.written
                      ELSE session.written \cup {Subject}
<1>1. /\ pc = "device" /\ pc \in Stepping /\ pc \in Writing
      /\ Subject \in Owners
      /\ session' = [session EXCEPT !.written = written]
      /\ UNCHANGED <<eeprom, mode, relearn, journal, family, outside>>
  BY DEF WriteOwner, Stepping, Writing
<1>2. TypeOK /\ NoForeign /\ session \in Sessions
  BY <1>1, AtWork
<1>3. /\ written \in SUBSET Owners
      /\ session' \in Sessions /\ session'.op = session.op /\ session'.phase = session.phase
      /\ session'.action = session.action /\ session'.written = written
      /\ session'.reset = session.reset
  BY <1>1, <1>2 DEF Sessions
<1>4. session.action = "convert" => Subject \in written
  BY <1>1, AtDevice
<1>5. /\ JournalInv' /\ J!TypeOK' /\ Recoverable' = Recoverable
  BY <1>1, AtWork, JournalKept
<1>6. ASSUME NEW v \in {"before", "target", "torn"}, image' = [image EXCEPT ![Subject] = v]
      PROVE  /\ VehicleInv' /\ image' \in [Owners -> Image]
             /\ InsideModuleWrite => ConvertInv'
  <2>1. VehicleInv' /\ image' \in [Owners -> Image]
    BY <1>1, <1>6, OwnerWritten
  <2>2. InsideModuleWrite => ConvertInv'
    BY <1>1, <1>2, <1>3, <1>4, <1>6, AtWork DEF ConvertInv, InsideModuleWrite, TypeOK
  <2>3. QED
    BY <2>1, <2>2
<1>7. ASSUME image' = image \/ \E v \in {"before", "target", "torn"} :
                                  image' = [image EXCEPT ![Subject] = v]
      PROVE  /\ VehicleInv' /\ image' \in [Owners -> Image]
             /\ InsideModuleWrite => ConvertInv'
  <2>1. CASE image' = image
    <3>1. image[Subject] \in {"before", "target", "torn"} /\ image' = [image EXCEPT ![Subject] = image[Subject]]
      BY <1>1, <1>2, <2>1 DEF TypeOK, Image, NoForeign
    <3>2. QED
      BY <1>6, <3>1
  <2>2. QED
    BY <1>6, <1>7, <2>1
<1>8. CASE /\ image' = [image EXCEPT ![Subject] = Wanted]
           /\ pc' = "complete" /\ UNCHANGED todo /\ NoFault
  <2>1. Wanted \in {"before", "target"}
    BY DEF Wanted
  <2>2. /\ VehicleInv' /\ image' \in [Owners -> Image]
        /\ InsideModuleWrite => ConvertInv'
    BY <1>7, <1>8, <2>1
  <2>3. TypeOK'
    BY <1>1, <1>2, <1>3, <1>5, <1>8, <2>2, FaultTyped DEF TypeOK, Pcs
  <2>4. First(todo)' = First(todo) /\ Subject' = Subject
    BY <1>8, FirstNext DEF Subject
  <2>5. image'[Subject] # "torn" /\ Subject # Eeprom
    BY <1>1, <1>2, <1>8, <2>1, Constants DEF TypeOK
  <2>6. StepInv'
    BY <1>1, <1>3, <1>8, <2>4, <2>5, AtWork DEF StepInv, OfFamily, Ms41
  <2>7. OpenInv'
    BY <1>1, <1>3, <1>5, <1>8, AtWork DEF OpenInv
  <2>8. TaskInv'
    BY <1>1, <1>2, <1>3, <1>8, <2>2, <2>6, <2>7, AtWork, AtStep DEF Busy, Stepping, InsideModuleWrite
  <2>9. QED
    BY <1>5, <2>2, <2>3, <2>8 DEF IInv
<1>9. CASE /\ image' = image \/ \E v \in {"before", "target", "torn"} :
                                  image' = [image EXCEPT ![Subject] = v]
           /\ Abort(written) /\ (Fault \/ NoFault)
  <2>0. /\ Busy' /\ session'.op \in Recoverable'
        /\ journal'[session'.op].phase = "writing"
        /\ journal'[session'.op].plan.action = session.action
        /\ session.phase \notin {"awaiting_cycle", "rollback_awaiting_cycle"}
        /\ InsideModuleWrite => ConvertInv'
    BY <1>1, <1>3, <1>5, <1>7, <1>9, AtWork DEF Busy, OpenInv
  <2>1. TaskInv' /\ pc' \in Pcs /\ todo' \subseteq Names
    <3> HIDE DEF written
    <3>1. QED
      BY <1>2, <1>3, <1>9, <2>0, Aborted
  <2>2. TypeOK'
    BY <1>1, <1>2, <1>3, <1>5, <1>7, <1>9, <2>1, FaultTyped DEF TypeOK
  <2>3. QED
    BY <1>5, <1>7, <1>9, <2>1, <2>2 DEF IInv
<1>10. ASSUME NEW v \in Interrupted(image[Subject], Wanted)
       PROVE  v \in {"before", "target", "torn"}
  BY <1>1, <1>2 DEF Interrupted, Wanted, NoForeign, TypeOK, Image
<1>11. QED
  BY <1>8, <1>9, <1>10 DEF WriteOwner

LEMMA ResetDmeKeeps ==
    ASSUME IInv, ResetDme
    PROVE  IInv'
<1>1. /\ pc = "device" /\ pc \in Stepping /\ pc \in Writing
      /\ Subject = Dme
      /\ session' = [session EXCEPT !.reset = TRUE]
      /\ mode' \in Modes /\ relearn' \in {relearn, TRUE}
      /\ UNCHANGED <<image, eeprom, journal, family, outside>>
  BY DEF ResetDme, Stepping, Writing
<1>2. TypeOK /\ VehicleInv /\ NoForeign /\ session \in Sessions
  BY <1>1, AtWork
<1>3. /\ session' \in Sessions /\ session'.op = session.op /\ session'.phase = session.phase
      /\ session'.action = session.action /\ session'.written = session.written
      /\ session'.reset = TRUE /\ session.written \in SUBSET Owners
  BY <1>1, <1>2 DEF Sessions
<1>4. /\ JournalInv' /\ J!TypeOK' /\ Recoverable' = Recoverable
      /\ \A id : Att(id)' = Att(id) /\ Unc(id)' = Unc(id)
  BY <1>1, AtWork, JournalKept
<1>5. VehicleInv'
  <2>1. NoForeign'
    BY <1>1, <1>2 DEF NoForeign
  <2>2. \A id \in Recoverable : Dme \in Att(id)
    BY <1>1, AtDevice
  <2>3. Recoverable # {}
    BY <1>1, AtWork DEF OpenInv
  <2>4. QED
    BY <1>1, <1>2, <1>4, <2>1, <2>2, <2>3 DEF VehicleInv, Ms41
<1>6. InsideModuleWrite => ConvertInv'
  BY <1>1, <1>3, AtWork DEF ConvertInv
<1>7. relearn' \in BOOLEAN
  BY <1>1, <1>2 DEF TypeOK
<1>8. CASE pc' = "complete" /\ UNCHANGED todo /\ NoFault
  <2>1. TypeOK'
    BY <1>1, <1>2, <1>3, <1>4, <1>7, <1>8, FaultTyped DEF TypeOK, Pcs
  <2>2. First(todo)' = First(todo) /\ Subject' = Subject
    BY <1>8, FirstNext DEF Subject
  <2>3. Subject \notin Owners /\ Subject # Eeprom
    BY <1>1, Constants
  <2>4. StepInv'
    BY <1>1, <1>3, <1>8, <2>2, <2>3, AtWork DEF StepInv, OfFamily, Ms41
  <2>5. OpenInv'
    BY <1>1, <1>3, <1>4, <1>8, AtWork DEF OpenInv
  <2>6. TaskInv'
    BY <1>1, <1>2, <1>3, <1>6, <1>8, <2>4, <2>5, AtWork, AtStep DEF Busy, Stepping, InsideModuleWrite
  <2>7. QED
    BY <1>4, <1>5, <2>1, <2>6 DEF IInv
<1>9. CASE Fault /\ Abort(session.written)
  <2>1. /\ Busy' /\ session'.op \in Recoverable'
        /\ journal'[session'.op].phase = "writing"
        /\ journal'[session'.op].plan.action = session.action
        /\ session.phase \notin {"awaiting_cycle", "rollback_awaiting_cycle"}
    BY <1>1, <1>3, <1>4, AtWork DEF Busy, OpenInv
  <2>2. TaskInv' /\ pc' \in Pcs /\ todo' \subseteq Names
    BY <1>2, <1>3, <1>6, <1>9, <2>1, Aborted
  <2>3. TypeOK'
    BY <1>1, <1>2, <1>3, <1>4, <1>7, <1>9, <2>2, FaultTyped DEF TypeOK
  <2>4. QED
    BY <1>4, <1>5, <2>2, <2>3 DEF IInv
<1>10. QED
  BY <1>8, <1>9 DEF ResetDme

LEMMA WriteEepromKeeps ==
    ASSUME IInv, WriteEeprom
    PROVE  IInv'
<1>1. /\ pc = "device" /\ pc \in Stepping /\ pc \in Writing
      /\ Subject = Eeprom
      /\ UNCHANGED <<image, mode, relearn, journal, session, todo, family, outside>>
  BY DEF WriteEeprom, Stepping, Writing
<1>2. TypeOK /\ VehicleInv /\ NoForeign /\ session \in Sessions /\ Busy
  BY <1>1, AtWork DEF Busy
<1>3. /\ JournalInv' /\ J!TypeOK' /\ Recoverable' = Recoverable
      /\ \A id : Att(id)' = Att(id) /\ Unc(id)' = Unc(id)
  BY <1>1, AtWork, JournalKept
<1>4. Ms41 /\ ~InsideModuleWrite
  BY <1>1, AtWork DEF OfFamily, Subject, StepInv, InsideModuleWrite
<1>5. /\ eeprom' \in {"before", "target", "torn"} /\ (Fault \/ NoFault)
      /\ \/ pc' = "complete" /\ eeprom' # "torn"
         \/ pc' = "fail"
  BY <1>2 DEF WriteEeprom, Interrupted, Wanted, NoForeign, TypeOK, Image
<1>6. VehicleInv'
  <2>1. NoForeign'
    BY <1>1, <1>2, <1>5 DEF NoForeign
  <2>2. \A id \in Recoverable : Eeprom \in Att(id) /\ Eeprom \in Unc(id)
    BY <1>1, AtDevice
  <2>3. QED
    BY <1>1, <1>2, <1>3, <1>4, <1>5, <2>1, <2>2 DEF VehicleInv, Ms41
<1>7. TypeOK'
  BY <1>1, <1>2, <1>3, <1>5, FaultTyped DEF TypeOK, Pcs, Image
<1>8. TaskInv'
  <2>1. CASE pc' = "complete" /\ eeprom' # "torn"
    <3>1. First(todo)' = First(todo) /\ Subject' = Subject /\ Subject \notin Owners
      BY <1>1, FirstNext, Constants DEF Subject
    <3>2. StepInv'
      BY <1>1, <2>1, <3>1, AtWork DEF StepInv, OfFamily, Ms41
    <3>3. OpenInv'
      BY <1>1, <1>3, <2>1, AtWork DEF OpenInv
    <3>4. QED
      BY <1>1, <1>2, <1>4, <2>1, <3>2, <3>3, AtStep DEF Busy, Stepping, InsideModuleWrite
  <2>2. CASE pc' = "fail"
    BY <1>1, <1>2, <2>2, AtWork, AtFail DEF Busy, OpenInv, AwaitingCycle
  <2>3. QED
    BY <1>5, <2>1, <2>2
<1>9. QED
  BY <1>3, <1>6, <1>7, <1>8 DEF IInv

(* Nothing of the session but its phase follows from what is still to do.  *)
LEMMA Continued ==
    ASSUME TypeOK, NEW names, names \subseteq Names, Continue(names), session \in Sessions
    PROVE  /\ session' \in Sessions /\ session'.op = session.op
           /\ session'.action = session.action /\ session'.prior = session.prior
           /\ session'.written = session.written
           /\ session'.reset = session.reset /\ session'.dirty = session.dirty
           /\ \/ session'.phase = session.phase
              \/ session'.phase \in {"modules_written", "rollback_modules_written"}
           /\ names # {} /\ First(names)[2] = Eeprom => session'.phase # "prepared"
<1>1. session' = [session EXCEPT !.phase = PhaseBefore(names)]
  BY DEF Continue
<1>2. /\ PhaseBefore(names) \in {session.phase, "modules_written", "rollback_modules_written"}
      /\ names # {} /\ First(names)[2] = Eeprom => PhaseBefore(names) # "prepared"
  BY DEF PhaseBefore
<1>3. QED
  BY <1>1, <1>2 DEF Sessions, SessionPhases

LEMMA MarkCompleteKeeps ==
    ASSUME IInv, MarkComplete
    PROVE  IInv'
<1>1. pc = "complete" /\ pc \in Stepping /\ pc \in Writing
  BY DEF MarkComplete, Stepping, Writing
<1>2. PICK id \in Ids, n \in Names : id = session.op /\ n = First(todo)
  BY <1>1, AtWork
<1>3. id \in Used /\ id \in Recoverable /\ OfFamily(n[2]) /\ n \in todo
  BY <1>1, <1>2, AtWork DEF OpenInv
<1>4. UNCHANGED <<vehicle, family, outside>> /\ TypeOK /\ session \in Sessions
  BY <1>1, AtWork DEF MarkComplete
<1>5. CASE J!MarkWriteComplete(id, n) /\ Continue(todo \ {n}) /\ NoFault
  <2> DEFINE rest == todo \ {n}
  <2>1. WriteFrame(id, n, "complete")
    BY <1>1, <1>2, <1>3, <1>4, <1>5, AtWork, WriteCall DEF J!MarkWriteComplete
  <2>2. rest \subseteq Names
    BY <1>4 DEF TypeOK
  <2>3. /\ session' \in Sessions /\ session'.op = id
        /\ session'.action = session.action /\ session'.written = session.written
        /\ session'.reset = session.reset
        /\ \/ session'.phase = session.phase
           \/ session'.phase \in {"modules_written", "rollback_modules_written"}
        /\ rest # {} /\ First(rest)[2] = Eeprom => session'.phase # "prepared"
    BY <1>2, <1>4, <1>5, <2>2, Continued
  <2>4. todo' = rest /\ pc' = IF rest = {} THEN "await" ELSE "intent"
    BY <1>5 DEF Continue
  <2>5. TypeOK'
    BY <1>4, <1>5, <2>1, <2>2, <2>3, <2>4, FaultTyped DEF TypeOK, WriteFrame, Pcs, vehicle
  <2>6. OpenInv'
    BY <1>1, <1>2, <1>3, <2>1, <2>3, <2>4, AtWork DEF OpenInv, WriteFrame
  <2>7. InsideModuleWrite' => ConvertInv'
    BY <1>1, <1>4, <2>3, AtWork DEF InsideModuleWrite, ConvertInv, vehicle
  <2>8. TaskInv'
    <3>1. CASE rest = {}
      <4>1. J!AllComplete(journal[id])'
        BY <1>1, <1>2, <2>1, <3>1, AtWork DEF J!AllComplete, StepInv, WriteFrame, Marked
      <4>2. QED
        BY <2>3, <2>4, <2>6, <2>7, <3>1, <4>1, AtAwait DEF Busy
    <3>2. CASE rest # {}
      <4>1. First(rest) \in rest
        BY <2>2, <3>2, FirstIsOne
      <4>2. First(todo)' = First(rest) /\ Subject' = First(rest)[2]
        BY <2>4, FirstNext DEF Subject
      <4>3. StepInv'
        <5>1. /\ \A m \in todo' : OfFamily(m[2])'
              /\ session'.action = "convert" => \A m \in todo' : m[1] = "write"
          BY <1>1, <1>4, <2>3, <2>4, AtWork DEF StepInv, OfFamily, Ms41
        <5>2. \A m \in Names : /\ m \in rest => journal'[id].writes[m] = "absent"
                               /\ m \notin rest => journal'[id].writes[m] # "intent"
          BY <1>1, <1>2, <2>1, AtWork DEF StepInv, WriteFrame, Marked
        <5>3. QED
          BY <2>2, <2>3, <2>4, <3>2, <4>1, <4>2, <5>1, <5>2 DEF StepInv
      <4>4. QED
        BY <2>3, <2>4, <2>6, <2>7, <3>2, <4>3, AtStep DEF Busy, Stepping
    <3>3. QED
      BY <3>1, <3>2
  <2>9. VehicleInv'
    <3>1. VehicleInv /\ NoForeign
      BY <1>1, AtWork
    <3>2. NoForeign'
      BY <1>4, <3>1 DEF NoForeign, vehicle
    <3>3. \A j \in Recoverable : j = id /\ j \in Used
      BY <1>3 DEF IInv, JournalInv
    <3>4. n[2] = Subject
      BY <1>2 DEF Subject
    <3>5. /\ n[2] \in Owners => image[n[2]] # "torn"
          /\ n[2] = Eeprom => eeprom # "torn"
      BY <1>1, <3>4, AtWork DEF StepInv
    <3>6. /\ Recoverable' = Recoverable
          /\ \A j \in Recoverable : /\ Att(j) \subseteq Att(j)' /\ Unc(j) \ {n[2]} \subseteq Unc(j)'
                                    /\ journal'[j].plan = journal[j].plan
      BY <2>1, <3>3 DEF WriteFrame, Marked
    <3>7. QED
      BY <1>4, <3>1, <3>2, <3>5, <3>6 DEF VehicleInv, vehicle, Ms41
  <2>10. QED
    BY <2>1, <2>5, <2>8, <2>9 DEF IInv, WriteFrame
<1>6. CASE /\ Raises(J!CanMarkWriteComplete(id, n)) /\ Abort(session.written)
           /\ UNCHANGED session
  BY <1>1, <1>4, <1>6, AbortKeeps DEF Raises
<1>7. QED
  BY <1>2, <1>5, <1>6 DEF MarkComplete

LEMMA MarkAwaitingKeeps ==
    ASSUME IInv, MarkAwaiting
    PROVE  IInv'
<1>1. pc = "await" /\ pc \in Writing
  BY DEF MarkAwaiting, Writing
<1>2. PICK id \in Ids : id = session.op
  BY <1>1, AtWork
<1>3. id \in Used /\ id \in Recoverable
  BY <1>1, <1>2, AtWork DEF OpenInv
<1>4. UNCHANGED <<vehicle, family, outside>> /\ TypeOK /\ session \in Sessions
  BY <1>1, AtWork DEF MarkAwaiting
<1>5. CASE /\ J!MarkAwaitingCycle(id)
           /\ session' = [session EXCEPT !.phase =
                IF session.action = "original" THEN "rollback_awaiting_cycle"
                                               ELSE "awaiting_cycle"]
           /\ pc' = "idle" /\ UNCHANGED todo /\ NoFault
  <2>1. PhaseFrame(id) /\ Recoverable' = Recoverable /\ J!InPhase(id, "awaiting_cycle")'
    BY <1>1, <1>3, <1>4, <1>5, AtWork, AwaitingCall
  <2>2. session' \in Sessions /\ session'.op = id /\ AwaitingCycle'
    BY <1>2, <1>4, <1>5 DEF Sessions, SessionPhases, AwaitingCycle
  <2>3. TypeOK'
    BY <1>4, <1>5, <2>1, <2>2, FaultTyped DEF TypeOK, PhaseFrame, Pcs, vehicle
  <2>4. Awaits(id)'
    BY <2>1 DEF Awaits, ActivePhase, J!InPhase
  <2>5. TaskInv'
    BY <1>5, <2>2, <2>4, AtIdle DEF IdleInv
  <2>6. VehicleInv'
    BY <1>1, <1>3, <1>4, <1>5, <2>1, AtWork, VehicleFrame
       DEF PhaseFrame, Recoverable, VehicleInv, Writing, Stepping
  <2>7. QED
    BY <2>1, <2>3, <2>5, <2>6 DEF IInv, PhaseFrame
<1>6. CASE /\ Raises(J!CanMarkAwaitingCycle(id)) /\ Abort(session.written)
           /\ UNCHANGED session
  BY <1>1, <1>4, <1>6, AbortKeeps DEF Raises
<1>7. QED
  BY <1>2, <1>5, <1>6 DEF MarkAwaiting

(* The writes of a task: names of the journal, for this family only.       *)
LEMMA AttemptsOfFamily ==
    ASSUME JournalInv, NEW id \in Used, NEW s \in Att(id)
    PROVE  s \in Subjects /\ OfFamily(s)
<1>1. s \in Subjects
  BY AttemptsTyped
<1>2. PICK k \in Chain(id), m \in Names : m[2] = s /\ journal[k].writes[m] # "absent"
  BY <1>1, Attempts DEF AttemptsAre
<1>3. k \in Used
  BY ChainBasics
<1>4. QED
  BY <1>1, <1>2, <1>3 DEF JournalInv

TaskWrites(names) ==
    /\ names # {} /\ names \subseteq Names
    /\ \A n \in names : OfFamily(n[2])

LEMMA ConvertWritesTyped ==
    TaskWrites(ConvertWrites) /\ \A n \in ConvertWrites : n[1] = "write"
<1> DEFINE last == IF Ms41 THEN Eeprom ELSE Dme
<1>1. last \in Subjects /\ OfFamily(last) /\ \A o \in Owners : o \in Subjects /\ OfFamily(o)
  BY Constants DEF OfFamily
<1>2. ConvertWrites = {"write"} \X (Owners \cup {last})
  BY DEF ConvertWrites
<1>3. <<"write", last>> \in ConvertWrites
  BY <1>2
<1>4. ConvertWrites \subseteq Names
  BY <1>1, <1>2 DEF Names, Stages
<1>5. \A n \in ConvertWrites : n[1] = "write" /\ n[2] \in Owners \cup {last}
  BY <1>2
<1>6. QED
  BY <1>1, <1>3, <1>4, <1>5 DEF TaskWrites

LEMMA RecoveryWritesTyped ==
    ASSUME JournalInv, session.prior \in Used, session.action \in {"target", "original"},
           session.action = "original" => Att(session.prior) # {}
    PROVE  TaskWrites(RecoveryWrites)
<1> DEFINE att == Att(session.prior)
           restores == {"restore"} \X (att \cap Owners)
<1>1. \A s \in att : s \in Subjects /\ OfFamily(s)
  BY AttemptsOfFamily
<1>2. \A o \in Owners : o \in Subjects /\ OfFamily(o)
  BY Constants DEF OfFamily
<1>3. restores \subseteq Names /\ \A n \in restores : OfFamily(n[2])
  BY <1>2 DEF Names, Stages
<1>4. CASE session.action = "target"
  <2> DEFINE last == IF Ms41 THEN <<"write", Eeprom>> ELSE <<"target", Dme>>
             targets == {"target"} \X Owners
  <2>1. RecoveryWrites = restores \cup targets \cup {last}
    BY <1>4 DEF RecoveryWrites, Att
  <2>2. targets \subseteq Names /\ \A n \in targets : OfFamily(n[2])
    BY <1>2 DEF Names, Stages
  <2>3. last \in Names /\ OfFamily(last[2])
    BY Constants DEF Names, Stages, OfFamily
  <2>4. QED
    BY <1>3, <2>1, <2>2, <2>3 DEF TaskWrites
<1>5. CASE session.action = "original"
  <2> DEFINE computer == IF Ms41 THEN att \cap {Eeprom} ELSE {Dme}
             last == {"restore"} \X computer
  <2>1. RecoveryWrites = restores \cup last
    BY <1>5 DEF RecoveryWrites, Att
  <2>2. computer \subseteq Subjects /\ \A s \in computer : OfFamily(s)
    BY Constants DEF OfFamily
  <2>3. last \subseteq Names /\ \A n \in last : OfFamily(n[2])
    BY <2>2 DEF Names, Stages
  <2>4. restores \cup last # {}
    <3>1. PICK s \in att : s \in Subjects /\ OfFamily(s)
      BY <1>1, <1>5
    <3>2. s \in Owners \/ s = Eeprom \/ s = Dme
      BY <3>1 DEF Subjects
    <3>3. \/ s \in Owners /\ <<"restore", s>> \in restores
          \/ <<"restore", Eeprom>> \in last
          \/ <<"restore", Dme>> \in last
      BY <3>1, <3>2 DEF OfFamily
    <3>4. QED
      BY <3>3
  <2>5. QED
    BY <1>3, <2>1, <2>3, <2>4 DEF TaskWrites
<1>6. QED
  BY <1>4, <1>5

(* The new record's plan is sound, and it becomes the one open record.     *)
CreateFrame(id, plan) ==
    /\ plan.supersedes = session.prior /\ plan.action = session.action
    /\ J!TypeOK'
    /\ id \notin Used /\ Used' = Used \cup {id}
    /\ \A j \in Used : journal'[j] = journal[j]
    /\ journal'[id] = [ phase |-> "writing", plan |-> plan,
                        writes |-> [n \in Names |-> "absent"],
                        failure |-> J!NoFailure, failedFrom |-> J!NoFailure ]
    /\ \E n \in 0 .. MaxRecords : Used' = 1 .. n
    /\ \A j \in Used' : Supersedes(j)' \in Used' \cup {NoId}
    /\ Recoverable' = {id}
    /\ session.prior # NoId => /\ Att(session.prior) \subseteq Att(id)'
                               /\ Unc(session.prior) \subseteq Unc(id)'

LEMMA CreateCall ==
    ASSUME J!TypeOK, JournalInv, CreateInv, session \in Sessions,
           NEW id \in Ids, id = session.op, NEW plan,
           plan = [ token |-> IF session.action = "convert" THEN session.op
                              ELSE journal[session.prior].plan.token,
                    action |-> session.action,
                    supersedes |-> session.prior ],
           J!Create(id, plan)
    PROVE  CreateFrame(id, plan)
<1>1. session.action \in {"convert", "target", "original"}
  BY DEF Sessions, Actions
<1>2. session.action # "convert" => session.prior \in Recoverable /\ session.prior \in Used
  BY DEF CreateInv, Recoverable
<1>3. plan \in Plans
  <2>1. session.prior \in Ids \cup {NoId}
    BY DEF Sessions
  <2>2. session.action # "convert" => journal[session.prior].plan.token \in Ids
    BY <1>2, ExistingRecord DEF J!Record, Plans
  <2>3. QED
    BY <1>1, <2>1, <2>2 DEF Plans, Actions
<1>4. /\ plan.supersedes = session.prior /\ plan.action = session.action
      /\ plan.supersedes \in Recoverable \cup {NoId}
      /\ plan.supersedes = NoId => Recoverable = {}
      /\ id = NextId
  <2>1. NoId \notin Recoverable
    BY Constants DEF Recoverable, Used
  <2>2. QED
    BY <1>1, <2>1 DEF CreateInv
<1>5. QED
  BY <1>3, <1>4, Created DEF CreateFrame

LEMMA CreateRecordKeeps ==
    ASSUME IInv, CreateRecord
    PROVE  IInv'
<1>1. /\ pc = "create" /\ TypeOK /\ J!TypeOK /\ JournalInv /\ VehicleInv /\ NoForeign
      /\ CreateInv /\ session \in Sessions /\ session.op \in Ids
      /\ UNCHANGED <<vehicle, family, outside>>
  BY DEF CreateRecord, IInv, TaskInv, TypeOK, VehicleInv
<1>2. PICK id \in Ids : id = session.op
  BY <1>1
<1>3. session.action \in {"convert", "target", "original"}
  BY <1>1 DEF Sessions, Actions
<1>4. PICK plan : plan = [ token |-> IF session.action = "convert" THEN session.op
                                     ELSE journal[session.prior].plan.token,
                           action |-> session.action,
                           supersedes |-> session.prior ]
  OBVIOUS
<1>5. CASE /\ J!Create(id, plan)
           /\ Continue(IF session.action = "convert" THEN ConvertWrites ELSE RecoveryWrites)
           /\ NoFault
  <2>1. PICK names : names = IF session.action = "convert" THEN ConvertWrites ELSE RecoveryWrites
    OBVIOUS
  <2>2. session.action # "convert" => session.prior \in Recoverable /\ session.prior \in Used
    BY <1>1 DEF CreateInv, Recoverable
  <2>3. /\ TaskWrites(names)
        /\ session.action = "convert" => \A n \in names : n[1] = "write"
    <3>1. CASE session.action = "convert"
      BY <2>1, <3>1, ConvertWritesTyped
    <3>2. CASE session.action # "convert"
      BY <1>1, <1>3, <2>1, <2>2, <3>2, RecoveryWritesTyped DEF CreateInv
    <3>3. QED
      BY <3>1, <3>2
  <2>4. CreateFrame(id, plan)
    BY <1>1, <1>2, <1>4, <1>5, CreateCall
  <2>5. plan.supersedes = session.prior /\ plan.action = session.action
    BY <2>4 DEF CreateFrame
  <2>6. /\ J!TypeOK'
        /\ id \notin Used /\ Used' = Used \cup {id}
        /\ \A j \in Used : journal'[j] = journal[j]
        /\ journal'[id] = [ phase |-> "writing", plan |-> plan,
                            writes |-> [n \in Names |-> "absent"],
                            failure |-> J!NoFailure, failedFrom |-> J!NoFailure ]
        /\ \E n \in 0 .. MaxRecords : Used' = 1 .. n
        /\ \A j \in Used' : Supersedes(j)' \in Used' \cup {NoId}
        /\ Recoverable' = {id}
        /\ session.prior # NoId => /\ Att(session.prior) \subseteq Att(id)'
                                   /\ Unc(session.prior) \subseteq Unc(id)'
    BY <2>4 DEF CreateFrame
  <2>7. /\ journal'[id].phase = "writing" /\ journal'[id].plan.action = session.action
        /\ \A n \in Names : journal'[id].writes[n] = "absent"
    BY <2>5, <2>6
  <2>8. JournalInv'
    <3>1. \A s : OfFamily(s)' <=> OfFamily(s)
      BY <1>1 DEF OfFamily, Ms41
    <3>2. \A j \in Used' : \A n \in Names : journal'[j].writes[n] # "absent" => OfFamily(n[2])'
      BY <1>1, <2>6, <2>7, <3>1 DEF JournalInv
    <3>3. \A j \in Used' : journal'[j].phase = "failed" =>
                              journal'[j].failedFrom \in {"writing", "awaiting_cycle"}
      BY <1>1, <2>6, <2>7 DEF JournalInv
    <3>4. QED
      BY <2>6, <3>2, <3>3 DEF JournalInv
  <2>9. /\ session' \in Sessions /\ session'.op = id
        /\ session'.action = session.action /\ session'.written = session.written
        /\ session'.reset = session.reset
        /\ \/ session'.phase = session.phase
           \/ session'.phase \in {"modules_written", "rollback_modules_written"}
        /\ First(names)[2] = Eeprom => session'.phase # "prepared"
    BY <1>1, <1>2, <1>5, <2>1, <2>3, Continued DEF TaskWrites
  <2>10. todo' = names /\ pc' = "intent"
    BY <1>5, <2>1, <2>3 DEF Continue, TaskWrites
  <2>11. TypeOK'
    BY <1>1, <1>5, <2>3, <2>6, <2>9, <2>10, FaultTyped DEF TypeOK, TaskWrites, Pcs, vehicle
  <2>12. TaskInv'
    <3>1. OpenInv'
      BY <1>1, <1>3, <2>6, <2>7, <2>9, <2>10 DEF OpenInv, CreateInv
    <3>2. First(names) \in names /\ First(todo)' = First(names) /\ Subject' = First(names)[2]
      BY <2>3, <2>10, FirstIsOne, FirstNext DEF TaskWrites, Subject
    <3>3. StepInv'
      <4>1. \A n \in names : OfFamily(n[2])'
        BY <1>1, <2>3 DEF TaskWrites, OfFamily, Ms41
      <4>2. QED
        BY <2>3, <2>7, <2>9, <2>10, <3>2, <4>1 DEF StepInv, TaskWrites
    <3>4. InsideModuleWrite' => ConvertInv'
      <4>1. ASSUME InsideModuleWrite'
            PROVE  ConvertInv'
        <5>1. session.action = "convert" /\ Original /\ Recoverable = {}
          BY <1>1, <2>9, <4>1 DEF InsideModuleWrite, CreateInv
        <5>2. ~relearn /\ eeprom = "before"
          BY <1>1, <5>1 DEF VehicleInv, Original, AllAre
        <5>3. QED
          BY <1>1, <5>1, <5>2 DEF ConvertInv, Original, AllAre, vehicle
      <4>2. QED
        BY <4>1
    <3>5. QED
      BY <2>9, <2>10, <3>1, <3>3, <3>4, AtStep DEF Busy, Stepping
  <2>13. VehicleInv'
    <3>1. NoForeign'
      BY <1>1 DEF NoForeign, vehicle
    <3>2. CASE session.action = "convert"
      <4>1. Original /\ ~relearn
        BY <1>1, <3>2 DEF CreateInv, VehicleInv
      <4>2. (\A o \in Owners : image[o] = "before") /\ eeprom = "before" /\ mode = "source"
        BY <1>1, <4>1 DEF Original, AllAre, VehicleInv
      <4>3. QED
        BY <1>1, <2>6, <3>1, <4>1, <4>2 DEF VehicleInv, vehicle, Ms41
    <3>3. CASE session.action # "convert"
      <4>1. /\ session.prior \in Recoverable /\ session.prior # NoId
            /\ \A o \in Owners : image[o] = "torn" => o \in Unc(session.prior)
        BY <1>1, <3>3, Constants DEF CreateInv, Recoverable, Used
      <4>2. QED
        BY <1>1, <2>6, <3>1, <4>1 DEF VehicleInv, vehicle, Ms41
    <3>4. QED
      BY <3>2, <3>3
  <2>14. QED
    BY <2>6, <2>8, <2>11, <2>12, <2>13 DEF IInv
<1>6. CASE /\ Raises(J!CanCreate(id)) /\ pc' = "fail" /\ UNCHANGED <<session, todo>>
  <2>1. UNCHANGED journal /\ (Fault \/ NoFault)
    BY <1>6 DEF Raises
  <2>2. TypeOK'
    BY <1>1, <1>6, <2>1, FaultTyped, JournalKept DEF TypeOK, Pcs, vehicle
  <2>3. TaskInv'
    BY <1>1, <1>3, <1>6, AtFail DEF CreateInv, Busy, AwaitingCycle
  <2>4. VehicleInv'
    BY <1>1, <1>6, <2>1, JournalKept, VehicleFrame DEF VehicleInv, Writing, Stepping
  <2>5. QED
    BY <1>1, <2>1, <2>2, <2>3, <2>4, JournalKept DEF IInv
<1>7. QED
  BY <1>2, <1>4, <1>5, <1>6 DEF CreateRecord
---------------------------------------------------------------------------
(* The rollback of the first attempt.                                      *)

LEMMA RollbackKeeps ==
    ASSUME IInv, Rollback
    PROVE  IInv'
<1>1. /\ pc = "rollback" /\ pc \in Writing /\ pc' = pc /\ todo # {}
      /\ todo' = todo \ {First(todo)}
      /\ UNCHANGED <<eeprom, mode, relearn, journal, family, outside>>
  BY DEF Rollback, Writing
<1>2. /\ TypeOK /\ JournalInv /\ VehicleInv /\ NoForeign /\ session \in Sessions
      /\ OpenInv /\ session.op \in Ids
  BY <1>1, AtWork
<1>3. RollbackInv /\ InsideModuleWrite /\ ConvertInv
  BY <1>1, AtWork DEF IInv, TaskInv, RollbackInv
<1>4. /\ todo \subseteq {"restore"} \X Owners
      /\ ~session.dirty => \A o \in Owners : image[o] # "before" => <<"restore", o>> \in todo
  BY <1>1, <1>3 DEF RollbackInv
<1>5. First(todo) \in todo
  BY <1>1, <1>2, FirstIsOne DEF TypeOK
<1>6. Subject \in Owners /\ First(todo) = <<"restore", Subject>>
  BY <1>4, <1>5 DEF Subject
<1>7. PICK s \in Owners : s = Subject
  BY <1>6
<1>8. PICK v : /\ image' = [image EXCEPT ![s] = v]
               /\ v \in Interrupted(image[s], "before")
               /\ \/ v = "before" /\ session' = session /\ NoFault
                  \/ Fault /\ session' = [session EXCEPT !.dirty = TRUE]
  <2>1. "before" \in Interrupted(image[s], "before")
    BY DEF Interrupted
  <2>2. QED
    BY <1>7, <2>1 DEF Rollback
<1>9. /\ v \in {"before", "target", "torn"}
      /\ image[s] = "before" => v = "before"
      /\ image[s] # "before" => image[s] \in {"target", "torn"}
  <2>1. image[s] \in {"before", "target", "torn"}
    BY <1>2 DEF TypeOK, Image, NoForeign
  <2>2. QED
    BY <1>8, <2>1 DEF Interrupted
<1>10. /\ image' \in [Owners -> Image]
       /\ \A o \in Owners : image'[o] = IF o = s THEN v ELSE image[o]
  BY <1>2, <1>8, <1>9 DEF TypeOK, Image
<1>11. /\ session' \in Sessions /\ session'.op = session.op /\ session'.phase = session.phase
       /\ session'.action = session.action /\ session'.written = session.written
       /\ session'.reset = session.reset
       /\ \/ v = "before" /\ session'.dirty = session.dirty
          \/ session'.dirty = TRUE
  BY <1>2, <1>8 DEF Sessions
<1>12. /\ JournalInv' /\ J!TypeOK' /\ Recoverable' = Recoverable
       /\ \A id : Att(id)' = Att(id) /\ Unc(id)' = Unc(id)
  BY <1>1, <1>2, AtWork, JournalKept
<1>13. TypeOK'
  <2>1. todo' \subseteq Names /\ (Fault \/ NoFault)
    BY <1>1, <1>2, <1>8 DEF TypeOK
  <2>2. QED
    BY <1>1, <1>2, <1>10, <1>11, <1>12, <2>1, FaultTyped DEF TypeOK
<1>14. TaskInv'
  <2>1. OpenInv'
    BY <1>1, <1>2, <1>11, <1>12 DEF OpenInv
  <2>2. ConvertInv'
    BY <1>1, <1>3, <1>9, <1>10, <1>11 DEF ConvertInv
  <2>3. InsideModuleWrite'
    BY <1>3, <1>11 DEF InsideModuleWrite
  <2>4. ASSUME ~session'.dirty, NEW o \in Owners, image'[o] # "before"
        PROVE  <<"restore", o>> \in todo'
    <3>1. o # s /\ image[o] # "before" /\ ~session.dirty
      BY <1>10, <1>11, <2>4
    <3>2. <<"restore", o>> \in todo /\ <<"restore", o>> # First(todo)
      BY <1>4, <1>6, <1>7, <3>1
    <3>3. QED
      BY <1>1, <3>2
  <2>5. RollbackInv'
    BY <1>1, <1>4, <2>3, <2>4 DEF RollbackInv
  <2>6. QED
    BY <1>1, <1>2, <1>11, <2>1, <2>2, <2>5, AtRollback DEF Busy
<1>15. VehicleInv'
  <2>1. NoForeign'
    BY <1>1, <1>2, <1>9, <1>10 DEF NoForeign
  <2>2. \A id \in Recoverable : id = session.op /\ journal[id].plan.action = "convert"
    BY <1>2, <1>3 DEF JournalInv, OpenInv, InsideModuleWrite
  <2>3. \A id \in Recoverable : \A o \in Owners : image'[o] \in {"target", "torn"} => o \in Att(id)
    BY <1>2, <1>9, <1>10 DEF VehicleInv
  <2>4. QED
    BY <1>1, <1>2, <1>12, <2>1, <2>2, <2>3 DEF VehicleInv, Ms41
<1>16. QED
  BY <1>12, <1>13, <1>14, <1>15 DEF IInv

LEMMA RollbackDoneKeeps ==
    ASSUME IInv, RollbackDone
    PROVE  IInv'
<1>1. /\ pc = "rollback" /\ pc \in Writing /\ todo = {}
      /\ pc' = IF session.dirty THEN "fail" ELSE "rb_failed"
      /\ UNCHANGED <<vehicle, journal, session, todo, faults, family, outside>>
  BY DEF RollbackDone, Writing
<1>2. /\ TypeOK /\ JournalInv /\ VehicleInv /\ NoForeign /\ session \in Sessions
      /\ OpenInv /\ session.op \in Ids
  BY <1>1, AtWork
<1>3. RollbackInv /\ InsideModuleWrite /\ ConvertInv
  BY <1>1, AtWork DEF IInv, TaskInv, RollbackInv
<1>4. /\ JournalInv' /\ J!TypeOK' /\ Recoverable' = Recoverable
      /\ \A id : Att(id)' = Att(id) /\ Unc(id)' = Unc(id)
  BY <1>1, <1>2, AtWork, JournalKept
<1>5. TypeOK'
  BY <1>1, <1>2, <1>4 DEF TypeOK, Pcs, vehicle
<1>6. TaskInv'
  <2>1. CASE session.dirty
    BY <1>1, <1>2, <2>1, AtFail DEF Busy, OpenInv, AwaitingCycle
  <2>2. CASE ~session.dirty
    <3>1. OpenInv' /\ ConvertInv' /\ InsideModuleWrite'
      BY <1>1, <1>2, <1>3, <1>4, <2>2 DEF OpenInv, ConvertInv, InsideModuleWrite, vehicle
    <3>2. RollbackInv'
      BY <1>1, <1>3, <2>2, <3>1 DEF RollbackInv, vehicle
    <3>3. QED
      BY <1>1, <1>2, <2>2, <3>1, <3>2, AtRollback DEF Busy
  <2>3. QED
    BY <2>1, <2>2
<1>7. VehicleInv'
  BY <1>1, <1>2, <1>4, VehicleFrame DEF VehicleInv
<1>8. QED
  BY <1>4, <1>5, <1>6, <1>7 DEF IInv

(* A journal call of a task outside the module writes that raises.         *)
LEMMA FailKeeps ==
    ASSUME IInv, pc # "idle", pc' = "fail",
           UNCHANGED <<vehicle, journal, session, todo, family, outside>>, Fault \/ NoFault,
           AwaitingCycle => Awaits(session.op)
    PROVE  IInv'
<1>1. TypeOK /\ J!TypeOK /\ JournalInv /\ VehicleInv /\ session \in Sessions /\ session.op \in Ids
  BY DEF IInv, TypeOK, TaskInv
<1>2. /\ JournalInv' /\ J!TypeOK' /\ Recoverable' = Recoverable
      /\ \A id : Att(id)' = Att(id) /\ Unc(id)' = Unc(id)
      /\ \A id : Awaits(id)' <=> Awaits(id)
  BY <1>1, JournalKept
<1>3. TypeOK'
  BY <1>1, <1>2, FaultTyped DEF TypeOK, Pcs, vehicle
<1>4. PICK id \in Ids : id = session.op
  BY <1>1
<1>5. TaskInv'
  BY <1>1, <1>2, <1>4, AtFail DEF Busy, AwaitingCycle, Awaits
<1>6. VehicleInv'
  BY <1>1, <1>2, VehicleFrame DEF VehicleInv, Writing, Stepping
<1>7. QED
  BY <1>2, <1>3, <1>5, <1>6 DEF IInv

LEMMA MarkRolledBackKeeps ==
    ASSUME IInv, MarkRolledBack
    PROVE  IInv'
<1>1. /\ pc = "rb_failed" /\ pc \in Writing
      /\ UNCHANGED <<vehicle, session, todo, family, outside>>
  BY DEF MarkRolledBack, Writing
<1>2. /\ TypeOK /\ J!TypeOK /\ JournalInv /\ VehicleInv /\ NoForeign /\ session \in Sessions
      /\ OpenInv
  BY <1>1, AtWork
<1>3. RollbackInv /\ InsideModuleWrite /\ ConvertInv /\ \A o \in Owners : image[o] = "before"
  BY <1>1, AtWork DEF IInv, TaskInv, RollbackInv
<1>4. PICK id \in Ids : id = session.op /\ id \in Used /\ id \in Recoverable
  BY <1>1, <1>2, AtWork DEF OpenInv
<1>5. CASE /\ J!MarkFailed(id, "error")
           /\ pc' = IF session.reset THEN "fail" ELSE "rb_restored"
           /\ NoFault
  <2>1. PhaseFrame(id) /\ Recoverable' = Recoverable /\ journal'[id].phase = "failed"
    BY <1>1, <1>2, <1>4, <1>5, FailedCall
  <2>2. TypeOK'
    BY <1>1, <1>2, <1>5, <2>1, FaultTyped DEF TypeOK, PhaseFrame, Pcs, vehicle
  <2>3. TaskInv'
    <3>1. CASE session.reset
      BY <1>1, <1>2, <1>4, <1>5, <3>1, AtFail DEF Busy, OpenInv, AwaitingCycle
    <3>2. CASE ~session.reset
      <4>1. OpenInv'
        BY <1>1, <1>2, <1>4, <1>5, <2>1, <3>2 DEF OpenInv, PhaseFrame
      <4>2. Original' /\ ~relearn'
        BY <1>1, <1>3, <3>2 DEF ConvertInv, Original, AllAre, vehicle, Ms41
      <4>3. RollbackInv'
        BY <1>1, <1>3, <1>5, <3>2, <4>2 DEF RollbackInv, InsideModuleWrite
      <4>4. QED
        BY <1>1, <1>2, <1>4, <1>5, <3>2, <4>1, <4>3, AtRestored DEF Busy
    <3>3. QED
      BY <3>1, <3>2
  <2>4. VehicleInv'
    BY <1>1, <1>2, <1>4, <2>1, VehicleFrame DEF PhaseFrame, Recoverable
  <2>5. QED
    BY <2>1, <2>2, <2>3, <2>4 DEF IInv, PhaseFrame
<1>6. CASE Raises(J!CanMarkFailed(id, "error")) /\ pc' = "fail"
  BY <1>1, <1>2, <1>6, FailKeeps DEF Raises, OpenInv, AwaitingCycle
<1>7. QED
  BY <1>4, <1>5, <1>6 DEF MarkRolledBack

LEMMA MarkRollbackRestoredKeeps ==
    ASSUME IInv, MarkRollbackRestored
    PROVE  IInv'
<1>1. /\ pc = "rb_restored" /\ pc' = "fail"
      /\ UNCHANGED <<vehicle, session, todo, family, outside>>
  BY DEF MarkRollbackRestored
<1>2. /\ TypeOK /\ J!TypeOK /\ JournalInv /\ VehicleInv /\ session \in Sessions /\ session.op \in Ids
      /\ OpenInv /\ RollbackInv
  BY <1>1 DEF IInv, TypeOK, TaskInv
<1>3. ~relearn
  BY <1>1, <1>2 DEF RollbackInv
<1>4. PICK id \in Ids : id = session.op /\ id \in Used
  BY <1>2 DEF OpenInv, Recoverable
<1>5. CASE J!MarkRestored(id) /\ NoFault
  <2>1. PhaseFrame(id)
    BY <1>1, <1>2, <1>4, <1>5, RestoredCall
  <2>2. TypeOK'
    BY <1>1, <1>2, <1>5, <2>1, FaultTyped DEF TypeOK, PhaseFrame, Pcs, vehicle
  <2>3. TaskInv'
    BY <1>1, <1>2, AtFail DEF Busy, OpenInv, AwaitingCycle
  <2>4. VehicleInv'
    BY <1>1, <1>2, <1>3, <2>1, VehicleFrame DEF PhaseFrame, Recoverable, Writing, Stepping
  <2>5. QED
    BY <2>1, <2>2, <2>3, <2>4 DEF IInv, PhaseFrame
<1>6. CASE Raises(J!CanMarkRestored(id))
  BY <1>1, <1>2, <1>6, FailKeeps DEF Raises, OpenInv, AwaitingCycle
<1>7. QED
  BY <1>4, <1>5, <1>6 DEF MarkRollbackRestored
---------------------------------------------------------------------------
(* Steps that write nothing to the vehicle, between or outside the writes. *)

LEMMA QuietStep ==
    ASSUME IInv, UNCHANGED <<vehicle, family, outside>>,
           JournalInv', J!TypeOK', Recoverable' \subseteq Recoverable,
           relearn => Recoverable' # {},
           \A id \in Recoverable' : /\ Att(id) \subseteq Att(id)' /\ Unc(id) \subseteq Unc(id)'
                                    /\ journal'[id].plan = journal[id].plan,
           pc' \in Writing \cup {"create"} => NoForeign,
           Fault \/ NoFault, pc' \in Pcs, todo' \subseteq Names,
           session' \in Sessions \cup {NoSession}, TaskInv'
    PROVE  IInv'
<1>1. TypeOK /\ VehicleInv
  BY DEF IInv
<1>2. TypeOK'
  BY <1>1, FaultTyped DEF TypeOK, vehicle
<1>3. VehicleInv'
  BY <1>1, VehicleFrame
<1>4. QED
  BY <1>2, <1>3 DEF IInv

(* The same when the journal is left alone too.                            *)
LEMMA UnjournalledStep ==
    ASSUME IInv, UNCHANGED <<vehicle, journal, family, outside>>,
           pc' \in Writing \cup {"create"} => NoForeign,
           Fault \/ NoFault, pc' \in Pcs, todo' \subseteq Names,
           session' \in Sessions \cup {NoSession}, TaskInv'
    PROVE  IInv'
<1>1. TypeOK /\ J!TypeOK /\ JournalInv /\ VehicleInv
  BY DEF IInv, TypeOK
<1>2. /\ JournalInv' /\ J!TypeOK' /\ Recoverable' = Recoverable
      /\ \A id : Att(id)' = Att(id) /\ Unc(id)' = Unc(id)
  BY <1>1, JournalKept
<1>3. relearn => Recoverable' # {}
  BY <1>1, <1>2 DEF VehicleInv
<1>4. QED
  BY <1>2, <1>3, QuietStep

LEMMA ClosedUnseen ==
    ASSUME NEW id, PhaseFrame(id), id \notin Recoverable
    PROVE  Recoverable' = Recoverable
<1>1. \A j \in Used : Superseded(j)' <=> Superseded(j)
  BY DEF PhaseFrame, Superseded, Supersedes
<1>2. ASSUME NEW j \in Recoverable
      PROVE  j \in Recoverable'
  <2>1. j \in Used /\ j # id
    BY DEF Recoverable
  <2>2. journal'[j] = journal[j] /\ j \in Used'
    BY <2>1 DEF PhaseFrame
  <2>3. QED
    BY <1>1, <2>1, <2>2 DEF Recoverable, J!Incomplete, J!Exists
<1>3. QED
  BY <1>2 DEF PhaseFrame

(* A session that waits for the ignition cycle, its record doing the same. *)
LEMMA AtWaiting ==
    ASSUME IInv, pc = "idle", AwaitingCycle
    PROVE  session \in Sessions /\ session.op \in Used /\ session.op \in Ids /\ Awaits(session.op)
<1>1. IdleInv
  BY DEF IInv, TaskInv
<1>2. session \in Sessions /\ session.op \in Ids /\ Awaits(session.op)
  BY <1>1 DEF IdleInv, AwaitingCycle, NoSession
<1>3. QED
  BY <1>2 DEF Awaits, Used

LEMMA ReportFailureKeeps ==
    ASSUME IInv, ReportFailure
    PROVE  IInv'
<1>1. /\ pc = "fail" /\ pc' = "idle" /\ todo' = {}
      /\ session' = IF AwaitingCycle THEN session ELSE NoSession
      /\ UNCHANGED <<vehicle, family, outside>>
  BY DEF ReportFailure
<1>2. /\ TypeOK /\ J!TypeOK /\ JournalInv /\ VehicleInv
      /\ session \in Sessions /\ session.op \in Ids
      /\ AwaitingCycle => Awaits(session.op)
  BY <1>1 DEF IInv, TypeOK, TaskInv
<1>3. PICK id \in Ids : id = session.op
  BY <1>2
<1>4. session' \in Sessions \cup {NoSession} /\ pc' \in Pcs /\ todo' \subseteq Names
  BY <1>1, <1>2 DEF Pcs
<1>5. ASSUME Awaits(id) => Awaits(id)'
      PROVE  TaskInv'
  <2>1. CASE AwaitingCycle
    BY <1>1, <1>2, <1>3, <1>5, <2>1, AtIdle DEF IdleInv, AwaitingCycle
  <2>2. CASE ~AwaitingCycle
    BY <1>1, <2>2, AtIdle DEF IdleInv
  <2>3. QED
    BY <2>1, <2>2
<1>6. CASE /\ J!InPhase(id, "writing") \/ J!InPhase(id, "awaiting_cycle")
           /\ J!MarkFailed(id, "error") /\ NoFault
  <2>1. id \in Used
    BY <1>6 DEF J!InPhase, Used
  <2>2. PhaseFrame(id) /\ Recoverable' = Recoverable /\ (Awaits(id) => Awaits(id)')
    BY <1>1, <1>2, <1>6, <2>1, FailedCall
  <2>3. QED
    BY <1>1, <1>2, <1>4, <1>5, <1>6, <2>2, QuietStep
       DEF PhaseFrame, Recoverable, VehicleInv, Writing, Stepping
<1>7. CASE UNCHANGED journal /\ (Fault \/ NoFault)
  <2>1. Awaits(id) => Awaits(id)'
    BY <1>1, <1>7, JournalKept
  <2>2. QED
    BY <1>1, <1>4, <1>5, <1>7, <2>1, UnjournalledStep DEF Writing, Stepping
<1>8. QED
  BY <1>3, <1>6, <1>7 DEF ReportFailure
---------------------------------------------------------------------------
(* The final verification.                                                 *)

LEMMA StartVerifyKeeps ==
    ASSUME IInv, StartVerify
    PROVE  IInv'
<1>1. /\ pc = "idle" /\ AwaitingCycle /\ ~relearn
      /\ UNCHANGED <<vehicle, session, todo, family, outside>>
  BY DEF StartVerify
<1>2. TypeOK /\ J!TypeOK /\ JournalInv /\ VehicleInv
  BY DEF IInv, TypeOK
<1>3. PICK id \in Ids : id = session.op /\ id \in Used /\ Awaits(id) /\ session \in Sessions
  BY <1>1, AtWaiting
<1>4. todo' \subseteq Names /\ session' \in Sessions \cup {NoSession} /\ Busy' /\ AwaitingCycle'
  BY <1>1, <1>2, <1>3 DEF TypeOK, Busy, AwaitingCycle
<1>5. CASE J!Resume(id) /\ pc' = "verify" /\ NoFault
  <2>1. PhaseFrame(id) /\ Recoverable' = Recoverable /\ J!InPhase(id, "awaiting_cycle")'
    BY <1>1, <1>2, <1>3, <1>5, ResumeCall
  <2>2. VerifyInv'
    BY <1>1, <1>3, <1>4, <1>5, <2>1 DEF VerifyInv, vehicle
  <2>3. TaskInv'
    BY <1>4, <1>5, <2>2, AtVerify
  <2>4. QED
    BY <1>1, <1>4, <1>5, <2>1, <2>3, QuietStep
       DEF PhaseFrame, Recoverable, Writing, Stepping, Pcs
<1>6. CASE J!InPhase(id, "awaiting_cycle") /\ UNCHANGED journal /\ pc' = "verify" /\ NoFault
  <2>1. J!InPhase(id, "awaiting_cycle")'
    BY <1>6 DEF J!InPhase, J!Exists
  <2>2. VerifyInv'
    BY <1>1, <1>3, <1>4, <1>6, <2>1 DEF VerifyInv, vehicle
  <2>3. TaskInv'
    BY <1>4, <1>6, <2>2, AtVerify
  <2>4. QED
    BY <1>1, <1>4, <1>6, <2>3, UnjournalledStep DEF Writing, Stepping, Pcs
<1>7. CASE UNCHANGED journal /\ (Fault \/ NoFault) /\ pc' = "fail"
  <2>1. Awaits(id)'
    BY <1>1, <1>3, <1>7, JournalKept
  <2>2. TaskInv'
    BY <1>1, <1>3, <1>4, <1>7, <2>1, AtFail
  <2>3. QED
    BY <1>1, <1>4, <1>7, <2>2, UnjournalledStep DEF Writing, Stepping, Pcs
<1>8. QED
  BY <1>3, <1>5, <1>6, <1>7 DEF StartVerify, Raises

LEMMA VerifyKeeps ==
    ASSUME IInv, Verify
    PROVE  IInv'
<1>1. /\ pc = "verify"
      /\ UNCHANGED <<vehicle, journal, session, todo, family, outside>>
      /\ \/ /\ pc' = "v_mark"
            /\ IF session.phase = "rollback_awaiting_cycle" THEN Original ELSE Converted
         \/ pc' = "fail"
      /\ Fault \/ NoFault
  BY DEF Verify
<1>2. TypeOK /\ VerifyInv /\ session \in Sessions /\ session.op \in Ids
  BY <1>1 DEF IInv, TaskInv
<1>3. PICK id \in Ids : id = session.op
  BY <1>2
<1>4. todo' \subseteq Names /\ session' \in Sessions \cup {NoSession} /\ Busy'
  BY <1>1, <1>2 DEF TypeOK, Busy
<1>5. J!InPhase(id, "awaiting_cycle") /\ J!InPhase(id, "awaiting_cycle")'
  BY <1>1, <1>2, <1>3 DEF VerifyInv, J!InPhase, J!Exists
<1>6. CASE /\ pc' = "v_mark"
           /\ IF session.phase = "rollback_awaiting_cycle" THEN Original ELSE Converted
  <2>1. IF session'.phase = "rollback_awaiting_cycle" THEN Original' ELSE Converted'
    BY <1>1, <1>6 DEF Original, Converted, AllAre, Ms41, vehicle
  <2>2. VerifyInv'
    BY <1>1, <1>2, <1>3, <1>5, <2>1 DEF VerifyInv, AwaitingCycle, vehicle
  <2>3. TaskInv'
    BY <1>4, <1>6, <2>2, AtVerify
  <2>4. QED
    BY <1>1, <1>4, <1>6, <2>3, UnjournalledStep DEF Writing, Stepping, Pcs
<1>7. CASE pc' = "fail"
  <2>1. Awaits(id)'
    BY <1>5 DEF Awaits, ActivePhase, J!InPhase
  <2>2. TaskInv'
    BY <1>1, <1>3, <1>4, <1>7, <2>1, AtFail
  <2>3. QED
    BY <1>1, <1>4, <1>7, <2>2, UnjournalledStep DEF Writing, Stepping, Pcs
<1>8. QED
  BY <1>1, <1>6, <1>7

LEMMA MarkVerifiedKeeps ==
    ASSUME IInv, MarkVerified
    PROVE  IInv'
<1>1. pc = "v_mark" /\ UNCHANGED <<vehicle, session, todo, family, outside>>
  BY DEF MarkVerified
<1>2. /\ TypeOK /\ J!TypeOK /\ JournalInv /\ VehicleInv
      /\ VerifyInv /\ session \in Sessions /\ session.op \in Ids
  BY <1>1 DEF IInv, TaskInv, TypeOK
<1>3. PICK id \in Ids : id = session.op
  BY <1>2
<1>4. ~relearn /\ J!InPhase(id, "awaiting_cycle") /\ id \in Used
  BY <1>2, <1>3 DEF VerifyInv, J!InPhase, Used
<1>5. todo' \subseteq Names /\ session' \in Sessions \cup {NoSession} /\ Busy'
  BY <1>1, <1>2 DEF TypeOK, Busy
<1>6. CASE J!MarkFinalVerified(id) /\ pc' = "settle" /\ NoFault
  <2>1. PhaseFrame(id)
    BY <1>1, <1>2, <1>4, <1>6, VerifiedCall
  <2>2. TaskInv'
    BY <1>1, <1>3, <1>4, <1>5, <1>6, <2>1, AtSettle DEF PhaseFrame
  <2>3. QED
    BY <1>1, <1>4, <1>5, <1>6, <2>1, <2>2, QuietStep
       DEF PhaseFrame, Recoverable, Writing, Stepping, Pcs
<1>7. CASE Raises(J!CanMarkFinalVerified(id)) /\ pc' = "fail"
  BY <1>1, <1>3, <1>4, <1>7, FailKeeps DEF Raises, Awaits, ActivePhase, J!InPhase
<1>8. QED
  BY <1>3, <1>6, <1>7 DEF MarkVerified

LEMMA SettleKeeps ==
    ASSUME IInv, Settle
    PROVE  IInv'
<1> DEFINE older == Chain(session.op) \ {session.op}
<1>1. pc = "settle" /\ UNCHANGED <<vehicle, todo, family, outside>>
  BY DEF Settle
<1>2. /\ TypeOK /\ J!TypeOK /\ JournalInv /\ VehicleInv
      /\ session \in Sessions /\ session.op \in Ids /\ session.op \in Used
  BY <1>1 DEF IInv, TaskInv, TypeOK
<1>3. todo' \subseteq Names
  BY <1>1, <1>2 DEF TypeOK
<1>4. older \subseteq Used /\ \A j \in older : j \notin Recoverable
  BY <1>2, ChainBasics, OlderSuperseded
<1>5. CASE session' = NoSession /\ pc' = "idle" /\ UNCHANGED journal /\ (Fault \/ NoFault)
  <2>1. TaskInv'
    BY <1>5, AtIdle DEF IdleInv
  <2>2. QED
    BY <1>1, <1>3, <1>5, <2>1, UnjournalledStep DEF Writing, Stepping, Pcs
<1>6. CASE /\ \E j \in older : J!Incomplete(j)
           /\ CloseNewest(older) /\ UNCHANGED <<session, pc>> /\ NoFault
  <2>1. PICK id \in older : PhaseFrame(id)
    <3> HIDE DEF older
    <3>1. QED
      BY <1>1, <1>2, <1>4, <1>6, CloseCall
  <2>2. Recoverable' = Recoverable
    BY <1>4, <2>1, ClosedUnseen
  <2>3. TaskInv'
    BY <1>1, <1>2, <1>6, <2>1, AtSettle DEF PhaseFrame, Busy
  <2>4. QED
    BY <1>1, <1>2, <1>3, <1>6, <2>1, <2>2, <2>3, QuietStep
       DEF PhaseFrame, Recoverable, VehicleInv, Writing, Stepping, Pcs
<1>7. QED
  BY <1>5, <1>6 DEF Settle, Finished, Raises, NoFault
---------------------------------------------------------------------------
(* Starting a conversion.                                                  *)

LEMMA PrepareKeeps ==
    ASSUME IInv, Prepare
    PROVE  IInv'
<1>1. /\ pc = "idle" /\ pc' = "idle" /\ NoFault
      /\ session' = NewSession("prepared", "convert", NoId, NoId)
      /\ UNCHANGED <<vehicle, journal, todo, family, outside>>
  BY DEF Prepare, NoFault
<1>2. TypeOK /\ todo' \subseteq Names /\ eeprom \in Image
  BY <1>1 DEF IInv, TypeOK
<1>3. /\ session' \in Sessions /\ session'.phase = "prepared" /\ session'.action = "convert"
      /\ session'.prior = NoId
      /\ session'.written = {} /\ ~session'.reset /\ ~session'.dirty
  BY <1>1, <1>2 DEF NewSession, Sessions, SessionPhases, Actions
<1>4. TaskInv'
  BY <1>1, <1>3, AtIdle DEF IdleInv, UnusedSession
<1>5. QED
  BY <1>1, <1>2, <1>3, <1>4, UnjournalledStep DEF Writing, Stepping, Pcs

LEMMA NextIdTyped ==
    ASSUME JournalInv, NextId <= MaxRecords
    PROVE  NextId \in Ids
<1>1. PICK n \in 0 .. MaxRecords : Used = 1 .. n
  BY DEF JournalInv
<1>2. NextId = n + 1
  BY <1>1, UsedCount
<1>3. QED
  BY <1>2, ConversionAssumption DEF Ids

LEMMA StartConvertKeeps ==
    ASSUME IInv, StartConvert
    PROVE  IInv'
<1>1. /\ pc = "idle" /\ session.phase = "prepared" /\ ~Quarantined /\ NextId <= MaxRecords
      /\ NoFault /\ UNCHANGED <<vehicle, journal, todo, family, outside>>
  BY DEF StartConvert, NoFault
<1>2. TypeOK /\ JournalInv /\ VehicleInv /\ IdleInv /\ todo' \subseteq Names /\ eeprom \in Image
  BY <1>1 DEF IInv, TypeOK, TaskInv
<1>3. Recoverable = {}
  BY <1>1 DEF Quarantined
<1>4. UnusedSession /\ session.action = "convert" /\ session.prior = NoId
  BY <1>1, <1>2 DEF IdleInv, AwaitingCycle, NoSession
<1>5. PICK id \in Ids : id = NextId
  BY <1>1, <1>2, NextIdTyped
<1>6. CASE /\ Fresh
           /\ session' = [session EXCEPT !.op = id, !.seen = eeprom]
           /\ pc' = "create"
  <2>1. Original /\ NoForeign
    BY <1>2, <1>6 DEF Fresh, Original, AllAre, NoForeign, VehicleInv
  <2>2. /\ session' \in Sessions /\ session'.op = id /\ session'.phase = "prepared"
        /\ session'.action = "convert" /\ session'.prior = NoId
        /\ session'.written = {} /\ ~session'.reset /\ ~session'.dirty
    BY <1>1, <1>2, <1>4, <1>6 DEF UnusedSession, Sessions
  <2>3. Original' /\ Recoverable' = {} /\ NextId' = id
    BY <1>1, <1>3, <1>5, <2>1, JournalKept DEF Original, AllAre, Ms41, vehicle
  <2>4. TaskInv'
    BY <1>6, <2>2, <2>3, AtCreate DEF CreateInv, UnusedSession, Busy
  <2>5. QED
    BY <1>1, <1>2, <1>6, <2>1, <2>2, <2>4, UnjournalledStep DEF Pcs
<1>7. CASE session' = NoSession /\ UNCHANGED pc
  <2>1. TaskInv'
    BY <1>1, <1>7, AtIdle DEF IdleInv
  <2>2. QED
    BY <1>1, <1>2, <1>7, <2>1, UnjournalledStep DEF Writing, Stepping, Pcs
<1>8. QED
  BY <1>5, <1>6, <1>7 DEF StartConvert
---------------------------------------------------------------------------
(* Recovery.                                                               *)

LEMMA RecoverVerificationKeeps ==
    ASSUME IInv, RecoverVerification
    PROVE  IInv'
<1>1. /\ pc = "idle" /\ pc' = "idle" /\ NoFault
      /\ UNCHANGED <<vehicle, todo, family, outside>>
  BY DEF RecoverVerification, NoFault
<1>2. TypeOK /\ J!TypeOK /\ JournalInv /\ VehicleInv /\ todo' \subseteq Names /\ eeprom \in Image
  BY <1>1 DEF IInv, TypeOK
<1>3. PICK id \in Recoverable :
        /\ ActivePhase(id) = "awaiting_cycle"
        /\ IF journal[id].phase = "failed" THEN J!Resume(id) ELSE UNCHANGED journal
        /\ session' = NewSession(
              IF journal[id].plan.action = "original"
              THEN "rollback_awaiting_cycle" ELSE "awaiting_cycle",
              journal[id].plan.action, id, NoId)
  BY DEF RecoverVerification
<1>4. id \in Used /\ id \in Ids /\ Awaits(id)
  BY <1>3 DEF Recoverable, Used, Awaits
<1>5. journal[id].plan.action \in Actions
  BY <1>2, <1>4, ExistingRecord DEF J!Record, Plans
<1>6. session' \in Sessions /\ session'.op = id /\ AwaitingCycle'
  BY <1>2, <1>3, <1>4, <1>5 DEF NewSession, Sessions, SessionPhases, AwaitingCycle
<1>7. ASSUME Awaits(id)'
      PROVE  TaskInv'
  BY <1>1, <1>4, <1>6, <1>7, AtIdle DEF IdleInv
<1>8. CASE journal[id].phase = "failed" /\ J!Resume(id)
  <2>1. PhaseFrame(id) /\ Recoverable' = Recoverable /\ J!InPhase(id, "awaiting_cycle")'
    BY <1>1, <1>2, <1>4, <1>8, ResumeCall
  <2>2. Awaits(id)'
    BY <2>1 DEF Awaits, ActivePhase, J!InPhase
  <2>3. QED
    BY <1>1, <1>2, <1>6, <1>7, <2>1, <2>2, QuietStep
       DEF PhaseFrame, Recoverable, VehicleInv, Writing, Stepping, Pcs
<1>9. CASE UNCHANGED journal
  <2>1. Awaits(id)'
    BY <1>1, <1>4, <1>9, JournalKept
  <2>2. QED
    BY <1>1, <1>2, <1>6, <1>7, <1>9, <2>1, UnjournalledStep DEF Writing, Stepping, Pcs
<1>10. QED
  BY <1>3, <1>8, <1>9

(* What the preflight has seen of the vehicle.                             *)
LEMMA PreflightSees ==
    ASSUME VehicleInv, TypeOK, NEW id \in Recoverable, Preflight(id)
    PROVE  /\ NoForeign
           /\ \A o \in Owners : image[o] = "torn" => o \in Unc(id)
           /\ Att(id) = {} => Original /\ ~relearn
<1>1. /\ \A o \in Owners : OwnerRecoverable(o, Att(id), Unc(id))
      /\ DmeRecoverable(Att(id), Unc(id))
  BY DEF Preflight, Att, Unc
<1>2. \A o \in Owners : image[o] # "foreign" /\ (image[o] = "torn" => o \in Unc(id))
  BY <1>1 DEF OwnerRecoverable
<1>3. eeprom # "foreign"
  BY <1>1 DEF DmeRecoverable, VehicleInv
<1>4. ASSUME Att(id) = {}
      PROVE  Original /\ ~relearn
  <2>1. \A o \in Owners : image[o] = "before"
    BY <1>1, <1>4 DEF OwnerRecoverable
  <2>2. mode = "source" /\ (Ms41 => eeprom = "before")
    BY <1>1, <1>4 DEF DmeRecoverable
  <2>3. ~relearn
    BY <1>4 DEF VehicleInv, TypeOK
  <2>4. QED
    BY <2>1, <2>2, <2>3 DEF Original, AllAre
<1>5. QED
  BY <1>2, <1>3, <1>4 DEF NoForeign

LEMMA RecoverWritesKeeps ==
    ASSUME IInv, NEW action \in {"target", "original"}, RecoverWrites(action)
    PROVE  IInv'
<1>1. /\ pc = "idle" /\ NextId <= MaxRecords /\ NoFault
      /\ UNCHANGED <<vehicle, journal, todo, family, outside>>
  BY DEF RecoverWrites, NoFault
<1>2. TypeOK /\ J!TypeOK /\ JournalInv /\ VehicleInv /\ todo' \subseteq Names /\ eeprom \in Image
  BY <1>1 DEF IInv, TypeOK
<1>3. PICK next \in Ids : next = NextId
  BY <1>1, <1>2, NextIdTyped
<1>4. PICK id \in Recoverable :
        /\ session' = IF Preflight(id)
                      THEN NewSession("recovery", action, next, id)
                      ELSE NoSession
        /\ pc' = IF ~Preflight(id) THEN "idle"
                 ELSE IF action = "original" /\ Att(id) = {} THEN "close" ELSE "create"
  BY <1>3 DEF RecoverWrites, Att
<1>5. id \in Used /\ id \in Ids
  BY <1>4 DEF Recoverable, Used
<1>6. CASE Preflight(id)
  <2>1. /\ NoForeign
        /\ \A o \in Owners : image[o] = "torn" => o \in Unc(id)
        /\ Att(id) = {} => Original /\ ~relearn
    BY <1>2, <1>4, <1>6, PreflightSees
  <2>2. /\ session' \in Sessions /\ session'.op = next /\ session'.phase = "recovery"
        /\ session'.action = action /\ session'.prior = id
        /\ session'.written = {} /\ ~session'.reset /\ ~session'.dirty
    BY <1>2, <1>3, <1>4, <1>5, <1>6 DEF NewSession, Sessions, SessionPhases, Actions
  <2>3. /\ Recoverable' = Recoverable /\ NextId' = next /\ Used' = Used
        /\ Att(id)' = Att(id) /\ Unc(id)' = Unc(id)
    BY <1>1, <1>3, JournalKept
  <2>4. CASE action = "original" /\ Att(id) = {}
    <3>1. pc' = "close"
      BY <1>4, <1>6, <2>4
    <3>2. Original' /\ ~relearn'
      BY <1>1, <2>1, <2>4 DEF Original, AllAre, Ms41, vehicle
    <3>3. TaskInv'
      BY <1>5, <2>2, <2>3, <3>1, <3>2, AtClose DEF Busy
    <3>4. QED
      BY <1>1, <1>2, <2>1, <2>2, <3>1, <3>3, UnjournalledStep DEF Pcs
  <2>5. CASE ~(action = "original" /\ Att(id) = {})
    <3>1. pc' = "create"
      BY <1>4, <1>6, <2>5
    <3>2. UnusedSession'
      BY <2>2 DEF UnusedSession
    <3>3. \A o \in Owners : image'[o] = "torn" => o \in Unc(id)'
      BY <1>1, <2>1, <2>3 DEF vehicle
    <3>4. session'.action # "convert" /\ (session'.action = "original" => Att(id)' # {})
      BY <2>2, <2>3, <2>5
    <3>5. Att(session.prior)' = Att(id)' /\ Unc(session.prior)' = Unc(id)'
      BY <2>2 DEF Att, Unc, Attempted, Uncertain, Chain
    <3>6. CreateInv'
      BY <1>4, <2>2, <2>3, <3>2, <3>3, <3>4, <3>5 DEF CreateInv
    <3>7. TaskInv'
      BY <2>2, <3>1, <3>6, AtCreate DEF Busy
    <3>8. QED
      BY <1>1, <1>2, <2>1, <2>2, <3>1, <3>7, UnjournalledStep DEF Pcs
  <2>6. QED
    BY <2>4, <2>5
<1>7. CASE ~Preflight(id)
  <2>1. TaskInv'
    BY <1>4, <1>7, AtIdle DEF IdleInv
  <2>2. QED
    BY <1>1, <1>2, <1>4, <1>7, <2>1, UnjournalledStep DEF Writing, Stepping, Pcs
<1>8. QED
  BY <1>6, <1>7

LEMMA CloseUntouchedKeeps ==
    ASSUME IInv, CloseUntouched
    PROVE  IInv'
<1>1. pc = "close" /\ UNCHANGED <<vehicle, todo, family, outside>>
  BY DEF CloseUntouched
<1>2. /\ TypeOK /\ J!TypeOK /\ JournalInv /\ VehicleInv
      /\ session \in Sessions /\ session.op \in Ids
      /\ Original /\ ~relearn /\ session.phase = "recovery" /\ session.prior \in Used
  BY <1>1 DEF IInv, TaskInv, TypeOK
<1>3. todo' \subseteq Names
  BY <1>1, <1>2 DEF TypeOK
<1>4. PICK chain \in SUBSET Used : chain = Chain(session.prior)
  BY <1>2, ChainBasics
<1>5. CASE session' = NoSession /\ pc' = "idle" /\ UNCHANGED <<journal, faults>>
  <2>1. TaskInv'
    BY <1>5, AtIdle DEF IdleInv
  <2>2. QED
    BY <1>1, <1>3, <1>5, <2>1, UnjournalledStep DEF Writing, Stepping, Pcs, NoFault
<1>6. CASE /\ \E j \in chain : J!Incomplete(j)
           /\ CloseNewest(chain) /\ UNCHANGED <<session, pc>> /\ NoFault
  <2>1. PICK id \in chain : PhaseFrame(id)
    BY <1>1, <1>2, <1>4, <1>6, CloseCall
  <2>2. Original'
    BY <1>1, <1>2 DEF Original, AllAre, Ms41, vehicle
  <2>3. TaskInv'
    BY <1>1, <1>2, <1>6, <2>1, <2>2, AtClose DEF PhaseFrame, Busy, vehicle
  <2>4. QED
    BY <1>1, <1>2, <1>3, <1>6, <2>1, <2>3, QuietStep
       DEF PhaseFrame, Recoverable, Writing, Stepping, Pcs
<1>7. CASE Raises(TRUE) /\ pc' = "fail" /\ UNCHANGED session
  BY <1>1, <1>2, <1>7, FailKeeps DEF Raises, AwaitingCycle
<1>8. QED
  BY <1>4, <1>5, <1>6, <1>7 DEF CloseUntouched, Finished
---------------------------------------------------------------------------
(* The surroundings.                                                       *)

LEMMA IdleKept ==
    ASSUME IInv, pc = "idle", UNCHANGED <<pc, session, journal, family>>
    PROVE  TaskInv'
<1>1. IdleInv
  BY DEF IInv, TaskInv
<1>2. PICK op : op = session.op
  OBVIOUS
<1>3. Awaits(op) <=> Awaits(op)'
  BY JournalKept
<1>4. IdleInv'
  BY <1>1, <1>2, <1>3 DEF IdleInv, UnusedSession, AwaitingCycle
<1>5. QED
  BY <1>4, AtIdle

LEMMA CycleIgnitionKeeps ==
    ASSUME IInv, CycleIgnition
    PROVE  IInv'
<1>1. /\ pc = "idle" /\ relearn' = FALSE
      /\ UNCHANGED <<image, eeprom, journal, session, pc, todo, faults, family, outside>>
  BY DEF CycleIgnition
<1>2. TypeOK /\ J!TypeOK /\ JournalInv /\ VehicleInv
  BY DEF IInv, TypeOK
<1>3. /\ JournalInv' /\ J!TypeOK' /\ Recoverable' = Recoverable
      /\ \A id : Att(id)' = Att(id) /\ Unc(id)' = Unc(id)
  BY <1>1, <1>2, JournalKept
<1>4. mode' \in Modes
  BY <1>2 DEF CycleIgnition, TypeOK, Modes
<1>5. TypeOK'
  BY <1>1, <1>2, <1>3, <1>4 DEF TypeOK
<1>6. ASSUME mode' = "target", outside = 0, NEW id \in Recoverable
      PROVE  Att(id) \cap {Dme, Eeprom} # {}
  BY <1>2, <1>6 DEF CycleIgnition, VehicleInv, NoForeign
<1>7. VehicleInv'
  BY <1>1, <1>2, <1>3, <1>6 DEF VehicleInv, NoForeign, Ms41, Writing, Stepping
<1>8. QED
  BY <1>1, <1>3, <1>5, <1>7, IdleKept DEF IInv

LEMMA ForeignCodingKeeps ==
    ASSUME IInv, pc = "idle", NEW v \in {"before", "foreign"}, ForeignCoding(v)
    PROVE  IInv'
<1>1. /\ outside < MaxOutside /\ outside' = outside + 1
      /\ UNCHANGED <<family, mode, relearn, journal, session, pc, todo, faults>>
  BY DEF ForeignCoding
<1>2. TypeOK /\ J!TypeOK /\ JournalInv /\ VehicleInv
  BY DEF IInv, TypeOK
<1>3. /\ JournalInv' /\ J!TypeOK' /\ Recoverable' = Recoverable
      /\ \A id : Att(id)' = Att(id) /\ Unc(id)' = Unc(id)
  BY <1>1, <1>2, JournalKept
<1>4. outside' \in 0 .. MaxOutside /\ outside' # 0
  BY <1>1, <1>2, ConversionAssumption DEF TypeOK
<1>5. /\ image' \in [Owners -> Image]
      /\ \A o \in Owners : image'[o] \in {image[o], v}
      /\ eeprom' \in {eeprom, v} /\ (~Ms41 => eeprom' = eeprom)
  BY <1>2 DEF ForeignCoding, TypeOK, Image
<1>6. TypeOK'
  BY <1>1, <1>2, <1>3, <1>4, <1>5 DEF TypeOK, Image
<1>7. VehicleInv'
  <2>1. /\ \A o \in Owners : image'[o] \in {"target", "torn"} => image'[o] = image[o]
        /\ eeprom' \in {"target", "torn"} => eeprom' = eeprom
    BY <1>5
  <2>2. ~Ms41' => eeprom' = "before"
    BY <1>1, <1>2, <1>5 DEF VehicleInv, Ms41
  <2>3. relearn' => Recoverable' # {}
    BY <1>1, <1>2, <1>3 DEF VehicleInv
  <2>4. ASSUME NEW id \in Recoverable
        PROVE  /\ \A o \in Owners :
                    /\ image'[o] \in {"target", "torn"} => o \in Att(id)
                    /\ (image'[o] = "torn" /\ journal[id].plan.action # "convert") => o \in Unc(id)
               /\ eeprom' \in {"target", "torn"} => Eeprom \in Att(id)
               /\ eeprom' = "torn" => Eeprom \in Unc(id)
               /\ relearn => Dme \in Att(id)
    BY <1>2, <2>1 DEF VehicleInv
  <2>5. pc' \notin Writing \cup {"create"}
    BY <1>1 DEF Writing, Stepping
  <2>6. QED
    BY <1>1, <1>3, <1>4, <2>2, <2>3, <2>4, <2>5 DEF VehicleInv
<1>8. QED
  BY <1>1, <1>3, <1>6, <1>7, IdleKept DEF IInv

LEMMA CrashKeeps ==
    ASSUME IInv, Crash
    PROVE  IInv'
<1>1. /\ session' = NoSession /\ pc' = "idle" /\ todo' = {} /\ Fault
      /\ UNCHANGED <<vehicle, journal, family, outside>>
  BY DEF Crash
<1>2. TaskInv'
  BY <1>1, AtIdle DEF IdleInv
<1>3. QED
  BY <1>1, <1>2, UnjournalledStep DEF Writing, Stepping, Pcs
---------------------------------------------------------------------------
(* The inductive invariant.                                                *)

LEMMA InitEstablishes == Init => IInv
<1> SUFFICES ASSUME Init
             PROVE  IInv
  OBVIOUS
<1>1. /\ family \in Families
      /\ image = [o \in Owners |-> "before"]
      /\ eeprom = "before" /\ mode = "source" /\ relearn = FALSE
      /\ journal = [id \in Ids |-> J!NoRecord]
      /\ session = NoSession /\ pc = "idle" /\ todo = {}
      /\ faults = 0 /\ outside = 0
  BY DEF Init
<1>2. TypeOK
  <2>1. J!TypeOK
    BY <1>1 DEF J!TypeOK
  <2>2. 0 \in 0 .. MaxFaults /\ 0 \in 0 .. MaxOutside
    BY ConversionAssumption
  <2>3. QED
    BY <1>1, <2>1, <2>2 DEF TypeOK, Image, Modes, Pcs
<1>3. Used = {} /\ Recoverable = {}
  BY <1>1 DEF Used, Recoverable, J!Exists
<1>4. JournalInv
  <2>1. 0 \in 0 .. MaxRecords /\ 1 .. 0 = {}
    BY ConversionAssumption
  <2>2. QED
    BY <1>3, <2>1 DEF JournalInv
<1>5. TaskInv
  BY <1>1 DEF TaskInv, IdleInv, Writing, Stepping
<1>6. VehicleInv
  BY <1>1, <1>3 DEF VehicleInv, NoForeign, Writing, Stepping
<1>7. QED
  BY <1>2, <1>4, <1>5, <1>6 DEF IInv

LEMMA StutterKeeps ==
    ASSUME IInv, UNCHANGED vars
    PROVE  IInv'
<1>1. /\ UNCHANGED <<family, image, eeprom, mode, relearn>>
      /\ UNCHANGED <<journal, session, pc, todo, faults, outside>>
  BY DEF vars, vehicle
<1>2. TypeOK /\ J!TypeOK /\ JournalInv /\ VehicleInv
  BY DEF IInv, TypeOK
<1>3. /\ JournalInv' /\ J!TypeOK' /\ Recoverable' = Recoverable
      /\ \A id : Att(id)' = Att(id) /\ Unc(id)' = Unc(id)
  BY <1>1, <1>2, JournalKept
<1>4. TypeOK'
  BY <1>1, <1>2, <1>3 DEF TypeOK
<1>5. VehicleInv'
  BY <1>1, <1>2, <1>3, VehicleFrame DEF vehicle, VehicleInv
<1>6. TaskInv'
  <2>1. TaskInv
    BY DEF IInv
  <2>2. (TaskInv)' <=> TaskInv
    BY <1>1 DEF TaskInv, IdleInv, UnusedSession, AwaitingCycle, Awaits, ActivePhase, CreateInv,
       NextId, Used, J!Exists, Recoverable, J!Incomplete, Superseded, Supersedes, Original,
       Converted, AllAre, Ms41, Att, Unc, Attempted, Uncertain, Chain, ClosedUnderSupersedes,
       WritesOf, OpenInv, StepInv, OfFamily, Subject, First, Rank, ConvertInv, RollbackInv,
       InsideModuleWrite, VerifyInv, J!InPhase, J!AllComplete
  <2>3. QED
    BY <2>1, <2>2
<1>7. QED
  BY <1>3, <1>4, <1>5, <1>6 DEF IInv

LEMMA NextKeeps == IInv /\ [Next]_vars => IInv'
<1> SUFFICES ASSUME IInv, [Next]_vars
             PROVE  IInv'
  OBVIOUS
<1>1. CASE Task
  <2>1. CASE CreateRecord
    BY <2>1, CreateRecordKeeps
  <2>2. CASE MarkIntent
    BY <2>2, MarkIntentKeeps
  <2>3. CASE WriteOwner
    BY <2>3, WriteOwnerKeeps
  <2>4. CASE ResetDme
    BY <2>4, ResetDmeKeeps
  <2>5. CASE WriteEeprom
    BY <2>5, WriteEepromKeeps
  <2>6. CASE MarkComplete
    BY <2>6, MarkCompleteKeeps
  <2>7. CASE MarkAwaiting
    BY <2>7, MarkAwaitingKeeps
  <2>8. CASE Rollback
    BY <2>8, RollbackKeeps
  <2>9. CASE RollbackDone
    BY <2>9, RollbackDoneKeeps
  <2>10. CASE MarkRolledBack
    BY <2>10, MarkRolledBackKeeps
  <2>11. CASE MarkRollbackRestored
    BY <2>11, MarkRollbackRestoredKeeps
  <2>12. CASE ReportFailure
    BY <2>12, ReportFailureKeeps
  <2>13. CASE Verify
    BY <2>13, VerifyKeeps
  <2>14. CASE MarkVerified
    BY <2>14, MarkVerifiedKeeps
  <2>15. CASE Settle
    BY <2>15, SettleKeeps
  <2>16. CASE CloseUntouched
    BY <2>16, CloseUntouchedKeeps
  <2>17. QED
    BY <1>1, <2>1, <2>2, <2>3, <2>4, <2>5, <2>6, <2>7, <2>8, <2>9, <2>10,
       <2>11, <2>12, <2>13, <2>14, <2>15, <2>16 DEF Task
<1>2. CASE User
  <2>1. CASE Prepare
    BY <2>1, PrepareKeeps
  <2>2. CASE StartConvert
    BY <2>2, StartConvertKeeps
  <2>3. CASE StartVerify
    BY <2>3, StartVerifyKeeps
  <2>4. CASE RecoverVerification
    BY <2>4, RecoverVerificationKeeps
  <2>5. CASE \E action \in {"target", "original"} : RecoverWrites(action)
    BY <2>5, RecoverWritesKeeps
  <2>6. QED
    BY <1>2, <2>1, <2>2, <2>3, <2>4, <2>5 DEF User
<1>3. CASE CycleIgnition
  BY <1>3, CycleIgnitionKeeps
<1>4. CASE OtherTask
  BY <1>4, ForeignCodingKeeps DEF OtherTask
<1>5. CASE OtherTester
  BY <1>5, ForeignCodingKeeps DEF OtherTester
<1>6. CASE Crash
  BY <1>6, CrashKeeps
<1>7. CASE UNCHANGED vars
  BY <1>7, StutterKeeps
<1>8. QED
  BY <1>1, <1>2, <1>3, <1>4, <1>5, <1>6, <1>7 DEF Next

(* Every reachable state satisfies the inductive invariant: what the task  *)
(* is about to do, what the journal says of it, and what the vehicle holds *)
(* always fit together.                                                    *)
THEOREM ConversionInvariant == Spec => []IInv
<1>1. Init => IInv
  BY InitEstablishes
<1>2. IInv /\ [Next]_vars => IInv'
  BY NextKeeps
<1>3. QED
  BY <1>1, <1>2, PTL DEF Spec

(* Every variable holds a value of its kind.                               *)
THEOREM ConversionTyped == Spec => []TypeOK
<1>1. IInv => TypeOK
  BY DEF IInv
<1>2. QED
  BY <1>1, ConversionInvariant, PTL
---------------------------------------------------------------------------
(* What follows from the invariant.                                        *)

LEMMA NeverRefused ==
    ASSUME IInv
    PROVE  JournalNeverRefuses
<1>1. TypeOK /\ JournalInv /\ TaskInv
  BY DEF IInv
<1>2. ASSUME pc = "create"
      PROVE  J!CanCreate(session.op)
  <2>1. session.op = NextId
    BY <1>1, <1>2 DEF TaskInv, CreateInv
  <2>2. PICK n \in 0 .. MaxRecords : Used = 1 .. n
    BY <1>1 DEF JournalInv
  <2>3. NextId = n + 1 /\ NextId \notin Used
    BY <2>2, UsedCount
  <2>4. session.op \in Ids
    BY <1>1, <1>2 DEF TaskInv
  <2>5. QED
    BY <2>1, <2>3, <2>4 DEF J!CanCreate, Used
<1>3. ASSUME pc \in Writing
      PROVE  J!InPhase(session.op, "writing")
  <2>1. session.op \in Used /\ journal[session.op].phase = "writing"
    BY <1>3, AtWork
  <2>2. QED
    BY <2>1 DEF J!InPhase, Used
<1>4. pc = "intent" => J!CanMarkWriteIntent(session.op, First(todo))
  BY <1>1, <1>3 DEF J!CanMarkWriteIntent, TaskInv, StepInv, Writing, Stepping
<1>5. pc = "complete" => J!CanMarkWriteComplete(session.op, First(todo))
  BY <1>1, <1>3 DEF J!CanMarkWriteComplete, TaskInv, StepInv, Writing, Stepping
<1>6. pc = "await" => J!CanMarkAwaitingCycle(session.op)
  BY <1>1, <1>3 DEF J!CanMarkAwaitingCycle, TaskInv, Writing
<1>7. pc = "rb_failed" => J!CanMarkFailed(session.op, "error")
  BY <1>3 DEF J!CanMarkFailed, Writing
<1>8. pc = "rb_restored" => J!CanMarkRestored(session.op)
  BY <1>1 DEF TaskInv, OpenInv, Recoverable, Used, J!CanMarkRestored, J!InPhase
<1>9. pc = "v_mark" => J!CanMarkFinalVerified(session.op)
  BY <1>1 DEF TaskInv, VerifyInv, J!CanMarkFinalVerified
<1>10. QED
  BY <1>2, <1>4, <1>5, <1>6, <1>7, <1>8, <1>9 DEF JournalNeverRefuses

LEMMA AtMostOneOpen ==
    ASSUME IInv
    PROVE  OneOpenConversion
<1>1. \A a, b \in Recoverable : a = b
  BY DEF IInv, JournalInv
<1>2. CASE Recoverable = {}
  BY <1>2, FS_EmptySet DEF OneOpenConversion
<1>3. CASE Recoverable # {}
  <2>1. PICK id : id \in Recoverable
    BY <1>3
  <2>2. Recoverable = {id}
    BY <1>1, <2>1
  <2>3. QED
    BY <2>2, FS_Singleton DEF OneOpenConversion
<1>4. QED
  BY <1>2, <1>3

(* The two wrong engine computers never appear in a chain.                 *)
LEMMA ComputerOfFamily ==
    ASSUME JournalInv, NEW id \in Recoverable
    PROVE  (IF Ms41 THEN Dme ELSE Eeprom) \notin Att(id)
<1>1. id \in Used
  BY DEF Recoverable
<1>2. QED
  BY <1>1, AttemptsOfFamily DEF OfFamily

(* The preflight refuses an undisturbed vehicle only over a torn rollback  *)
(* or a chain of records that is too long to follow.                       *)
RefusedOnlyTornOrLong ==
    (pc = "idle" /\ outside = 0) =>
        \A id \in Recoverable :
            \/ ActivePhase(id) = "awaiting_cycle"
            \/ Preflight(id)
            \/ TornByRollback(id) /\ journal[id].plan.action = "convert"
            \/ ~(Cardinality(Chain(id)) <= ChainLimit)

LEMMA RefusalsExplained ==
    ASSUME IInv
    PROVE  RefusedOnlyTornOrLong
<1>1. SUFFICES ASSUME outside = 0, NEW id \in Recoverable,
                      Cardinality(Chain(id)) <= ChainLimit,
                      ~(TornByRollback(id) /\ journal[id].plan.action = "convert")
               PROVE  Preflight(id)
  BY DEF RefusedOnlyTornOrLong
<1>2. JournalInv /\ VehicleInv /\ NoForeign /\ TypeOK
  BY <1>1 DEF IInv, VehicleInv
<1>3. ASSUME NEW o \in Owners
      PROVE  OwnerRecoverable(o, Att(id), Unc(id))
  <2>1. image[o] \in {"before", "target", "torn"}
    BY <1>2 DEF TypeOK, Image, NoForeign
  <2>2. image[o] # "before" => o \in Att(id)
    BY <1>1, <1>2, <2>1 DEF VehicleInv
  <2>3. image[o] = "torn" => o \in Unc(id)
    BY <1>1, <1>2, <2>2 DEF VehicleInv, TornByRollback, Att, Unc
  <2>4. QED
    BY <2>1, <2>2, <2>3 DEF OwnerRecoverable
<1>4. DmeRecoverable(Att(id), Unc(id))
  <2>1. eeprom \in {"before", "target", "torn"}
    BY <1>2 DEF TypeOK, Image, NoForeign
  <2>2. /\ eeprom # "before" => Eeprom \in Att(id)
        /\ eeprom = "torn" => Eeprom \in Unc(id)
        /\ mode # "source" => Dme \in Att(id) \/ Eeprom \in Att(id)
    BY <1>1, <1>2, <2>1 DEF VehicleInv, TypeOK, Modes
  <2>3. (IF Ms41 THEN Dme ELSE Eeprom) \notin Att(id)
    BY <1>2, ComputerOfFamily
  <2>4. QED
    BY <2>1, <2>2, <2>3 DEF DmeRecoverable
<1>5. QED
  BY <1>1, <1>3, <1>4 DEF Preflight, Att, Unc

LEMMA ChainBounded ==
    ASSUME NEW id \in Used
    PROVE  Cardinality(Chain(id)) <= MaxRecords
<1>1. MaxRecords \in Nat /\ 1 \in Int /\ MaxRecords \in Int
  BY ConversionAssumption
<1>2. IsFiniteSet(1 .. MaxRecords)
      /\ Cardinality(1 .. MaxRecords) = IF 1 > MaxRecords THEN 0 ELSE MaxRecords - 1 + 1
  BY <1>1, FS_Interval
<1>3. Chain(id) \subseteq 1 .. MaxRecords
  BY ChainBasics DEF Used, Ids
<1>4. Cardinality(Chain(id)) <= Cardinality(1 .. MaxRecords)
  BY <1>2, <1>3, FS_Subset
<1>5. Cardinality(1 .. MaxRecords) = MaxRecords
  BY <1>1, <1>2
<1>6. QED
  BY <1>4, <1>5

(* How a step changes which conversion is open: it opens one on an original *)
(* vehicle, replaces the open one by its recovery, closes it on a vehicle  *)
(* that is all of one coding, or leaves it open.                           *)
RecordStep ==
    \/ Recoverable' = Recoverable
    \/ /\ UNCHANGED <<vehicle, family>>
       /\ \/ /\ \E id : id \notin Used /\ Recoverable' = {id}
             /\ Recoverable = {} => Original
          \/ Recoverable' \subseteq Recoverable /\ (Original \/ Converted)

LEMMA RecordStepOfTask ==
    ASSUME IInv, Task
    PROVE  RecordStep
<1>1. TypeOK /\ J!TypeOK /\ JournalInv /\ TaskInv
  BY DEF IInv, TypeOK
<1>2. CASE UNCHANGED <<journal, family>>
  BY <1>2, JournalKept DEF RecordStep
<1>3. CASE CreateRecord
  <2>1. /\ pc = "create" /\ CreateInv /\ session \in Sessions /\ session.op \in Ids
        /\ UNCHANGED <<vehicle, family>>
    BY <1>1, <1>3 DEF CreateRecord, TaskInv
  <2>2. PICK plan : plan = [ token |-> IF session.action = "convert" THEN session.op
                                       ELSE journal[session.prior].plan.token,
                             action |-> session.action,
                             supersedes |-> session.prior ]
    OBVIOUS
  <2>3. PICK id \in Ids : id = session.op
    BY <2>1
  <2>4. CASE J!Create(id, plan)
    <3>1. CreateFrame(id, plan)
      BY <1>1, <2>1, <2>2, <2>3, <2>4, CreateCall
    <3>2. Recoverable = {} => Original
      BY <2>1 DEF CreateInv
    <3>3. QED
      BY <2>1, <3>1, <3>2 DEF CreateFrame, RecordStep
  <2>5. QED
    BY <1>2, <1>3, <2>1, <2>2, <2>3, <2>4 DEF CreateRecord, Raises
<1>4. ASSUME NEW v \in {"intent", "complete"}, NEW id \in Used, NEW n \in Names, OfFamily(n[2]),
             journal[id].phase = "writing", UNCHANGED family,
             J!Save(id, [journal[id] EXCEPT !.writes[n] = v])
      PROVE  RecordStep
  BY <1>1, <1>4, WriteCall DEF WriteFrame, RecordStep
<1>5. CASE MarkIntent
  <2>1. pc \in Writing /\ pc \in Stepping /\ UNCHANGED family
    BY <1>5 DEF MarkIntent, Writing, Stepping
  <2>2. PICK id \in Used, n \in Names : id = session.op /\ n = First(todo)
    BY <2>1, AtWork
  <2>3. OfFamily(n[2]) /\ journal[id].phase = "writing"
    BY <2>1, <2>2, AtWork
  <2>4. CASE J!MarkWriteIntent(id, n)
    BY <1>4, <2>1, <2>3, <2>4 DEF J!MarkWriteIntent
  <2>5. QED
    BY <1>2, <1>5, <2>1, <2>2, <2>4 DEF MarkIntent, Raises
<1>6. CASE MarkComplete
  <2>1. pc \in Writing /\ pc \in Stepping /\ UNCHANGED family
    BY <1>6 DEF MarkComplete, Writing, Stepping
  <2>2. PICK id \in Used, n \in Names : id = session.op /\ n = First(todo)
    BY <2>1, AtWork
  <2>3. OfFamily(n[2]) /\ journal[id].phase = "writing"
    BY <2>1, <2>2, AtWork
  <2>4. CASE J!MarkWriteComplete(id, n)
    BY <1>4, <2>1, <2>3, <2>4 DEF J!MarkWriteComplete
  <2>5. QED
    BY <1>2, <1>6, <2>1, <2>2, <2>4 DEF MarkComplete, Raises
<1>7. CASE MarkAwaiting
  <2>1. pc \in Writing /\ UNCHANGED family
    BY <1>7 DEF MarkAwaiting, Writing
  <2>2. PICK id \in Used : id = session.op
    BY <2>1, AtWork
  <2>3. CASE J!MarkAwaitingCycle(id)
    BY <1>1, <2>1, <2>3, AwaitingCall DEF RecordStep
  <2>4. QED
    BY <1>2, <1>7, <2>1, <2>2, <2>3 DEF MarkAwaiting, Raises
<1>8. CASE MarkRolledBack
  <2>1. pc \in Writing /\ UNCHANGED family
    BY <1>8 DEF MarkRolledBack, Writing
  <2>2. PICK id \in Used : id = session.op
    BY <2>1, AtWork
  <2>3. CASE J!MarkFailed(id, "error")
    BY <1>1, <2>1, <2>3, FailedCall DEF RecordStep
  <2>4. QED
    BY <1>2, <1>8, <2>1, <2>2, <2>3 DEF MarkRolledBack, Raises
<1>9. CASE MarkRollbackRestored
  <2>1. pc = "rb_restored" /\ UNCHANGED <<vehicle, family>> /\ OpenInv /\ Original
    BY <1>1, <1>9 DEF MarkRollbackRestored, TaskInv, RollbackInv
  <2>2. PICK id \in Used : id = session.op
    BY <2>1 DEF OpenInv, Recoverable
  <2>3. CASE J!MarkRestored(id)
    BY <1>1, <2>1, <2>3, RestoredCall DEF PhaseFrame, RecordStep
  <2>4. QED
    BY <1>2, <1>9, <2>1, <2>2, <2>3 DEF MarkRollbackRestored, Raises
<1>10. CASE ReportFailure
  <2>1. UNCHANGED family /\ session.op \in Ids
    BY <1>1, <1>10 DEF ReportFailure, TaskInv
  <2>2. PICK id \in Ids : id = session.op
    BY <2>1
  <2>3. CASE J!MarkFailed(id, "error")
    <3>1. id \in Used
      BY <2>3 DEF J!MarkFailed, J!CanMarkFailed, J!InPhase, Used
    <3>2. QED
      BY <1>1, <2>1, <2>3, <3>1, FailedCall DEF RecordStep
  <2>4. QED
    BY <1>2, <1>10, <2>1, <2>2, <2>3 DEF ReportFailure
<1>11. CASE MarkVerified
  <2>1. pc = "v_mark" /\ UNCHANGED <<vehicle, family>> /\ VerifyInv /\ (Original \/ Converted)
    BY <1>1, <1>11 DEF MarkVerified, TaskInv, VerifyInv
  <2>2. PICK id \in Used : id = session.op
    BY <1>1, <2>1 DEF VerifyInv, J!InPhase, Used, TaskInv
  <2>3. CASE J!MarkFinalVerified(id)
    BY <1>1, <2>1, <2>3, VerifiedCall DEF PhaseFrame, RecordStep
  <2>4. QED
    BY <1>2, <1>11, <2>1, <2>2, <2>3 DEF MarkVerified, Raises
<1>12. CASE Settle
  <2>1. pc = "settle" /\ UNCHANGED family /\ session.op \in Used
    BY <1>1, <1>12 DEF Settle, TaskInv
  <2>2. PICK older \in SUBSET Used : older = Chain(session.op) \ {session.op}
    BY <2>1, ChainBasics
  <2>3. \A j \in older : j \notin Recoverable
    BY <1>1, <2>1, <2>2, OlderSuperseded
  <2>4. CASE (\E j \in older : J!Incomplete(j)) /\ CloseNewest(older)
    <3>1. PICK id \in older : PhaseFrame(id)
      BY <1>1, <2>1, <2>4, CloseCall
    <3>2. QED
      BY <2>3, <3>1, ClosedUnseen DEF RecordStep
  <2>5. QED
    BY <1>2, <1>12, <2>1, <2>2, <2>4 DEF Settle, Finished, Raises
<1>13. CASE CloseUntouched
  <2>1. pc = "close" /\ UNCHANGED <<vehicle, family>> /\ Original /\ session.prior \in Used
    BY <1>1, <1>13 DEF CloseUntouched, TaskInv
  <2>2. PICK chain \in SUBSET Used : chain = Chain(session.prior)
    BY <2>1, ChainBasics
  <2>3. CASE (\E j \in chain : J!Incomplete(j)) /\ CloseNewest(chain)
    <3>1. PICK id \in chain : PhaseFrame(id)
      BY <1>1, <2>1, <2>3, CloseCall
    <3>2. QED
      BY <2>1, <3>1 DEF PhaseFrame, RecordStep
  <2>4. QED
    BY <1>2, <1>13, <2>1, <2>2, <2>3 DEF CloseUntouched, Finished, Raises
<1>14. CASE WriteOwner \/ ResetDme \/ WriteEeprom \/ Rollback \/ RollbackDone \/ Verify
  BY <1>2, <1>14 DEF WriteOwner, ResetDme, WriteEeprom, Rollback, RollbackDone, Verify
<1>15. QED
  BY <1>3, <1>5, <1>6, <1>7, <1>8, <1>9, <1>10, <1>11, <1>12, <1>13, <1>14 DEF Task

LEMMA RecordStepAlways ==
    ASSUME IInv, [Next]_vars
    PROVE  RecordStep
<1>1. TypeOK /\ J!TypeOK /\ JournalInv
  BY DEF IInv, TypeOK
<1>2. CASE UNCHANGED <<journal, family>>
  BY <1>2, JournalKept DEF RecordStep
<1>3. CASE StartVerify
  <2>1. pc = "idle" /\ AwaitingCycle /\ UNCHANGED family
    BY <1>3 DEF StartVerify
  <2>2. PICK id \in Used : id = session.op
    BY <2>1, AtWaiting
  <2>3. CASE J!Resume(id)
    BY <1>1, <2>1, <2>3, ResumeCall DEF RecordStep
  <2>4. QED
    BY <1>2, <1>3, <2>1, <2>2, <2>3 DEF StartVerify, Raises
<1>4. CASE RecoverVerification
  <2>1. UNCHANGED family
    BY <1>4 DEF RecoverVerification
  <2>2. PICK id \in Used : J!Resume(id) \/ UNCHANGED journal
    BY <1>4 DEF RecoverVerification, Recoverable
  <2>3. CASE J!Resume(id)
    BY <1>1, <2>1, <2>3, ResumeCall DEF RecordStep
  <2>4. QED
    BY <1>2, <2>1, <2>2, <2>3
<1>5. CASE Prepare \/ StartConvert \/ \E action \in {"target", "original"} : RecoverWrites(action)
  BY <1>2, <1>5 DEF Prepare, StartConvert, RecoverWrites
<1>6. CASE CycleIgnition \/ OtherTask \/ OtherTester \/ Crash
  BY <1>2, <1>6 DEF CycleIgnition, OtherTask, OtherTester, ForeignCoding, Crash
<1>7. CASE UNCHANGED vars
  BY <1>2, <1>7 DEF vars
<1>8. QED
  BY <1>3, <1>4, <1>5, <1>6, <1>7, RecordStepOfTask DEF Next, User
---------------------------------------------------------------------------
(* The journal refuses no call of the task, in any history of any length.  *)
THEOREM ConversionNeverRefused == Spec => []JournalNeverRefuses
<1>1. IInv => JournalNeverRefuses
  BY NeverRefused
<1>2. QED
  BY <1>1, ConversionInvariant, PTL

(* Every coding the conversion has changed, of any number of owners, is    *)
(* named by an intent in the chain its recovery will read.                 *)
THEOREM ConversionWrittenAhead == Spec => []WrittenAhead
<1>1. IInv => WrittenAhead
  BY DEF IInv, VehicleInv, WrittenAhead, Att
<1>2. QED
  BY <1>1, ConversionInvariant, PTL

(* Recovery never has to choose between two open histories.                *)
THEOREM OneConversionOpen == Spec => []OneOpenConversion
<1>1. IInv => OneOpenConversion
  BY AtMostOneOpen
<1>2. QED
  BY <1>1, ConversionInvariant, PTL

(* An open conversion nobody has disturbed passes the preflight of its own *)
(* recovery, whatever interrupted it, but for a torn rollback and for a    *)
(* chain longer than the program follows.                                  *)
THEOREM RecoveryRefusals == Spec => []RefusedOnlyTornOrLong
<1>1. IInv => RefusedOnlyTornOrLong
  BY RefusalsExplained
<1>2. QED
  BY <1>1, ConversionInvariant, PTL

(* So as long as fewer operations have been journalled than a recovery can *)
(* follow, a torn rollback is the only thing that can shut recovery out.   *)
THEOREM RecoveryStaysOpen ==
    ASSUME MaxRecords <= ChainLimit
    PROVE  Spec => []RecoveryOpen
<1>1. \A id \in Used : Cardinality(Chain(id)) <= ChainLimit
  <2>1. SUFFICES ASSUME NEW id \in Used
                 PROVE  Cardinality(Chain(id)) <= ChainLimit
    OBVIOUS
  <2>2. Cardinality(Chain(id)) <= MaxRecords
    BY ChainBounded
  <2>3. Cardinality(Chain(id)) \in Nat
    <3>1. MaxRecords \in Int /\ 1 \in Int
      BY ConversionAssumption
    <3>2. IsFiniteSet(1 .. MaxRecords)
      BY <3>1, FS_Interval
    <3>3. IsFiniteSet(Chain(id))
      BY <3>2, ChainBasics, FS_Subset DEF Used, Ids
    <3>4. QED
      BY <3>3, FS_CardinalityType
  <2>4. QED
    BY <2>2, <2>3, ConversionAssumption
<1>2. IInv => RecoveryOpen
  BY <1>1, AtMostOneOpen, RefusalsExplained
     DEF RecoveryOpen, RefusedOnlyAfterTornRollback, RefusedOnlyTornOrLong, Recoverable
<1>3. QED
  BY <1>2, ConversionInvariant, PTL

(* A record that is closed or superseded never comes back: no crash between *)
(* closing the newest record and settling the older ones offers them again. *)
THEOREM ClosedRecordsStayClosed == Spec => ClosedStaysClosed
<1>1. IInv /\ [Next]_vars =>
          [\A id \in Used : id \notin Recoverable => id \notin Recoverable']_vars
  BY RecordStepAlways DEF RecordStep
<1>2. QED
  BY <1>1, ConversionInvariant, PTL DEF Spec, ClosedStaysClosed

(* No step of the conversion or of its recovery overwrites a coding it did *)
(* not make itself.                                                        *)
THEOREM ForeignCodingIsKept == Spec => ForeignCodingKept
<1>1. ASSUME IInv, [Next]_vars, outside' = outside
      PROVE  /\ \A o \in Owners : image[o] = "foreign" => image'[o] = "foreign"
             /\ eeprom = "foreign" => eeprom' = "foreign"
  <2>1. pc \in Writing => NoForeign
    BY <1>1 DEF IInv, VehicleInv
  <2>2. CASE UNCHANGED <<image, eeprom>>
    BY <2>2
  <2>3. CASE WriteOwner \/ WriteEeprom \/ Rollback
    BY <2>1, <2>3 DEF WriteOwner, WriteEeprom, Rollback, Writing, Stepping, NoForeign
  <2>4. CASE OtherTask \/ OtherTester
    <3>1. outside' = outside + 1 /\ outside \in 0 .. MaxOutside
      BY <1>1, <2>4 DEF OtherTask, OtherTester, ForeignCoding, IInv, TypeOK
    <3>2. QED
      BY <1>1, <3>1, ConversionAssumption
  <2>5. CASE Task /\ ~(WriteOwner \/ WriteEeprom \/ Rollback)
    BY <2>2, <2>5
       DEF Task, vehicle, CreateRecord, MarkIntent, ResetDme, MarkComplete, MarkAwaiting,
           RollbackDone, MarkRolledBack, MarkRollbackRestored, ReportFailure, Verify,
           MarkVerified, Settle, CloseUntouched
  <2>6. CASE User \/ CycleIgnition \/ Crash \/ UNCHANGED vars
    BY <2>2, <2>6
       DEF User, vehicle, vars, Prepare, StartConvert, StartVerify, RecoverVerification,
           RecoverWrites, CycleIgnition, Crash
  <2>7. QED
    BY <1>1, <2>3, <2>4, <2>5, <2>6 DEF Next
<1>2. IInv /\ [Next]_vars =>
          [outside' = outside =>
              /\ \A o \in Owners : image[o] = "foreign" => image'[o] = "foreign"
              /\ eeprom = "foreign" => eeprom' = "foreign"]_vars
  BY <1>1
<1>3. QED
  BY <1>2, ConversionInvariant, PTL DEF Spec, ForeignCodingKept

(* The conversion implements the atomic one: a step opens a record on the  *)
(* original vehicle, works under it, closes it on a vehicle that is wholly *)
(* original or wholly target, or is a stuttering step.                     *)
THEOREM ConversionIsAtomic == Spec => ImplementsAtomic
<1>1. Init => Atomic!Init
  <2>1. SUFFICES ASSUME Init
                 PROVE  Atomic!Init
    OBVIOUS
  <2>2. Recoverable = {}
    BY <2>1 DEF Init, Recoverable, Used, J!Exists
  <2>3. Original
    BY <2>1 DEF Init, Original, AllAre
  <2>4. QED
    BY <2>2, <2>3 DEF Atomic!Init, Coding
<1>2. ASSUME IInv, [Next]_vars
      PROVE  [Atomic!Next]_<<Recoverable # {}, Coding>>
  <2>1. RecordStep
    BY <1>2, RecordStepAlways
  <2>2. Coding \in Atomic!Coding /\ Coding' \in Atomic!Coding
    BY DEF Coding, Atomic!Coding
  <2>3. CASE Recoverable # {} /\ Recoverable' # {}
    BY <2>2, <2>3 DEF Atomic!Next, Atomic!Work
  <2>4. CASE Recoverable = {} /\ Recoverable' = {}
    BY <2>2, <2>4 DEF Atomic!Next, Atomic!Outside
  <2>5. ASSUME UNCHANGED <<vehicle, family>>
        PROVE  Coding' = Coding
    BY <2>5 DEF Coding, Original, Converted, AllAre, Ms41, vehicle
  <2>6. CASE Recoverable = {} /\ Recoverable' # {}
    <3>1. UNCHANGED <<vehicle, family>> /\ Original
      BY <2>1, <2>6 DEF RecordStep
    <3>2. Coding = "original" /\ Coding' = Coding
      BY <2>5, <3>1 DEF Coding
    <3>3. QED
      BY <2>6, <3>2 DEF Atomic!Next, Atomic!Open
  <2>7. CASE Recoverable # {} /\ Recoverable' = {}
    <3>1. UNCHANGED <<vehicle, family>> /\ (Original \/ Converted)
      BY <2>1, <2>7 DEF RecordStep
    <3>2. Coding \in {"original", "target"} /\ Coding' = Coding
      BY <2>5, <3>1 DEF Coding
    <3>3. QED
      BY <2>7, <3>2 DEF Atomic!Next, Atomic!Close
  <2>8. QED
    BY <2>3, <2>4, <2>6, <2>7
<1>3. QED
  BY <1>1, <1>2, ConversionInvariant, PTL DEF Spec, ImplementsAtomic, Atomic!Spec
=============================================================================
