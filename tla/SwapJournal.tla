---------------------------- MODULE SwapJournal ----------------------------
(***************************************************************************)
(* The durable journal of transmission conversions, SwapOperationJournal   *)
(* of transmission_swap_journal.py: one JSON record per operation, loaded, *)
(* checked and atomically replaced by every call.  Because a call replaces *)
(* the file in one rename, each call is one step; a crash or an I/O error  *)
(* inside a call leaves the old record, that is, a stuttering step.        *)
(*                                                                         *)
(* A record keeps the state of each intended write by its name.  The       *)
(* details stored with an intent are determined by its name in every       *)
(* caller (the digest of the reviewed image), so they are not modelled;    *)
(* the archive and its digest are fixed when the record is created.        *)
(***************************************************************************)
CONSTANTS Ids,       \* operation ids
          Names,     \* names of intended writes ("owner" in the journal)
          Plans,     \* plans a record can be created with
          Messages   \* failure messages

VARIABLE journal

\* The value of journal[id] while no file of that id exists.
NoRecord == [phase |-> "none"]

NoFailure == "none"
ASSUME MessagesAssumption == NoFailure \notin Messages

Phases == {"writing", "awaiting_cycle", "verified", "failed", "restored"}
WriteState == {"absent", "intent", "complete"}

Record == [ phase      : Phases,
            plan       : Plans,
            writes     : [Names -> WriteState],
            failure    : Messages \cup {NoFailure},
            failedFrom : {NoFailure, "writing", "awaiting_cycle"} ]

Exists(id) == journal[id] # NoRecord
InPhase(id, ph) == Exists(id) /\ journal[id].phase = ph

\* SwapJournalRecord.incomplete
Incomplete(id) == Exists(id) /\ journal[id].phase \notin {"verified", "restored"}

Intended(id) == {n \in Names : journal[id].writes[n] # "absent"}
AllComplete(r) ==
    /\ \E n \in Names : r.writes[n] # "absent"
    /\ \A n \in Names : r.writes[n] # "intent"

Save(id, r) == journal' = [journal EXCEPT ![id] = r]
---------------------------------------------------------------------------
(* The public operations.  Each one is its Can... guard and its effect; a  *)
(* call whose guard is false raises and leaves the file alone.             *)

CanCreate(id) == ~Exists(id)
Create(id, plan) ==
    /\ CanCreate(id)
    /\ Save(id, [ phase      |-> "writing",
                  plan       |-> plan,
                  writes     |-> [n \in Names |-> "absent"],
                  failure    |-> NoFailure,
                  failedFrom |-> NoFailure ])

\* An incomplete intent of the same name is accepted again unchanged.
CanMarkWriteIntent(id, n) ==
    InPhase(id, "writing") /\ journal[id].writes[n] # "complete"
MarkWriteIntent(id, n) ==
    /\ CanMarkWriteIntent(id, n)
    /\ Save(id, [journal[id] EXCEPT !.writes[n] = "intent"])

CanMarkWriteComplete(id, n) ==
    InPhase(id, "writing") /\ journal[id].writes[n] # "absent"
MarkWriteComplete(id, n) ==
    /\ CanMarkWriteComplete(id, n)
    /\ Save(id, [journal[id] EXCEPT !.writes[n] = "complete"])

\* Mutant: the handoff does not look at the writes.
CanMarkAwaitingCycleUnfinished(id) ==
    InPhase(id, "awaiting_cycle") \/ InPhase(id, "writing")

CanMarkAwaitingCycle(id) ==
    \/ InPhase(id, "awaiting_cycle")
    \/ InPhase(id, "writing") /\ AllComplete(journal[id])
MarkAwaitingCycle(id) ==
    /\ CanMarkAwaitingCycle(id)
    /\ Save(id, [journal[id] EXCEPT !.phase = "awaiting_cycle"])

CanMarkFinalVerified(id) == InPhase(id, "verified") \/ InPhase(id, "awaiting_cycle")
MarkFinalVerified(id) ==
    /\ CanMarkFinalVerified(id)
    /\ Save(id, [journal[id] EXCEPT !.phase = "verified"])

\* Mutant: a terminal operation can be marked failed.
CanMarkFailedTerminal(id, msg) == Exists(id)

CanMarkFailed(id, msg) ==
    \/ InPhase(id, "failed") /\ journal[id].failure = msg
    \/ InPhase(id, "writing")
    \/ InPhase(id, "awaiting_cycle")
MarkFailed(id, msg) ==
    /\ CanMarkFailed(id, msg)
    /\ IF journal[id].phase = "failed"
       THEN UNCHANGED journal
       ELSE Save(id, [journal[id] EXCEPT !.failedFrom = journal[id].phase,
                                         !.phase = "failed",
                                         !.failure = msg])

CanResume(id) == InPhase(id, "failed")
\* Mutant: failed_from is cleared before the phase is taken from it.
ResumeAfterClearing(id) ==
    /\ CanResume(id)
    /\ Save(id, [journal[id] EXCEPT !.failure = NoFailure,
                                    !.failedFrom = NoFailure,
                                    !.phase = NoFailure])
Resume(id) ==
    /\ CanResume(id)
    /\ Save(id, [journal[id] EXCEPT !.phase = journal[id].failedFrom,
                                    !.failure = NoFailure,
                                    !.failedFrom = NoFailure])

CanMarkRestored(id) == InPhase(id, "restored") \/ InPhase(id, "failed")
MarkRestored(id) ==
    /\ CanMarkRestored(id)
    /\ Save(id, [journal[id] EXCEPT !.phase = "restored"])
---------------------------------------------------------------------------
(* The journal by itself, under a client that may call anything.           *)

Init == journal = [id \in Ids |-> NoRecord]

Next == \E id \in Ids :
    \/ \E p \in Plans : Create(id, p)
    \/ \E n \in Names : MarkWriteIntent(id, n)
    \/ \E n \in Names : MarkWriteComplete(id, n)
    \/ MarkAwaitingCycle(id)
    \/ MarkFinalVerified(id)
    \/ \E msg \in Messages : MarkFailed(id, msg)
    \/ Resume(id)
    \/ MarkRestored(id)

Spec == Init /\ [][Next]_journal
---------------------------------------------------------------------------
(* Every record is absent or has the fields of the schema.                 *)
TypeOK == journal \in [Ids -> Record \cup {NoRecord}]

(* What _validate demands of a record whatever its history.                *)
ValidRecord(r) ==
    /\ r.phase \in {"failed", "restored"} <=> r.failure # NoFailure
    /\ r.phase \in {"failed", "restored"} <=> r.failedFrom # NoFailure
    /\ r.phase \in {"awaiting_cycle", "verified"} => AllComplete(r)

(* No sequence of journal calls ever leaves on disk, or tries to save, a   *)
(* record the journal's own validator refuses: _save runs _validate before *)
(* it writes, and a refusal there would lock the operation in a state no   *)
(* later call could leave.                                                 *)
NeverLockedOut == \A id \in Ids : Exists(id) => ValidRecord(journal[id])

(* Inductive strengthening: a record that failed while it was waiting for  *)
(* the ignition cycle still has every write complete, so resuming it gives *)
(* back a record the validator accepts.                                    *)
FailedKeepsWrites ==
    \A id \in Ids :
        (Exists(id) /\ journal[id].failedFrom = "awaiting_cycle")
            => AllComplete(journal[id])

IInv == TypeOK /\ NeverLockedOut /\ FailedKeepsWrites

KeptFor(id) ==
    Exists(id) =>
      /\ Incomplete(id) \/ journal'[id] = journal[id]
      /\ journal'[id].plan = journal[id].plan
      /\ \A n \in Names :
            journal'[id].writes[n] # journal[id].writes[n] =>
                /\ journal[id].phase = "writing"
                /\ <<journal[id].writes[n], journal'[id].writes[n]>> \in
                       {<<"absent", "intent">>, <<"intent", "complete">>}

(* What a call may never do: reopen a verified or restored record, forget  *)
(* an intent, take back a completion, change the plan a record was created *)
(* with, or add or complete a write outside the writing phase.             *)
HistoryKept == [][\A id \in Ids : KeptFor(id)]_journal
=============================================================================
