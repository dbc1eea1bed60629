----------------------- MODULE TransmissionConversion -----------------------
(***************************************************************************)
(* The guided transmission conversion: transmission_conversion.py, driven  *)
(* by the conversion handlers of gui.py over the durable SwapJournal.      *)
(*                                                                         *)
(* A conversion changes the coding of several modules of one vehicle (the  *)
(* "owners"), then either resets the engine computer (MS42/MS43) or writes *)
(* its four-byte transmission record (MS41), and is verified after an      *)
(* ignition cycle.  The vehicle and the journal survive a crash of the     *)
(* program; the session does not.  An interrupted conversion is recovered  *)
(* from its journal by a new operation that supersedes the old one.        *)
(*                                                                         *)
(* One worker thread runs one task at a time.  A task has a set of writes  *)
(* to make ("todo"), in a fixed order, each in three steps: journal the    *)
(* intent, write the device, journal the completion.                       *)
(***************************************************************************)
EXTENDS Integers, FiniteSets

CONSTANTS NOwners,      \* number of coding owners fitted to the vehicle
          Families,     \* engine-computer families a vehicle may have
          ChainLimit,   \* longest journal chain a recovery follows
          MaxRecords,   \* bound: operations ever journalled
          MaxFaults,    \* bound: device, file and process failures
          MaxOutside    \* bound: coding changes made outside the conversion

ASSUME ConversionAssumption ==
    /\ NOwners \in Nat \ {0}
    /\ Families \subseteq {"MS41", "MS4x"}
    /\ ChainLimit \in Nat \ {0}
    /\ MaxRecords \in Nat \ {0}
    /\ MaxFaults \in Nat
    /\ MaxOutside \in Nat

Owners   == 1 .. NOwners
Dme      == NOwners + 1          \* post-coding reset of an MS42/MS43
Eeprom   == NOwners + 2          \* transmission record of an MS41
Subjects == Owners \cup {Dme, Eeprom}

\* "name", "restore_name" and "target_name" of the journal's write owners.
Stages == {"write", "restore", "target"}
Names  == Stages \X Subjects

Ids     == 1 .. MaxRecords
NoId    == 0
Actions == {"convert", "target", "original"}
Plans   == [token : Ids, action : Actions, supersedes : Ids \cup {NoId}]

\* A torn image is a bytewise mixture of before and target; a foreign one
\* holds bytes of neither.
Image == {"before", "target", "torn", "foreign"}
Modes == {"source", "target"}

VARIABLES
    family,    \* "MS41": transmission record; "MS4x": MS42/MS43, reset
    image,     \* the coding each owner holds
    eeprom,    \* the MS41 transmission record
    mode,      \* transmission mode the engine computer runs
    relearn,   \* an MS42/MS43 reset still lets the next cycle adapt the mode
    journal,   \* SwapJournal records
    session,   \* ConnectedSwapSession held in memory
    pc,        \* where the running task is
    todo,      \* the writes, or rollbacks, the task still has to make
    faults,    \* failures so far
    outside    \* outside changes so far

vehicle == <<image, eeprom, mode, relearn>>
vars == <<family, vehicle, journal, session, pc, todo, faults, outside>>

Ms41 == family = "MS41"

J == INSTANCE SwapJournal WITH Messages <- {"error"}

Pcs == {"idle", "create", "intent", "device", "complete", "await", "rollback",
        "rb_failed", "rb_restored", "fail", "verify", "v_mark", "settle", "close"}
SessionPhases == {"prepared", "modules_written", "awaiting_cycle",
                  "rollback_modules_written", "rollback_awaiting_cycle", "recovery"}

\* op: the journal id of the session; prior: the record a recovery
\* supersedes; written: session.written; seen: the transmission record as
\* read before the task; reset: dme_reset_attempted; dirty: a rollback
\* restore has failed.
Sessions == [ phase : SessionPhases, action : Actions, op : Ids \cup {NoId},
              prior : Ids \cup {NoId}, written : SUBSET Owners,
              seen : Image, reset : BOOLEAN, dirty : BOOLEAN ]
NoSession == [phase |-> "none"]
NewSession(phase, action, op, prior) ==
    [ phase |-> phase, action |-> action, op |-> op, prior |-> prior,
      written |-> {}, seen |-> eeprom, reset |-> FALSE, dirty |-> FALSE ]
---------------------------------------------------------------------------
(* The vehicle as a whole.                                                 *)

AllAre(v, m) == /\ \A o \in Owners : image[o] = v
                /\ mode = m
                /\ Ms41 => eeprom = v
Original == AllAre("before", "source")
Converted == AllAre("target", "target")
---------------------------------------------------------------------------
(* Reading the journal.                                                    *)

Used == {id \in Ids : J!Exists(id)}
NextId == Cardinality(Used) + 1
Supersedes(id) == journal[id].plan.supersedes
\* Mutant: a finished recovery no longer hides the record it superseded.
SupersededWhileOpen(id) ==
    \E later \in Used : Supersedes(later) = id /\ J!Incomplete(later)
Superseded(id) == \E later \in Used : Supersedes(later) = id

\* recoverable_connected_swaps; the newest record of a token by file time is
\* the only visible one of it (OneOpenConversion).
Recoverable == {id \in Used : J!Incomplete(id) /\ ~Superseded(id)}

\* Mutant: only the record itself is read.
ChainOfOne(id) == {id}

\* _recovery_chain: the record and everything it supersedes, transitively.
ClosedUnderSupersedes(S) == \A id \in S : Supersedes(id) \in S \cup {NoId}
Chain(id) == {j \in Used : \A S \in SUBSET Used :
                  (id \in S /\ ClosedUnderSupersedes(S)) => j \in S}

\* _recovery_owner_attempts, and the same for the engine computer.
WritesOf(id, s) == {n \in Names : n[2] = s /\ J!Exists(id) /\ journal[id].writes[n] # "absent"}
Attempted(ids) == {s \in Subjects : \E id \in ids : WritesOf(id, s) # {}}
\* Mutant: an intent without a completion is taken for a completed write.
UncertainNever(ids) == {}
Uncertain(ids) == {s \in Subjects : \E id \in ids : \E n \in WritesOf(id, s) :
                      journal[id].writes[n] = "intent"}

Newest(ids) == CHOOSE id \in ids : \A other \in ids : other <= id

\* load_connected_swap_journal: the stage an interrupted record resumes at.
ActivePhase(id) == IF journal[id].phase = "failed"
                   THEN journal[id].failedFrom ELSE journal[id].phase

\* _assert_session_fresh with the transmission-record recheck.
Fresh == /\ \A o \in Owners : image[o] = "before"
         /\ mode = "source"
         /\ Ms41 => eeprom = "before"

\* Mutant: an owner some record attempted is accepted in any state.
OwnerRecoverableAttempted(o, att, unc) == o \in att \/ image[o] = "before"

\* The checks recover_connected_modules makes before it writes anything.
OwnerRecoverable(o, att, unc) ==
    IF o \notin att
    THEN image[o] = "before"
    ELSE \/ image[o] \in {"before", "target"}
         \/ o \in unc /\ image[o] # "foreign"
DmeRecoverable(att, unc) ==
    IF Ms41
    THEN /\ Eeprom \notin att => eeprom = "before" /\ mode = "source"
         /\ Eeprom \in att => \/ eeprom \in {"before", "target"}
                              \/ eeprom = "torn" /\ Eeprom \in unc
    ELSE Dme \notin att => mode = "source"
Preflight(id) ==
    LET att == Attempted(Chain(id))
        unc == Uncertain(Chain(id))
    IN  /\ Cardinality(Chain(id)) <= ChainLimit
        /\ \A o \in Owners : OwnerRecoverable(o, att, unc)
        /\ DmeRecoverable(att, unc)
---------------------------------------------------------------------------
(* Task plumbing.                                                          *)

\* The order of a task's writes: restores of the owners, newest first, then
\* their writes in the order of the plan, the engine computer last.
Rank(n) == IF n[2] \notin Owners THEN 3 * NOwners
           ELSE IF n[1] = "restore" THEN NOwners - n[2] ELSE NOwners + n[2]
First(names) == CHOOSE n \in names : \A m \in names : Rank(n) <= Rank(m)

Fault == faults < MaxFaults /\ faults' = faults + 1
NoFault == UNCHANGED faults


\* The conversion waits for the user to cycle the ignition and verify.
AwaitingCycle == session.phase \in {"awaiting_cycle", "rollback_awaiting_cycle"}

\* The recovery quarantine of every other state-changing task of the program.
Quarantined == Recoverable # {} \/ AwaitingCycle

\* A failed step of the task.  write_connected_modules rolls back the owners
\* it has reached; everywhere else the failure is only reported.
InsideModuleWrite == session.action = "convert" /\ session.phase = "prepared"
Abort(written) ==
    IF InsideModuleWrite
    THEN /\ pc' = "rollback"
         /\ todo' = {"restore"} \X written
    ELSE pc' = "fail" /\ UNCHANGED todo

\* A journal call raises when its guard refuses it or the file cannot be
\* replaced; the record is then unchanged.
Raises(can) == UNCHANGED journal /\ IF can THEN Fault ELSE NoFault

\* The session phase while the first of names is the next write.
PhaseBefore(names) ==
    IF names # {} /\ First(names)[2] = Eeprom
    THEN IF session.action = "original" THEN "rollback_modules_written"
                                        ELSE "modules_written"
    ELSE session.phase
\* Mutant: the write comes before its intent.
ContinueUnannounced(names) ==
    /\ todo' = names
    /\ pc' = IF names = {} THEN "await" ELSE "device"
    /\ session' = [session EXCEPT !.phase = PhaseBefore(names)]
Continue(names) ==
    /\ todo' = names
    /\ pc' = IF names = {} THEN "await" ELSE "intent"
    /\ session' = [session EXCEPT !.phase = PhaseBefore(names)]
---------------------------------------------------------------------------
(* Starting a conversion.                                                  *)

Prepare ==
    /\ pc = "idle" /\ ~Quarantined /\ Original
    /\ session' = NewSession("prepared", "convert", NoId, NoId)
    /\ UNCHANGED <<vehicle, journal, pc, todo, faults, family, outside>>

\* The owners are compared with the prepared plan and the transmission
\* record is read again; a stale plan is dropped before anything is written.
StartConvert ==
    /\ pc = "idle" /\ session.phase = "prepared" /\ ~Quarantined
    /\ NextId <= MaxRecords
    /\ IF Fresh
       THEN /\ session' = [session EXCEPT !.op = NextId, !.seen = eeprom]
            /\ pc' = "create"
       ELSE session' = NoSession /\ UNCHANGED pc
    /\ UNCHANGED <<vehicle, journal, todo, faults, family, outside>>

\* Mutant: owners are counted from zero.
ConvertWritesFromZero ==
    {"write"} \X ((0 .. NOwners - 1) \cup {IF Ms41 THEN Eeprom ELSE Dme})
ConvertWrites == {"write"} \X (Owners \cup {IF Ms41 THEN Eeprom ELSE Dme})
RecoveryWrites ==
    LET att == Attempted(Chain(session.prior))
        restores == {"restore"} \X (att \cap Owners)
    IN  CASE session.action = "target" ->
               restores \cup ({"target"} \X Owners) \cup
               {IF Ms41 THEN <<"write", Eeprom>> ELSE <<"target", Dme>>}
          [] session.action = "original" ->
               restores \cup
               ({"restore"} \X (IF Ms41 THEN att \cap {Eeprom} ELSE {Dme}))

\* The archive is durable before this call; the first write follows it.
CreateRecord ==
    /\ pc = "create"
    /\ \/ /\ J!Create(session.op,
                [ token |-> IF session.action = "convert" THEN session.op
                            ELSE journal[session.prior].plan.token,
                  action |-> session.action,
                  supersedes |-> session.prior ])
          /\ Continue(IF session.action = "convert" THEN ConvertWrites
                      ELSE RecoveryWrites)
          /\ NoFault
       \/ /\ Raises(J!CanCreate(session.op))
          /\ pc' = "fail"
          /\ UNCHANGED <<session, todo>>
    /\ UNCHANGED <<vehicle, family, outside>>
---------------------------------------------------------------------------
(* One write of the task.                                                  *)

MarkIntent ==
    /\ pc = "intent"
    /\ \/ /\ J!MarkWriteIntent(session.op, First(todo))
          /\ pc' = "device"
          /\ UNCHANGED todo /\ NoFault
       \/ /\ Raises(J!CanMarkWriteIntent(session.op, First(todo)))
          /\ Abort(session.written)
    /\ UNCHANGED <<vehicle, session, family, outside>>

Stage == First(todo)[1]
Subject == First(todo)[2]
Wanted == IF Stage = "restore" THEN "before" ELSE "target"

\* What an interrupted write of v over an image may leave behind.
Interrupted(old, v) == IF old = v THEN {v} ELSE {old, "torn", v}

\* A target write first compares the owner with the plan; a restore does not.
WriteOwner ==
    /\ pc = "device" /\ Subject \in Owners
    /\ LET written == IF Stage = "restore" THEN session.written
                      ELSE session.written \cup {Subject}
       IN  /\ session' = [session EXCEPT !.written = written]
           /\ \/ /\ Stage = "restore" \/ image[Subject] = "before"
                 /\ image' = [image EXCEPT ![Subject] = Wanted]
                 /\ pc' = "complete" /\ UNCHANGED todo /\ NoFault
              \/ /\ Stage # "restore" /\ image[Subject] # "before"
                 /\ UNCHANGED image /\ Abort(written) /\ NoFault
              \/ /\ Fault
                 /\ \E v \in Interrupted(image[Subject], Wanted) :
                       image' = [image EXCEPT ![Subject] = v]
                 /\ Abort(written)
    /\ UNCHANGED <<eeprom, mode, relearn, journal, family, outside>>

\* The reset makes the engine computer adapt to the fitted transmission, at
\* once or over the next ignition cycle; a lost answer hides whether it did.
ResetDme ==
    /\ pc = "device" /\ Subject = Dme
    /\ session' = [session EXCEPT !.reset = TRUE]
    /\ \E m \in Modes : mode' = m
    /\ \/ /\ relearn' = TRUE
          /\ pc' = "complete" /\ UNCHANGED todo /\ NoFault
       \/ /\ relearn' \in {relearn, TRUE}
          /\ Fault /\ Abort(session.written)
    /\ UNCHANGED <<image, eeprom, journal, family, outside>>

\* write_eeprom_record: compare with the record as read before the task,
\* write once, read back.
WriteEeprom ==
    /\ pc = "device" /\ Subject = Eeprom
    /\ \/ /\ eeprom = session.seen
          /\ eeprom' = Wanted
          /\ pc' = "complete" /\ NoFault
       \/ /\ eeprom # session.seen
          /\ UNCHANGED eeprom /\ pc' = "fail" /\ NoFault
       \/ /\ Fault /\ pc' = "fail"
          /\ \E v \in Interrupted(eeprom, Wanted) : eeprom' = v
    /\ UNCHANGED <<image, mode, relearn, journal, session, todo, family, outside>>

MarkComplete ==
    /\ pc = "complete"
    /\ \/ /\ J!MarkWriteComplete(session.op, First(todo))
          /\ Continue(todo \ {First(todo)}) /\ NoFault
       \/ /\ Raises(J!CanMarkWriteComplete(session.op, First(todo)))
          /\ Abort(session.written)
          /\ UNCHANGED session
    /\ UNCHANGED <<vehicle, family, outside>>

MarkAwaiting ==
    /\ pc = "await"
    /\ \/ /\ J!MarkAwaitingCycle(session.op)
          /\ session' = [session EXCEPT !.phase =
                IF session.action = "original" THEN "rollback_awaiting_cycle"
                                               ELSE "awaiting_cycle"]
          /\ pc' = "idle" /\ UNCHANGED todo /\ NoFault
       \/ /\ Raises(J!CanMarkAwaitingCycle(session.op))
          /\ Abort(session.written)
          /\ UNCHANGED session
    /\ UNCHANGED <<vehicle, family, outside>>
---------------------------------------------------------------------------
(* Failure of a task.                                                      *)

\* rollback_connected_modules: newest owner first, going on after an error.
Rollback ==
    /\ pc = "rollback" /\ todo # {}
    /\ todo' = todo \ {First(todo)}
    /\ \/ /\ image' = [image EXCEPT ![Subject] = "before"]
          /\ UNCHANGED session /\ NoFault
       \/ /\ Fault
          /\ \E v \in Interrupted(image[Subject], "before") :
                image' = [image EXCEPT ![Subject] = v]
          /\ session' = [session EXCEPT !.dirty = TRUE]
    /\ UNCHANGED <<eeprom, mode, relearn, journal, pc, family, outside>>

RollbackDone ==
    /\ pc = "rollback" /\ todo = {}
    /\ pc' = IF session.dirty THEN "fail" ELSE "rb_failed"
    /\ UNCHANGED <<vehicle, journal, session, todo, faults, family, outside>>

\* Mutant: the rollback is recorded as restored whatever the engine computer
\* was told.
MarkRolledBackAlways ==
    /\ pc = "rb_failed"
    /\ \/ J!MarkFailed(session.op, "error") /\ pc' = "rb_restored" /\ NoFault
       \/ Raises(J!CanMarkFailed(session.op, "error")) /\ pc' = "fail"
    /\ UNCHANGED <<vehicle, session, todo, family, outside>>

\* A clean rollback is recorded as failed, and as restored unless the engine
\* computer may already have been reset.
MarkRolledBack ==
    /\ pc = "rb_failed"
    /\ \/ /\ J!MarkFailed(session.op, "error")
          /\ pc' = IF session.reset THEN "fail" ELSE "rb_restored"
          /\ NoFault
       \/ /\ Raises(J!CanMarkFailed(session.op, "error"))
          /\ pc' = "fail"
    /\ UNCHANGED <<vehicle, session, todo, family, outside>>

MarkRollbackRestored ==
    /\ pc = "rb_restored"
    /\ pc' = "fail"
    /\ \/ J!MarkRestored(session.op) /\ NoFault
       \/ Raises(J!CanMarkRestored(session.op))
    /\ UNCHANGED <<vehicle, session, todo, family, outside>>

\* _mark_transmission_journal_failed and the failure callback: only a
\* verification can be retried from memory.
ReportFailure ==
    /\ pc = "fail"
    /\ IF J!InPhase(session.op, "writing") \/ J!InPhase(session.op, "awaiting_cycle")
       THEN \/ J!MarkFailed(session.op, "error") /\ NoFault
            \/ UNCHANGED journal /\ Fault
       ELSE UNCHANGED journal /\ NoFault
    /\ session' = IF AwaitingCycle THEN session ELSE NoSession
    /\ pc' = "idle" /\ todo' = {}
    /\ UNCHANGED <<vehicle, family, outside>>
---------------------------------------------------------------------------
(* Final verification.                                                     *)

\* _resume_transmission_journal, at the start of the task.  The user has
\* ticked "cycle completed"; an MS42/MS43 has then adapted its mode.
StartVerify ==
    /\ pc = "idle" /\ AwaitingCycle /\ ~relearn
    /\ \/ /\ J!Resume(session.op)
          /\ pc' = "verify" /\ NoFault
       \/ /\ J!InPhase(session.op, "awaiting_cycle")
          /\ UNCHANGED journal
          /\ pc' = "verify" /\ NoFault
       \/ /\ J!CanResume(session.op)
          /\ Raises(TRUE)
          /\ pc' = "fail"
    /\ UNCHANGED <<vehicle, session, todo, family, outside>>

Verify ==
    /\ pc = "verify"
    /\ LET matches == IF session.phase = "rollback_awaiting_cycle"
                      THEN Original ELSE Converted
       IN  \/ matches /\ pc' = "v_mark" /\ NoFault
           \/ ~matches /\ pc' = "fail" /\ NoFault
           \/ Fault /\ pc' = "fail"
    /\ UNCHANGED <<vehicle, journal, session, todo, family, outside>>

MarkVerified ==
    /\ pc = "v_mark"
    /\ \/ J!MarkFinalVerified(session.op) /\ pc' = "settle" /\ NoFault
       \/ Raises(J!CanMarkFinalVerified(session.op)) /\ pc' = "fail"
    /\ UNCHANGED <<vehicle, session, todo, family, outside>>

\* Mutant: a record is closed without being marked failed first.
CloseNewestAtOnce(ids) == J!MarkRestored(Newest({j \in ids : J!Incomplete(j)}))

\* Close the incomplete records of ids, newest first, each in two calls.
CloseNewest(ids) ==
    LET id == Newest({j \in ids : J!Incomplete(j)})
    IN  IF journal[id].phase = "failed" THEN J!MarkRestored(id)
                                        ELSE J!MarkFailed(id, "error")
Finished ==
    /\ session' = NoSession /\ pc' = "idle"
    /\ UNCHANGED <<journal, faults>>

\* settle_superseded_connected_swaps; an error here only logs a warning.
Settle ==
    /\ pc = "settle"
    /\ LET older == Chain(session.op) \ {session.op}
       IN  IF \A j \in older : ~J!Incomplete(j)
           THEN Finished
           ELSE \/ /\ CloseNewest(older)
                   /\ UNCHANGED <<session, pc>> /\ NoFault
                \/ /\ Raises(TRUE)
                   /\ session' = NoSession /\ pc' = "idle"
    /\ UNCHANGED <<vehicle, todo, family, outside>>
---------------------------------------------------------------------------
(* Recovery of an interrupted conversion.                                  *)

\* A record interrupted at the ignition cycle goes back to verification.
RecoverVerification ==
    /\ pc = "idle" /\ ~AwaitingCycle
    /\ \E id \in Recoverable :
        /\ ActivePhase(id) = "awaiting_cycle"
        /\ IF journal[id].phase = "failed" THEN J!Resume(id) ELSE UNCHANGED journal
        /\ session' = NewSession(
              IF journal[id].plan.action = "original"
              THEN "rollback_awaiting_cycle" ELSE "awaiting_cycle",
              journal[id].plan.action, id, NoId)
    /\ UNCHANGED <<vehicle, pc, todo, faults, family, outside>>

\* Any other record: the user chooses to finish or to restore, and every
\* owner is checked before anything is written.
RecoverWrites(action) ==
    /\ pc = "idle" /\ ~AwaitingCycle /\ NextId <= MaxRecords
    /\ \E id \in Recoverable :
        /\ ActivePhase(id) # "awaiting_cycle"
        /\ session' = IF Preflight(id)
                      THEN NewSession("recovery", action, NextId, id)
                      ELSE NoSession
        /\ pc' = IF ~Preflight(id) THEN "idle"
                 ELSE IF action = "original" /\ Attempted(Chain(id)) = {}
                      THEN "close" ELSE "create"
    /\ UNCHANGED <<vehicle, journal, todo, faults, family, outside>>

\* Nothing was ever written: the whole chain is closed without a new record.
CloseUntouched ==
    /\ pc = "close"
    /\ LET chain == Chain(session.prior)
       IN  IF \A j \in chain : ~J!Incomplete(j)
           THEN Finished
           ELSE \/ /\ CloseNewest(chain)
                   /\ UNCHANGED <<session, pc>> /\ NoFault
                \/ /\ Raises(TRUE)
                   /\ pc' = "fail" /\ UNCHANGED session
    /\ UNCHANGED <<vehicle, todo, family, outside>>
---------------------------------------------------------------------------
(* The surroundings.                                                       *)

\* An MS41 takes its mode from the transmission record when it starts.
CycleIgnition ==
    /\ pc = "idle"
    /\ \/ Ms41 /\ eeprom = "before" /\ mode' = "source"
       \/ Ms41 /\ eeprom = "target" /\ mode' = "target"
       \/ Ms41 /\ eeprom \in {"torn", "foreign"} /\ mode' \in Modes
       \/ ~Ms41 /\ relearn /\ mode' \in Modes
       \/ ~Ms41 /\ ~relearn /\ UNCHANGED mode
    /\ relearn' = FALSE
    /\ UNCHANGED <<image, eeprom, journal, session, pc, todo, faults, family, outside>>

ForeignCoding(v) ==
    /\ outside < MaxOutside /\ outside' = outside + 1
    /\ \/ \E o \in Owners : image' = [image EXCEPT ![o] = v] /\ UNCHANGED eeprom
       \/ Ms41 /\ eeprom' = v /\ UNCHANGED image
    /\ UNCHANGED <<family, mode, relearn, journal, session, pc, todo, faults>>

\* Another coding task of this program, refused while quarantined.
OtherTask == pc = "idle" /\ ~Quarantined /\ ForeignCoding("foreign")

\* Another tester on the same vehicle, between two tasks.
OtherTester == pc = "idle" /\ \E v \in {"before", "foreign"} : ForeignCoding(v)

\* The program ends, or the connection is closed and the plan forgotten.
Crash ==
    /\ session # NoSession
    /\ session' = NoSession /\ pc' = "idle" /\ todo' = {}
    /\ Fault
    /\ UNCHANGED <<vehicle, journal, family, outside>>
---------------------------------------------------------------------------
Init ==
    /\ family \in Families
    /\ image = [o \in Owners |-> "before"]
    /\ eeprom = "before" /\ mode = "source" /\ relearn = FALSE
    /\ journal = [id \in Ids |-> J!NoRecord]
    /\ session = NoSession /\ pc = "idle" /\ todo = {}
    /\ faults = 0 /\ outside = 0

Task ==
    \/ CreateRecord \/ MarkIntent \/ WriteOwner \/ ResetDme \/ WriteEeprom
    \/ MarkComplete \/ MarkAwaiting \/ Rollback \/ RollbackDone
    \/ MarkRolledBack \/ MarkRollbackRestored \/ ReportFailure
    \/ Verify \/ MarkVerified \/ Settle \/ CloseUntouched

User ==
    \/ Prepare \/ StartConvert \/ StartVerify \/ RecoverVerification
    \/ \E action \in {"target", "original"} : RecoverWrites(action)

Next == Task \/ User \/ CycleIgnition \/ OtherTask \/ OtherTester \/ Crash

Spec == Init /\ [][Next]_vars
---------------------------------------------------------------------------
(* Every variable holds a value of its kind.                               *)
TypeOK ==
    /\ family \in Families
    /\ image \in [Owners -> Image]
    /\ eeprom \in Image /\ mode \in Modes /\ relearn \in BOOLEAN
    /\ J!TypeOK
    /\ session \in Sessions \cup {NoSession}
    /\ pc \in Pcs /\ todo \subseteq Names
    /\ faults \in 0 .. MaxFaults /\ outside \in 0 .. MaxOutside

(* Whatever was interrupted, at most one record of the vehicle is open and *)
(* not superseded: the choice by file time in recoverable_connected_swaps  *)
(* never has to decide between two histories of one conversion.            *)
OneOpenConversion == Cardinality(Recoverable) <= 1

(* Write-ahead: while a conversion is open, every owner that no longer     *)
(* holds its original coding is named by an intent somewhere in the chain  *)
(* recovery will read, and so is the engine computer.  Otherwise the       *)
(* preflight would take our own write for a stranger's and refuse it.      *)
WrittenAhead ==
    \A id \in Recoverable :
        LET att == Attempted(Chain(id))
        IN  /\ \A o \in Owners : image[o] \in {"target", "torn"} => o \in att
            /\ eeprom \in {"target", "torn"} => Eeprom \in att
            /\ (mode = "target" /\ outside = 0) => att \cap {Dme, Eeprom} # {}

(* The task never makes a journal call the journal refuses: a refusal in   *)
(* the middle of a conversion would start a rollback, or end a recovery,   *)
(* although no write has failed.                                           *)
JournalNeverRefuses ==
    /\ pc = "create" => J!CanCreate(session.op)
    /\ pc = "intent" => J!CanMarkWriteIntent(session.op, First(todo))
    /\ pc = "complete" => J!CanMarkWriteComplete(session.op, First(todo))
    /\ pc = "await" => J!CanMarkAwaitingCycle(session.op)
    /\ pc = "rb_failed" => J!CanMarkFailed(session.op, "error")
    /\ pc = "rb_restored" => J!CanMarkRestored(session.op)
    /\ pc = "v_mark" => J!CanMarkFinalVerified(session.op)

(* A record that is closed, or superseded by a later operation, never      *)
(* comes back as recoverable: not when the program dies, or the journal    *)
(* fails, between closing the newest record and settling the older ones.   *)
ClosedStaysClosed ==
    [][\A id \in Used : id \notin Recoverable => id \notin Recoverable']_vars

(* A coding that is neither the archived original nor the reviewed target  *)
(* is never overwritten by the conversion or by its recovery: a module     *)
(* somebody else has coded since is left as it is.                         *)
ForeignCodingKept ==
    [][outside' = outside =>
          /\ \A o \in Owners : image[o] = "foreign" => image'[o] = "foreign"
          /\ eeprom = "foreign" => eeprom' = "foreign"]_vars

(* The conversion implements the atomic one: open while a record is        *)
(* recoverable, closed only on a vehicle that is all original or all       *)
(* target.                                                                 *)
Coding == IF Original THEN "original" ELSE IF Converted THEN "target" ELSE "mixed"
Atomic == INSTANCE AtomicConversion WITH open <- (Recoverable # {}), coding <- Coding
ImplementsAtomic == Atomic!Spec

(* Recovery is always possible: whatever failures interrupted it, as long  *)
(* as nobody else has coded the vehicle, an open conversion passes the     *)
(* preflight of its own recovery.                                          *)
RecoveryAdmissible ==
    (pc = "idle" /\ outside = 0) =>
        \A id \in Recoverable :
            ActivePhase(id) # "awaiting_cycle" => Preflight(id)

\* An owner the journal holds for completely written, torn by an unjournalled
\* rollback.
TornByRollback(id) == \E o \in Owners :
    image[o] = "torn" /\ o \in Attempted(Chain(id)) \ Uncertain(Chain(id))

(* The one thing that can shut recovery out: a restore that failed halfway *)
(* during the rollback of the first attempt, on an owner whose write had   *)
(* already been journalled as complete.  No crash, no lost answer and no   *)
(* failed recovery adds another case.                                      *)
RefusedOnlyAfterTornRollback ==
    (pc = "idle" /\ outside = 0) =>
        \A id \in Recoverable :
            \/ ActivePhase(id) = "awaiting_cycle"
            \/ Preflight(id)
            \/ TornByRollback(id) /\ journal[id].plan.action = "convert"

(* So after any history recovery has exactly one conversion to offer, and  *)
(* offers it, but for that one case.                                       *)
RecoveryOpen == OneOpenConversion /\ RefusedOnlyAfterTornRollback

(* A user who cycles the ignition, verifies, and starts the recovery when  *)
(* told to, ends every interrupted conversion of an MS41 (an MS42/MS43     *)
(* chooses its own mode): it is closed, unless a torn rollback shut        *)
(* recovery out or somebody else has coded the vehicle.                    *)
EventuallySettled ==
    (Ms41 /\ Recoverable # {}) ~>
        \/ Recoverable = {} \/ outside > 0
        \/ \E id \in Recoverable : TornByRollback(id)

(* An interrupted conversion that could still be finished or restored by   *)
(* writing, because every module is in a state its recovery would accept,  *)
(* is eventually closed, even when somebody else has coded a module while  *)
(* the conversion was waiting for its ignition cycle.                      *)
RecoveryStaysOffered ==
    (\E id \in Recoverable : Preflight(id)) ~>
        (Recoverable = {} \/ \A id \in Recoverable : ~Preflight(id))

FollowInstructions ==
    \/ StartVerify \/ RecoverVerification
    \/ \E action \in {"target", "original"} : RecoverWrites(action)

\* The worker thread runs a task to its end.  The user keeps following the
\* instructions on the screen; a cycle is possible only between two tasks.
Fairness ==
    /\ WF_vars(Task)
    /\ SF_vars(CycleIgnition)
    /\ SF_vars(FollowInstructions)

FairSpec == Spec /\ Fairness
=============================================================================
