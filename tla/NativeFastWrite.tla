--------------------------- MODULE NativeFastWrite ---------------------------
(***************************************************************************)
(* The native-fast DS2 writer: the sessions of ds2_fast_partial_write.py,  *)
(* ds2_fast_full_write.py and ds2_fast_slim_write.py, the ownership of a   *)
(* failed session by ds2_native_fast_service.py, the reentry registry and  *)
(* the decisions gui.py takes on the result: fall back to the slow writer, *)
(* keep the session for a retry, or release it after an ignition cycle.    *)
(*                                                                         *)
(* The session is strict request and reply.  Every request may be lost, or *)
(* carried out with its reply lost, or refused; the power of the computer  *)
(* may be cut and the program may die between any two requests.  The       *)
(* conventional writer is modelled up to its authorization, which it       *)
(* shares with this one.                                                   *)
(***************************************************************************)
EXTENDS Dme, FiniteSets

CONSTANTS Kinds,         \* subset of {"partial", "full", "program_only"}
          MaxTries,      \* packet attempts of _flash
          MaxSeeds,      \* MAX_INITIAL_SEED_ATTEMPTS
          MaxOperations, \* bound: writes started
          MaxFaults      \* bound: lost or refused requests, power cuts, crashes

ASSUME NativeFastAssumption ==
    /\ Kinds \subseteq {"partial", "full", "program_only"} /\ Kinds # {}
    /\ MaxTries \in Nat \ {0}
    /\ MaxSeeds \in Nat \ {0}
    /\ MaxOperations \in Nat
    /\ MaxFaults \in Nat

VARIABLES
    ecu,          \* the engine computer
    s,            \* the session object of the running or retained write
    pc,           \* the request the session makes next, or where it rests
    registry,     \* _pending_ports of ds2_native_fast_reentry
    cyclePending, \* _post_write_cycle_pending of the GUI
    lapses,       \* history: since the last ignition cycle the user was "told"
                  \* to make one, or the program "restarted"
    erases,       \* history: erases each array has seen in this operation
    outcome,      \* history: what the last operation was reported as
    faults,       \* failures so far
    operations    \* writes started so far

vars == <<ecu, s, pc, registry, cyclePending, lapses, erases, outcome, faults, operations>>
gui == <<registry, cyclePending, lapses, outcome, operations>>

HostStates == {"low", "authorized", "armed", "partial", "program", "tune", "finalize",
               "lowering", "complete", "cycle", "unknown", "ready", "failed"}
Errors == {"none", "plain", "unknown", "mismatch", "not_ready", "no_seed"}

Authorization == {"read", "reentry", "confirm_existing", "prepare", "challenge", "reread", "key"}
Entry == {"identify"} \cup Authorization \cup {"arm", "up", "liveness"}
Flashing == {"poll", "erase", "program", "readback", "tune_poll", "post_poll"}
Finishing == {"fin_seed", "fin_key", "fin_probe", "fin_poll", "verify"}
Lowering == {"down", "bare", "low_identity"}
Handling == {"handler", "probe_high", "probe_low"}
Resting == {"idle", "refused", "held", "slow"}
Pcs == Entry \cup Flashing \cup Finishing \cup Lowering \cup Handling \cup Resting

\* seen: E658 and E74B as first read; recovering: the phase runs with recovery=True;
\* seeds: challenges sent for a seed; replaying: inside _replay_failed_phase, where no further replay starts;
\* a2: the computer has answered a flash phase with A2; cycled: the ignition
\* was cycled since the session was retained.
Sessions ==
    [ kind : Kinds, verify : BOOLEAN, slow : BOOLEAN, link : {"low", "high", "unknown"},
      state : HostStates, error : Errors, identified : BOOLEAN, seen : (0 .. 2) \X (0 .. 2),
      seeds : 0 .. MaxSeeds, reentry : BOOLEAN, write_authorized : BOOLEAN,
      authorization_may_be_active : BOOLEAN,
      authorization_state_requires_cycle : BOOLEAN, fast_write_armed : BOOLEAN,
      destructive_started : BOOLEAN, flash_completed : BOOLEAN, failure_state : HostStates,
      recovery_replay_attempted : BOOLEAN, safe_legacy_fallback : BOOLEAN,
      recovering : BOOLEAN, replaying : BOOLEAN, pkt : 1 .. Packets, tries : 1 .. MaxTries,
      suffix : BOOLEAN, a2 : BOOLEAN, cycled : BOOLEAN, handling : BOOLEAN ]

NewSession(kind, verify) ==
    [ kind |-> kind, verify |-> verify, slow |-> FALSE, link |-> "low", state |-> "low",
      error |-> "none", identified |-> FALSE, seen |-> <<0, 0>>, seeds |-> 0, reentry |-> registry,
      write_authorized |-> FALSE, authorization_may_be_active |-> FALSE,
      authorization_state_requires_cycle |-> FALSE, fast_write_armed |-> FALSE,
      destructive_started |-> FALSE, flash_completed |-> FALSE, failure_state |-> "low",
      recovery_replay_attempted |-> FALSE, safe_legacy_fallback |-> FALSE,
      recovering |-> FALSE, replaying |-> FALSE, pkt |-> 1, tries |-> 1, suffix |-> FALSE,
      a2 |-> FALSE, cycled |-> FALSE, handling |-> FALSE ]

Partial == s.kind = "partial"
HighState == IF Partial THEN "partial" ELSE "program"
Array == IF s.state = "program" THEN "program" ELSE "tune"
Affected == IF Partial THEN {"tune"} ELSE IF s.kind = "full" THEN Arrays ELSE {"program"}
\* Mutant: a key that was sent without an answer does not block the way back.
BlockedWhenRequired == s.authorization_state_requires_cycle
Blocked == \/ s.authorization_state_requires_cycle
           \/ s.authorization_may_be_active /\ ~s.write_authorized

\* can_recover_in_place of the full writer; the partial writer has none.
CanRecover ==
    /\ ~Partial
    /\ s.destructive_started /\ ~s.flash_completed
    /\ s.failure_state \in {"program", "tune"}
    /\ ~s.recovery_replay_attempted
---------------------------------------------------------------------------
(* Requests and replies.                                                   *)

Fault == faults < MaxFaults /\ faults' = faults + 1
NoFault == UNCHANGED faults
Reached == Hears(ecu, s.link)

\* The request is carried out and its reply arrives.
Answered(after) == Reached /\ ecu' = after /\ NoFault

\* No valid reply: the computer does not hear it, or the request or its
\* reply is lost.
Lost(after) ==
    \/ ~Reached /\ UNCHANGED ecu /\ NoFault
    \/ Fault /\ UNCHANGED ecu
    \/ Reached /\ Fault /\ ecu' = after

\* ... or it is not what the computer accepts in its present state.
Unanswered(after, accepted) == Lost(after) \/ (~accepted /\ Answered(after))

\* An explicit negative reply; A2 says the flash listener is gone.
Refused == Reached /\ Fault /\ UNCHANGED ecu

\* The exception reaches the handler of execute() or of recover_in_place;
\* that of the slow writer ends its attempt.
Raise(sess, error) ==
    /\ s' = [sess EXCEPT !.error = error]
    /\ pc' = IF s.slow THEN "idle" ELSE "handler"
Goto(label) == pc' = label /\ UNCHANGED s

Quiet == UNCHANGED <<gui, erases>>

\* mark_reentry_required, on a session that armed the computer and ends at
\* the low rate.
Pending(sess) == registry \/ (sess.fast_write_armed /\ sess.link = "low")

\* What the handlers of execute() and the service make of a failure.  After
\* the destructive boundary the transport and the port stay with the session;
\* before it the port is given back.
Conclude(sess, recovered) ==
    LET cycle == /\ ~recovered
                 /\ \/ sess.destructive_started
                    \/ sess.write_authorized
                    \/ sess.authorization_state_requires_cycle
                    \/ sess.authorization_may_be_active
        state == IF sess.error = "unknown" THEN "unknown"
                 ELSE IF recovered THEN "ready"
                 ELSE IF cycle THEN "cycle" ELSE "failed"
    IN  /\ s' = [sess EXCEPT !.state = state, !.handling = FALSE, !.cycled = FALSE]
        /\ IF sess.destructive_started
           THEN pc' = "held" /\ UNCHANGED <<registry, outcome>>
           ELSE /\ pc' = "refused"
                /\ outcome' = "not_started"
                /\ registry' = Pending(sess)
        /\ UNCHANGED <<cyclePending, lapses, operations, erases>>

\* A step of the way back to the low rate fails: inside the handler nothing
\* else is tried.
FailLowering(sess) ==
    IF s.handling THEN Conclude(sess, FALSE) ELSE Raise(sess, "plain") /\ Quiet
---------------------------------------------------------------------------
(* Entry: identity, authorization, arming and the high rate.               *)

\* _native_fast_write_with_fallback: after a successful write the next one
\* first proves the ignition cycle (_require_previous_write_cycle).
Start(kind, verify) ==
    /\ pc = "idle"
    /\ operations < MaxOperations
    /\ cyclePending => Hears(ecu, "low") /\ ecu.auth = 0
    /\ ecu' = Retargeted(ecu)
    /\ s' = NewSession(kind, verify)
    /\ pc' = "identify"
    /\ cyclePending' = FALSE
    /\ erases' = [a \in Arrays |-> 0]
    /\ outcome' = "running"
    /\ operations' = operations + 1
    /\ UNCHANGED <<registry, lapses, faults>>

\* Opening the transport fails: there is no session, and whether normal DS2 is
\* reopened and identified decides on the slow writer.
SetUpFails ==
    /\ pc = "identify"
    /\ Fault /\ UNCHANGED ecu
    /\ Conclude([NewSession(s.kind, s.verify) EXCEPT !.safe_legacy_fallback = Hears(ecu, "low")],
                TRUE)

\* Identity, live checks and the selector token.
Identify ==
    /\ pc = "identify"
    /\ Quiet
    /\ \/ /\ Answered(ecu)
          /\ s' = [s EXCEPT !.identified = TRUE]
          /\ pc' = "read"
       \/ /\ Lost(ecu)
          /\ \E known \in BOOLEAN :
                 Raise([s EXCEPT !.identified = known /\ Reached], "plain")

\* _authorize_once and unlock_write up to their first 0x90.
ReadAuthorization ==
    /\ pc = "read"
    /\ Quiet
    /\ \/ /\ Answered(ecu)
          /\ IF ecu.wrong >= 2 \/ ecu.auth = 1
             THEN Raise([s EXCEPT !.authorization_state_requires_cycle = TRUE,
                                  !.authorization_may_be_active = ecu.wrong < 2], "plain")
             ELSE /\ s' = [s EXCEPT !.seen = <<ecu.auth, ecu.wrong>>]
                  /\ pc' = IF s.reentry THEN "reentry"
                           ELSE IF ecu.auth = 2 THEN "confirm_existing" ELSE "prepare"
       \/ Lost(ecu) /\ Raise(s, "plain")

\* _wait_for_native_fast_reentry: polls E72E and E659 until the latch is
\* ready or the time is up.
AwaitReentry ==
    /\ pc = "reentry"
    /\ UNCHANGED <<cyclePending, lapses, outcome, operations, erases>>
    /\ \/ /\ Answered(ecu)
          /\ IF <<ecu.auth, ecu.wrong>> # s.seen
             THEN /\ Raise([s EXCEPT !.authorization_may_be_active = ecu.auth \in {1, 2},
                                     !.authorization_state_requires_cycle = ecu.auth = 1], "plain")
                  /\ UNCHANGED registry
             ELSE IF ecu.latch = "ready"
             THEN /\ s' = [s EXCEPT !.reentry = FALSE]
                  /\ pc' = IF ecu.auth = 2 THEN "confirm_existing" ELSE "prepare"
                  /\ registry' = FALSE
             ELSE Raise(s, "not_ready") /\ UNCHANGED registry
       \/ Lost(ecu) /\ Raise(s, "plain") /\ UNCHANGED registry

Authorize(sess) ==
    /\ s' = [sess EXCEPT !.write_authorized = TRUE,
                         !.authorization_state_requires_cycle = FALSE,
                         !.state = "authorized"]
    /\ pc' = IF s.slow THEN "slow" ELSE "arm"

\* The session already holds an authorization: one challenge confirms it.
ConfirmExisting ==
    /\ pc = "confirm_existing"
    /\ Quiet
    /\ LET asked == [s EXCEPT !.authorization_may_be_active = TRUE,
                              !.authorization_state_requires_cycle = TRUE]
       IN  \/ ecu.auth = 2 /\ Answered(ecu) /\ Authorize(asked)
           \/ Unanswered(Challenged(ecu), ecu.auth = 2) /\ Raise(asked, "plain")

Prepare ==
    /\ pc = "prepare"
    /\ Quiet
    /\ \/ Answered(ecu) /\ Goto("challenge")
       \/ Lost(ecu) /\ Raise(s, "plain")

\* A1 does not tell whether the computer now expects a key.
Challenge ==
    /\ pc = "challenge"
    /\ Quiet
    /\ LET asked == [s EXCEPT !.seeds = @ + 1]
           ambiguous == [asked EXCEPT !.authorization_may_be_active = TRUE,
                                      !.authorization_state_requires_cycle = TRUE]
       IN  \/ ecu.auth = 0 /\ Answered(Challenged(ecu)) /\ s' = asked /\ pc' = "key"
           \/ /\ Reached /\ Fault
              /\ ecu' \in {ecu, Challenged(ecu)}
              /\ s' = ambiguous
              /\ pc' = "reread"
           \/ Unanswered(Challenged(ecu), ecu.auth = 0) /\ Raise(ambiguous, "plain")

UnchangedByA1 == ecu.auth = 0 /\ ecu.wrong = s.seen[2]
\* Mutant: one challenge too many.
AnotherSeedAllowed == s.seeds <= MaxSeeds
SeedAllowed == s.seeds < MaxSeeds

\* Only an unchanged state allows the next, last challenge.
RereadAfterA1 ==
    /\ pc = "reread"
    /\ Quiet
    /\ LET proven == [s EXCEPT !.authorization_may_be_active = FALSE,
                               !.authorization_state_requires_cycle = FALSE]
       IN  \/ /\ Answered(ecu)
              /\ IF ~UnchangedByA1
                 THEN Raise([s EXCEPT !.authorization_may_be_active = ecu.auth # 0], "plain")
                 ELSE IF SeedAllowed
                 THEN s' = proven /\ pc' = "prepare"
                 ELSE Raise(proven, "no_seed")
           \/ Lost(ecu) /\ Raise(s, "plain")

SendKey ==
    /\ pc = "key"
    /\ Quiet
    /\ LET tried == [s EXCEPT !.authorization_may_be_active = TRUE]
       IN  \/ ecu.auth = 1 /\ Answered(Keyed(ecu)) /\ Authorize(tried)
           \/ Unanswered(Keyed(ecu), ecu.auth = 1) /\ Raise(tried, "plain")

\* The bare BMW arm; armed counts only once it is acknowledged.
Arm ==
    /\ pc = "arm"
    /\ Quiet
    /\ \/ /\ ecu.auth = 2
          /\ Answered(Armed(ecu))
          /\ s' = [s EXCEPT !.fast_write_armed = TRUE, !.state = "armed"]
          /\ pc' = "up"
       \/ Unanswered(Armed(ecu), ecu.auth = 2) /\ Raise(s, "plain")

\* _switch_up: the computer changes rate with its acknowledgement, the host
\* after it; setting the host's rate may fail.
SwitchUp ==
    /\ pc = "up"
    /\ Quiet
    /\ \/ /\ ecu.armed
          /\ Answered(SelectedHigh(ecu))
          /\ s' = [s EXCEPT !.link = "high", !.state = HighState]
          /\ pc' = "liveness"
       \/ /\ Reached /\ ecu.armed /\ Fault
          /\ ecu' = SelectedHigh(ecu)
          /\ Raise([s EXCEPT !.link = "unknown", !.state = HighState], "plain")
       \/ Unanswered(SelectedHigh(ecu), ecu.armed) /\ Raise(s, "plain")

\* The token, read at the high rate, and the stability check.
Liveness ==
    /\ pc = "liveness"
    /\ Quiet
    /\ \/ Answered(ecu) /\ Goto(IF Partial THEN "erase" ELSE "poll")
       \/ Lost(ecu) /\ Raise(s, "plain")
---------------------------------------------------------------------------
(* The destructive part.                                                   *)

\* A flash request answered with an error, A2 or another status.
FlashRefused ==
    /\ Refused
    /\ \E a2 \in BOOLEAN : Raise([s EXCEPT !.a2 = a2], "plain")

\* Mutant: recovery polls like a first write.
PollAcceptedWhole(a, recovering) == WholeArray(ecu, a)
\* The poll that arms the erase of an array.  Recovery also accepts the
\* status of an array that was left incomplete (0C and 0F).
PollAccepted(a, recovering) == WholeArray(ecu, a) \/ recovering

ControlPoll(label, a) ==
    /\ pc = label
    /\ Quiet
    /\ \/ PollAccepted(a, s.recovering) /\ Answered(ecu) /\ Goto("erase")
       \/ Unanswered(ecu, PollAccepted(a, s.recovering)) /\ Raise(s, "plain")
       \/ FlashRefused
ProgramPoll == ControlPoll("poll", "program")
TunePoll == ControlPoll("tune_poll", "tune")

\* Mutant: the boundary is not recorded.
AtNoBoundary == [s EXCEPT !.pkt = 1, !.tries = 1, !.suffix = FALSE]
AtBoundary == [s EXCEPT !.destructive_started = TRUE, !.pkt = 1, !.tries = 1, !.suffix = FALSE]

\* The boundary is recorded before the request; an erase is never repeated.
\* Without a whole echo the error is a plain one, whatever the computer did;
\* without the reply it is CommitUnknownError.
Erase ==
    /\ pc = "erase"
    /\ UNCHANGED gui
    /\ LET counted == [erases EXCEPT ![Array] = @ + 1]
       IN  \/ /\ Answered(Erased(ecu, Array))
              /\ s' = AtBoundary
              /\ pc' = "program"
              /\ erases' = counted
           \/ /\ ~Reached /\ UNCHANGED <<ecu, erases>> /\ NoFault
              /\ \E error \in {"unknown", "plain"} : Raise(AtBoundary, error)
           \/ /\ Reached /\ Fault
              /\ \/ UNCHANGED <<ecu, erases>>
                 \/ ecu' = Erased(ecu, Array) /\ erases' = counted
              /\ \E error \in {"unknown", "plain"} : Raise(AtBoundary, error)
           \/ /\ Refused /\ UNCHANGED erases
              /\ \E a2 \in BOOLEAN : Raise([AtBoundary EXCEPT !.a2 = a2], "plain")

\* After the last packet of an array: the full writer goes on with the
\* calibration, then polls it; the others finalize.
ArrayDone(sess) ==
    CASE s.kind = "full" /\ Array = "program" ->
            s' = [sess EXCEPT !.state = "tune", !.recovering = FALSE] /\ pc' = "tune_poll"
      [] s.kind = "full" /\ Array = "tune" -> s' = sess /\ pc' = "post_poll"
      [] OTHER -> s' = [sess EXCEPT !.state = "finalize"] /\ pc' = "fin_seed"
PacketDone ==
    LET next == [s EXCEPT !.tries = 1, !.suffix = FALSE]
    IN  IF s.pkt < Packets
        THEN s' = [next EXCEPT !.pkt = @ + 1] /\ pc' = "program"
        ELSE ArrayDone(next)

\* A reply that is lost after a whole echo is followed by a readback, a bad
\* echo is a plain error at once.
Unconfirmed == Goto("readback") \/ Raise(s, "plain")

\* One packet, or the erased suffix of one.
Program ==
    /\ pc = "program"
    /\ Quiet
    /\ \/ Answered(Programmed(ecu, Array, s.pkt, "new")) /\ PacketDone
       \/ ~Reached /\ UNCHANGED ecu /\ NoFault /\ Unconfirmed
       \/ /\ Reached /\ Fault /\ Unconfirmed
          /\ \E cell \in Interrupted(ecu.cells[Array][s.pkt]) :
                 ecu' = Programmed(ecu, Array, s.pkt, cell)
       \/ FlashRefused

\* A partial phase, read back as neither erased nor complete, is erased and
\* written once more (_program_with_recovery).
ReplayPhase ==
    /\ s' = [s EXCEPT !.failure_state = s.state, !.replaying = TRUE, !.recovering = TRUE]
    /\ pc' = IF Array = "program" THEN "poll" ELSE "tune_poll"

\* Mutant: whatever reads back short is sent again.
ResendAny(cell) == cell \in {"blank", "holes"}
\* Only a packet that is still erased is sent again.
Resendable(cell) == cell = "blank"

\* confirm_program and the decisions _flash and the full writer take on what
\* was read.
Readback ==
    /\ pc = "readback"
    /\ Quiet
    /\ \/ /\ Answered(ecu)
          /\ LET cell == ecu.cells[Array][s.pkt]
                 again == [s EXCEPT !.tries = @ + 1]
             IN  CASE cell = "new" -> PacketDone
                   [] Resendable(cell) /\ s.tries < MaxTries ->
                          s' = again /\ pc' = "program"
                   [] cell = "prefix" /\ Partial /\ s.tries < MaxTries ->
                          s' = [again EXCEPT !.suffix = TRUE] /\ pc' = "program"
                   [] cell \in {"prefix", "holes"} /\ ~Partial /\ ~s.replaying -> ReplayPhase
                   [] OTHER -> Raise(s, "mismatch")
       \/ Lost(ecu) /\ \E error \in {"unknown", "plain"} : Raise(s, error)
       \/ /\ Refused
          /\ \E a2 \in BOOLEAN, error \in {"unknown", "plain"} :
                 Raise([s EXCEPT !.a2 = a2], error)

PostPoll ==
    /\ pc = "post_poll"
    /\ Quiet
    /\ \/ /\ WholeArray(ecu, "tune")
          /\ Answered(ecu)
          /\ s' = [s EXCEPT !.state = "finalize"]
          /\ pc' = "fin_seed"
       \/ Unanswered(ecu, WholeArray(ecu, "tune")) /\ Raise(s, "plain")
       \/ FlashRefused
---------------------------------------------------------------------------
(* Finalization and the way back to the low rate.                          *)

\* _finalize polls for a new seed and answers it; _finalize_full probes the
\* authorization it has.
FinalizeSeed ==
    /\ pc = "fin_seed"
    /\ Quiet
    /\ LET after == IF Partial THEN SeededAgain(ecu) ELSE ecu
       IN  \/ Answered(after) /\ Goto(IF Partial THEN "fin_key" ELSE "fin_probe")
           \/ Lost(after) /\ Raise(s, "plain")

FinalizeKey ==
    /\ pc = "fin_key"
    /\ Quiet
    /\ \/ ecu.auth = 1 /\ Answered(Keyed(ecu)) /\ Goto("fin_poll")
       \/ Unanswered(Keyed(ecu), ecu.auth = 1) /\ Raise(s, "plain")

FinalizeProbe ==
    /\ pc = "fin_probe"
    /\ Quiet
    /\ \/ ecu.auth = 2 /\ Answered(ecu) /\ Goto("fin_poll")
       \/ Unanswered(ecu, ecu.auth = 2) /\ Raise(s, "plain")

\* The write is reported: the port is given back, and the user is told to
\* cycle the ignition.
Succeed(sess) ==
    /\ s' = sess
    /\ pc' = "idle"
    /\ outcome' = "complete"
    /\ registry' = Pending(sess)
    /\ cyclePending' = TRUE
    /\ lapses' = lapses \cup {"told"}
    /\ UNCHANGED <<operations, erases>>

Finished(sess) ==
    IF Partial
    THEN s' = sess /\ pc' = "down" /\ Quiet
    ELSE Succeed([sess EXCEPT !.state = "cycle"])

FinalPoll ==
    /\ pc = "fin_poll"
    /\ LET whole == \A a \in Arrays : WholeArray(ecu, a)
           completed == [s EXCEPT !.flash_completed = TRUE]
       IN  \/ /\ whole
              /\ Answered(ecu)
              /\ IF s.verify
                 THEN s' = completed /\ pc' = "verify" /\ Quiet
                 ELSE Finished(completed)
           \/ Unanswered(ecu, whole) /\ Raise(s, "plain") /\ Quiet
           \/ FlashRefused /\ Quiet

Verify ==
    /\ pc = "verify"
    /\ LET same == \A a \in Affected : HoldsNew(ecu, a)
       IN  \/ same /\ Answered(ecu) /\ Finished(s)
           \/ Unanswered(ecu, same) /\ Raise(s, "plain") /\ Quiet

\* Selector 0x26; the host follows once it is acknowledged.
SwitchDown ==
    /\ pc = "down"
    /\ \/ /\ Answered(SelectedLow(ecu))
          /\ s' = [s EXCEPT !.link = "low", !.state = IF Partial THEN "lowering" ELSE @]
          /\ pc' = "bare"
          /\ Quiet
       \/ Lost(SelectedLow(ecu)) /\ FailLowering(s)

BareBmw ==
    /\ pc = "bare"
    /\ \/ Answered(Disarmed(ecu)) /\ Goto("low_identity") /\ Quiet
       \/ Lost(Disarmed(ecu)) /\ FailLowering(s)

\* The normal identity answers at the low rate, or the time is up.  After the
\* finalizer only silence leaves the write a success; a bad echo or a wrong
\* answer is an error like any other.
LowIdentity ==
    /\ pc = "low_identity"
    /\ \/ /\ Answered(ecu)
          /\ IF s.handling
             THEN Conclude([s EXCEPT !.safe_legacy_fallback = TRUE,
                                     !.fast_write_armed = @ /\ s.state # "armed"], TRUE)
             ELSE Succeed([s EXCEPT !.state = "complete"])
       \/ /\ Lost(ecu)
          /\ \/ FailLowering(s)
             \/ ~s.handling /\ Succeed([s EXCEPT !.state = "cycle"])
---------------------------------------------------------------------------
(* Failure handling.                                                       *)

\* Mutant: an A2 does not spend the replay.
SpentByRetry == s.recovery_replay_attempted
Spent == s.recovery_replay_attempted \/ (s.destructive_started /\ s.a2)

\* The except clause of execute() (and of recover_in_place, which is past the
\* boundary and has spent its replay); before the boundary
\* _recover_pre_erase_to_low, or _cleanup_pre_erase_to_low, starts here.
Handle ==
    /\ pc = "handler"
    /\ NoFault /\ UNCHANGED ecu
    /\ LET failed == [s EXCEPT !.failure_state = s.state,
                               !.handling = ~s.destructive_started,
                               !.fast_write_armed = @ /\ ~s.recovery_replay_attempted,
                               !.recovery_replay_attempted = Spent]
       IN  CASE s.destructive_started \/ Blocked -> Conclude(failed, FALSE)
             [] /\ ~Blocked /\ ~s.destructive_started
                /\ s.link = "low" /\ s.identified /\ ~s.write_authorized ->
                    s' = failed /\ pc' = "low_identity" /\ Quiet
             [] /\ ~Blocked /\ ~s.destructive_started
                /\ ~s.identified -> Conclude(failed, FALSE)
             [] OTHER -> s' = failed /\ pc' = "probe_high" /\ Quiet

\* The token is looked for at the high rate, then at the low one.
ProbeHigh ==
    /\ pc = "probe_high"
    /\ Quiet
    /\ LET probing == [s EXCEPT !.link = "high"]
       IN  \/ /\ Hears(ecu, "high")
              /\ UNCHANGED ecu /\ NoFault
              /\ s' = [probing EXCEPT !.state = HighState]
              /\ pc' = "down"
           \/ /\ UNCHANGED ecu
              /\ IF Hears(ecu, "high") THEN Fault ELSE NoFault
              /\ s' = probing
              /\ pc' = "probe_low"

ProbeLow ==
    /\ pc = "probe_low"
    /\ UNCHANGED ecu
    /\ \/ /\ Hears(ecu, "low")
          /\ NoFault
          /\ s' = [s EXCEPT !.link = "low"]
          /\ pc' = "low_identity"
          /\ Quiet
       \/ /\ IF Hears(ecu, "low") THEN Fault ELSE NoFault
          /\ Conclude([s EXCEPT !.link = "unknown"], FALSE)
---------------------------------------------------------------------------
(* The user interface.                                                     *)

\* The slow writer takes over only from a proven low state, and not where it
\* would repeat the very request that was not granted.
Fallback ==
    /\ s.safe_legacy_fallback
    /\ s.error \notin {"not_ready", "no_seed"}
    /\ s.kind # "program_only"

\* Normal DS2 is reopened and identified; the slow writer then authorizes
\* itself with the same steps.
FallBackToSlow ==
    /\ pc = "refused"
    /\ Fallback
    /\ Hears(ecu, "low")
    /\ s' = [NewSession(s.kind, s.verify) EXCEPT !.slow = TRUE, !.reentry = FALSE,
                                                !.identified = TRUE]
    /\ pc' = "read"
    /\ UNCHANGED <<ecu, gui, erases, faults>>

\* StockWriteNotStarted: the message asks for an ignition cycle.
ReportNotStarted ==
    /\ pc = "refused"
    /\ UNCHANGED <<ecu, s, registry, cyclePending, erases, outcome, operations>>
    /\ IF Fallback /\ Hears(ecu, "low") THEN Fault ELSE NoFault
    /\ pc' = "idle"
    /\ lapses' = lapses \cup {"told"}

\* resume_recovery and recover_in_place.
RetryRecovery ==
    /\ pc = "held"
    /\ CanRecover
    /\ s' = [s EXCEPT !.link = "high", !.error = "none", !.replaying = TRUE,
                      !.recovery_replay_attempted = TRUE, !.recovering = TRUE,
                      !.state = IF s.kind = "full" /\ s.failure_state = "tune"
                                THEN "tune" ELSE "program"]
    /\ pc' = IF s.kind = "full" /\ s.failure_state = "tune" THEN "tune_poll" ELSE "poll"
    /\ UNCHANGED <<ecu, gui, erases, faults>>

\* _release_flash_recovery_after_cycle: offered for a session that can no
\* longer be replayed and whose outcome is known; the user confirms the cycle.
ReleaseAfterCycle ==
    /\ pc = "held"
    /\ ~CanRecover
    /\ s.state = "cycle"
    /\ s.cycled
    /\ pc' = "idle"
    /\ outcome' = "abandoned"
    /\ UNCHANGED <<ecu, s, registry, cyclePending, lapses, erases, faults, operations>>

\* The program ends: the session, the registry and the gate are gone.
Forgotten ==
    /\ pc' = "idle"
    /\ s' = [s EXCEPT !.destructive_started = FALSE, !.safe_legacy_fallback = FALSE]
    /\ registry' = FALSE
    /\ cyclePending' = FALSE
    /\ outcome' = IF outcome = "running" THEN "abandoned" ELSE outcome
    /\ lapses' = lapses \cup {"restarted"}
    /\ UNCHANGED <<ecu, erases, operations>>

\* closeEvent: a retained session is given up on closing, after the cycle.
\* Who closes in spite of an open retry, or without the cycle, is in Crash.
CloseProgram ==
    /\ pc = "held"
    /\ ~CanRecover
    /\ s.cycled
    /\ Forgotten
    /\ NoFault

Crash ==
    /\ Fault
    /\ Forgotten
---------------------------------------------------------------------------
(* The surroundings.                                                       *)

\* The user cycles the ignition where the instructions allow it.
CycleIgnition ==
    /\ \/ pc \in {"idle", "slow"}
       \/ pc = "held" /\ ~CanRecover
    /\ ecu' = PowerUp(ecu)
    /\ s' = [s EXCEPT !.cycled = TRUE]
    /\ lapses' = {}
    /\ pc' = IF pc = "slow" THEN "idle" ELSE pc
    /\ UNCHANGED <<registry, cyclePending, erases, outcome, faults, operations>>

\* Power is lost in the middle of an operation.
PowerCut ==
    /\ pc # "idle"
    /\ Fault
    /\ ecu' = PowerUp(ecu)
    /\ s' = [s EXCEPT !.cycled = TRUE]
    /\ lapses' = {}
    /\ UNCHANGED <<pc, registry, cyclePending, erases, outcome, operations>>

\* Timer E72E runs out.
LatchReady ==
    /\ ecu.latch # "ready"
    /\ ecu.rate = "low"
    /\ ecu' = [ecu EXCEPT !.latch = "ready"]
    /\ UNCHANGED <<s, pc, gui, erases, faults>>

Init ==
    /\ ecu \in [ rate : {"low"}, auth : 0 .. 2, wrong : 0 .. 2, armed : {FALSE},
                 latch : {"clear"}, cells : {[a \in Arrays |-> [p \in 1 .. Packets |-> "old"]]} ]
    /\ pc = "idle"
    /\ registry = FALSE
    /\ cyclePending = FALSE
    /\ s \in {NewSession(kind, FALSE) : kind \in Kinds}
    /\ lapses = {}
    /\ erases = [a \in Arrays |-> 0]
    /\ outcome = "none"
    /\ faults = 0
    /\ operations = 0

SessionStep ==
    \/ SetUpFails \/ Identify \/ ReadAuthorization \/ AwaitReentry
    \/ ConfirmExisting \/ Prepare \/ Challenge \/ RereadAfterA1 \/ SendKey
    \/ Arm \/ SwitchUp \/ Liveness
    \/ ProgramPoll \/ TunePoll \/ Erase \/ Program \/ Readback \/ PostPoll
    \/ FinalizeSeed \/ FinalizeKey \/ FinalizeProbe \/ FinalPoll \/ Verify
    \/ SwitchDown \/ BareBmw \/ LowIdentity \/ Handle \/ ProbeHigh \/ ProbeLow
    \/ FallBackToSlow \/ ReportNotStarted

Next ==
    \/ \E kind \in Kinds, verify \in BOOLEAN : Start(kind, verify)
    \/ SessionStep
    \/ RetryRecovery \/ ReleaseAfterCycle \/ CloseProgram \/ Crash
    \/ CycleIgnition \/ PowerCut \/ LatchReady

Spec == Init /\ [][Next]_vars

\* The worker thread runs a write to its end; nothing is assumed of the user.
WriterSpec == Spec /\ WF_vars(SessionStep)

\* ... except that somebody who is offered the retry takes it.
RetrySpec == WriterSpec /\ WF_vars(RetryRecovery)
---------------------------------------------------------------------------
(* Properties.                                                             *)

TypeOK ==
    /\ ecu \in Dmes
    /\ s \in Sessions
    /\ pc \in Pcs
    /\ registry \in BOOLEAN
    /\ cyclePending \in BOOLEAN
    /\ lapses \in SUBSET {"told", "restarted"}
    /\ erases \in [Arrays -> Nat]
    /\ outcome \in {"none", "running", "not_started", "complete", "abandoned"}
    /\ faults \in 0 .. MaxFaults
    /\ operations \in 0 .. MaxOperations

\* A session that allows the slow writer to take over has erased nothing, left
\* the computer at the low rate and none of its own challenges waiting for a
\* key, whatever request or reply was lost on the way.
SafeFallback ==
    pc = "refused" /\ s.safe_legacy_fallback =>
        /\ \A a \in Arrays : erases[a] = 0
        /\ ecu.rate = "low"
        /\ ecu.auth = 1 => s.seeds = 0

\* No sequence of failures, fallbacks, retries and restarts spends one of the
\* two wrong keys the computer allows before it locks.
NoWrongKey == [][ecu'.wrong <= ecu.wrong]_vars

\* A packet is sent only onto erased flash, and what is sent is exactly what
\* is missing, also after a reply was lost or a packet was cut short.
OnlyOntoErased ==
    pc = "program" /\ Reached =>
        ecu.cells[Array][s.pkt] = IF s.suffix THEN "prefix" ELSE "blank"

\* Once a flash phase was answered with A2, or the write is final, the
\* operation sends no further erase, not even when the user retries.
NoEraseAfterA2 ==
    [][(s.a2 \/ s.flash_completed) /\ operations' = operations
           => erases' = erases]_vars

\* The two things a long run of failures and retries could use up.
NothingSpent == NoWrongKey /\ NoEraseAfterA2

\* Within one life of the program (the registry is process-local) the high
\* rate is entered over a latch that is still busy only by a user who skipped
\* the ignition cycle he was told to make.
LatchObserved ==
    pc = "up" /\ Reached /\ ecu.latch = "busy" => lapses # {}

\* Neither way between the two rates is taken in the wrong state: down to the
\* slow writer, or up over the latch of an earlier session.
SafeRates == SafeFallback /\ LatchObserved

\* Every write that started comes to rest.
WritesEnd == pc \notin Resting ~> pc \in Resting

\* A failure in the program phase also needs the calibration that was there:
\* the replay polls it without the tolerance of a recovery.
Repairable ==
    /\ pc = "held" /\ CanRecover
    /\ Hears(ecu, "high")
    /\ s.failure_state = "tune" \/ WholeArray(ecu, "tune")
    /\ faults = MaxFaults

\* A retained session that is offered for retry repairs the flash when nothing
\* else goes wrong: its first polls accept the incomplete array and its erase
\* and packets go through.
RetryRepairs == Repairable ~> outcome = "complete"

\* Neither a write nor its repair hangs.
WritesSettle == WritesEnd /\ RetryRepairs
---------------------------------------------------------------------------
(* What the writer promises about the flash: FlashOutcome.                 *)

Content ==
    IF \A a \in Arrays : erases[a] = 0 THEN "kept"
    ELSE IF /\ \A a \in Affected : HoldsNew(ecu, a)
            /\ \A a \in Arrays \ Affected : erases[a] = 0
         THEN "target" ELSE "torn"
Verdict == IF pc = "held" THEN "held" ELSE outcome

Promise == INSTANCE FlashOutcome WITH content <- Content, verdict <- Verdict
ImplementsPromise == Promise!Spec
=============================================================================
