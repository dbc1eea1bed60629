---------------------------- MODULE NativeFastRead ----------------------------
(***************************************************************************)
(* A read over stock DS2 at a selected rate: NativeFastReadSession and     *)
(* _read_d2xx of ds2_fast_read.py, and how gui.py takes the connection from*)
(* it and restarts a whole image read at 9600 when that fails.             *)
(*                                                                         *)
(* The computer changes its rate with its answer to a selector, the host   *)
(* after it has seen the answer, so either may be lost alone.  It must not *)
(* be selected again before its completion latch is seen (Dme); the        *)
(* program remembers in a registry of the port that it has to look.        *)
(***************************************************************************)
EXTENDS Integers

CONSTANT Blocks     \* read requests of an image, in order

VARIABLES
    ecu,      \* the engine computer
    s,        \* the session and what the process remembers of the port
    pc,       \* the next request, or where the operation rests
    outcome,  \* history: what the operation was reported as
    touched   \* history: bytes of the image have been read

vars == <<ecu, s, pc, outcome, touched>>

Rates == {"low", "mid", "high"}
\* staged: in the state a selector leaves, which a bare BMW ends with B0.
Computers == [ rate : Rates, staged : BOOLEAN, latch : {"clear", "busy", "ready"} ]

Pcs == {"idle", "begin", "reentry", "up", "liveness", "read", "select_low", "bare",
        "low_ready", "raise", "probe", "close", "reopen", "slow", "result"}

\* pending: the registry's mark of the port.  lapsed is history: the program
\* has been restarted, or could not know whether its selector was taken.
Sessions ==
    [ kind : {"image", "record"}, direct : BOOLEAN, required : BOOLEAN,
      link : Rates \cup {"unknown"}, state : {"low_ready", "token", "high", "failed"},
      attempted : BOOLEAN, acknowledged : BOOLEAN, b0 : BOOLEAN, recovering : BOOLEAN,
      got : 0 .. Blocks, pending : BOOLEAN, lapsed : BOOLEAN ]

NewSession(kind, direct, pending, lapsed) ==
    [ kind |-> kind, direct |-> direct, required |-> pending, link |-> "low",
      state |-> "low_ready", attempted |-> FALSE, acknowledged |-> FALSE, b0 |-> FALSE,
      recovering |-> FALSE, got |-> 0, pending |-> pending, lapsed |-> lapsed ]

Size == IF s.kind = "record" THEN 1 ELSE Blocks
Heard == ecu.rate = s.link
Same == UNCHANGED <<outcome, touched>>
Goto(label) == pc' = label /\ UNCHANGED s
\* A request that is not answered, or not as its contract says.
Raise == Goto("raise") /\ UNCHANGED ecu /\ Same
---------------------------------------------------------------------------
\* _run_via_native_fast_ds2 and _read_d2xx: the normal interface is closed.
Start ==
    /\ pc = "idle"
    /\ \E kind \in {"image", "record"}, direct \in BOOLEAN :
          s' = NewSession(kind, direct, s.pending, s.lapsed)
    /\ pc' = "begin" /\ outcome' = "running" /\ touched' = FALSE
    /\ UNCHANGED ecu

\* _begin: identity, which must be the one expected, and token.
Begin ==
    /\ pc = "begin"
    /\ \/ /\ Heard
          /\ s' = [s EXCEPT !.state = "token"] /\ pc' = "reentry"
          /\ UNCHANGED ecu /\ Same
       \/ Raise

\* _wait_for_native_fast_reentry.
AwaitReentry ==
    /\ pc = "reentry"
    /\ \/ /\ ~s.required
          /\ Goto("up") /\ UNCHANGED ecu /\ Same
       \/ /\ s.required /\ Heard /\ ecu.latch = "ready"
          /\ s' = [s EXCEPT !.required = FALSE, !.pending = FALSE] /\ pc' = "up"
          /\ UNCHANGED ecu /\ Same
       \/ s.required /\ Raise

\* _switch_up, to the high rate at once or over the middle one.
Target == IF s.direct \/ s.link = "mid" THEN "high" ELSE "mid"
SwitchUp ==
    /\ pc = "up"
    /\ Same
    /\ LET asked == [s EXCEPT !.attempted = TRUE]
           taken == [ecu EXCEPT !.rate = Target, !.staged = TRUE, !.latch = "clear"]
           acked == [asked EXCEPT !.acknowledged = TRUE, !.state = "high"]
       IN  \/ /\ Heard /\ ecu' = taken
              /\ \/ s' = [acked EXCEPT !.link = Target] /\ pc' = "liveness"
                 \/ s' = [acked EXCEPT !.link = "unknown"] /\ pc' = "raise"
           \/ /\ ecu' \in {ecu} \cup (IF Heard THEN {taken} ELSE {})
              /\ s' = asked /\ pc' = "raise"

\* _liveness: the token again, at the new rate.
Liveness ==
    /\ pc = "liveness"
    /\ \/ Heard /\ Goto(IF s.link = "mid" THEN "up" ELSE "read") /\ UNCHANGED ecu /\ Same
       \/ /\ s' = [s EXCEPT !.link = "unknown", !.state = "failed"] /\ pc' = "raise"
          /\ UNCHANGED ecu /\ Same

\* _execute_read_requests.
ReadBlock ==
    /\ pc = "read"
    /\ \/ /\ Heard
          /\ s' = [s EXCEPT !.got = @ + 1]
          /\ pc' = IF s.got + 1 = Size THEN "select_low" ELSE "read"
          /\ touched' = TRUE
          /\ UNCHANGED <<ecu, outcome>>
       \/ Raise

\* _cleanup_to_low: the selector, the bare BMW that must be answered with B0,
\* and the normal identity.
SelectLow ==
    /\ pc = "select_low"
    /\ Same
    /\ LET taken == [ecu EXCEPT !.rate = "low", !.latch = "busy"]
           failed == [s EXCEPT !.state = "failed"]
       IN  \/ /\ Heard /\ ecu' = taken
              /\ \/ s' = [failed EXCEPT !.link = "low"] /\ pc' = "bare"
                 \/ s' = [failed EXCEPT !.link = "unknown"] /\ pc' = "raise"
           \/ /\ ecu' \in {ecu} \cup (IF Heard THEN {taken} ELSE {})
              /\ Goto("raise")
BareBmw ==
    /\ pc = "bare"
    /\ Same
    /\ \/ /\ Heard /\ ecu.staged
          /\ ecu' = [ecu EXCEPT !.staged = FALSE]
          /\ s' = [s EXCEPT !.b0 = TRUE] /\ pc' = "low_ready"
       \/ /\ ecu' \in {ecu} \cup (IF Heard THEN {[ecu EXCEPT !.staged = FALSE]} ELSE {})
          /\ Goto("raise")
LowReady ==
    /\ pc = "low_ready"
    /\ \/ /\ Heard
          /\ s' = [s EXCEPT !.state = "low_ready"] /\ pc' = "close"
          /\ UNCHANGED ecu /\ Same
       \/ Raise

\* _recover_after_failure.  What fails during the recovery ends it.
Untouched == s.link = "low" /\ (s.state = "low_ready" \/ (s.state = "token" /\ ~s.attempted))
Recover ==
    /\ pc = "raise"
    /\ \/ /\ s.recovering
          /\ s' = [s EXCEPT !.link = "unknown"] /\ pc' = "close"
       \/ ~s.recovering /\ Untouched /\ s' = [s EXCEPT !.recovering = TRUE] /\ pc' = "close"
       \/ ~s.recovering /\ ~Untouched /\ s' = [s EXCEPT !.recovering = TRUE] /\ pc' = "probe"
    /\ UNCHANGED ecu /\ Same

\* recover_read_only_to_low: the highest rate at which the token answers.
Probe ==
    /\ pc = "probe"
    /\ UNCHANGED ecu /\ Same
    /\ \/ /\ s.direct => ecu.rate # "mid"
          /\ s' = [s EXCEPT !.link = ecu.rate]
          /\ pc' = CASE ecu.rate # "low"        -> "select_low"
                     [] ecu.rate = "low" /\ s.b0 -> "low_ready"
                     [] OTHER                   -> "bare"
       \/ s' = [s EXCEPT !.link = "unknown"] /\ pc' = "close"
---------------------------------------------------------------------------
\* The finally clause of _read_d2xx.
MarkRequired == s.acknowledged \/ (s.attempted /\ s.link = "low")
Close ==
    /\ pc = "close"
    /\ s' = [s EXCEPT !.pending = @ \/ MarkRequired,
                      !.lapsed = @ \/ (s.attempted /\ ~s.acknowledged /\ s.link = "unknown")]
    /\ pc' = "reopen"
    /\ UNCHANGED ecu /\ Same

\* _reopen_ds2_with_retry, on the way out.  Only a normal connection that
\* identified itself lets an image read be restarted at 9600.
Succeeded == s.got = Size /\ ~s.recovering
Reopen ==
    /\ pc = "reopen"
    /\ UNCHANGED <<ecu, touched>>
    /\ \/ Succeeded /\ Goto("result") /\ UNCHANGED outcome
       \/ /\ ecu.rate = "low" /\ ~Succeeded /\ s.kind = "image"
          /\ s' = [s EXCEPT !.got = 0] /\ pc' = "slow"
          /\ UNCHANGED outcome
       \/ /\ ~Succeeded
          /\ outcome' = (IF touched THEN "abandoned" ELSE "not_started")
          /\ Goto("idle")

\* _ds2_read: every block is asked for up to three times.
SlowBlock ==
    /\ pc = "slow"
    /\ UNCHANGED ecu
    /\ \/ /\ ecu.rate = "low"
          /\ s' = [s EXCEPT !.got = @ + 1]
          /\ pc' = IF s.got + 1 = Size THEN "result" ELSE "slow"
          /\ touched' = TRUE /\ UNCHANGED outcome
       \/ /\ outcome' = (IF touched THEN "abandoned" ELSE "not_started")
          /\ Goto("idle") /\ UNCHANGED touched

Return ==
    /\ pc = "result"
    /\ outcome' = "complete"
    /\ Goto("idle") /\ UNCHANGED <<ecu, touched>>

\* The window is closed, or the program dies: the registry is gone.
Exit ==
    /\ \/ pc = "idle" /\ UNCHANGED outcome
       \/ pc # "idle" /\ outcome' = (IF touched THEN "abandoned" ELSE "not_started")
    /\ pc' = "idle"
    /\ s' = [s EXCEPT !.pending = FALSE, !.lapsed = TRUE]
    /\ UNCHANGED <<ecu, touched>>

Ignition ==
    /\ ecu' = [rate |-> "low", staged |-> FALSE, latch |-> "clear"]
    /\ s' = [s EXCEPT !.lapsed = FALSE]
    /\ UNCHANGED <<pc, outcome, touched>>

\* Timer E72E runs out.
LatchReady ==
    /\ ecu.rate = "low" /\ ecu.latch # "ready"
    /\ ecu' = [ecu EXCEPT !.latch = "ready"]
    /\ UNCHANGED <<s, pc, outcome, touched>>

\* A native-fast write may have been there before.
Init ==
    /\ ecu \in [rate : {"low"}, staged : {FALSE}, latch : {"clear", "busy"}]
    /\ s = NewSession("image", TRUE, ecu.latch = "busy", FALSE)
    /\ pc = "idle" /\ outcome = "none" /\ touched = FALSE

Session == Begin \/ AwaitReentry \/ SwitchUp \/ Liveness \/ ReadBlock
Lowering == SelectLow \/ BareBmw \/ LowReady \/ Recover \/ Probe \/ Close
WorkerStep == Session \/ Lowering \/ Reopen \/ SlowBlock \/ Return

Next == Start \/ WorkerStep \/ Exit \/ Ignition \/ LatchReady

Spec == Init /\ [][Next]_vars
FairSpec == Spec /\ WF_vars(WorkerStep)
---------------------------------------------------------------------------
TypeOK ==
    /\ ecu \in Computers /\ s \in Sessions /\ pc \in Pcs
    /\ outcome \in {"none", "running", "not_started", "complete", "abandoned"}
    /\ touched \in BOOLEAN

\* The selector goes to a computer whose completion latch is still busy only
\* after a restart of the program, or after a selector of which it could not
\* learn whether it was taken.
LatchObserved == pc = "up" /\ Heard /\ ecu.latch = "busy" => s.lapsed

\* A read that succeeds leaves the computer at the low rate, out of the
\* selected state; so does one that is repeated at 9600, which the computer
\* may read in that state.
LeavesNormal ==
    /\ pc = "reopen" /\ pc' = "result" => ecu.rate = "low" /\ ~ecu.staged
    /\ pc = "reopen" /\ pc' = "slow" => ecu.rate = "low"
NormalAgain == [][LeavesNormal]_vars

Resting == pc = "idle"

\* The image, as the caller gets it: all of it from one reading, or nothing.
Content ==
    CASE touched /\ s.got = Size -> "target"
      [] touched /\ s.got # Size -> "torn"
      [] OTHER -> "kept"
Verdict == outcome
Promise == INSTANCE FlashOutcome WITH content <- Content, verdict <- Verdict
ImplementsPromise == Promise!Spec
===============================================================================
