----------------------------- MODULE LiveSessions -----------------------------
(***************************************************************************)
(* What the application switches on in the engine computer while it only   *)
(* looks: the live data poller, the roughness check (live_data.py,         *)
(* ms42_ms43_live.py) and the output tests (actuator_tests.py), each with  *)
(* a worker of its own, and the timers of gui.py that look at them.        *)
(*                                                                         *)
(* Every step of OperationOwner is a step here; what it does to a poller   *)
(* or an output test is carried out by the worker behind it.  Any request  *)
(* may be lost, carried out with its reply lost, refused, or answered      *)
(* "busy", and the ignition may be switched off at any time.               *)
(***************************************************************************)
EXTENDS OperationOwner, Integers

CONSTANTS Families,   \* of the engine computer: "MS41", "MS4x"
          MaxSamples  \* bound: samples of one polling session

ASSUME SessionsAssumption ==
    /\ Families # {} /\ Families \subseteq {"MS41", "MS4x"}
    /\ MaxSamples \in Nat

VARIABLES
    family,  \* of the connected engine computer
    on,      \* what is switched on in it: "check", "output", "telegram"
    rough,   \* RoughnessPoller: worker, _stop_confirmed, failures in a row
    out,     \* run_actuator_test: worker, requested, selector, its outcome
    live,    \* LiveDataPoller: worker, counters, and what the view was given
    reported \* history: what of `on` the user was told may be on

sessions == <<family, on, rough, out, live, reported>>
allVars == <<vars, sessions>>

\* A request that switches to `after`: answered or refused, or its reply is lost.
Answered(after) == on' = after
Refused == on' = on
Lost(after) == on' \in {on, after}
---------------------------------------------------------------------------
(* The roughness check.                                                    *)

NoCheck == [at |-> "none", confirmed |-> TRUE, failures |-> 0]
NewCheck == [at |-> "new", confirmed |-> FALSE, failures |-> 0]
Told == poller = "stopping"

\* RoughnessPoller._run: START, declined (needs_stop = False) or its outcome
\* unknown, which STOP then settles.
\* Mutant: any failed START is taken for a refusal.
LostIsRefused(c) == [c EXCEPT !.at = "ended", !.confirmed = TRUE]
UnknownStart(c) == [c EXCEPT !.at = "cleanup"]
RoughStart ==
    /\ rough.at = "new"
    /\ \/ Told /\ rough' = [rough EXCEPT !.at = "ended", !.confirmed = TRUE] /\ Refused
       \/ /\ ~Told
          /\ \/ rough' = [rough EXCEPT !.at = "read"] /\ Answered(on \cup {"check"})
             \/ rough' = [rough EXCEPT !.at = "ended", !.confirmed = TRUE] /\ Refused
             \/ rough' = UnknownStart(rough) /\ Lost(on \cup {"check"})

\* Three failures in a row end the acquisition.
RoughRead ==
    /\ rough.at = "read" /\ Refused
    /\ \/ Told /\ rough' = [rough EXCEPT !.at = "cleanup"]
       \/ ~Told /\ rough' = [rough EXCEPT !.failures = 0]
       \/ ~Told /\ rough' = [rough EXCEPT !.failures = @ + 1,
                                          !.at = IF rough.failures = 2 THEN "cleanup" ELSE "read"]

\* _cleanup, also on its own worker after Retry Stop.
RoughCleanup ==
    /\ rough.at = "cleanup"
    /\ \/ rough' = [rough EXCEPT !.at = "ended", !.confirmed = TRUE] /\ Answered(on \ {"check"})
       \/ rough' = [rough EXCEPT !.at = "ended", !.confirmed = FALSE] /\ Lost(on \ {"check"})

RoughStep == RoughStart \/ RoughRead \/ RoughCleanup

\* The handlers of the roughness window.  _on_roughness_stop looks at the worker
\* twice: one that ends in between is shown as unconfirmed although it is not.
RoughHandled ==
    CASE poller = "none" /\ poller' = "rough" -> rough' = NewCheck
      [] poller = "unconfirmed" /\ poller' = "stopping" ->
             rough' = IF rough.confirmed THEN rough ELSE [rough EXCEPT !.at = "cleanup"]
      [] poller \in {"rough", "stopping"} /\ poller' = "none" ->
             rough.at = "ended" /\ rough.confirmed /\ rough' = NoCheck
      [] poller \in {"rough", "stopping"} /\ poller' = "unconfirmed" ->
             /\ rough.at = "ended" /\ (rough.confirmed => Told)
             /\ UNCHANGED rough
      [] poller = "unconfirmed" /\ poller' = "none" -> rough' = NoCheck
      [] OTHER -> UNCHANGED rough
---------------------------------------------------------------------------
(* Output tests.                                                           *)

NoTest == [at |-> "none", requested |-> FALSE, selector |-> FALSE, error |-> FALSE, result |-> "ok"]
Cancelled == actuator = "stopping"
OutEnds(result) == out' = [out EXCEPT !.at = "done", !.result = result]
Later == family = "MS4x"

\* stop_output_override comes first: DIAGNOSE_ENDE does not end an override of
\* an MS42/MS43.
Stopping(test) == [test EXCEPT !.at = IF test.selector THEN "override" ELSE "end"]

\* The engine must run, or must not: two samples.
CheckRpm ==
    /\ out.at = "rpm" /\ Refused
    /\ \/ Cancelled /\ OutEnds("ok")
       \/ ~Cancelled /\ out' = [out EXCEPT !.at = "request"]
       \/ OutEnds("failed")

\* A timeout or malformed reply can follow an accepted request.
Requested(test) == [test EXCEPT !.requested = TRUE, !.selector = Later]
AfterError(test) ==
    IF test.requested THEN [Stopping(test) EXCEPT !.error = TRUE]
    ELSE [test EXCEPT !.at = "done", !.result = "failed"]
RequestOutput ==
    /\ out.at = "request"
    /\ \/ /\ Cancelled /\ Refused
          /\ IF out.requested THEN out' = Stopping(out) ELSE OutEnds("ok")
       \/ ~Cancelled /\ out' = Requested(out) /\ Refused       \* busy
       \/ out.requested /\ out' = AfterError(out) /\ Refused   \* still busy at the deadline
       \/ /\ ~Cancelled /\ Answered(on \cup {"output"})
          /\ out' = [Requested(out) EXCEPT !.at = "hold"]
       \/ ~Cancelled /\ out' = AfterError([Requested(out) EXCEPT !.selector = FALSE]) /\ Refused
       \/ ~Cancelled /\ out' = AfterError(Requested(out)) /\ Lost(on \cup {"output"})

Hold ==
    /\ out.at = "hold" /\ Refused
    /\ out' = Stopping(out)

StopOverride ==
    /\ out.at = "override"
    /\ \/ out' = [out EXCEPT !.at = "end"] /\ Answered(on \ {"output"})
       \/ OutEnds("unconfirmed") /\ Lost(on \ {"output"})

\* stop_actuator_test.
EndSession ==
    /\ out.at = "end"
    /\ LET after == IF Later THEN on ELSE on \ {"output"}
       IN  \/ /\ Answered(after)
              /\ out' = [out EXCEPT !.at = "done", !.selector = FALSE,
                                    !.result = IF out.error THEN "failed" ELSE "ok"]
           \/ OutEnds("unconfirmed") /\ Lost(after)

OutputStep == CheckRpm \/ RequestOutput \/ Hold \/ StopOverride \/ EndSession

\* The worker of OperationOwner's task reports what this one came to.
OutputHandled ==
    IF task # "output" /\ task' = "output" THEN out' = [NoTest EXCEPT !.at = "rpm"]
    ELSE IF task # "stop" /\ task' = "stop"
    THEN out' = Stopping([out EXCEPT !.error = FALSE])
    ELSE IF task \in {"output", "stop"} /\ step = "running" /\ step' # "running"
    THEN out.at = "done" /\ step' = out.result /\ UNCHANGED out
    ELSE IF task \in {"output", "stop"} /\ task' = "none"
    THEN out' = [out EXCEPT !.at = "none"]
    ELSE IF ds2 /\ ~ds2' THEN out' = NoTest
    ELSE UNCHANGED out
---------------------------------------------------------------------------
(* Live data.                                                              *)

NoLive == [at |-> "none", registered |-> FALSE, error |-> FALSE, sequence |-> 0, cursor |-> 0]
LiveFails(l) == [l EXCEPT !.at = IF l.registered THEN "unregister" ELSE "ended", !.error = TRUE]

\* The channels are resolved, the log is opened and, where the MS42/MS43 poller
\* uses telegrams, the selection registered.  A lost acknowledgement can still
\* leave the engine computer registered.  An MS41 keeps its selection for good.
Registered(l) == [l EXCEPT !.registered = TRUE]
LiveSetup ==
    /\ live.at = "setup"
    /\ \/ live' = [live EXCEPT !.at = "cycle"] /\ Refused
       \/ live' = LiveFails(live) /\ Refused
       \/ /\ Later /\ Answered(on \cup {"telegram"})
          /\ live' = [Registered(live) EXCEPT !.at = "cycle"]
       \/ /\ Later /\ Lost(on \cup {"telegram"})
          /\ live' \in {[Registered(live) EXCEPT !.at = "cycle"], LiveFails(Registered(live))}

\* A cycle that is complete is logged and counts as a sample; a log that cannot
\* be written ends the session.
Sampled(l) == [l EXCEPT !.sequence = @ + 1]
LiveCycle ==
    /\ live.at = "cycle" /\ Refused
    /\ \/ live.sequence < MaxSamples /\ live' = Sampled(live)
       \/ live' = LiveFails(live)

\* The registration is taken back, confirmed or not.
Unregistered(l, confirmed) ==
    [l EXCEPT !.registered = FALSE, !.error = @ \/ (l.registered /\ ~confirmed)]
TakenBack(l, confirmed) ==
    \/ ~l.registered /\ Refused
    \/ l.registered /\ confirmed /\ Answered(on \ {"telegram"})
    \/ l.registered /\ ~confirmed /\ Lost(on \ {"telegram"})
LiveUnregister ==
    /\ live.at = "unregister"
    /\ \E confirmed \in BOOLEAN :
          /\ live' = [Unregistered(live, confirmed) EXCEPT !.at = "ended"]
          /\ TakenBack(live, confirmed)

LiveStep == LiveSetup \/ LiveCycle \/ LiveUnregister

\* completed_samples_since: the samples behind the cursor are given to the view, or
\* those that the queue did not keep reported as missed.
Appended(l) == [l EXCEPT !.cursor = l.sequence]

LiveRefresh ==
    /\ poller = "live" /\ stage # "closed"
    /\ live' = Appended(live) /\ Refused

\* stop joins the worker, which may complete the cycle it is in; then
\* _on_live_stop appends what the view has not been given.
Joined(l) ==
    {l} \cup IF l.at = "cycle" /\ l.sequence < MaxSamples THEN {Sampled(l)} ELSE {}
Ended(l) == [Appended(l) EXCEPT !.at = "none"]

LiveHandled ==
    CASE poller = "none" /\ poller' = "live" ->
             live' = [NoLive EXCEPT !.at = "setup"] /\ UNCHANGED on
      [] poller = "live" /\ poller' # "live" ->
             \E l \in Joined(live), confirmed \in BOOLEAN :
                 /\ live' = Ended(Unregistered(l, confirmed))
                 /\ TakenBack(l, confirmed)
      [] OTHER -> UNCHANGED <<live, on>>
---------------------------------------------------------------------------
\* The view was told that the registration may stay; or the user disconnected over
\* an unconfirmed stop, and says that he has switched the ignition off.
ReportHandled ==
    reported' = on' \cap (reported
        \cup (IF poller = "live" /\ poller' = "none" /\ live'.error THEN {"telegram"} ELSE {})
        \cup (IF ds2 /\ ~ds2' /\ "unconfirmed" \in {poller, actuator} THEN on ELSE {}))

Handled == RoughHandled /\ OutputHandled /\ LiveHandled /\ ReportHandled /\ UNCHANGED family

OwnerStep == Calls /\ Handled
TimerStep == (EndRoughness \/ (live.error /\ EndLive)) /\ Handled
Worker(does, others) == stage # "closed" /\ does /\ UNCHANGED <<vars, family, others>> /\ reported' = reported \cap on'
RoughWorker == Worker(RoughStep, <<out, live>>)
OutputWorker == Worker(OutputStep, <<rough, live>>)
LiveWorker == Worker(LiveStep \/ LiveRefresh, <<rough, out>>)

\* Nothing is on in an engine computer without power.
PowerOff ==
    /\ on # {} /\ on' = {} /\ reported' = {}
    /\ UNCHANGED <<vars, family, rough, out, live>>

SessionsInit ==
    /\ Init
    /\ family \in Families
    /\ on = {} /\ rough = NoCheck /\ out = NoTest /\ live = NoLive /\ reported = {}

SessionsNext == OwnerStep \/ TimerStep \/ RoughWorker \/ OutputWorker \/ LiveWorker \/ PowerOff

SessionsSpec == SessionsInit /\ [][SessionsNext]_allVars

\* The workers run to their ends, the timers fire, and completions are delivered.
\* Nothing is assumed of the user or of a driver that hangs.
SessionsFair ==
    /\ SessionsSpec
    /\ WF_allVars(RoughWorker) /\ WF_allVars(OutputWorker) /\ WF_allVars(TimerStep)
    /\ WF_allVars(OutputTest /\ Handled) /\ WF_allVars(DoneOutput /\ Handled)
    /\ WF_allVars(CloseQueued /\ Handled)
---------------------------------------------------------------------------
(* Properties.                                                             *)

\* A worker exists while its session is shown as under way.
SessionsTypeOK ==
    /\ TypeOK
    /\ family \in Families /\ on \subseteq {"check", "output", "telegram"} /\ reported \subseteq on
    /\ rough \in [at : {"none", "new", "read", "cleanup", "ended"}, confirmed : BOOLEAN,
                  failures : 0 .. 3]
    /\ out \in [at : {"none", "rpm", "request", "hold", "override", "end", "done"},
                requested : BOOLEAN, selector : BOOLEAN, error : BOOLEAN,
                result : {"ok", "failed", "unconfirmed"}]
    /\ live.at \in {"none", "setup", "cycle", "unregister", "ended"}
    /\ {live.registered, live.error} \subseteq BOOLEAN
    /\ {live.sequence, live.cursor} \subseteq 0 .. MaxSamples
    /\ (poller \in {"rough", "stopping", "unconfirmed"}) = (rough.at # "none")
    /\ (poller = "live") = (live.at # "none")
    /\ (task \in {"output", "stop"}) = (out.at # "none")

\* What the program says has ended is off in the engine computer, whatever was
\* lost on the way, and no other operation works on one in which a check or an
\* output is still on.  The exceptions are what the user was told of: a telegram
\* registration that may stay, and a session given up by disconnecting.
SwitchedOff ==
    LET unseen == on \ reported
    IN  stage # "closed" =>
            /\ "check" \in unseen => poller \in {"rough", "stopping", "unconfirmed"}
            /\ "output" \in unseen => actuator # "none"
            /\ unseen \cap {"check", "output"} # {} => task \in {"none", "output", "stop"}
            /\ "telegram" \in unseen => poller = "live"

\* Every completed sample was given to the view when a session is over, also
\* those of the cycle that Stop waited for.
SamplesGiven == poller # "live" => live.cursor = live.sequence

\* What is shown of a session that is over is true.
ToldTruly == SwitchedOff /\ SamplesGiven

\* A stop the user asked for ends in a confirmed end or in a notice that it is
\* unconfirmed, and so does a request to close that waits for it.
StopAnswered ==
    /\ poller = "stopping" ~> poller # "stopping"
    /\ actuator = "stopping" ~> actuator # "stopping"
Answers == CloseAnswered /\ StopAnswered
===============================================================================
