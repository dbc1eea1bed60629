---------------------------- MODULE SoftBslInstall ----------------------------
(***************************************************************************)
(* The guided installation of the persistent Soft-BSL loader: cmd_install  *)
(* of engines/softbsl/softbsl_host.py under softbsl_install.py and the     *)
(* questions gui.py asks for it.                                           *)
(*                                                                         *)
(* Phase 1 writes a program with a disposable 0x43 door over stock DS2,    *)
(* native-fast or slow.  The door opens only after an ignition cycle.      *)
(* Phase 2 enters through it, erases program and boot sector and programs  *)
(* the target from RAM; phase 3 looks at the result.  The user is asked to *)
(* cycle the ignition, and may answer without having done so.              *)
(***************************************************************************)

VARIABLES
    ecu,      \* the engine computer
    s,        \* the installation in progress or retained
    pc,       \* its next step, the question that is open, or where it rests
    outcome,  \* history: what the operation was reported as
    touched   \* history: the operation has erased

vars == <<ecu, s, pc, outcome, touched>>

\* marker: E740 does not read 0.  mode "armed": normal operation in which the
\* door is open; "waiting": its loader expects the payload of a trigger and
\* answers nothing else; "fast": the high rate of the native-fast writer.
Computers ==
    [ program : {"old", "torn", "door", "target"}, boot : {"old", "torn", "target"},
      marker : BOOLEAN, mode : {"normal", "armed", "waiting", "agent", "fast", "dead"} ]

Questions == {"reentry", "keycycle", "not_ready", "entry_failed"}
Pcs == {"idle", "preflight", "deploy", "slow", "probe", "entry", "flash", "erase_boot",
        "program", "finalize", "verify", "held", "redeploy",
        "error", "retain"} \cup Questions
Replays == {"retry", "cycle", "unknown"}
Sessions ==
    [ retry_only : BOOLEAN, low : BOOLEAN, phase : {"bootstrap", "target"}, replay : Replays ]
NewSession == [retry_only |-> FALSE, low |-> FALSE, phase |-> "bootstrap", replay |-> "retry"]

\* After a reset or an ignition cycle.
Rebooted(e) ==
    [e EXCEPT !.mode =
        CASE e.boot = "torn"                          -> "dead"
          [] e.boot # "torn" /\ e.marker              -> "normal"
          [] e.boot # "torn" /\ ~e.marker ->
                 CASE e.program = "door" -> "armed"
                   [] e.program = "torn" -> "dead"
                   [] OTHER              -> "normal"]
AnswersDs2 == ecu.mode \in {"normal", "armed"}
---------------------------------------------------------------------------
Stays == UNCHANGED <<outcome, touched>>
Goto(label) == pc' = label /\ UNCHANGED s
Report(what) == pc' = "idle" /\ s' = NewSession /\ outcome' = what

\* What an error or a cancelled question ends the installation with.
Stopped == Report(IF touched' THEN "abandoned" ELSE "not_started")
Retain(phase, replay) ==
    /\ pc' = "retain"
    /\ s' = [NewSession EXCEPT !.phase = phase, !.replay = replay]
    /\ UNCHANGED outcome

\* The exception reaches _run_install and the handlers of gui.py.
Handle ==
    /\ UNCHANGED <<ecu, touched>>
    /\ \/ pc = "error" /\ Stopped
       \/ pc = "retain" /\ Goto("held") /\ UNCHANGED outcome

Start ==
    /\ pc = "idle"
    /\ ecu' = [ecu EXCEPT !.program = IF @ = "target" THEN "old" ELSE @,
                          !.boot = IF @ = "target" THEN "old" ELSE @]
    /\ s' = NewSession /\ pc' = "preflight"
    /\ outcome' = "running" /\ touched' = FALSE

\* The gates on flash chip, firmware family and compatibility, and CONVERT
\* typed where the calibration would be lost.
Preflight ==
    /\ pc = "preflight"
    /\ UNCHANGED <<ecu, touched>>
    /\ \/ AnswersDs2 /\ Goto("deploy") /\ UNCHANGED outcome
       \/ Stopped

\* cmd_deploy_splice over write_program_d2xx.
DeployFast ==
    /\ pc = "deploy"
    /\ ecu.mode \in {"normal", "armed"}
    /\ touched' = TRUE
    /\ \/ \* complete: at the high rate, or back and read again
          \E mode \in {"fast", "normal"} :
             /\ ecu' = [ecu EXCEPT !.program = "door", !.marker = FALSE, !.mode = mode]
             /\ Goto("keycycle") /\ UNCHANGED outcome
       \/ \* complete and back, but the second reading fails
          /\ ecu' = [ecu EXCEPT !.program = "door", !.marker = FALSE, !.mode = "normal"]
          /\ Goto("error") /\ UNCHANGED outcome
       \/ \* NativeWriteRecoveryRequired
          \E program \in {"torn", "door"} :
             /\ ecu' = [ecu EXCEPT !.program = program, !.marker = TRUE, !.mode = "fast"]
             /\ \E replay \in Replays : Retain("bootstrap", replay)

\* NativeFastPreEraseFailure.  A repeat that the user asked for goes on asking
\* and never becomes a slow write.
DeployNotStarted ==
    /\ pc = "deploy"
    /\ UNCHANGED touched
    /\ \/ \* reentry, identity or authorization not ready
          /\ ecu' \in {ecu, [ecu EXCEPT !.mode = IF AnswersDs2 THEN "fast" ELSE @]}
          /\ Goto("reentry") /\ UNCHANGED outcome
       \/ \* safe_legacy_fallback, or no native-fast transport
          /\ UNCHANGED <<ecu, outcome>>
          /\ Goto(IF s.retry_only THEN "reentry" ELSE "slow")
       \/ \* no seed, or no safe way back
          /\ ecu' \in {ecu, [ecu EXCEPT !.mode = IF AnswersDs2 THEN "fast" ELSE @]}
          /\ Stopped

\* The port is released while this question is open, and may be lost.
AnswerReentry ==
    /\ pc = "reentry"
    /\ UNCHANGED <<ecu, touched>>
    /\ \/ s' = [s EXCEPT !.retry_only = TRUE] /\ pc' = "deploy" /\ UNCHANGED outcome
       \/ Stopped

\* The slow writer of cmd_deploy_splice retains nothing.  Its finalizer only
\* warns; the targeted reading sees the entry code alone.
DeploySlow ==
    /\ pc = "slow"
    /\ \/ UNCHANGED <<ecu, touched>> /\ Stopped
       \/ /\ AnswersDs2
          /\ touched' = TRUE
          /\ \E program \in {"torn", "door"}, marker \in BOOLEAN :
                /\ ~marker => program = "door"
                /\ ecu' = [ecu EXCEPT !.program = program, !.marker = marker, !.mode = "normal"]
          /\ Goto("keycycle") \/ Goto("error")
          /\ UNCHANGED outcome

\* _install_keycycle: the prompt returns when the user says so.
Continue ==
    /\ pc = "keycycle"
    /\ Goto("probe")
    /\ UNCHANGED ecu /\ Stays

\* _verify_post_keycycle_bootstrap: identity, marker, hook and cave.
Proven == ~ecu.marker /\ ecu.program \in {"door", "torn"}
Probe ==
    /\ pc = "probe"
    /\ UNCHANGED <<ecu, touched>>
    /\ \/ AnswersDs2 /\ Proven /\ Goto("entry") /\ UNCHANGED outcome
       \/ AnswersDs2 /\ Stopped
       \/ Goto("not_ready") /\ UNCHANGED outcome

AnswerNotReady ==
    /\ pc = "not_ready"
    /\ UNCHANGED <<ecu, touched>>
    /\ \/ Goto("probe") /\ UNCHANGED outcome
       \/ Stopped

\* _session_with_baud_fallback: without D2XX the low rate; one trigger.  The
\* trigger may have been taken although its answer is missing, and an agent
\* that fails its three readings is reset.
Entry ==
    /\ pc = "entry"
    /\ Stays
    /\ \/ ~s.low /\ s' = [s EXCEPT !.low = TRUE] /\ UNCHANGED <<ecu, pc>>
       \/ ecu.mode = "armed" /\ ecu' = [ecu EXCEPT !.mode = "agent"] /\ Goto("flash")
       \/ /\ ecu' \in {ecu} \cup (IF ecu.mode = "armed"
                                  THEN {[ecu EXCEPT !.mode = "waiting"],
                                        [ecu EXCEPT !.mode = "agent"], Rebooted(ecu)}
                                  ELSE {})
          /\ Goto("entry_failed")

\* Mutant: the trigger is simply sent again.
EntryRepeated == "entry"
AfterEntryFailure == "keycycle"
AnswerEntryFailed ==
    /\ pc = "entry_failed"
    /\ UNCHANGED <<ecu, touched>>
    /\ \/ /\ s' = [s EXCEPT !.low = FALSE] /\ pc' = AfterEntryFailure
          /\ UNCHANGED outcome
       \/ Stopped
---------------------------------------------------------------------------
(* Phase 2, through the agent: flash_image, all erases, the boot sector    *)
(* last, then the programming and its verification.                        *)

\* A failure before the first erase resets the agent and ends.
FlashNotStarted ==
    /\ pc = "flash"
    /\ s.phase = "bootstrap"
    /\ UNCHANGED touched
    /\ ecu' \in {ecu, Rebooted(ecu)}
    /\ Stopped

EraseProgram ==
    /\ pc = "flash" /\ ecu.mode = "agent"
    /\ ecu' = [ecu EXCEPT !.program = "torn"]
    /\ touched' = TRUE
    /\ pc' = "erase_boot" /\ UNCHANGED <<s, outcome>>
EraseBoot ==
    /\ pc = "erase_boot" /\ ecu.mode = "agent"
    /\ ecu' = [ecu EXCEPT !.boot = "torn"]
    /\ Goto("program") /\ Stays
ProgramTarget ==
    /\ pc = "program" /\ ecu.mode = "agent"
    /\ ecu' = [ecu EXCEPT !.program = "target", !.boot = "target"]
    /\ Goto("finalize") /\ Stays
\* _RetainedInstallFlash: the agent and its port stay.  The one replay has
\* been spent when it fails.
FlashFails ==
    /\ pc \in {"flash", "erase_boot", "program"} /\ (pc = "flash" => s.phase = "target")
    /\ UNCHANGED touched
    /\ ecu' \in {ecu} \cup
           (IF ecu.mode # "agent" THEN {}
            ELSE {[ecu EXCEPT !.program = "torn", !.boot = b] :
                     b \in IF pc = "flash" THEN {ecu.boot} ELSE {ecu.boot, "torn"}}
                 \cup (IF pc = "program"
                       THEN {[ecu EXCEPT !.program = "target", !.boot = "target", !.mode = m] :
                                m \in {"agent", "normal"}}
                       ELSE {}))
    /\ Retain("target", IF s.phase = "target" THEN "unknown" ELSE "retry")

\* finalize_marker0 only warns when E740 does not read 0; _verify_install looks
\* and reports, and its result is not used.
Finalize ==
    /\ pc = "finalize"
    /\ ecu' \in {ecu, Rebooted(ecu)}
    /\ Goto("verify") /\ Stays
VerifyInstall ==
    /\ pc = "verify"
    /\ UNCHANGED <<ecu, touched>>
    /\ Report("complete") \/ Stopped
---------------------------------------------------------------------------
(* The retained installation, the user and the surroundings.               *)

\* resume_install_recovery, through the session that is still open.
Retry ==
    /\ pc = "held" /\ s.replay = "retry"
    /\ Goto(IF s.phase = "bootstrap" THEN "redeploy" ELSE "flash")
    /\ UNCHANGED ecu /\ Stays

Redeploy ==
    /\ pc = "redeploy"
    /\ UNCHANGED touched
    /\ \/ /\ ecu.mode = "fast"
          /\ \E mode \in {"fast", "normal"} :
                ecu' = [ecu EXCEPT !.program = "door", !.marker = FALSE, !.mode = mode]
          /\ Goto("keycycle") /\ UNCHANGED outcome
       \/ /\ \/ UNCHANGED ecu
             \/ /\ ecu.mode = "fast"
                /\ \E program \in {"torn", "door"} :
                      ecu' = [ecu EXCEPT !.program = program, !.marker = TRUE]
          /\ \E replay \in Replays : Retain("bootstrap", replay)

\* close_after_confirmed_power_cycle, or the program is closed or dies.
Exit == pc # "idle" /\ UNCHANGED <<ecu, touched>> /\ Stopped

Ignition == pc \notin {"deploy", "slow"} /\ ecu' = Rebooted(ecu) /\ UNCHANGED <<s, pc, outcome, touched>>

Init ==
    /\ ecu = [program |-> "old", boot |-> "old", marker |-> FALSE, mode |-> "normal"]
    /\ s = NewSession /\ pc = "idle" /\ outcome = "none" /\ touched = FALSE

Phase1 == Preflight \/ DeployFast \/ DeployNotStarted \/ DeploySlow \/ Redeploy \/ Probe
Phase2 == Entry \/ FlashNotStarted \/ EraseProgram \/ EraseBoot \/ ProgramTarget \/ FlashFails
WorkerStep == Phase1 \/ Phase2 \/ Finalize \/ VerifyInstall \/ Handle

Next ==
    \/ Start \/ WorkerStep
    \/ AnswerReentry \/ Continue \/ AnswerNotReady \/ AnswerEntryFailed
    \/ Retry \/ Exit \/ Ignition

Spec == Init /\ [][Next]_vars
FairSpec == Spec /\ WF_vars(WorkerStep)
---------------------------------------------------------------------------
TypeOK ==
    /\ ecu \in Computers /\ s \in Sessions /\ pc \in Pcs
    /\ outcome \in {"none", "running", "not_started", "complete", "abandoned"}
    /\ touched \in BOOLEAN

\* A trigger is sent only to a computer that was seen in normal operation since
\* the last one: a loader that waits for its payload would take it for that.
OneTrigger == pc = "entry" => ecu.mode # "waiting" /\ ~ecu.marker

Resting == pc \in Questions \cup {"idle", "held"}

Content ==
    CASE ~touched -> "kept"
      [] touched /\ ecu.program = "target" /\ ecu.boot = "target" -> "target"
      [] OTHER -> "torn"
Verdict == IF pc = "held" THEN "held" ELSE outcome
===============================================================================
