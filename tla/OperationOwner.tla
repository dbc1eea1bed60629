---------------------------- MODULE OperationOwner ----------------------------
(***************************************************************************)
(* Who may talk to the engine computer: PortOwner, the task runner of      *)
(* gui.py, the hand-over of the port between the engines, the sessions     *)
(* retained after a failed write, Connect with its Cancel, the pollers of  *)
(* live data and cylinder roughness, the output tests, and closing the     *)
(* window.                                                                 *)
(*                                                                         *)
(* Three kinds of threads interleave: the GUI thread, the worker of a task *)
(* (which also moves the port) and the pollers.  A modal question stops    *)
(* the user's clicks but not the completion of a task, which is delivered  *)
(* in the event loop of the question.  A call queued with a zero timer     *)
(* runs before the next click.                                             *)
(***************************************************************************)
CONSTANT Tasks   \* the operations of this instance

AllTasks == {"read", "write", "ms42", "native", "fast", "eeprom", "ch341a", "install",
             "crossbank", "boot", "agent", "bsl", "output", "stop", "retry"}
ASSUME OperationAssumption == Tasks \subseteq AllTasks

VARIABLES
    owner,        \* PortOwner._owner
    ds2,          \* _ds2: the connected interface is open
    engine,       \* the owner name under which a worker has its own handle open
    boot,         \* _softbsl_boot_session is open
    pending,      \* _connect_pending and _connect_attempt
    connecting,   \* the worker of Connect
    task, step,   \* the worker of any other task, and where it is
    busy,         \* _task_busy
    controls,     \* the last argument of _set_all_buttons_enabled
    handoff,      \* _softbsl_handoff_port is set
    retained,     \* the write whose session is kept open
    replay,       \* what the retained session allows
    poller,       \* _poller and _roughness_poller
    actuator,     \* _actuator_stop_event and _actuator_cleanup_pending
    closePending, \* _actuator_close_pending
    queued,       \* the call waiting in a zero timer
    stage,        \* closeEvent: the question that is open
    ignored       \* history: a task was refused after its port was taken

port == <<owner, ds2, engine, boot>>
conn == <<pending, connecting>>
work == <<task, step, busy, controls, handoff>>
held == <<retained, replay>>
side == <<poller, actuator, closePending, queued>>
vars == <<owner, ds2, engine, boot, pending, connecting, task, step, busy, controls,
          handoff, retained, replay, poller, actuator, closePending, queued, stage, ignored>>

Owners == {"free", "flasher", "native_fast_ds2", "softbsl", "eeprom", "bsl"}
\* The owner name of the engines a worker hands the port to, of the sessions
\* that are kept, and the session each failed operation leaves.
Engines == [native |-> "native_fast_ds2", fast |-> "softbsl", eeprom |-> "eeprom"]
KeptOwner == [legacy |-> "flasher", native |-> "native_fast_ds2", softbsl |-> "softbsl",
              install |-> "softbsl", eeprom |-> "eeprom", ms42 |-> "flasher"]
KeptAs == [write |-> "legacy", native |-> "native", fast |-> "softbsl", agent |-> "softbsl",
           install |-> "install", eeprom |-> "eeprom", ms42 |-> "ms42"]
Kept == DOMAIN KeptOwner
OnLink == {"read", "write", "ms42", "output", "stop"}
Flashed == {"legacy", "native", "softbsl", "install"}

\* _active_write_recovery: an interrupted MS42/MS43 write and an EEPROM write
\* are looked after separately.
FlashRecovery == retained \in Flashed

---------------------------------------------------------------------------
(* PortOwner.                                                              *)

CanAcquire(name) == owner \in {"free", name}
\* Mutant: whoever releases frees the port.
ReleasedByAnyone(name, holder) == "free"
Released(name, holder) == IF holder = name THEN "free" ELSE holder

\* open_identified: the interface answers again, or _mark_ds2_reconnect_failed.
Reopened == \/ ds2' = TRUE  /\ owner' = "flasher"
            \/ ds2' = FALSE /\ owner' = "free"

\* What _disconnect releases.
Disconnected(holder) ==
    IF holder = "softbsl" /\ retained # "softbsl" THEN "free" ELSE Released("flasher", holder)

---------------------------------------------------------------------------
(* The task runner.                                                        *)

\* A click reaches its handler: no question is open, no zero timer waits.
Clickable == stage = "open" /\ step # "prompt" /\ queued = "none"
Enabled == Clickable /\ controls /\ actuator # "unconfirmed"

\* _run_task: the live poller is joined; a roughness session must have been
\* confirmed as stopped.
\* Mutant: the runner leaves the pollers alone.
PollersIgnored == poller' = poller
PollersStopped == poller \in {"none", "live"} /\ poller' = "none"

RunTask(t) ==
    /\ ~busy
    /\ actuator = "unconfirmed" => t = "stop"
    /\ PollersStopped
    /\ task' = t /\ step' = "running"
    /\ busy' = TRUE /\ controls' = FALSE

\* A task on the connected interface, or one that hands it over by itself.
StartConnected(t) ==
    /\ t \in {"read", "write", "ms42", "native", "fast", "eeprom", "output"}
    /\ Enabled /\ ds2 /\ retained = "none"
    /\ RunTask(t)
    /\ actuator' = IF t = "output" THEN "running" ELSE actuator
    /\ UNCHANGED <<port, conn, handoff, held, closePending, queued, stage, ignored>>

\* The CH341A programmer has its own hardware.
StartProgrammer ==
    /\ Enabled /\ retained = "none"
    /\ RunTask("ch341a")
    /\ UNCHANGED <<port, conn, handoff, held, actuator, closePending, queued, stage, ignored>>

\* _acquire_softbsl_port with the DS2 hand-over, then the task.
StartHandedOver(t) ==
    /\ t \in {"install", "crossbank"}
    /\ Enabled /\ ds2 /\ retained = "none"
    /\ RunTask(t)
    /\ ds2' = FALSE
    /\ owner' = "softbsl" /\ engine' = "softbsl"
    /\ handoff' = TRUE
    /\ UNCHANGED <<boot, conn, held, actuator, closePending, queued, stage, ignored>>

\* The dialogs before an installation are cancelled: _release_softbsl_port.
CancelInstall ==
    /\ Enabled /\ ds2 /\ ~busy /\ retained = "none"
    /\ PollersStopped
    /\ Reopened
    /\ UNCHANGED <<engine, boot, conn, work, held, actuator, closePending, queued, stage, ignored>>

\* _connect_calguard_boot and the hardware BSL take the port first; while
\* another task runs _run_task then does nothing, and the port stays taken.
Takes == [boot |-> "softbsl", bsl |-> "bsl"]
StartWithPort(t) ==
    /\ t \in {"boot", "bsl"}
    /\ Enabled /\ pending = "none"
    /\ t = "boot" => ~ds2 /\ ~boot /\ ~FlashRecovery /\ retained # "eeprom"
    /\ CanAcquire(Takes[t])
    /\ owner' = Takes[t]
    /\ IF busy
       THEN /\ ignored' = TRUE
            /\ UNCHANGED <<engine, work, poller>>
       ELSE /\ RunTask(t)
            /\ engine' = Takes[t]
            /\ UNCHANGED <<handoff, ignored>>
    /\ UNCHANGED <<ds2, boot, conn, held, actuator, closePending, queued, stage>>

\* A read or a write on the retained CalGuard agent.
StartAgent ==
    /\ Enabled /\ boot /\ retained = "none"
    /\ RunTask("agent")
    /\ UNCHANGED <<port, conn, handoff, held, actuator, closePending, queued, stage, ignored>>

\* Retry Flash Recovery, Retry Same Image, Resolve Pending Write: by the button
\* or by the call the failure dialog queued.
StartRetry ==
    /\ retained # "none" /\ replay = "retry"
    /\ Enabled \/ (queued = "retry" /\ stage # "closed")
    /\ queued' = "none"
    /\ RunTask("retry")
    /\ UNCHANGED <<port, conn, handoff, held, actuator, closePending, stage, ignored>>

---------------------------------------------------------------------------
(* The worker.                                                             *)

Result(outcome) ==
    stage # "closed" /\ step' = outcome /\ UNCHANGED <<task, busy, controls, handoff>>

Retain ==
    /\ retained' = KeptAs[task]
    /\ replay' \in {"retry", "cycle", "unknown"}

\* A task that uses the connected interface, the programmer or the agent.
WorkInPlace ==
    /\ step = "running"
    /\ task \in OnLink \cup {"ch341a"}
    /\ \E outcome \in {"ok", "failed"} : Result(outcome)
    /\ UNCHANGED <<port, conn, held, side, stage, ignored>>

\* DIAGNOSE_ENDE was not acknowledged.
StopUnacknowledged ==
    /\ step = "running" /\ task \in {"output", "stop"}
    /\ Result("unconfirmed")
    /\ UNCHANGED <<port, conn, held, side, stage, ignored>>

\* The slow writer fails after an erase: the recovery keeps the interface.  An
\* MS42/MS43 session stays the connected interface.
KeepSlowWrite ==
    /\ step = "running" /\ task \in {"write", "ms42"}
    /\ Retain
    /\ ds2' = (task = "ms42")
    /\ Result("failed")
    /\ UNCHANGED <<owner, engine, boot, conn, side, stage, ignored>>

\* The worker gives up the connected interface, then takes the port.
ReleaseLink ==
    /\ step = "running" /\ task \in DOMAIN Engines
    /\ ds2' = FALSE
    /\ owner' = Released("flasher", owner)
    /\ Result("released")
    /\ UNCHANGED <<engine, boot, conn, held, side, stage, ignored>>

TakePort ==
    /\ step = "released"
    /\ IF CanAcquire(Engines[task])
       THEN owner' = Engines[task] /\ engine' = owner' /\ Result("engine")
       ELSE UNCHANGED <<owner, engine>> /\ Result("failed")
    /\ UNCHANGED <<ds2, boot, conn, held, side, stage, ignored>>

\* The finally clause: normal DS2 is restored, except after a completed write
\* that ends the session and after a Soft-BSL return that was not confirmed.
GiveBack ==
    /\ step = "engine"
    /\ engine' = "none"
    /\ \/ Reopened /\ \E outcome \in {"ok", "failed"} : Result(outcome)
       \/ ds2' = FALSE /\ owner' = "flasher" /\ task = "native" /\ Result("ok")
       \/ ds2' = FALSE /\ owner' = "free" /\ task = "fast"
          /\ \E outcome \in {"ok", "unconfirmed"} : Result(outcome)
    /\ UNCHANGED <<boot, conn, held, side, stage, ignored>>

\* Mutant: the port is given back although the session is retained.
OwnerGivenUp == "free"
OwnerKept == owner

\* NativeWriteRecoveryRequired, SoftBSLWriteRecoveryRequired, EepromCommitUnknown,
\* SoftBSLInstallRecoveryRequired: handle and port stay with the session.
KeepEngine ==
    /\ \/ step = "engine"
       \/ step = "running" /\ task \in {"install", "agent"}
    /\ Retain
    /\ task = "eeprom" => replay' = "retry"
    /\ engine' = "none"
    /\ boot' = FALSE
    /\ owner' = OwnerKept
    /\ Result("failed")
    /\ UNCHANGED <<ds2, conn, side, stage, ignored>>

\* A task whose port the GUI thread took.
FinishTaken ==
    /\ step = "running" /\ task \in {"install", "crossbank", "bsl", "boot"}
    /\ engine' = "none"
    /\ \E outcome \in {"ok", "failed"} : Result(outcome)
    /\ boot' = (task = "boot" /\ step' = "ok")
    /\ UNCHANGED <<owner, ds2, conn, held, side, stage, ignored>>

\* _run_retained_softbsl_write and read_boot_recovery.  A write that succeeded
\* has closed the session; one that failed may have.
FinishAgent ==
    /\ step = "running" /\ task = "agent"
    /\ \E outcome \in {"ok", "failed"} : Result(outcome)
    /\ boot' \in BOOLEAN
    /\ UNCHANGED <<owner, ds2, engine, conn, held, side, stage, ignored>>

\* The installer needs an ignition cycle before its first write: its handle is
\* closed, the GUI disconnects (which enables the controls) and asks.
AskPhase1 ==
    /\ step = "running" /\ task = "install" /\ stage # "closed"
    /\ engine' = "none" /\ ds2' = FALSE
    /\ owner' = Released("softbsl", Disconnected(owner))
    /\ handoff' = FALSE
    /\ controls' = TRUE
    /\ step' = "prompt"
    /\ UNCHANGED <<boot, conn, task, busy, held, side, stage, ignored>>

AnswerPhase1 ==
    /\ step = "prompt"
    /\ \/ CanAcquire("softbsl") /\ owner' = "softbsl" /\ engine' = "softbsl" /\ Result("running")
       \/ UNCHANGED <<owner, engine>> /\ Result("failed")
    /\ UNCHANGED <<ds2, boot, conn, held, side, stage, ignored>>

\* resume_recovery, resume_legacy_recovery, resume_write_recovery,
\* resume_install, resolve_write_recovery, retry_write: the session is repaired
\* and closed, a finalization fails after it was closed, or it stays.
FinishRetry ==
    /\ step = "running" /\ task = "retry"
    /\ \/ /\ retained' = "none" /\ UNCHANGED replay
          /\ Result("ok") \/ (retained \in {"softbsl", "install", "eeprom"} /\ Result("failed"))
          /\ CASE retained \in {"legacy", "ms42"} -> ds2' = TRUE /\ UNCHANGED owner
               [] retained = "install"            -> UNCHANGED <<ds2, owner>>
               [] retained \in {"softbsl", "eeprom"} -> Reopened
               [] retained = "native" ->
                      Reopened \/ (ds2' = FALSE /\ owner' = "flasher")
       \/ /\ UNCHANGED <<retained, owner, ds2>>
          /\ replay' \in IF retained = "eeprom" THEN {"retry"} ELSE {"retry", "cycle", "unknown"}
          /\ Result("failed")
    /\ UNCHANGED <<engine, boot, conn, side, stage, ignored>>

---------------------------------------------------------------------------
(* Completion, in the GUI thread: the callbacks, then the controls.        *)

\* Mutant: the runner stays busy after a failure.
BusyAfterFailure == busy' = (step = "failed") /\ controls' = TRUE
NotBusy == busy' = FALSE /\ controls' = TRUE
Delivered ==
    /\ step \in {"ok", "failed", "unconfirmed"}
    /\ stage # "closed"
    /\ step' = "idle" /\ task' = "none"
    /\ NotBusy

Off == ds2' = FALSE /\ owner' = Disconnected(owner)

\* Tasks that leave the connection as it is, or end with _disconnect: after a
\* full write, after a Soft-BSL return that was not confirmed, and when the
\* write consumed the boot session.  A failed write with a retained session
\* offers the retry, which a zero timer starts.
Done ==
    /\ Delivered
    /\ task \in {"read", "write", "ms42", "native", "fast", "eeprom", "ch341a", "agent"}
    /\ \/ /\ step = "failed" /\ FlashRecovery
          /\ queued' \in IF replay = "retry" THEN {"none", "retry"} ELSE {"none"}
          /\ UNCHANGED <<ds2, owner>>
       \/ /\ ~(step = "failed" /\ FlashRecovery)
          /\ UNCHANGED queued
          /\ \/ Off /\ \/ step = "unconfirmed"
                       \/ step = "ok" /\ task \in {"write", "native", "fast"}
                       \/ task = "agent" /\ ~boot
             \/ /\ step # "unconfirmed"
                /\ task = "native" => (ds2 \/ owner = "free")
                /\ task = "agent" => boot
                /\ UNCHANGED <<ds2, owner>>
    /\ UNCHANGED <<engine, boot, conn, handoff, held, poller, actuator, closePending, stage, ignored>>

\* _on_softbsl_install_success and _failure, and those of cross-bank.
DoneHandedOver ==
    /\ Delivered
    /\ \/ task \in {"install", "crossbank"}
       \/ task = "retry" /\ retained = "none" /\ owner = "softbsl"
    /\ CASE task = "install" /\ retained = "install" ->
              /\ queued' \in IF replay = "retry" THEN {"none", "retry"} ELSE {"none"}
              /\ UNCHANGED <<ds2, owner, handoff>>
         [] step = "failed" /\ task # "crossbank" /\ handoff /\ retained = "none" ->
              Reopened /\ handoff' = FALSE /\ UNCHANGED queued
         [] OTHER ->
              /\ ds2' = FALSE
              /\ owner' = IF step = "failed" /\ task # "crossbank"
                          THEN Released("softbsl", owner)
                          ELSE Released("softbsl", Disconnected(owner))
              /\ handoff' = FALSE /\ UNCHANGED queued
    /\ UNCHANGED <<engine, boot, conn, held, poller, actuator, closePending, stage, ignored>>

DoneTaken ==
    /\ Delivered
    /\ task \in {"boot", "bsl"}
    /\ owner' = IF task = "boot" /\ step = "ok" THEN owner ELSE Released(Takes[task], owner)
    /\ UNCHANGED <<ds2, engine, boot, conn, handoff, held, side, stage, ignored>>

DoneRetry ==
    /\ Delivered
    /\ task = "retry"
    /\ ~(retained = "none" /\ owner = "softbsl")
    /\ \/ step = "ok" /\ Off
       \/ (step = "ok" => ds2 \/ owner = "free") /\ UNCHANGED <<ds2, owner>>
    /\ UNCHANGED <<engine, boot, conn, handoff, held, side, stage, ignored>>

\* Mutant: the request to close is kept and never answered.
NeverAnswered == UNCHANGED <<queued, closePending>>
AnswerClose ==
    IF actuator' = "none" /\ closePending
    THEN queued' = "close" /\ UNCHANGED closePending
    ELSE closePending' = FALSE /\ UNCHANGED queued

\* The output test ended, or its Stop is not confirmed; a window that waits for
\* it is closed, or the close request is dropped.
DoneOutput ==
    /\ Delivered
    /\ task \in {"output", "stop"}
    /\ actuator' = CASE step = "unconfirmed"            -> "unconfirmed"
                     [] task = "stop" /\ step = "failed" -> "unconfirmed"
                     [] OTHER                           -> "none"
    /\ AnswerClose
    /\ UNCHANGED <<port, conn, handoff, held, poller, stage, ignored>>

---------------------------------------------------------------------------
(* Connect, Cancel and Disconnect.                                         *)

Connect ==
    /\ Enabled /\ ~ds2 /\ ~boot
    /\ retained = "none" /\ pending = "none"
    /\ CanAcquire("flasher")
    /\ owner' = "flasher"
    /\ pending' = "active"
    /\ IF busy
       THEN ignored' = TRUE /\ UNCHANGED <<connecting, busy, controls>>
       ELSE /\ connecting' = "opening"
            /\ busy' = TRUE /\ controls' = FALSE
            /\ UNCHANGED ignored
    /\ UNCHANGED <<ds2, engine, boot, task, step, handoff, held, side, stage>>

\* The worker opens its provisional interface and closes it when a probe fails.
Probe ==
    /\ connecting = "opening" /\ stage # "closed"
    /\ connecting' \in {"opened", "failed", "stuck"}
    /\ UNCHANGED <<port, pending, work, held, side, stage, ignored>>

\* The button says Cancel, or thirty seconds are over.
CancelConnect ==
    /\ pending = "active" /\ stage # "closed"
    /\ pending' = "cancelled"
    /\ busy' = IF connecting = "none" THEN busy ELSE FALSE
    /\ controls' = ~busy'
    /\ UNCHANGED <<port, connecting, task, step, handoff, held, side, stage, ignored>>

\* Mutant: a cancelled connection frees the port while its worker closes it.
FreedAtOnce == pending' = "none" /\ owner' = Released("flasher", owner)
ClosingKept == UNCHANGED <<pending, owner>>

\* on_success and on_failure: the result of a cancelled attempt is closed by
\* its worker; a close that failed keeps the port for good.
ConnectDone ==
    /\ connecting \in {"opened", "failed", "stuck"} /\ stage # "closed"
    /\ busy' = IF pending = "active" THEN FALSE ELSE busy
    /\ controls' = ~busy'
    /\ CASE connecting = "opened" /\ pending = "active" ->
                /\ connecting' = "none" /\ pending' = "none"
                /\ ds2' = TRUE /\ UNCHANGED owner
         [] connecting = "opened" /\ pending = "cancelled" ->
                connecting' = "discarding" /\ ClosingKept /\ UNCHANGED ds2
         [] connecting = "failed" ->
                /\ connecting' = "none" /\ pending' = "none"
                /\ owner' = Released("flasher", owner) /\ UNCHANGED ds2
         [] connecting = "stuck" ->
                connecting' = "wedged" /\ pending' = "cancelled" /\ UNCHANGED <<ds2, owner>>
    /\ UNCHANGED <<engine, boot, task, step, handoff, held, side, stage, ignored>>

\* discard_result, then _finish_connect_cleanup.
Discard ==
    /\ connecting = "discarding" /\ stage # "closed"
    /\ \/ /\ connecting' = "none" /\ pending' = "none"
          /\ owner' = Released("flasher", owner)
          /\ controls' = ~busy
       \/ connecting' = "wedged" /\ UNCHANGED <<pending, owner, controls>>
    /\ UNCHANGED <<ds2, engine, boot, task, step, busy, handoff, held, side, stage, ignored>>

\* The questions and refusals of _disconnect that do not depend on the caller.
\* boot: close_boot_recovery proved E740=0.
MayDisconnect ==
    /\ ~busy \/ actuator # "unconfirmed"
    /\ actuator \notin {"running", "stopping"}
    /\ retained # "eeprom"
    /\ poller \in {"none", "live", "unconfirmed"}

Disconnect ==
    /\ Clickable /\ controls
    /\ ds2 \/ boot
    /\ retained \in {"none", "ms42"}
    /\ MayDisconnect
    /\ ds2' = FALSE /\ boot' = FALSE
    /\ owner' = IF boot THEN Released("softbsl", owner) ELSE Disconnected(owner)
    /\ retained' = "none"
    /\ poller' = "none" /\ actuator' = "none"
    /\ controls' = TRUE
    /\ UNCHANGED <<engine, conn, task, step, busy, handoff, replay, closePending, queued, stage, ignored>>

\* _release_flash_recovery_after_cycle.
ConfirmCycle ==
    /\ Enabled /\ ~busy
    /\ FlashRecovery /\ replay = "cycle"
    /\ retained' = "none"
    /\ ds2' = FALSE /\ owner' = "free"
    /\ controls' = TRUE
    /\ UNCHANGED <<engine, boot, conn, task, step, busy, handoff, replay, side, stage, ignored>>

---------------------------------------------------------------------------
(* Pollers and output tests.                                               *)

StartPoller(kind) ==
    /\ Enabled /\ ds2 /\ ~busy
    /\ poller = "none" /\ retained # "ms42"
    /\ poller' = kind
    /\ UNCHANGED <<port, conn, work, held, actuator, closePending, queued, stage, ignored>>

\* Stop, Retry Stop, or the attempt to start something else.
StopPoller ==
    /\ Clickable
    /\ \/ poller = "live" /\ poller' = "none"
       \/ poller \in {"rough", "unconfirmed"} /\ poller' = "stopping"
    /\ UNCHANGED <<port, conn, work, held, actuator, closePending, queued, stage, ignored>>

\* The roughness worker ends its session, when told to or after three failures.
EndRoughness ==
    /\ poller \in {"rough", "stopping"} /\ stage # "closed"
    /\ poller' \in {"none", "unconfirmed"}
    /\ UNCHANGED <<port, conn, work, held, actuator, closePending, queued, stage, ignored>>

\* The live worker gave up; the display's timer takes its poller away.
EndLive ==
    /\ poller = "live" /\ stage # "closed"
    /\ poller' = "none"
    /\ UNCHANGED <<port, conn, work, held, actuator, closePending, queued, stage, ignored>>

StopOutput ==
    /\ Clickable
    /\ \/ actuator = "running" /\ actuator' = "stopping" /\ UNCHANGED <<work, poller>>
       \/ actuator = "unconfirmed" /\ ds2 /\ RunTask("stop") /\ UNCHANGED <<handoff, actuator>>
    /\ UNCHANGED <<port, conn, held, closePending, queued, stage, ignored>>

---------------------------------------------------------------------------
(* Closing the window.                                                     *)

\* The rest of closeEvent: _disconnect, then the end of the program.  What
\* _disconnect asks about, it asks of the current state.
EndProgram ==
    /\ IF MayDisconnect
       THEN \/ stage' = "closed"
            \/ stage' = "open" /\ (retained = "ms42" \/ boot \/ "unconfirmed" \in {poller, actuator})
       ELSE stage' = "open"
    /\ poller' = CASE poller = "rough" -> "stopping"
                   [] poller = "live"  -> "none"
                   [] OTHER            -> poller

\* closeEvent.  The retained session is looked up once, before any question.
CloseEvent ==
    \/ /\ actuator \in {"running", "stopping"} \/ (actuator = "unconfirmed" /\ busy)
       /\ closePending' = TRUE
       /\ actuator' = IF actuator = "running" THEN "stopping" ELSE actuator
       /\ UNCHANGED <<poller, stage>>
    \/ /\ actuator \in {"none", "unconfirmed"} /\ ~(actuator = "unconfirmed" /\ busy)
       /\ UNCHANGED <<actuator, closePending>>
       /\ LET connectOnly == /\ pending # "none" /\ ~FlashRecovery
                             /\ retained # "eeprom" /\ owner # "eeprom"
                             /\ (pending = "active" /\ connecting # "none") \/ ~busy
              onEeprom == "eeprom" \in {retained, owner, task} \/ task = "ch341a"
          IN  CASE connectOnly -> stage' = "closed" /\ UNCHANGED poller
                [] ~connectOnly /\ busy ->
                       /\ ~onEeprom /\ ~FlashRecovery
                       /\ stage' = "ask_busy" /\ UNCHANGED poller
                [] ~connectOnly /\ ~busy /\ retained = "eeprom" ->
                       stage' = "ask_eeprom" /\ UNCHANGED poller
                [] ~connectOnly /\ ~busy /\ FlashRecovery ->
                       stage' = "ask_recovery" /\ UNCHANGED poller
                [] OTHER -> EndProgram

CloseWindow ==
    /\ Clickable
    /\ CloseEvent
    /\ UNCHANGED <<port, conn, work, held, queued, ignored>>

\* The close that waited for the output test.
CloseQueued ==
    /\ queued = "close" /\ stage # "closed"
    /\ queued' = "none"
    /\ CloseEvent
    /\ UNCHANGED <<port, conn, work, held, ignored>>

\* "Close anyway?" asked over a running task.
AnswerBusy ==
    /\ stage = "ask_busy"
    /\ \/ stage' = "open" /\ UNCHANGED poller
       \/ EndProgram
    /\ UNCHANGED <<port, conn, work, held, actuator, closePending, queued, ignored>>

\* "EEPROM Recovery Active" and "Flash Recovery Active": the session is closed,
\* unless closing an EEPROM session fails.
AnswerRecovery ==
    /\ stage \in {"ask_eeprom", "ask_recovery"}
    /\ \/ stage' = "open" /\ UNCHANGED <<retained, owner, poller>>
       \/ /\ retained' = "none"
          /\ owner' = Released(KeptOwner[retained], owner)
          /\ stage' = "closed" /\ UNCHANGED poller
    /\ UNCHANGED <<ds2, engine, boot, conn, work, replay, actuator, closePending, queued, ignored>>

Terminated == stage = "closed" /\ UNCHANGED vars

Init ==
    /\ owner = "free" /\ ds2 = FALSE /\ engine = "none" /\ boot = FALSE
    /\ pending = "none" /\ connecting = "none"
    /\ task = "none" /\ step = "idle" /\ busy = FALSE /\ controls = TRUE
    /\ handoff = FALSE /\ retained = "none" /\ replay = "retry"
    /\ poller = "none" /\ actuator = "none" /\ closePending = FALSE
    /\ queued = "none" /\ stage = "open" /\ ignored = FALSE

OutputTest == WorkInPlace \/ StopUnacknowledged

Calls ==
    \/ \E t \in Tasks : StartConnected(t) \/ StartHandedOver(t) \/ StartWithPort(t)
    \/ "ch341a" \in Tasks /\ StartProgrammer
    \/ "install" \in Tasks /\ CancelInstall
    \/ "agent" \in Tasks /\ StartAgent
    \/ StartRetry
    \/ OutputTest \/ KeepSlowWrite \/ ReleaseLink \/ TakePort \/ GiveBack
    \/ KeepEngine \/ FinishTaken \/ FinishAgent \/ AskPhase1 \/ AnswerPhase1 \/ FinishRetry
    \/ Done \/ DoneHandedOver \/ DoneTaken \/ DoneRetry \/ DoneOutput
    \/ Connect \/ Probe \/ CancelConnect \/ ConnectDone \/ Discard
    \/ Disconnect \/ ConfirmCycle
    \/ \E kind \in {"live", "rough"} : StartPoller(kind)
    \/ StopPoller \/ StopOutput
    \/ CloseWindow \/ CloseQueued \/ AnswerBusy \/ AnswerRecovery
    \/ Terminated

\* The displays' timers.
Timers == EndRoughness \/ EndLive

Next == Calls \/ Timers

Spec == Init /\ [][Next]_vars

\* An output test ends by itself and its completion is delivered; zero timers
\* run.  Nothing is assumed of the user or of a driver that hangs.
FairSpec == Spec /\ WF_vars(OutputTest) /\ WF_vars(DoneOutput) /\ WF_vars(CloseQueued)
---------------------------------------------------------------------------
(* Properties.                                                             *)

Connecting == pending = "active" /\ connecting # "none"

\* busy is set exactly while a worker that was not cancelled is on its way.
TypeOK ==
    /\ owner \in Owners /\ engine \in Owners \cup {"none"}
    /\ ds2 \in BOOLEAN /\ boot \in BOOLEAN
    /\ pending \in {"none", "active", "cancelled"}
    /\ connecting \in {"none", "opening", "opened", "failed", "stuck", "discarding", "wedged"}
    /\ task \in AllTasks \cup {"none"}
    /\ step \in {"idle", "running", "released", "engine", "prompt", "ok", "failed", "unconfirmed"}
    /\ controls \in BOOLEAN /\ handoff \in BOOLEAN
    /\ retained \in Kept \cup {"none"} /\ replay \in {"retry", "cycle", "unknown"}
    /\ poller \in {"none", "live", "rough", "stopping", "unconfirmed"}
    /\ actuator \in {"none", "running", "stopping", "unconfirmed"}
    /\ closePending \in BOOLEAN /\ queued \in {"none", "retry", "close"}
    /\ stage \in {"open", "ask_busy", "ask_recovery", "ask_eeprom", "closed"}
    /\ ignored \in BOOLEAN
    /\ busy = (task # "none" \/ Connecting)
    /\ (task = "none") = (step = "idle")

\* The handles that are open on the port, each with the name it must be held by.
Handles ==
    {h \in {<<"ds2", "flasher", ds2>>, <<"boot", "softbsl", boot>>,
            <<"connect", "flasher", connecting \in {"opening", "opened", "stuck", "discarding", "wedged"}>>,
            <<"engine", engine, engine # "none">>,
            <<"session", IF retained = "none" THEN "free" ELSE KeptOwner[retained],
              retained \notin {"none", "ms42"}>>} : h[3]}

\* While the program runs, at most one protocol has the serial port open, the
\* port's recorded owner is that one, and no poller thread sends while a task
\* uses the engine computer: through hand-overs, failed reopens, retained
\* sessions, cancelled connections, questions and refused starts.
OneTalker ==
    stage # "closed" =>
        /\ \A g, h \in Handles : g = h
        /\ \A h \in Handles : owner = h[2]
        /\ poller \in {"live", "rough", "stopping"} => ds2 /\ task = "none"

\* When nothing runs, nothing is connected and no session is kept, the port is
\* free again whichever way the last operation ended.  The one exception is a
\* click that reached a handler while an installation was still on its way.
PortGivenBack ==
    /\ task = "none" /\ pending = "none" /\ retained = "none"
    /\ ~ds2 /\ ~boot
    => owner = "free" \/ ignored

\* The port is held by who uses it, and by nobody else.
PortHeld == OneTalker /\ PortGivenBack

\* A close requested during an output test ends: the window closes after the
\* test, or the request is dropped and the unconfirmed Stop is shown.
CloseAnswered == closePending ~> (stage = "closed" \/ ~closePending)

\* A retained flash session whose failure the user was told of ("the session
\* stays open and Retry Flash Recovery remains available"), or whose retry is
\* running, is given up by closing only after the question about that session.
RecoveryAskedAbout ==
    [][FlashRecovery /\ task \in {"none", "retry"} /\ stage' = "closed"
           => stage = "ask_recovery"]_vars
===============================================================================
