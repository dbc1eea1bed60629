-------------------------- MODULE LiveSessionsProofs --------------------------
(***************************************************************************)
(* Who holds the serial port, and what the sessions do that talk over the  *)
(* live connection, for every set of operations, every number of samples   *)
(* and every interleaving of the GUI thread, the workers and the pollers:  *)
(* the port is held by whoever uses it and by nobody else, and what the    *)
(* window shows of a session that has ended is what the engine computer    *)
(* does.                                                                   *)
(***************************************************************************)
EXTENDS LiveSessions, TLAPS

---------------------------------------------------------------------------
(* The window: OperationOwner.                                             *)

(* Nothing on the port is open.                                            *)
Nothing == ~ds2 /\ ~boot /\ engine = "none" /\ retained = "none" /\ connecting = "none"

(* Whatever is open is open alone, and under its name.                     *)
HandlesInv ==
    /\ ds2 => /\ ~boot /\ engine = "none" /\ retained \in {"none", "ms42"} /\ pending = "none"
              /\ owner = "flasher"
    /\ boot => engine = "none" /\ retained = "none" /\ pending = "none" /\ owner = "softbsl"
    /\ engine # "none" => retained = "none" /\ pending = "none" /\ owner = engine
    /\ retained \notin {"none", "ms42"} => pending = "none" /\ owner = KeptOwner[retained]
    /\ retained = "ms42" => ds2
    /\ connecting # "none" => pending # "none"
    /\ pending # "none" => owner = "flasher"
    /\ connecting \in {"discarding", "wedged"} => pending = "cancelled"

(* What a task has open, from its start to its completion.                 *)
Finished == step \in {"ok", "failed", "unconfirmed"}
TaskInv ==
    /\ step = "running" =>
          /\ task \in OnLink \cup DOMAIN Engines => ds2
          /\ task \in {"install", "crossbank"} => engine = "softbsl"
          /\ task \in {"boot", "bsl"} => engine = Takes[task]
          /\ task = "agent" => boot
          /\ task = "retry" => retained # "none"
    /\ step = "released" => task \in DOMAIN Engines /\ Nothing /\ owner = "free"
    /\ step = "engine" => task \in DOMAIN Engines /\ engine = Engines[task]
    /\ step = "prompt" => task = "install" /\ Nothing /\ owner = "free" /\ ~handoff
    /\ engine # "none" =>
          step = "engine" \/ (step = "running" /\ task \in {"install", "crossbank", "boot", "bsl"})
    /\ task \notin {"none", "retry", "stop"} /\ step # "failed" => retained = "none"
    /\ task \in DOMAIN KeptAs /\ step = "failed" => retained \in {"none", KeptAs[task]}
    /\ task \in {"read", "output", "ch341a", "crossbank", "boot", "bsl"} => retained = "none"
    /\ task = "stop" => ds2
    /\ ds2 => task \notin {"install", "crossbank", "boot", "bsl", "agent"}
    /\ boot => task \in {"none", "ch341a", "agent"} \/ (task = "boot" /\ step = "ok")
    /\ task = "boot" /\ step = "ok" => boot
    /\ task \in {"install", "crossbank"} /\ step = "ok" => owner = "softbsl"
    /\ step = "unconfirmed" => task \in {"fast", "output", "stop"}
    /\ task = "retry" /\ step = "ok" => retained = "none"
    /\ task \notin {"none", "ch341a", "install"} => pending = "none"
    /\ task = "install" /\ pending # "none" => step = "failed" /\ ~handoff
    /\ Connecting => task = "none"
    /\ busy /\ controls => task = "install" /\ ~handoff /\ ~ds2 /\ ~boot
    /\ poller # "none" => ds2 /\ task = "none"
    /\ stage \in {"ask_eeprom", "ask_recovery"} =>
          retained \notin {"none", "ms42"} /\ task = "none" /\ queued = "none"

(* Who still owns the port when nothing on it is open.                     *)
OwnerInv ==
    Nothing /\ pending = "none" /\ ~ignored =>
        \/ owner = "free"
        \/ Finished /\ \/ task \in {"install", "crossbank", "agent"} /\ owner = "softbsl"
                       \/ task \in {"boot", "bsl"} /\ owner = Takes[task]
                       \/ task = "retry" /\ owner = "softbsl"
                       \/ task \in {"native", "retry"} /\ step = "ok" /\ owner = "flasher"

(* The type invariant, in parts.                                           *)
PortTyped ==
    /\ owner \in Owners /\ engine \in Owners \cup {"none"}
    /\ ds2 \in BOOLEAN /\ boot \in BOOLEAN
    /\ pending \in {"none", "active", "cancelled"}
    /\ connecting \in {"none", "opening", "opened", "failed", "stuck", "discarding", "wedged"}
TaskTyped ==
    /\ task \in AllTasks \cup {"none"}
    /\ step \in {"idle", "running", "released", "engine", "prompt", "ok", "failed", "unconfirmed"}
    /\ busy \in BOOLEAN /\ controls \in BOOLEAN /\ handoff \in BOOLEAN
    /\ retained \in Kept \cup {"none"}
SideTyped ==
    /\ replay \in {"retry", "cycle", "unknown"}
    /\ poller \in {"none", "live", "rough", "stopping", "unconfirmed"}
    /\ actuator \in {"none", "running", "stopping", "unconfirmed"}
    /\ closePending \in BOOLEAN /\ queued \in {"none", "retry", "close"}
    /\ stage \in {"open", "ask_busy", "ask_recovery", "ask_eeprom", "closed"}
    /\ ignored \in BOOLEAN
BusyInv ==
    /\ busy <=> task # "none" \/ Connecting
    /\ task = "none" <=> step = "idle"

IInv == PortTyped /\ TaskTyped /\ SideTyped /\ BusyInv /\ HandlesInv /\ TaskInv /\ OwnerInv

LEMMA TypeParts == TypeOK <=> PortTyped /\ TaskTyped /\ SideTyped /\ BusyInv
  BY DEF TypeOK, PortTyped, TaskTyped, SideTyped, BusyInv
---------------------------------------------------------------------------
(* Every action keeps the invariant.                                       *)

LEMMA StartConnectedKeeps ==
    ASSUME IInv, NEW t \in AllTasks, StartConnected(t)
    PROVE  IInv'
<1>1. PortTyped'
  BY DEF IInv, StartConnected, PortTyped, port, conn
<1>2. TaskTyped'
  BY
     DEF IInv, StartConnected, TaskTyped, RunTask, Enabled, Clickable, PollersStopped, port,
         conn, held, AllTasks, Kept, KeptOwner, KeptAs, OnLink
<1>3. SideTyped'
  BY DEF IInv, StartConnected, SideTyped, RunTask, PollersStopped, held
<1>4. BusyInv'
  BY DEF IInv, StartConnected, BusyInv, RunTask
<1>5. HandlesInv'
  BY DEF IInv, StartConnected, HandlesInv, port, conn, held
<1>6. TaskInv'
  BY
     DEF IInv, StartConnected, TaskInv, RunTask, PollersStopped, port, conn, held,
         HandlesInv, Connecting
<1>7. OwnerInv'
  BY DEF IInv, StartConnected, OwnerInv, port, Nothing
<1> QED  BY <1>1, <1>2, <1>3, <1>4, <1>5, <1>6, <1>7 DEF IInv

LEMMA StartHandedOverKeeps ==
    ASSUME IInv, NEW t \in AllTasks, StartHandedOver(t)
    PROVE  IInv'
<1>1. PortTyped'
  BY
     DEF IInv, StartHandedOver, PortTyped, RunTask, Enabled, Clickable, PollersStopped, conn,
         held, Owners, Engines, Takes
<1>2. TaskTyped'
  BY
     DEF IInv, StartHandedOver, TaskTyped, RunTask, Enabled, Clickable, PollersStopped, conn,
         held, AllTasks, Kept, KeptOwner, KeptAs, OnLink
<1>3. SideTyped'
  BY DEF IInv, StartHandedOver, SideTyped, RunTask, PollersStopped, held
<1>4. BusyInv'
  BY DEF IInv, StartHandedOver, BusyInv, RunTask
<1>5. HandlesInv'
  BY DEF IInv, StartHandedOver, HandlesInv, conn, held
<1>6. TaskInv'
  BY
     DEF IInv, StartHandedOver, TaskInv, RunTask, PollersStopped, conn, held, HandlesInv,
         Connecting, Engines, OnLink
<1>7. OwnerInv'
  BY DEF IInv, StartHandedOver, OwnerInv, Nothing
<1> QED  BY <1>1, <1>2, <1>3, <1>4, <1>5, <1>6, <1>7 DEF IInv

LEMMA StartWithPortKeeps ==
    ASSUME IInv, NEW t \in AllTasks, StartWithPort(t)
    PROVE  IInv'
<1>1. CASE t = "boot" /\ busy
  <2>1. PortTyped'
    BY <1>1 DEF IInv, StartWithPort, PortTyped, conn, Takes, Owners
  <2>2. TaskTyped'
    BY <1>1 DEF IInv, StartWithPort, TaskTyped, held, work
  <2>3. SideTyped'
    BY <1>1 DEF IInv, StartWithPort, SideTyped, held
  <2>4. BusyInv'
    BY <1>1 DEF IInv, StartWithPort, BusyInv, work, Connecting
  <2>5. HandlesInv'
    BY <1>1
       DEF IInv, StartWithPort, HandlesInv, conn, held, CanAcquire, Takes, TaskTyped,
           TaskInv, KeptOwner, Kept, Engines
  <2>6. TaskInv'
    BY <1>1
       DEF IInv, StartWithPort, TaskInv, Enabled, Clickable, conn, held, work, CanAcquire,
           Connecting, Engines
  <2>7. OwnerInv'
    BY <1>1 DEF IInv, StartWithPort, OwnerInv
  <2> QED
    BY <2>1, <2>2, <2>3, <2>4, <2>5, <2>6, <2>7 DEF IInv
<1>2. CASE t = "boot" /\ ~busy
  <2>1. PortTyped'
    BY <1>2 DEF IInv, StartWithPort, PortTyped, conn, Takes, Owners
  <2>2. TaskTyped'
    BY <1>2
       DEF IInv, StartWithPort, TaskTyped, RunTask, Enabled, Clickable, PollersStopped, conn,
           held, work, CanAcquire, Takes, FlashRecovery, Flashed, AllTasks, Kept, KeptOwner,
           KeptAs, OnLink
  <2>3. SideTyped'
    BY <1>2 DEF IInv, StartWithPort, SideTyped, RunTask, PollersStopped, held
  <2>4. BusyInv'
    BY <1>2 DEF IInv, StartWithPort, BusyInv, RunTask
  <2>5. HandlesInv'
    BY <1>2
       DEF IInv, StartWithPort, HandlesInv, conn, held, FlashRecovery, Flashed, TaskTyped,
           KeptOwner, Kept
  <2>6. TaskInv'
    BY <1>2
       DEF IInv, StartWithPort, TaskInv, RunTask, PollersStopped, conn, held,
           FlashRecovery, Flashed, TaskTyped, HandlesInv, Connecting, KeptOwner, Kept,
           Engines, OnLink
  <2>7. OwnerInv'
    BY <1>2 DEF IInv, StartWithPort, OwnerInv, Takes, Nothing
  <2> QED
    BY <2>1, <2>2, <2>3, <2>4, <2>5, <2>6, <2>7 DEF IInv
<1>3. CASE t = "bsl" /\ busy
  <2>1. PortTyped'
    BY <1>3 DEF IInv, StartWithPort, PortTyped, conn, Takes, Owners
  <2>2. TaskTyped'
    BY <1>3 DEF IInv, StartWithPort, TaskTyped, held, work
  <2>3. SideTyped'
    BY <1>3 DEF IInv, StartWithPort, SideTyped, held
  <2>4. BusyInv'
    BY <1>3 DEF IInv, StartWithPort, BusyInv, work, Connecting
  <2>5. HandlesInv'
    BY <1>3
       DEF IInv, StartWithPort, HandlesInv, conn, held, CanAcquire, Takes, TaskTyped,
           TaskInv, KeptOwner, Kept, Engines
  <2>6. TaskInv'
    BY <1>3
       DEF IInv, StartWithPort, TaskInv, Enabled, Clickable, conn, held, work, CanAcquire,
           Connecting, Engines
  <2>7. OwnerInv'
    BY <1>3 DEF IInv, StartWithPort, OwnerInv
  <2> QED
    BY <2>1, <2>2, <2>3, <2>4, <2>5, <2>6, <2>7 DEF IInv
<1>4. CASE t = "bsl" /\ ~busy
  <2>1. PortTyped'
    BY <1>4 DEF IInv, StartWithPort, PortTyped, conn, Takes, Owners
  <2>2. TaskTyped'
    BY <1>4
       DEF IInv, StartWithPort, TaskTyped, RunTask, Enabled, Clickable, PollersStopped, conn,
           held, work, CanAcquire, Takes, FlashRecovery, Flashed, AllTasks, Kept, KeptOwner,
           KeptAs, OnLink
  <2>3. SideTyped'
    BY <1>4 DEF IInv, StartWithPort, SideTyped, RunTask, PollersStopped, held
  <2>4. BusyInv'
    BY <1>4 DEF IInv, StartWithPort, BusyInv, RunTask
  <2>5. HandlesInv'
    BY <1>4
       DEF IInv, StartWithPort, HandlesInv, conn, held, CanAcquire, Takes, TaskTyped,
           KeptOwner, Kept
  <2>6. TaskInv'
    BY <1>4
       DEF IInv, StartWithPort, TaskInv, RunTask, PollersStopped, conn, held, CanAcquire,
           Takes, TaskTyped, HandlesInv, Connecting, KeptOwner, Kept, Engines, OnLink
  <2>7. OwnerInv'
    BY <1>4 DEF IInv, StartWithPort, OwnerInv, Takes, Nothing
  <2> QED
    BY <2>1, <2>2, <2>3, <2>4, <2>5, <2>6, <2>7 DEF IInv
<1> QED
  BY <1>1, <1>2, <1>3, <1>4 DEF IInv, StartWithPort, Result

LEMMA StartProgrammerKeeps ==
    ASSUME IInv, StartProgrammer
    PROVE  IInv'
<1>1. PortTyped'
  BY DEF IInv, StartProgrammer, PortTyped, port, conn
<1>2. TaskTyped'
  BY
     DEF IInv, StartProgrammer, TaskTyped, RunTask, Enabled, Clickable, PollersStopped, port,
         conn, held, AllTasks, Kept, KeptOwner, KeptAs, OnLink
<1>3. SideTyped'
  BY DEF IInv, StartProgrammer, SideTyped, RunTask, PollersStopped, held
<1>4. BusyInv'
  BY DEF IInv, StartProgrammer, BusyInv, RunTask
<1>5. HandlesInv'
  BY DEF IInv, StartProgrammer, HandlesInv, port, conn, held
<1>6. TaskInv'
  BY
     DEF IInv, StartProgrammer, TaskInv, RunTask, PollersStopped, port, conn, held,
         BusyInv, Connecting, Engines, OnLink
<1>7. OwnerInv'
  BY DEF IInv, StartProgrammer, OwnerInv, RunTask, port, conn, BusyInv, Nothing
<1> QED  BY <1>1, <1>2, <1>3, <1>4, <1>5, <1>6, <1>7 DEF IInv

LEMMA CancelInstallKeeps ==
    ASSUME IInv, CancelInstall
    PROVE  IInv'
<1>1. PortTyped'
  BY
     DEF IInv, CancelInstall, PortTyped, Enabled, Clickable, PollersStopped, Reopened, conn,
         work, held, Owners, Engines, Takes
<1>2. TaskTyped'
  BY DEF IInv, CancelInstall, TaskTyped, work, held
<1>3. SideTyped'
  BY DEF IInv, CancelInstall, SideTyped, PollersStopped, held
<1>4. BusyInv'
  BY DEF IInv, CancelInstall, BusyInv, conn, work, Connecting
<1>5. HandlesInv'
  BY DEF IInv, CancelInstall, HandlesInv, Reopened, conn, held
<1>6. TaskInv'
  BY DEF IInv, CancelInstall, TaskInv, PollersStopped, work, BusyInv
<1>7. OwnerInv'
  BY DEF IInv, CancelInstall, OwnerInv, Reopened, Nothing
<1> QED  BY <1>1, <1>2, <1>3, <1>4, <1>5, <1>6, <1>7 DEF IInv

LEMMA StartAgentKeeps ==
    ASSUME IInv, StartAgent
    PROVE  IInv'
<1>1. PortTyped'
  BY DEF IInv, StartAgent, PortTyped, port, conn
<1>2. TaskTyped'
  BY
     DEF IInv, StartAgent, TaskTyped, RunTask, Enabled, Clickable, PollersStopped, port,
         conn, held, AllTasks, Kept, KeptOwner, KeptAs, OnLink
<1>3. SideTyped'
  BY DEF IInv, StartAgent, SideTyped, RunTask, PollersStopped, held
<1>4. BusyInv'
  BY DEF IInv, StartAgent, BusyInv, RunTask
<1>5. HandlesInv'
  BY DEF IInv, StartAgent, HandlesInv, port, conn, held
<1>6. TaskInv'
  BY
     DEF IInv, StartAgent, TaskInv, RunTask, PollersStopped, port, conn, held, HandlesInv,
         Connecting, Engines, OnLink
<1>7. OwnerInv'
  BY DEF IInv, StartAgent, OwnerInv, port, Nothing
<1> QED  BY <1>1, <1>2, <1>3, <1>4, <1>5, <1>6, <1>7 DEF IInv

LEMMA StartRetryKeeps ==
    ASSUME IInv, StartRetry
    PROVE  IInv'
<1>1. PortTyped'
  BY DEF IInv, StartRetry, PortTyped, port, conn
<1>2. TaskTyped'
  BY
     DEF IInv, StartRetry, TaskTyped, RunTask, Enabled, Clickable, PollersStopped, port,
         conn, held, AllTasks, Kept, KeptOwner, KeptAs, OnLink
<1>3. SideTyped'
  BY DEF IInv, StartRetry, SideTyped, RunTask, PollersStopped, held
<1>4. BusyInv'
  BY DEF IInv, StartRetry, BusyInv, RunTask
<1>5. HandlesInv'
  BY DEF IInv, StartRetry, HandlesInv, port, conn, held
<1>6. TaskInv'
  BY
     DEF IInv, StartRetry, TaskInv, RunTask, Enabled, Clickable, PollersStopped, port,
         conn, held, HandlesInv, Connecting, Engines, OnLink
<1>7. OwnerInv'
  BY DEF IInv, StartRetry, OwnerInv, held, Nothing
<1> QED  BY <1>1, <1>2, <1>3, <1>4, <1>5, <1>6, <1>7 DEF IInv

LEMMA WorkInPlaceKeeps ==
    ASSUME IInv, WorkInPlace
    PROVE  IInv'
<1>1. PortTyped'
  BY DEF IInv, WorkInPlace, PortTyped, port, conn
<1>2. TaskTyped'
  BY DEF IInv, WorkInPlace, TaskTyped, Result, held
<1>3. SideTyped'
  BY DEF IInv, WorkInPlace, SideTyped, held, side
<1>4. BusyInv'
  BY DEF IInv, WorkInPlace, BusyInv, Result
<1>5. HandlesInv'
  BY DEF IInv, WorkInPlace, HandlesInv, port, conn, held
<1>6. TaskInv'
  BY
     DEF IInv, WorkInPlace, TaskInv, Result, port, conn, held, side, Connecting, KeptAs,
         OnLink
<1>7. OwnerInv'
  BY DEF IInv, WorkInPlace, OwnerInv, port, conn, held, Nothing, Finished
<1> QED  BY <1>1, <1>2, <1>3, <1>4, <1>5, <1>6, <1>7 DEF IInv

LEMMA StopUnacknowledgedKeeps ==
    ASSUME IInv, StopUnacknowledged
    PROVE  IInv'
<1>1. PortTyped'
  BY DEF IInv, StopUnacknowledged, PortTyped, port, conn
<1>2. TaskTyped'
  BY DEF IInv, StopUnacknowledged, TaskTyped, Result, held
<1>3. SideTyped'
  BY DEF IInv, StopUnacknowledged, SideTyped, held, side
<1>4. BusyInv'
  BY DEF IInv, StopUnacknowledged, BusyInv, Result
<1>5. HandlesInv'
  BY DEF IInv, StopUnacknowledged, HandlesInv, port, conn, held
<1>6. TaskInv'
  BY DEF IInv, StopUnacknowledged, TaskInv, Result, port, conn, held, side, Connecting
<1>7. OwnerInv'
  BY DEF IInv, StopUnacknowledged, OwnerInv, port, conn, held, Nothing
<1> QED  BY <1>1, <1>2, <1>3, <1>4, <1>5, <1>6, <1>7 DEF IInv

LEMMA KeepSlowWriteKeeps ==
    ASSUME IInv, KeepSlowWrite
    PROVE  IInv'
<1>1. PortTyped'
  BY DEF IInv, KeepSlowWrite, PortTyped, conn
<1>2. TaskTyped'
  BY DEF IInv, KeepSlowWrite, TaskTyped, Retain, Result, Kept, KeptOwner, KeptAs
<1>3. SideTyped'
  BY DEF IInv, KeepSlowWrite, SideTyped, Retain, side
<1>4. BusyInv'
  BY DEF IInv, KeepSlowWrite, BusyInv, Result
<1>5. HandlesInv'
  BY
     DEF IInv, KeepSlowWrite, HandlesInv, Retain, conn, TaskTyped, BusyInv, TaskInv,
         KeptOwner, KeptAs, OnLink
<1>6. TaskInv'
  BY DEF IInv, KeepSlowWrite, TaskInv, Retain, Result, conn, side, Connecting
<1>7. OwnerInv'
  BY DEF IInv, KeepSlowWrite, OwnerInv, Retain, Nothing, KeptAs
<1> QED  BY <1>1, <1>2, <1>3, <1>4, <1>5, <1>6, <1>7 DEF IInv

LEMMA ReleaseLinkKeeps ==
    ASSUME IInv, ReleaseLink
    PROVE  IInv'
<1>1. PortTyped'
  BY
     DEF IInv, ReleaseLink, PortTyped, Result, Released, conn, held, side, Owners, Engines,
         Takes
<1>2. TaskTyped'
  BY DEF IInv, ReleaseLink, TaskTyped, Result, held
<1>3. SideTyped'
  BY DEF IInv, ReleaseLink, SideTyped, held, side
<1>4. BusyInv'
  BY DEF IInv, ReleaseLink, BusyInv, Result
<1>5. HandlesInv'
  BY DEF IInv, ReleaseLink, HandlesInv, conn, held, TaskInv, Engines
<1>6. TaskInv'
  BY
     DEF IInv, ReleaseLink, TaskInv, Result, Released, conn, held, side, HandlesInv,
         Nothing, Connecting, Engines
<1>7. OwnerInv'
  BY DEF IInv, ReleaseLink, OwnerInv, Released, HandlesInv, TaskInv
<1> QED  BY <1>1, <1>2, <1>3, <1>4, <1>5, <1>6, <1>7 DEF IInv

LEMMA TakePortKeeps ==
    ASSUME IInv, TakePort
    PROVE  IInv'
<1>1. CASE CanAcquire(Engines[task])
  <2>1. PortTyped'
    <3>1. Engines[task] \in Owners
      BY DEF IInv, TakePort, TaskInv, Engines, Owners
    <3> QED
      BY <1>1, <3>1 DEF IInv, TakePort, conn, PortTyped
  <2>2. TaskTyped'
    BY <1>1 DEF IInv, TakePort, TaskTyped, Result, held
  <2>3. SideTyped'
    BY <1>1 DEF IInv, TakePort, SideTyped, held, side
  <2>4. BusyInv'
    BY <1>1 DEF IInv, TakePort, BusyInv, Result
  <2>5. HandlesInv'
    BY <1>1 DEF IInv, TakePort, HandlesInv, conn, held, TaskInv, Nothing
  <2>6. TaskInv'
    BY <1>1 DEF IInv, TakePort, TaskInv, Result, conn, held, side, Connecting
  <2>7. OwnerInv'
    BY <1>1 DEF IInv, TakePort, OwnerInv, TaskInv, Nothing, Engines
  <2> QED
    BY <2>1, <2>2, <2>3, <2>4, <2>5, <2>6, <2>7 DEF IInv
<1>2. CASE ~CanAcquire(Engines[task])
  <2>1. PortTyped'
    BY <1>2 DEF IInv, TakePort, PortTyped, conn
  <2>2. TaskTyped'
    BY <1>2 DEF IInv, TakePort, TaskTyped, Result, held
  <2>3. SideTyped'
    BY <1>2 DEF IInv, TakePort, SideTyped, held, side
  <2>4. BusyInv'
    BY <1>2 DEF IInv, TakePort, BusyInv, Result
  <2>5. HandlesInv'
    BY <1>2 DEF IInv, TakePort, HandlesInv, conn, held
  <2>6. TaskInv'
    BY <1>2 DEF IInv, TakePort, TaskInv, CanAcquire
  <2>7. OwnerInv'
    BY <1>2 DEF IInv, TakePort, OwnerInv, conn, held, Nothing, Finished
  <2> QED
    BY <2>1, <2>2, <2>3, <2>4, <2>5, <2>6, <2>7 DEF IInv
<1> QED
  BY <1>1, <1>2 DEF IInv, TakePort, Result

LEMMA GiveBackKeeps ==
    ASSUME IInv, GiveBack
    PROVE  IInv'
<1>1. PortTyped'
  BY DEF IInv, GiveBack, PortTyped, Result, Reopened, conn, held, side, Owners, Engines, Takes
<1>2. TaskTyped'
  BY DEF IInv, GiveBack, TaskTyped, Result, held
<1>3. SideTyped'
  BY DEF IInv, GiveBack, SideTyped, held, side
<1>4. BusyInv'
  BY DEF IInv, GiveBack, BusyInv, Result
<1>5. HandlesInv'
  BY DEF IInv, GiveBack, HandlesInv, Reopened, conn, held, TaskInv, Engines
<1>6. TaskInv'
  BY DEF IInv, GiveBack, TaskInv, Result, conn, held, side, Connecting, Engines
<1>7. OwnerInv'
  BY DEF IInv, GiveBack, OwnerInv, Result, Reopened, Nothing, Finished
<1> QED  BY <1>1, <1>2, <1>3, <1>4, <1>5, <1>6, <1>7 DEF IInv

LEMMA KeepEngineKeeps ==
    ASSUME IInv, KeepEngine
    PROVE  IInv'
<1>1. PortTyped'
  BY
     DEF IInv, KeepEngine, PortTyped, Retain, OwnerKept, Result, conn, side, Owners, Engines,
         Takes
<1>2. TaskTyped'
  <2>1. task \in DOMAIN Engines \cup {"install", "agent"}
    BY DEF IInv, KeepEngine, TaskInv
  <2>2. KeptAs[task] \in Kept
    BY <2>1 DEF KeptAs, Kept, KeptOwner, Engines
  <2> QED
    BY <2>2 DEF IInv, KeepEngine, Retain, Result, TaskTyped
<1>3. SideTyped'
  BY DEF IInv, KeepEngine, SideTyped, Retain, side
<1>4. BusyInv'
  BY DEF IInv, KeepEngine, BusyInv, Result
<1>5. HandlesInv'
  BY
     DEF IInv, KeepEngine, HandlesInv, Retain, OwnerKept, conn, TaskInv, KeptOwner, KeptAs,
         Engines
<1>6. TaskInv'
  BY DEF IInv, KeepEngine, TaskInv, Retain, Result, conn, side, Connecting, Engines
<1>7. OwnerInv'
  BY DEF IInv, KeepEngine, OwnerInv, Retain, TaskInv, Nothing, KeptAs, Engines
<1> QED  BY <1>1, <1>2, <1>3, <1>4, <1>5, <1>6, <1>7 DEF IInv

LEMMA FinishTakenKeeps ==
    ASSUME IInv, FinishTaken
    PROVE  IInv'
<1>1. PortTyped'
  BY DEF IInv, FinishTaken, PortTyped, conn
<1>2. TaskTyped'
  BY DEF IInv, FinishTaken, TaskTyped, Result, held
<1>3. SideTyped'
  BY DEF IInv, FinishTaken, SideTyped, held, side
<1>4. BusyInv'
  BY DEF IInv, FinishTaken, BusyInv, Result
<1>5. HandlesInv'
  BY DEF IInv, FinishTaken, HandlesInv, conn, held, TaskTyped, TaskInv, Takes
<1>6. TaskInv'
  BY
     DEF IInv, FinishTaken, TaskInv, Result, conn, held, side, TaskTyped, BusyInv,
         HandlesInv, Connecting
<1>7. OwnerInv'
  BY DEF IInv, FinishTaken, OwnerInv, Result, HandlesInv, TaskInv, Nothing, Finished
<1> QED  BY <1>1, <1>2, <1>3, <1>4, <1>5, <1>6, <1>7 DEF IInv

LEMMA FinishAgentKeeps ==
    ASSUME IInv, FinishAgent
    PROVE  IInv'
<1>1. PortTyped'
  BY DEF IInv, FinishAgent, PortTyped, conn
<1>2. TaskTyped'
  BY DEF IInv, FinishAgent, TaskTyped, Result, held
<1>3. SideTyped'
  BY DEF IInv, FinishAgent, SideTyped, held, side
<1>4. BusyInv'
  BY DEF IInv, FinishAgent, BusyInv, Result
<1>5. HandlesInv'
  BY DEF IInv, FinishAgent, HandlesInv, conn, held, TaskInv
<1>6. TaskInv'
  BY DEF IInv, FinishAgent, TaskInv, Result, conn, held, side, Connecting
<1>7. OwnerInv'
  BY DEF IInv, FinishAgent, OwnerInv, Result, HandlesInv, TaskInv, Finished
<1> QED  BY <1>1, <1>2, <1>3, <1>4, <1>5, <1>6, <1>7 DEF IInv

LEMMA AskPhase1Keeps ==
    ASSUME IInv, AskPhase1
    PROVE  IInv'
<1>1. PortTyped'
  BY
     DEF IInv, AskPhase1, PortTyped, Released, Disconnected, conn, held, side, Owners,
         Engines, Takes
<1>2. TaskTyped'
  BY
     DEF IInv, AskPhase1, TaskTyped, Released, Disconnected, conn, held, side, AllTasks,
         Kept, KeptOwner, KeptAs, OnLink
<1>3. SideTyped'
  BY DEF IInv, AskPhase1, SideTyped, held, side
<1>4. BusyInv'
  BY DEF IInv, AskPhase1, BusyInv
<1>5. HandlesInv'
  BY DEF IInv, AskPhase1, HandlesInv, conn, held, TaskInv
<1>6. TaskInv'
  BY
     DEF IInv, AskPhase1, TaskInv, Released, Disconnected, conn, held, side, HandlesInv,
         Nothing, Connecting
<1>7. OwnerInv'
  BY DEF IInv, AskPhase1, OwnerInv, Released, Disconnected, HandlesInv, TaskInv
<1> QED  BY <1>1, <1>2, <1>3, <1>4, <1>5, <1>6, <1>7 DEF IInv

LEMMA AnswerPhase1Keeps ==
    ASSUME IInv, AnswerPhase1
    PROVE  IInv'
<1>1. CASE step' = "running"
  <2>1. PortTyped'
    BY <1>1 DEF IInv, AnswerPhase1, PortTyped, conn, Owners
  <2>2. TaskTyped'
    BY <1>1 DEF IInv, AnswerPhase1, TaskTyped, Result, held
  <2>3. SideTyped'
    BY <1>1 DEF IInv, AnswerPhase1, SideTyped, held, side
  <2>4. BusyInv'
    BY <1>1 DEF IInv, AnswerPhase1, BusyInv, Result
  <2>5. HandlesInv'
    BY <1>1 DEF IInv, AnswerPhase1, HandlesInv, conn, held, TaskInv
  <2>6. TaskInv'
    BY <1>1
       DEF IInv, AnswerPhase1, TaskInv, Result, conn, held, side, Connecting, Engines,
           OnLink
  <2>7. OwnerInv'
    BY <1>1 DEF IInv, AnswerPhase1, OwnerInv, conn, held, Nothing, Finished
  <2> QED
    BY <2>1, <2>2, <2>3, <2>4, <2>5, <2>6, <2>7 DEF IInv
<1>2. CASE step' = "failed"
  <2>1. PortTyped'
    BY <1>2 DEF IInv, AnswerPhase1, PortTyped, Result, conn
  <2>2. TaskTyped'
    BY <1>2 DEF IInv, AnswerPhase1, TaskTyped, Result, held
  <2>3. SideTyped'
    BY <1>2 DEF IInv, AnswerPhase1, SideTyped, held, side
  <2>4. BusyInv'
    BY <1>2 DEF IInv, AnswerPhase1, BusyInv, Result
  <2>5. HandlesInv'
    BY <1>2 DEF IInv, AnswerPhase1, HandlesInv, Result, conn, held
  <2>6. TaskInv'
    BY <1>2 DEF IInv, AnswerPhase1, TaskInv, Result, conn, held, side, Connecting
  <2>7. OwnerInv'
    BY <1>2 DEF IInv, AnswerPhase1, OwnerInv, conn, held, Nothing, Finished
  <2> QED
    BY <2>1, <2>2, <2>3, <2>4, <2>5, <2>6, <2>7 DEF IInv
<1> QED
  BY <1>1, <1>2 DEF IInv, AnswerPhase1, Result

LEMMA FinishRetryKeeps ==
    ASSUME IInv, FinishRetry
    PROVE  IInv'
<1>0. /\ task = "retry" /\ step = "running" /\ busy
      /\ retained \in {"legacy", "ms42", "install", "softbsl", "eeprom", "native"}
      /\ ~boot /\ engine = "none" /\ pending = "none" /\ connecting = "none" /\ poller = "none"
      /\ stage \notin {"ask_eeprom", "ask_recovery"} /\ ~controls
      /\ IF retained = "ms42" THEN ds2 ELSE ~ds2 /\ owner = KeptOwner[retained]
      /\ ds2 => owner = "flasher"
      /\ ds2 \in BOOLEAN /\ owner \in Owners
  BY DEF FinishRetry, IInv, PortTyped, TaskTyped, BusyInv, HandlesInv, TaskInv, Kept, KeptOwner
<1>1. /\ UNCHANGED <<engine, boot, pending, connecting, task, busy, controls, handoff, poller>>
      /\ UNCHANGED <<actuator, closePending, queued, stage, ignored>>
      /\ step' \in {"ok", "failed"}
  BY DEF FinishRetry, Result, conn, side
<1>2. CASE retained' = retained
  <2>1. UNCHANGED <<owner, ds2>> /\ step' = "failed" /\ replay' \in {"retry", "cycle", "unknown"}
    BY <1>0, <1>2 DEF FinishRetry, Result
  <2>2. PortTyped' /\ SideTyped' /\ BusyInv' /\ HandlesInv'
    BY <1>0, <1>1, <1>2, <2>1 DEF IInv, PortTyped, SideTyped, BusyInv, HandlesInv
  <2>3. TaskTyped'
    BY <1>1, <1>2, <2>1 DEF IInv, TaskTyped
  <2>4. TaskInv'
    BY <1>0, <1>1, <1>2, <2>1 DEF TaskInv, Connecting, KeptAs
  <2>5. OwnerInv'
    BY <1>0, <1>2 DEF OwnerInv, Nothing
  <2> QED
    BY <2>2, <2>3, <2>4, <2>5 DEF IInv
<1>3. CASE retained' # retained
  <2>1. /\ retained' = "none" /\ replay' = replay
        /\ \/ ds2' = TRUE /\ owner' = "flasher"
           \/ ds2' = FALSE /\ owner' \in {"free", "softbsl"}
           \/ ds2' = FALSE /\ owner' = "flasher" /\ step' = "ok"
    <3>1. CASE retained \in {"legacy", "ms42"}
      <4>1. owner = "flasher"
        BY <1>0, <3>1 DEF KeptOwner
      <4> QED
        BY <1>0, <1>3, <3>1, <4>1 DEF FinishRetry
    <3>2. CASE retained = "install"
      BY <1>0, <1>3, <3>2 DEF FinishRetry, KeptOwner
    <3>3. CASE retained \in {"softbsl", "eeprom"}
      BY <1>0, <1>3, <3>3 DEF FinishRetry, Reopened
    <3>4. CASE retained = "native"
      BY <1>0, <1>3, <3>4 DEF FinishRetry, Reopened, Result
    <3> QED
      BY <1>0, <3>1, <3>2, <3>3, <3>4
  <2>2. PortTyped'
    BY <1>0, <1>1, <2>1 DEF IInv, PortTyped, Owners
  <2>6. SideTyped' /\ BusyInv'
    BY <1>0, <1>1, <2>1 DEF IInv, SideTyped, BusyInv
  <2>3. TaskTyped'
    BY <1>1, <2>1 DEF IInv, TaskTyped
  <2>4. HandlesInv' /\ OwnerInv'
    BY <1>0, <1>1, <2>1 DEF HandlesInv, OwnerInv, Nothing, Finished
  <2>5. TaskInv'
    BY <1>0, <1>1, <2>1 DEF TaskInv, Connecting
  <2> QED
    BY <2>2, <2>3, <2>4, <2>5, <2>6 DEF IInv
<1> QED  BY <1>2, <1>3

LEMMA DoneKeeps ==
    ASSUME IInv, Done
    PROVE  IInv'
<1>1. PortTyped'
  BY
     DEF IInv, Done, PortTyped, Delivered, NotBusy, Off, Disconnected, Released,
         FlashRecovery, Flashed, conn, held, Owners, Engines, Takes
<1>2. TaskTyped'
  BY
     DEF IInv, Done, TaskTyped, Delivered, NotBusy, Off, Disconnected, Released,
         FlashRecovery, Flashed, conn, held, AllTasks, Kept, KeptOwner, KeptAs, OnLink
<1>3. SideTyped'
  BY DEF IInv, Done, SideTyped, held
<1>4. BusyInv'
  BY DEF IInv, Done, BusyInv, Delivered, NotBusy, conn, Connecting, TaskInv
<1>5. HandlesInv'
  BY
     DEF IInv, Done, HandlesInv, Delivered, Off, FlashRecovery, Flashed, conn, held,
         TaskInv, KeptAs
<1>6. TaskInv'
  BY DEF IInv, Done, TaskInv, Delivered, NotBusy
<1>7. OwnerInv'
  BY
     DEF IInv, Done, OwnerInv, Off, Disconnected, Released, FlashRecovery, Flashed, conn,
         held, HandlesInv, Nothing
<1> QED  BY <1>1, <1>2, <1>3, <1>4, <1>5, <1>6, <1>7 DEF IInv

LEMMA DoneHandedOverKeeps ==
    ASSUME IInv, DoneHandedOver
    PROVE  IInv'
<1>1. PortTyped'
  BY
     DEF IInv, DoneHandedOver, PortTyped, Delivered, NotBusy, Reopened, Disconnected,
         Released, conn, held, Owners, Engines, Takes
<1>2. TaskTyped'
  BY
     DEF IInv, DoneHandedOver, TaskTyped, Delivered, NotBusy, Reopened, Disconnected,
         Released, conn, held, AllTasks, Kept, KeptOwner, KeptAs, OnLink
<1>3. SideTyped'
  BY DEF IInv, DoneHandedOver, SideTyped, held
<1>4. BusyInv'
  BY DEF IInv, DoneHandedOver, BusyInv, Delivered, NotBusy, conn, Connecting, TaskInv
<1>5. HandlesInv'
  BY
     DEF IInv, DoneHandedOver, HandlesInv, Delivered, Reopened, Released, conn, held,
         TaskInv, KeptAs
<1>6. TaskInv'
  BY DEF IInv, DoneHandedOver, TaskInv, Delivered, NotBusy
<1>7. OwnerInv'
  BY
     DEF IInv, DoneHandedOver, OwnerInv, Reopened, Disconnected, Released, conn, held,
         TaskInv, Nothing
<1> QED  BY <1>1, <1>2, <1>3, <1>4, <1>5, <1>6, <1>7 DEF IInv

LEMMA DoneTakenKeeps ==
    ASSUME IInv, DoneTaken
    PROVE  IInv'
<1>1. PortTyped'
  BY DEF IInv, DoneTaken, PortTyped, Released, conn, Owners
<1>2. TaskTyped'
  BY
     DEF IInv, DoneTaken, TaskTyped, Delivered, NotBusy, Released, Takes, conn, held, side,
         AllTasks, Kept, KeptOwner, KeptAs, OnLink
<1>3. SideTyped'
  BY DEF IInv, DoneTaken, SideTyped, held, side
<1>4. BusyInv'
  BY DEF IInv, DoneTaken, BusyInv, Delivered, NotBusy, conn, Connecting, TaskInv
<1>5. HandlesInv'
  BY DEF IInv, DoneTaken, HandlesInv, Delivered, conn, held, TaskInv
<1>6. TaskInv'
  BY DEF IInv, DoneTaken, TaskInv, Delivered, NotBusy, side
<1>7. OwnerInv'
  BY DEF IInv, DoneTaken, OwnerInv, Released, conn, TaskInv, Nothing
<1> QED  BY <1>1, <1>2, <1>3, <1>4, <1>5, <1>6, <1>7 DEF IInv

LEMMA DoneRetryKeeps ==
    ASSUME IInv, DoneRetry
    PROVE  IInv'
<1>1. PortTyped'
  BY
     DEF IInv, DoneRetry, PortTyped, Delivered, NotBusy, Off, Disconnected, Released, conn,
         held, side, Owners, Engines, Takes
<1>2. TaskTyped'
  BY
     DEF IInv, DoneRetry, TaskTyped, Delivered, NotBusy, Off, Disconnected, Released, conn,
         held, side, AllTasks, Kept, KeptOwner, KeptAs, OnLink
<1>3. SideTyped'
  BY DEF IInv, DoneRetry, SideTyped, held, side
<1>4. BusyInv'
  BY DEF IInv, DoneRetry, BusyInv, Delivered, NotBusy, conn, Connecting, TaskInv
<1>5. HandlesInv'
  BY DEF IInv, DoneRetry, HandlesInv, Off, conn, held, TaskInv
<1>6. TaskInv'
  BY DEF IInv, DoneRetry, TaskInv, Delivered, NotBusy, side
<1>7. OwnerInv'
  BY
     DEF IInv, DoneRetry, OwnerInv, Off, Disconnected, Released, held, HandlesInv, TaskInv,
         Nothing
<1> QED  BY <1>1, <1>2, <1>3, <1>4, <1>5, <1>6, <1>7 DEF IInv

LEMMA DoneOutputKeeps ==
    ASSUME IInv, DoneOutput
    PROVE  IInv'
<1>1. PortTyped'
  BY DEF IInv, DoneOutput, PortTyped, port, conn
<1>2. TaskTyped'
  BY
     DEF IInv, DoneOutput, TaskTyped, Delivered, NotBusy, AnswerClose, port, conn, held,
         AllTasks, Kept, KeptOwner, KeptAs, OnLink
<1>3. SideTyped'
  BY DEF IInv, DoneOutput, SideTyped, Delivered, NotBusy, AnswerClose, port, conn, held
<1>4. BusyInv'
  BY DEF IInv, DoneOutput, BusyInv, Delivered, NotBusy, conn, Connecting, TaskInv
<1>5. HandlesInv'
  BY DEF IInv, DoneOutput, HandlesInv, port, conn, held
<1>6. TaskInv'
  BY DEF IInv, DoneOutput, TaskInv, Delivered, NotBusy, port
<1>7. OwnerInv'
  BY DEF IInv, DoneOutput, OwnerInv, port, conn, held, Nothing
<1> QED  BY <1>1, <1>2, <1>3, <1>4, <1>5, <1>6, <1>7 DEF IInv

LEMMA ConnectKeeps ==
    ASSUME IInv, Connect
    PROVE  IInv'
<1>1. PortTyped'
  BY
     DEF IInv, Connect, PortTyped, Enabled, Clickable, CanAcquire, held, side, Owners,
         Engines, Takes
<1>2. TaskTyped'
  BY
     DEF IInv, Connect, TaskTyped, Enabled, Clickable, CanAcquire, held, side, AllTasks,
         Kept, KeptOwner, KeptAs, OnLink
<1>3. SideTyped'
  BY DEF IInv, Connect, SideTyped, Enabled, Clickable, CanAcquire, held, side
<1>4. BusyInv'
  BY
     DEF IInv, Connect, BusyInv, Enabled, Clickable, CanAcquire, held, side, TaskTyped,
         Connecting, TaskInv, HandlesInv, Nothing, KeptOwner
<1>5. HandlesInv'
  BY
     DEF IInv, Connect, HandlesInv, Enabled, Clickable, CanAcquire, held, side, PortTyped,
         TaskTyped, BusyInv, TaskInv, OwnerInv, Nothing, Finished, KeptOwner, KeptAs, Kept,
         AllTasks, Owners, Engines, OnLink, Takes
<1>6. TaskInv'
  BY
     DEF IInv, Connect, TaskInv, Enabled, Clickable, CanAcquire, held, side, PortTyped,
         TaskTyped, SideTyped, BusyInv, HandlesInv, OwnerInv, Nothing, Finished, Connecting,
         KeptOwner, KeptAs, Kept, AllTasks, Owners, Engines, OnLink, Takes
<1>7. OwnerInv'
  BY DEF IInv, Connect, OwnerInv
<1> QED  BY <1>1, <1>2, <1>3, <1>4, <1>5, <1>6, <1>7 DEF IInv

LEMMA ProbeKeeps ==
    ASSUME IInv, Probe
    PROVE  IInv'
<1>1. PortTyped'
  BY DEF IInv, Probe, PortTyped, port
<1>2. TaskTyped'
  BY DEF IInv, Probe, TaskTyped, work, held
<1>3. SideTyped'
  BY DEF IInv, Probe, SideTyped, held, side
<1>4. BusyInv'
  BY DEF IInv, Probe, BusyInv, work, Connecting
<1>5. HandlesInv'
  BY DEF IInv, Probe, HandlesInv, port, held
<1>6. TaskInv'
  BY DEF IInv, Probe, TaskInv, port, work, held, side, Nothing, Connecting
<1>7. OwnerInv'
  BY DEF IInv, Probe, OwnerInv, Nothing
<1> QED  BY <1>1, <1>2, <1>3, <1>4, <1>5, <1>6, <1>7 DEF IInv

LEMMA CancelConnectKeeps ==
    ASSUME IInv, CancelConnect
    PROVE  IInv'
<1>1. PortTyped'
  BY DEF IInv, CancelConnect, PortTyped, port
<1>2. TaskTyped'
  BY
     DEF IInv, CancelConnect, TaskTyped, port, held, side, AllTasks, Kept, KeptOwner, KeptAs,
         OnLink
<1>3. SideTyped'
  BY DEF IInv, CancelConnect, SideTyped, held, side
<1>4. BusyInv'
  BY DEF IInv, CancelConnect, BusyInv, Connecting, TaskInv
<1>5. HandlesInv'
  BY DEF IInv, CancelConnect, HandlesInv, port, held
<1>6. TaskInv'
  BY DEF IInv, CancelConnect, TaskInv, port, held, side, TaskTyped, HandlesInv, Connecting
<1>7. OwnerInv'
  BY DEF IInv, CancelConnect, OwnerInv
<1> QED  BY <1>1, <1>2, <1>3, <1>4, <1>5, <1>6, <1>7 DEF IInv

LEMMA ConnectDoneKeeps ==
    ASSUME IInv, ConnectDone
    PROVE  IInv'
<1>1. CASE connecting = "opened" /\ pending = "active"
  <2>1. PortTyped'
    BY <1>1 DEF IInv, ConnectDone, PortTyped
  <2>2. TaskTyped'
    BY <1>1 DEF IInv, ConnectDone, TaskTyped, held
  <2>3. SideTyped'
    BY <1>1 DEF IInv, ConnectDone, SideTyped, held, side
  <2>4. BusyInv'
    BY <1>1 DEF IInv, ConnectDone, BusyInv, Connecting, TaskInv
  <2>5. HandlesInv'
    BY <1>1 DEF IInv, ConnectDone, HandlesInv, held
  <2>6. TaskInv'
    BY <1>1 DEF IInv, ConnectDone, TaskInv, held, side, Nothing, Connecting
  <2>7. OwnerInv'
    BY <1>1 DEF IInv, ConnectDone, OwnerInv, Nothing
  <2> QED
    BY <2>1, <2>2, <2>3, <2>4, <2>5, <2>6, <2>7 DEF IInv
<1>2. CASE connecting = "opened" /\ pending = "cancelled"
  <2>1. PortTyped'
    BY <1>2 DEF IInv, ConnectDone, PortTyped, ClosingKept
  <2>2. TaskTyped'
    BY <1>2 DEF IInv, ConnectDone, TaskTyped, held
  <2>3. SideTyped'
    BY <1>2 DEF IInv, ConnectDone, SideTyped, held, side
  <2>4. BusyInv'
    BY <1>2 DEF IInv, ConnectDone, BusyInv, ClosingKept, Connecting
  <2>5. HandlesInv'
    BY <1>2 DEF IInv, ConnectDone, HandlesInv, ClosingKept, held
  <2>6. TaskInv'
    BY <1>2
       DEF IInv, ConnectDone, TaskInv, ClosingKept, held, side, TaskTyped, HandlesInv,
           Connecting
  <2>7. OwnerInv'
    BY <1>2 DEF IInv, ConnectDone, OwnerInv, Nothing
  <2> QED
    BY <2>1, <2>2, <2>3, <2>4, <2>5, <2>6, <2>7 DEF IInv
<1>3. CASE connecting = "failed"
  <2>1. PortTyped'
    BY <1>3 DEF IInv, ConnectDone, PortTyped, Released, Owners
  <2>2. TaskTyped'
    BY <1>3
       DEF IInv, ConnectDone, TaskTyped, ClosingKept, Released, held, side, AllTasks, Kept,
           KeptOwner, KeptAs, OnLink
  <2>3. SideTyped'
    BY <1>3 DEF IInv, ConnectDone, SideTyped, held, side
  <2>4. BusyInv'
    BY <1>3 DEF IInv, ConnectDone, BusyInv, Connecting, TaskInv
  <2>5. HandlesInv'
    BY <1>3 DEF IInv, ConnectDone, HandlesInv, held
  <2>6. TaskInv'
    BY <1>3 DEF IInv, ConnectDone, TaskInv, held, side, TaskTyped, HandlesInv, Connecting
  <2>7. OwnerInv'
    BY <1>3 DEF IInv, ConnectDone, OwnerInv, Released, HandlesInv
  <2> QED
    BY <2>1, <2>2, <2>3, <2>4, <2>5, <2>6, <2>7 DEF IInv
<1>4. CASE connecting = "stuck"
  <2>1. PortTyped'
    BY <1>4 DEF IInv, ConnectDone, PortTyped
  <2>2. TaskTyped'
    BY <1>4
       DEF IInv, ConnectDone, TaskTyped, ClosingKept, Released, held, side, AllTasks, Kept,
           KeptOwner, KeptAs, OnLink
  <2>3. SideTyped'
    BY <1>4 DEF IInv, ConnectDone, SideTyped, held, side
  <2>4. BusyInv'
    BY <1>4 DEF IInv, ConnectDone, BusyInv, Connecting, TaskInv
  <2>5. HandlesInv'
    BY <1>4 DEF IInv, ConnectDone, HandlesInv, held
  <2>6. TaskInv'
    BY <1>4 DEF IInv, ConnectDone, TaskInv, held, side, TaskTyped, HandlesInv, Connecting
  <2>7. OwnerInv'
    BY <1>4 DEF IInv, ConnectDone, OwnerInv
  <2> QED
    BY <2>1, <2>2, <2>3, <2>4, <2>5, <2>6, <2>7 DEF IInv
<1> QED
  BY <1>1, <1>2, <1>3, <1>4 DEF IInv, ConnectDone, HandlesInv, PortTyped

LEMMA DiscardKeeps ==
    ASSUME IInv, Discard
    PROVE  IInv'
<1>1. PortTyped'
  BY DEF IInv, Discard, PortTyped, Released, Owners
<1>2. TaskTyped'
  BY
     DEF IInv, Discard, TaskTyped, Released, held, side, AllTasks, Kept, KeptOwner, KeptAs,
         OnLink
<1>3. SideTyped'
  BY DEF IInv, Discard, SideTyped, held, side
<1>4. BusyInv'
  BY DEF IInv, Discard, BusyInv, Connecting, HandlesInv
<1>5. HandlesInv'
  BY DEF IInv, Discard, HandlesInv, held
<1>6. TaskInv'
  BY DEF IInv, Discard, TaskInv, held, side, TaskTyped, HandlesInv, Connecting
<1>7. OwnerInv'
  BY DEF IInv, Discard, OwnerInv, Released, HandlesInv
<1> QED  BY <1>1, <1>2, <1>3, <1>4, <1>5, <1>6, <1>7 DEF IInv

LEMMA DisconnectKeeps ==
    ASSUME IInv, Disconnect
    PROVE  IInv'
<1>1. PortTyped'
  BY
     DEF IInv, Disconnect, PortTyped, Clickable, MayDisconnect, Released, Disconnected, conn,
         Owners, Engines, Takes
<1>2. TaskTyped'
  BY DEF IInv, Disconnect, TaskTyped
<1>3. SideTyped'
  BY DEF IInv, Disconnect, SideTyped
<1>4. BusyInv'
  BY DEF IInv, Disconnect, BusyInv, conn, Connecting
<1>5. HandlesInv'
  BY DEF IInv, Disconnect, HandlesInv, conn
<1>6. TaskInv'
  BY DEF IInv, Disconnect, TaskInv, BusyInv
<1>7. OwnerInv'
  BY DEF IInv, Disconnect, OwnerInv, Released, Disconnected, HandlesInv
<1> QED  BY <1>1, <1>2, <1>3, <1>4, <1>5, <1>6, <1>7 DEF IInv

LEMMA ConfirmCycleKeeps ==
    ASSUME IInv, ConfirmCycle
    PROVE  IInv'
<1>1. PortTyped'
  BY
     DEF IInv, ConfirmCycle, PortTyped, Enabled, Clickable, FlashRecovery, Flashed, conn,
         side, Owners, Engines, Takes
<1>2. TaskTyped'
  BY DEF IInv, ConfirmCycle, TaskTyped
<1>3. SideTyped'
  BY DEF IInv, ConfirmCycle, SideTyped, side
<1>4. BusyInv'
  BY DEF IInv, ConfirmCycle, BusyInv, conn, Connecting
<1>5. HandlesInv'
  BY DEF IInv, ConfirmCycle, HandlesInv, FlashRecovery, Flashed, conn
<1>6. TaskInv'
  BY
     DEF IInv, ConfirmCycle, TaskInv, Enabled, Clickable, FlashRecovery, Flashed, side,
         BusyInv, HandlesInv
<1>7. OwnerInv'
  BY DEF IInv, ConfirmCycle, OwnerInv
<1> QED  BY <1>1, <1>2, <1>3, <1>4, <1>5, <1>6, <1>7 DEF IInv

LEMMA StartPollerKeeps ==
    ASSUME IInv, NEW k \in {"live", "rough"}, StartPoller(k)
    PROVE  IInv'
<1>1. PortTyped'
  BY DEF IInv, StartPoller, PortTyped, port, conn
<1>2. TaskTyped'
  BY DEF IInv, StartPoller, TaskTyped, work, held
<1>3. SideTyped'
  BY DEF IInv, StartPoller, SideTyped, held
<1>4. BusyInv'
  BY DEF IInv, StartPoller, BusyInv, conn, work, Connecting
<1>5. HandlesInv'
  BY DEF IInv, StartPoller, HandlesInv, port, conn, held
<1>6. TaskInv'
  BY DEF IInv, StartPoller, TaskInv, port, work, held, BusyInv
<1>7. OwnerInv'
  BY DEF IInv, StartPoller, OwnerInv, port, Nothing
<1> QED  BY <1>1, <1>2, <1>3, <1>4, <1>5, <1>6, <1>7 DEF IInv

LEMMA StopPollerKeeps ==
    ASSUME IInv, StopPoller
    PROVE  IInv'
<1>1. PortTyped'
  BY DEF IInv, StopPoller, PortTyped, port, conn
<1>2. TaskTyped'
  BY DEF IInv, StopPoller, TaskTyped, work, held
<1>3. SideTyped'
  BY DEF IInv, StopPoller, SideTyped, held
<1>4. BusyInv'
  BY DEF IInv, StopPoller, BusyInv, conn, work, Connecting
<1>5. HandlesInv'
  BY DEF IInv, StopPoller, HandlesInv, port, conn, held
<1>6. TaskInv'
  BY DEF IInv, StopPoller, TaskInv, port, work, held, Nothing
<1>7. OwnerInv'
  BY DEF IInv, StopPoller, OwnerInv, port, conn, work, held, Nothing, Finished
<1> QED  BY <1>1, <1>2, <1>3, <1>4, <1>5, <1>6, <1>7 DEF IInv

LEMMA EndRoughnessKeeps ==
    ASSUME IInv, EndRoughness
    PROVE  IInv'
<1>1. PortTyped'
  BY DEF IInv, EndRoughness, PortTyped, port, conn
<1>2. TaskTyped'
  BY DEF IInv, EndRoughness, TaskTyped, work, held
<1>3. SideTyped'
  BY DEF IInv, EndRoughness, SideTyped, held
<1>4. BusyInv'
  BY DEF IInv, EndRoughness, BusyInv, conn, work, Connecting
<1>5. HandlesInv'
  BY DEF IInv, EndRoughness, HandlesInv, port, conn, held
<1>6. TaskInv'
  BY DEF IInv, EndRoughness, TaskInv, port, work, held, Nothing
<1>7. OwnerInv'
  BY DEF IInv, EndRoughness, OwnerInv, port, conn, work, held, Nothing, Finished
<1> QED  BY <1>1, <1>2, <1>3, <1>4, <1>5, <1>6, <1>7 DEF IInv

LEMMA EndLiveKeeps ==
    ASSUME IInv, EndLive
    PROVE  IInv'
<1>1. PortTyped'
  BY DEF IInv, EndLive, PortTyped, port, conn
<1>2. TaskTyped'
  BY DEF IInv, EndLive, TaskTyped, work, held
<1>3. SideTyped'
  BY DEF IInv, EndLive, SideTyped, held
<1>4. BusyInv'
  BY DEF IInv, EndLive, BusyInv, conn, work, Connecting
<1>5. HandlesInv'
  BY DEF IInv, EndLive, HandlesInv, port, conn, held
<1>6. TaskInv'
  BY DEF IInv, EndLive, TaskInv, port, work, held, Nothing
<1>7. OwnerInv'
  BY DEF IInv, EndLive, OwnerInv, port, conn, work, held, Nothing, Finished
<1> QED  BY <1>1, <1>2, <1>3, <1>4, <1>5, <1>6, <1>7 DEF IInv

LEMMA StopOutputKeeps ==
    ASSUME IInv, StopOutput
    PROVE  IInv'
<1>1. PortTyped'
  BY DEF IInv, StopOutput, PortTyped, port, conn
<1>2. TaskTyped'
  BY
     DEF IInv, StopOutput, TaskTyped, Clickable, RunTask, PollersStopped, port, conn, work,
         held, AllTasks, Kept, KeptOwner, KeptAs, OnLink
<1>3. SideTyped'
  BY DEF IInv, StopOutput, SideTyped, RunTask, PollersStopped, held
<1>4. BusyInv'
  BY DEF IInv, StopOutput, BusyInv, RunTask, conn, work, Connecting
<1>5. HandlesInv'
  BY DEF IInv, StopOutput, HandlesInv, port, conn, held
<1>6. TaskInv'
  BY
     DEF IInv, StopOutput, TaskInv, RunTask, PollersStopped, port, conn, work, held,
         HandlesInv, Nothing, Connecting
<1>7. OwnerInv'
  BY DEF IInv, StopOutput, OwnerInv, port, conn, work, held, Nothing, Finished
<1> QED  BY <1>1, <1>2, <1>3, <1>4, <1>5, <1>6, <1>7 DEF IInv

LEMMA CloseWindowKeeps ==
    ASSUME IInv, CloseWindow
    PROVE  IInv'
<1>1. PortTyped'
  BY DEF IInv, CloseWindow, PortTyped, port, conn
<1>2. TaskTyped'
  BY DEF IInv, CloseWindow, TaskTyped, work, held
<1>3. SideTyped'
  BY
     DEF IInv, CloseWindow, SideTyped, CloseEvent, EndProgram, Clickable, FlashRecovery,
         Flashed, port, conn, work, held
<1>4. BusyInv'
  BY DEF IInv, CloseWindow, BusyInv, conn, work, Connecting
<1>5. HandlesInv'
  BY DEF IInv, CloseWindow, HandlesInv, port, conn, held
<1>6. TaskInv'
  BY
     DEF IInv, CloseWindow, TaskInv, CloseEvent, EndProgram, Clickable, FlashRecovery,
         Flashed, port, conn, work, held, BusyInv, Nothing, Connecting
<1>7. OwnerInv'
  BY DEF IInv, CloseWindow, OwnerInv, port, conn, work, held, Nothing, Finished
<1> QED  BY <1>1, <1>2, <1>3, <1>4, <1>5, <1>6, <1>7 DEF IInv

LEMMA CloseQueuedKeeps ==
    ASSUME IInv, CloseQueued
    PROVE  IInv'
<1>1. PortTyped'
  BY DEF IInv, CloseQueued, PortTyped, port, conn
<1>2. TaskTyped'
  BY DEF IInv, CloseQueued, TaskTyped, work, held
<1>3. SideTyped'
  BY
     DEF IInv, CloseQueued, SideTyped, CloseEvent, EndProgram, FlashRecovery, Flashed, port,
         conn, work, held
<1>4. BusyInv'
  BY DEF IInv, CloseQueued, BusyInv, conn, work, Connecting
<1>5. HandlesInv'
  BY DEF IInv, CloseQueued, HandlesInv, port, conn, held
<1>6. TaskInv'
  BY
     DEF IInv, CloseQueued, TaskInv, CloseEvent, EndProgram, FlashRecovery, Flashed, port,
         conn, work, held, BusyInv, Nothing, Connecting
<1>7. OwnerInv'
  BY DEF IInv, CloseQueued, OwnerInv, port, conn, work, held, Nothing, Finished
<1> QED  BY <1>1, <1>2, <1>3, <1>4, <1>5, <1>6, <1>7 DEF IInv

LEMMA AnswerBusyKeeps ==
    ASSUME IInv, AnswerBusy
    PROVE  IInv'
<1>1. PortTyped'
  BY DEF IInv, AnswerBusy, PortTyped, port, conn
<1>2. TaskTyped'
  BY DEF IInv, AnswerBusy, TaskTyped, work, held
<1>3. SideTyped'
  BY DEF IInv, AnswerBusy, SideTyped, EndProgram, held
<1>4. BusyInv'
  BY DEF IInv, AnswerBusy, BusyInv, conn, work, Connecting
<1>5. HandlesInv'
  BY DEF IInv, AnswerBusy, HandlesInv, port, conn, held
<1>6. TaskInv'
  BY DEF IInv, AnswerBusy, TaskInv, EndProgram, port, conn, work, held, Nothing, Connecting
<1>7. OwnerInv'
  BY DEF IInv, AnswerBusy, OwnerInv, port, conn, work, held, Nothing, Finished
<1> QED  BY <1>1, <1>2, <1>3, <1>4, <1>5, <1>6, <1>7 DEF IInv

LEMMA AnswerRecoveryKeeps ==
    ASSUME IInv, AnswerRecovery
    PROVE  IInv'
<1>1. PortTyped'
  BY DEF IInv, AnswerRecovery, PortTyped, Released, conn, Owners
<1>2. TaskTyped'
  BY DEF IInv, AnswerRecovery, TaskTyped, work
<1>3. SideTyped'
  BY DEF IInv, AnswerRecovery, SideTyped
<1>4. BusyInv'
  BY DEF IInv, AnswerRecovery, BusyInv, conn, work, Connecting
<1>5. HandlesInv'
  BY DEF IInv, AnswerRecovery, HandlesInv, conn, TaskInv
<1>6. TaskInv'
  BY DEF IInv, AnswerRecovery, TaskInv, work, Nothing
<1>7. OwnerInv'
  BY DEF IInv, AnswerRecovery, OwnerInv, Released, HandlesInv, TaskInv, Nothing
<1> QED  BY <1>1, <1>2, <1>3, <1>4, <1>5, <1>6, <1>7 DEF IInv

---------------------------------------------------------------------------
(* Together.                                                               *)

LEMMA RestKeeps == ASSUME IInv, UNCHANGED vars PROVE IInv'
  BY DEF vars, IInv, PortTyped, TaskTyped, SideTyped, BusyInv, HandlesInv, TaskInv, OwnerInv,
         Nothing, Finished, Connecting

LEMMA Initially == ASSUME Init PROVE IInv
<1>1. PortTyped /\ TaskTyped /\ SideTyped /\ BusyInv
  BY DEF Init, PortTyped, TaskTyped, SideTyped, BusyInv, Connecting, Owners
<1>2. HandlesInv /\ TaskInv /\ OwnerInv
  BY DEF Init, HandlesInv, TaskInv, OwnerInv
<1> QED  BY <1>1, <1>2 DEF IInv

LEMMA StepKeeps == ASSUME IInv, [Next]_vars PROVE IInv'
<1>1. CASE \E t \in Tasks : StartConnected(t) \/ StartHandedOver(t) \/ StartWithPort(t)
  BY <1>1, OperationAssumption, StartConnectedKeeps, StartHandedOverKeeps, StartWithPortKeeps
<1>2. CASE \/ StartProgrammer \/ CancelInstall \/ StartAgent \/ StartRetry
           \/ OutputTest \/ KeepSlowWrite \/ ReleaseLink \/ TakePort \/ GiveBack
           \/ KeepEngine \/ FinishTaken \/ FinishAgent \/ AskPhase1 \/ AnswerPhase1
           \/ FinishRetry
  BY <1>2, StartProgrammerKeeps, CancelInstallKeeps, StartAgentKeeps, StartRetryKeeps,
     WorkInPlaceKeeps, StopUnacknowledgedKeeps, KeepSlowWriteKeeps, ReleaseLinkKeeps,
     TakePortKeeps, GiveBackKeeps, KeepEngineKeeps, FinishTakenKeeps, FinishAgentKeeps,
     AskPhase1Keeps, AnswerPhase1Keeps, FinishRetryKeeps DEF OutputTest
<1>3. CASE \/ Done \/ DoneHandedOver \/ DoneTaken \/ DoneRetry \/ DoneOutput
           \/ Connect \/ Probe \/ CancelConnect \/ ConnectDone \/ Discard
           \/ Disconnect \/ ConfirmCycle
  BY <1>3, DoneKeeps, DoneHandedOverKeeps, DoneTakenKeeps, DoneRetryKeeps, DoneOutputKeeps,
     ConnectKeeps, ProbeKeeps, CancelConnectKeeps, ConnectDoneKeeps, DiscardKeeps,
     DisconnectKeeps, ConfirmCycleKeeps
<1>4. CASE \/ \E kind \in {"live", "rough"} : StartPoller(kind)
           \/ StopPoller \/ StopOutput
           \/ CloseWindow \/ CloseQueued \/ AnswerBusy \/ AnswerRecovery
           \/ Timers
  BY <1>4, StartPollerKeeps, StopPollerKeeps, StopOutputKeeps, CloseWindowKeeps,
     CloseQueuedKeeps, AnswerBusyKeeps, AnswerRecoveryKeeps, EndRoughnessKeeps, EndLiveKeeps
     DEF Timers
<1>5. CASE Terminated \/ UNCHANGED vars
  BY <1>5, RestKeeps DEF Terminated
<1> QED
  BY <1>1, <1>2, <1>3, <1>4, <1>5 DEF Next, Calls

\* However the threads of the program interleave, the inductive invariant holds.
THEOREM OwnerInvariant == Spec => []IInv
<1>1. Init => IInv
  BY Initially
<1>2. IInv /\ [Next]_vars => IInv'
  BY StepKeeps
<1> QED  BY <1>1, <1>2, PTL DEF Spec

\* Every variable keeps its type, and busy is set exactly while a worker that was
\* not cancelled is on its way.
THEOREM OwnerTyped == Spec => []TypeOK
<1>1. IInv => TypeOK
  BY TypeParts DEF IInv
<1> QED  BY <1>1, OwnerInvariant, PTL

---------------------------------------------------------------------------
(* The one handle that can be open.                                        *)
Opened == IF ds2 THEN "ds2" ELSE IF boot THEN "boot"
          ELSE IF engine # "none" THEN "engine"
          ELSE IF retained # "none" THEN "session" ELSE "connect"
LEMMA OneTalks == ASSUME IInv PROVE OneTalker
<1>1. PortTyped /\ TaskTyped /\ HandlesInv /\ TaskInv
  BY DEF IInv
<1>2. ASSUME NEW h \in Handles
      PROVE  /\ h \in {<<"ds2", "flasher", ds2>>, <<"boot", "softbsl", boot>>,
                       <<"connect", "flasher", connecting \in {"opening", "opened", "stuck",
                                                               "discarding", "wedged"}>>,
                       <<"engine", engine, engine # "none">>,
                       <<"session", IF retained = "none" THEN "free" ELSE KeptOwner[retained],
                         retained \notin {"none", "ms42"}>>}
             /\ h[3]
  BY DEF Handles
<1>3. ASSUME NEW h \in Handles
      PROVE  owner = h[2] /\ h[1] = Opened
  <2>1. CASE h = <<"ds2", "flasher", ds2>>
    BY <1>1, <1>2, <2>1 DEF HandlesInv, Opened
  <2>2. CASE h = <<"boot", "softbsl", boot>>
    BY <1>1, <1>2, <2>2 DEF HandlesInv, Opened
  <2>3. CASE h = <<"connect", "flasher", connecting \in {"opening", "opened", "stuck",
                                                         "discarding", "wedged"}>>
    BY <1>1, <1>2, <2>3 DEF HandlesInv, Opened
  <2>4. CASE h = <<"engine", engine, engine # "none">>
    BY <1>1, <1>2, <2>4 DEF HandlesInv, Opened
  <2>5. CASE h = <<"session", IF retained = "none" THEN "free" ELSE KeptOwner[retained],
                   retained \notin {"none", "ms42"}>>
    BY <1>1, <1>2, <2>5 DEF HandlesInv, Opened
  <2> QED
    BY <1>2, <2>1, <2>2, <2>3, <2>4, <2>5
<1>4. ASSUME NEW g \in Handles, NEW h \in Handles
      PROVE  g = h
  BY <1>2, <1>3
<1>5. poller \in {"live", "rough", "stopping"} => ds2 /\ task = "none"
  BY <1>1 DEF TaskInv
<1> QED  BY <1>3, <1>4, <1>5 DEF OneTalker

LEMMA GivenBack == ASSUME IInv PROVE PortGivenBack
<1>1. HandlesInv /\ TaskInv /\ OwnerInv /\ TaskTyped
  BY DEF IInv
<1> SUFFICES ASSUME task = "none", pending = "none", retained = "none", ~ds2, ~boot, ~ignored
             PROVE  owner = "free"
  BY DEF PortGivenBack
<1>2. Nothing
  BY <1>1 DEF HandlesInv, TaskInv, Nothing, Engines
<1> QED  BY <1>1, <1>2 DEF OwnerInv

\* The port is held by who uses it and by nobody else, through hand-overs, failed
\* reopens, retained sessions, cancelled connections, questions and refused starts.
THEOREM PortIsHeld == Spec => []PortHeld
<1>1. IInv => PortHeld
  BY OneTalks, GivenBack DEF PortHeld
<1> QED  BY <1>1, OwnerInvariant, PTL


---------------------------------------------------------------------------
(* The live sessions, which run inside that window.                        *)

(* The outputs of an output test are stopped, or shown as not stopped.     *)
TestInv ==
    /\ task = "output" <=> actuator \in {"running", "stopping"}
    /\ task = "stop" => actuator = "unconfirmed"
    /\ actuator = "unconfirmed" => task \in {"none", "stop"}
    /\ actuator # "none" => ds2

(* The workers' records.                                                   *)
Checks == [at : {"none", "new", "read", "cleanup", "ended"}, confirmed : BOOLEAN,
           failures : 0 .. 3]
Tests == [at : {"none", "rpm", "request", "hold", "override", "end", "done"},
          requested : BOOLEAN, selector : BOOLEAN, error : BOOLEAN,
          result : {"ok", "failed", "unconfirmed"}]
Lives == [at : {"none", "setup", "cycle", "unregister", "ended"}, registered : BOOLEAN,
          error : BOOLEAN, sequence : 0 .. MaxSamples, cursor : 0 .. MaxSamples]

Unseen == on \ reported

(* What is on belongs to a worker that still has to switch it off, or that *)
(* could not.                                                              *)
OnTyped == /\ family \in Families
           /\ on \subseteq {"check", "output", "telegram"} /\ reported \subseteq on
CheckInv ==
    /\ rough \in Checks
    /\ poller \in {"rough", "stopping", "unconfirmed"} <=> rough.at # "none"
    /\ rough.at = "new" => rough.failures = 0
    /\ rough.at = "read" => rough.failures # 3
    /\ stage # "closed" /\ "check" \in Unseen =>
          rough.at \in {"read", "cleanup"} \/ (rough.at = "ended" /\ ~rough.confirmed)
OutputInv ==
    /\ out \in Tests
    /\ task \in {"output", "stop"} <=> out.at # "none"
    /\ out.at # "none" /\ step # "running" => out.at = "done" /\ step = out.result
    /\ out.at = "hold" => out.selector = Later
    /\ stage # "closed" /\ "output" \in Unseen =>
          /\ actuator # "none"
          /\ out.at \in {"none", "hold", "override", "end", "done"}
          /\ Later => out.selector /\ out.at # "end"
          /\ out.at = "done" => out.result = "unconfirmed"
LiveInv ==
    /\ live \in Lives
    /\ poller = "live" <=> live.at # "none"
    /\ live.at = "none" => live.cursor = live.sequence
    /\ stage # "closed" /\ "telegram" \in Unseen =>
          poller = "live" /\ (live.registered \/ live.error)
AloneInv ==
    stage # "closed" /\ Unseen \cap {"check", "output"} # {} => task \in {"none", "output", "stop"}

SInv == OnTyped /\ CheckInv /\ OutputInv /\ LiveInv /\ AloneInv

(* What a step of the window, a task or a timer can do to the sessions.    *)
PollerMoves ==
    \/ poller' = poller
    \/ poller = "none" /\ poller' \in {"live", "rough"}
    \/ poller = "live" /\ poller' = "none"
    \/ poller \in {"rough", "unconfirmed"} /\ poller' = "stopping"
    \/ poller \in {"rough", "stopping"} /\ poller' \in {"none", "unconfirmed"}
    \/ poller = "unconfirmed" /\ poller' = "none" /\ ds2 /\ ~ds2'
TaskMoves ==
    \/ /\ task' = task
       /\ step' = step \/ task \notin {"output", "stop"} \/ (step = "running" /\ Finished')
    \/ /\ task = "none" /\ task' # "none" /\ step' = "running"
       /\ poller \in {"none", "live"} /\ poller' = "none"
       /\ actuator = "none" \/ task' = "stop"
    \/ task # "none" /\ task' = "none" /\ Finished
OutputMoves ==
    /\ actuator # "none" /\ actuator' = "none" =>
          \/ task \in {"output", "stop"} /\ task' = "none" /\ step # "unconfirmed"
          \/ ds2 /\ ~ds2'
    /\ ds2 /\ ~ds2' => {task, task'} \cap {"output", "stop"} = {}
Moves ==
    /\ PollerMoves /\ TaskMoves /\ OutputMoves
    /\ stage = "closed" => stage' = "closed"

LEMMA OwnerMoves == ASSUME IInv, TestInv, Next PROVE Moves /\ TestInv'
<1>1. ASSUME NEW t \in AllTasks, StartConnected(t) PROVE Moves /\ TestInv'
  BY <1>1
     DEF IInv, StartConnected, SideTyped, BusyInv, Moves, PollerMoves, TaskMoves,
         OutputMoves, TestInv, RunTask, PollersStopped, port
<1>2. ASSUME NEW t \in AllTasks, StartHandedOver(t) PROVE Moves /\ TestInv'
  BY <1>2
     DEF IInv, StartHandedOver, SideTyped, BusyInv, Moves, PollerMoves, TaskMoves,
         OutputMoves, TestInv, RunTask, PollersStopped
<1>3. ASSUME NEW t \in AllTasks, StartWithPort(t) PROVE Moves /\ TestInv'
  BY <1>3
     DEF IInv, PortTyped, TaskTyped, SideTyped, BusyInv, HandlesInv, TaskInv, Moves,
         PollerMoves, TaskMoves, OutputMoves, TestInv, Finished, StartWithPort, RunTask,
         Enabled, Clickable, PollersStopped, conn, held, work, CanAcquire, Takes,
         FlashRecovery, Flashed, Result, Delivered, NotBusy, Connecting, Engines, OnLink,
         Nothing, side, port
<1>4. CASE StartProgrammer
  BY <1>4
     DEF IInv, StartProgrammer, SideTyped, BusyInv, Moves, PollerMoves, TaskMoves,
         OutputMoves, TestInv, RunTask, PollersStopped
<1>5. CASE CancelInstall
  BY <1>5
     DEF IInv, CancelInstall, SideTyped, BusyInv, Moves, PollerMoves, TaskMoves,
         OutputMoves, TestInv, Enabled, PollersStopped, work
<1>6. CASE StartAgent
  BY <1>6
     DEF IInv, StartAgent, SideTyped, BusyInv, Moves, PollerMoves, TaskMoves, OutputMoves,
         TestInv, RunTask, PollersStopped
<1>7. CASE StartRetry
  BY <1>7
     DEF IInv, StartRetry, SideTyped, BusyInv, Moves, PollerMoves, TaskMoves, OutputMoves,
         TestInv, RunTask, PollersStopped
<1>8. CASE WorkInPlace
  BY <1>8
     DEF IInv, WorkInPlace, Moves, PollerMoves, TaskMoves, OutputMoves, TestInv, Finished,
         Result, port, side
<1>9. CASE StopUnacknowledged
  BY <1>9
     DEF IInv, StopUnacknowledged, Moves, PollerMoves, TaskMoves, OutputMoves, TestInv,
         Finished, Result, port, side
<1>10. CASE KeepSlowWrite
  BY <1>10
     DEF IInv, KeepSlowWrite, SideTyped, Moves, PollerMoves, TaskMoves, OutputMoves,
         TestInv, Result, side
<1>11. CASE ReleaseLink
  BY <1>11
     DEF IInv, ReleaseLink, SideTyped, Moves, PollerMoves, TaskMoves, OutputMoves, TestInv,
         Result, side, Engines
<1>12. CASE TakePort
  BY <1>12
     DEF IInv, TakePort, HandlesInv, TaskInv, Moves, PollerMoves, TaskMoves, OutputMoves,
         TestInv, Result, side
<1>13. CASE GiveBack
  BY <1>13
     DEF IInv, GiveBack, HandlesInv, TaskInv, Moves, PollerMoves, TaskMoves, OutputMoves,
         TestInv, Result, side, Engines
<1>14. CASE KeepEngine
  BY <1>14
     DEF IInv, KeepEngine, TaskInv, Moves, PollerMoves, TaskMoves, OutputMoves, TestInv,
         Result, side, Engines
<1>15. CASE FinishTaken
  BY <1>15
     DEF IInv, FinishTaken, Moves, PollerMoves, TaskMoves, OutputMoves, TestInv, Result,
         side
<1>16. CASE FinishAgent
  BY <1>16
     DEF IInv, FinishAgent, Moves, PollerMoves, TaskMoves, OutputMoves, TestInv, Result,
         side
<1>17. CASE AskPhase1
  BY <1>17
     DEF IInv, AskPhase1, TaskInv, Moves, PollerMoves, TaskMoves, OutputMoves, TestInv,
         side
<1>18. CASE AnswerPhase1
  BY <1>18
     DEF IInv, PortTyped, TaskTyped, SideTyped, BusyInv, HandlesInv, TaskInv, Moves,
         PollerMoves, TaskMoves, OutputMoves, TestInv, Finished, AnswerPhase1, Result,
         CanAcquire, conn, held, side, Enabled, RunTask, PollersStopped, Delivered, NotBusy,
         Connecting, Engines, OnLink, Nothing, work, port
<1>19. CASE FinishRetry
  BY <1>19
     DEF IInv, PortTyped, TaskTyped, SideTyped, BusyInv, HandlesInv, TaskInv, Moves,
         PollerMoves, TaskMoves, OutputMoves, TestInv, Finished, FinishRetry, Result,
         Reopened, conn, side, Enabled, RunTask, PollersStopped, Delivered, NotBusy,
         Connecting, Engines, OnLink, Nothing, work, port, held
<1>20. CASE Done
  BY <1>20
     DEF IInv, Done, SideTyped, Moves, PollerMoves, TaskMoves, OutputMoves, TestInv,
         Finished, Delivered
<1>21. CASE DoneHandedOver
  BY <1>21
     DEF IInv, DoneHandedOver, HandlesInv, TaskInv, Moves, PollerMoves, TaskMoves,
         OutputMoves, TestInv, Finished, Delivered
<1>22. CASE DoneTaken
  BY <1>22
     DEF IInv, DoneTaken, Moves, PollerMoves, TaskMoves, OutputMoves, TestInv, Finished,
         Delivered, side
<1>23. CASE DoneRetry
  BY <1>23
     DEF IInv, DoneRetry, SideTyped, Moves, PollerMoves, TaskMoves, OutputMoves, TestInv,
         Finished, Delivered, side
<1>24. CASE DoneOutput
  BY <1>24
     DEF IInv, DoneOutput, Moves, PollerMoves, TaskMoves, OutputMoves, TestInv, Finished,
         Delivered, port
<1>25. CASE Connect
  BY <1>25 DEF IInv, Connect, Moves, PollerMoves, TaskMoves, OutputMoves, TestInv, side
<1>26. CASE Probe
  BY <1>26
     DEF IInv, Probe, Moves, PollerMoves, TaskMoves, OutputMoves, TestInv, port, work, side
<1>27. CASE CancelConnect
  BY <1>27
     DEF IInv, CancelConnect, Moves, PollerMoves, TaskMoves, OutputMoves, TestInv, port,
         side
<1>28. CASE ConnectDone
  BY <1>28
     DEF IInv, ConnectDone, HandlesInv, Moves, PollerMoves, TaskMoves, OutputMoves,
         TestInv, side
<1>29. CASE Discard
  BY <1>29 DEF IInv, Discard, Moves, PollerMoves, TaskMoves, OutputMoves, TestInv, side
<1>30. CASE Disconnect
  BY <1>30
     DEF IInv, Disconnect, SideTyped, BusyInv, TaskInv, Moves, PollerMoves, TaskMoves,
         OutputMoves, TestInv
<1>31. CASE ConfirmCycle
  BY <1>31
     DEF IInv, ConfirmCycle, HandlesInv, Moves, PollerMoves, TaskMoves, OutputMoves,
         TestInv, FlashRecovery, Flashed, side
<1>32. ASSUME NEW k \in {"live", "rough"}, StartPoller(k) PROVE Moves /\ TestInv'
  BY <1>32
     DEF IInv, StartPoller, Moves, PollerMoves, TaskMoves, OutputMoves, TestInv, port, work
<1>33. CASE StopPoller
  BY <1>33
     DEF IInv, StopPoller, Moves, PollerMoves, TaskMoves, OutputMoves, TestInv, port, work
<1>34. CASE EndRoughness
  BY <1>34
     DEF IInv, EndRoughness, Moves, PollerMoves, TaskMoves, OutputMoves, TestInv, port,
         work
<1>35. CASE EndLive
  BY <1>35
     DEF IInv, EndLive, Moves, PollerMoves, TaskMoves, OutputMoves, TestInv, port, work
<1>36. CASE StopOutput
  BY <1>36
     DEF IInv, StopOutput, BusyInv, Moves, PollerMoves, TaskMoves, OutputMoves, TestInv,
         RunTask, PollersStopped, port, work
<1>37. CASE CloseWindow
  BY <1>37
     DEF IInv, CloseWindow, Moves, PollerMoves, TaskMoves, OutputMoves, TestInv,
         CloseEvent, EndProgram, Clickable, port, work
<1>38. CASE CloseQueued
  BY <1>38
     DEF IInv, CloseQueued, Moves, PollerMoves, TaskMoves, OutputMoves, TestInv,
         CloseEvent, EndProgram, port, work
<1>39. CASE AnswerBusy
  BY <1>39
     DEF IInv, AnswerBusy, Moves, PollerMoves, TaskMoves, OutputMoves, TestInv, EndProgram,
         port, work
<1>40. CASE AnswerRecovery
  BY <1>40
     DEF IInv, AnswerRecovery, Moves, PollerMoves, TaskMoves, OutputMoves, TestInv, work
<1>41. CASE Terminated
  BY <1>41
     DEF Terminated, vars, Moves, PollerMoves, TaskMoves, OutputMoves, TestInv, Finished,
         Connecting
<1> QED
  BY OperationAssumption, <1>1, <1>2, <1>3, <1>4, <1>5, <1>6, <1>7, <1>8, <1>9, <1>10, <1>11,
     <1>12, <1>13, <1>14, <1>15, <1>16, <1>17, <1>18, <1>19, <1>20, <1>21, <1>22, <1>23,
     <1>24, <1>25, <1>26, <1>27, <1>28, <1>29, <1>30, <1>31, <1>32, <1>33, <1>34, <1>35,
     <1>36, <1>37, <1>38, <1>39, <1>40, <1>41
     DEF Next, Calls, Timers, OutputTest

---------------------------------------------------------------------------
(* The handlers: what a step of OperationOwner does to the sessions.       *)

\* What the record of live data holds after each of its operations.
LEMMA LiveHas == ASSUME NEW l \in Lives
                 PROVE  /\ l = [at |-> l.at, registered |-> l.registered, error |-> l.error,
                                sequence |-> l.sequence, cursor |-> l.cursor]
                        /\ l.at \in {"none", "setup", "cycle", "unregister", "ended"}
                        /\ l.registered \in BOOLEAN /\ l.error \in BOOLEAN
                        /\ l.sequence \in 0 .. MaxSamples /\ l.cursor \in 0 .. MaxSamples
                        /\ DOMAIN l = {"at", "registered", "error", "sequence", "cursor"}
  BY DEF Lives

LEMMA UnregisteredFields ==
    ASSUME NEW l \in Lives, NEW confirmed \in BOOLEAN
    PROVE  /\ Unregistered(l, confirmed) \in Lives
           /\ Unregistered(l, confirmed).at = l.at
           /\ Unregistered(l, confirmed).error <=> l.error \/ (l.registered /\ ~confirmed)
<1>1. Unregistered(l, confirmed) \in Lives
  BY DEF Lives, Unregistered
<1>2. Unregistered(l, confirmed).at = l.at
  BY LiveHas DEF Unregistered
<1>3. Unregistered(l, confirmed).error <=> l.error \/ (l.registered /\ ~confirmed)
  BY LiveHas DEF Unregistered
<1> QED
  BY <1>1, <1>2, <1>3

LEMMA EndedFields ==
    ASSUME NEW l \in Lives
    PROVE  /\ Appended(l) \in Lives /\ Appended(l).at = l.at
           /\ Appended(l).error = l.error /\ Appended(l).registered = l.registered
           /\ Ended(l) \in Lives /\ Ended(l).at = "none"
           /\ Ended(l).cursor = Ended(l).sequence /\ Ended(l).error = l.error
<1>1. Appended(l) = [at |-> l.at, registered |-> l.registered, error |-> l.error,
                     sequence |-> l.sequence, cursor |-> l.sequence]
  BY LiveHas DEF Appended
<1>2. Ended(l) = [at |-> "none", registered |-> l.registered, error |-> l.error,
                  sequence |-> l.sequence, cursor |-> l.sequence]
  BY <1>1 DEF Ended
<1> QED
  BY <1>1, <1>2, LiveHas DEF Lives

LEMMA SetupFields ==
    ASSUME NEW l \in Lives
    PROVE  /\ Registered(l) \in Lives /\ Registered(l).at = l.at
           /\ Registered(l).registered = TRUE
           /\ LiveFails(l) \in Lives /\ LiveFails(l).error = TRUE
           /\ LiveFails(l).at \in {"unregister", "ended"}
<1>1. Registered(l) \in Lives /\ Registered(l).at = l.at
  BY DEF Lives, Registered
<1>2. Registered(l).registered = TRUE
  BY LiveHas DEF Registered
<1>3. LiveFails(l) \in Lives
  BY DEF Lives, LiveFails
<1>4. LiveFails(l).error = TRUE /\ LiveFails(l).at \in {"unregister", "ended"}
  BY LiveHas DEF LiveFails
<1> QED
  BY <1>1, <1>2, <1>3, <1>4

LEMMA SampledFields ==
    ASSUME NEW l \in Lives, l.sequence < MaxSamples
    PROVE  /\ Sampled(l) \in Lives /\ Sampled(l).at = l.at
           /\ Sampled(l).error = l.error /\ Sampled(l).registered = l.registered
<1>1. Sampled(l) = [at |-> l.at, registered |-> l.registered, error |-> l.error,
                    sequence |-> l.sequence + 1, cursor |-> l.cursor]
  BY LiveHas DEF Sampled
<1>2. l.sequence + 1 \in 0 .. MaxSamples
  BY LiveHas, SessionsAssumption
<1> QED
  BY <1>1, <1>2, LiveHas DEF Lives

LEMMA OnMoves ==
    ASSUME OnTyped, LiveHandled, ReportHandled, UNCHANGED family
    PROVE  OnTyped' /\ on' \subseteq on /\ Unseen' \subseteq Unseen
           /\ (on' # on => poller = "live" /\ poller' # "live")
<1>1. on' \subseteq on /\ (on' # on => poller = "live" /\ poller' # "live")
  BY DEF LiveHandled, TakenBack, Refused, Answered, Lost
<1>2. on' \cap reported \subseteq reported' /\ reported' \subseteq on'
  BY DEF ReportHandled
<1> QED
  BY <1>1, <1>2 DEF OnTyped, Unseen

\* Given up by disconnecting: the user was told of all that is on.
LEMMA GivenUpIsTold ==
    ASSUME ReportHandled, on' \subseteq on, ds2, ~ds2', "unconfirmed" \in {poller, actuator}
    PROVE  Unseen' = {}
  BY DEF ReportHandled, Unseen

LEMMA CheckHandled ==
    ASSUME IInv, CheckInv, Moves, RoughHandled, ReportHandled,
           on' \subseteq on, Unseen' \subseteq Unseen
    PROVE  CheckInv'
<1>1. PollerMoves /\ (stage = "closed" => stage' = "closed")
  BY DEF Moves
<1>2. CASE poller' = poller
  <2>1. rough' = rough
    BY <1>2 DEF RoughHandled
  <2> QED
    BY <1>1, <1>2, <2>1 DEF CheckInv
<1>3. CASE poller = "none" /\ poller' \in {"live", "rough"}
  <2>1. rough' = IF poller' = "rough" THEN NewCheck ELSE rough
    BY <1>3 DEF RoughHandled
  <2>2. rough.at = "none" /\ rough \in Checks
    BY <1>3 DEF CheckInv
  <2>3. NewCheck \in Checks /\ NewCheck.at = "new" /\ NewCheck.failures = 0
    BY DEF NewCheck, Checks
  <2>4. ~(stage # "closed" /\ "check" \in Unseen)
    BY <2>2 DEF CheckInv
  <2> QED
    BY <1>1, <1>3, <2>1, <2>2, <2>3, <2>4 DEF CheckInv
<1>4. CASE poller = "live" /\ poller' = "none"
  BY <1>1, <1>4 DEF CheckInv, RoughHandled
<1>5. CASE poller \in {"rough", "unconfirmed"} /\ poller' = "stopping"
  BY <1>1, <1>5 DEF CheckInv, RoughHandled, Checks
<1>6. CASE poller \in {"rough", "stopping"} /\ poller' \in {"none", "unconfirmed"}
  <2>1. /\ rough.at = "ended"
        /\ poller' = "none" => rough.confirmed /\ rough' = NoCheck
        /\ poller' = "unconfirmed" => rough' = rough
    BY <1>6 DEF RoughHandled
  <2>2. NoCheck \in Checks /\ NoCheck.at = "none"
    BY DEF NoCheck, Checks
  <2> QED
    BY <1>1, <1>6, <2>1, <2>2 DEF CheckInv
<1>7. CASE poller = "unconfirmed" /\ poller' = "none" /\ ds2 /\ ~ds2'
  <2>1. Unseen' = {}
    BY <1>7, GivenUpIsTold
  <2> QED
    <3>1. rough' = NoCheck
      BY <1>7 DEF RoughHandled
    <3>2. NoCheck \in Checks /\ NoCheck.at = "none"
      BY DEF NoCheck, Checks
    <3> QED
      BY <1>7, <2>1, <3>1, <3>2 DEF CheckInv
<1> QED
  BY <1>1, <1>2, <1>3, <1>4, <1>5, <1>6, <1>7 DEF PollerMoves

LEMMA LiveHandledKeeps ==
    ASSUME OnTyped, LiveInv, Moves, LiveHandled, ReportHandled,
           on' \subseteq on, Unseen' \subseteq Unseen
    PROVE  LiveInv'
<1>1. PollerMoves /\ (stage = "closed" => stage' = "closed")
  BY DEF Moves
<1>2. CASE poller = "none" /\ poller' = "live"
  <2>1. live' = [NoLive EXCEPT !.at = "setup"] /\ UNCHANGED on
    BY <1>2 DEF LiveHandled
  <2>2. live' = [at |-> "setup", registered |-> FALSE, error |-> FALSE,
                 sequence |-> 0, cursor |-> 0]
    BY <2>1 DEF NoLive
  <2>3. live' \in Lives /\ live'.at = "setup"
    BY <2>2, SessionsAssumption DEF Lives
  <2>4. ~(stage # "closed" /\ "telegram" \in Unseen)
    BY <1>2 DEF LiveInv
  <2> QED
    BY <1>1, <1>2, <2>3, <2>4 DEF LiveInv
<1>3. CASE poller = "live" /\ poller' # "live"
  <2>1. PICK l \in Joined(live), confirmed \in BOOLEAN :
            live' = Ended(Unregistered(l, confirmed)) /\ TakenBack(l, confirmed)
    BY <1>3 DEF LiveHandled
  <2>2. l \in Lives /\ l.error = live.error /\ l.registered = live.registered
    BY <2>1, SampledFields DEF Joined, LiveInv
  <2>3. /\ live' \in Lives /\ live'.at = "none" /\ live'.cursor = live'.sequence
        /\ live'.error <=> live.error \/ (live.registered /\ ~confirmed)
    <3>1. Unregistered(l, confirmed) \in Lives
      BY <2>2, UnregisteredFields
    <3> QED
      BY <2>1, <2>2, <3>1, EndedFields, UnregisteredFields
  <2>4. poller' # "live"
    BY <1>3
  <2>5. ASSUME stage' # "closed", "telegram" \in Unseen' PROVE FALSE
    <3>1. "telegram" \in Unseen /\ stage # "closed" /\ poller' = "none"
      BY <1>1, <1>3, <2>5 DEF PollerMoves
    <3>2. CASE live'.error
      BY <1>3, <2>5, <3>1, <3>2 DEF ReportHandled, Unseen
    <3>3. CASE ~live'.error
      <4>1. live.registered /\ confirmed
        BY <2>3, <3>1, <3>3 DEF LiveInv
      <4> QED
        BY <2>1, <2>2, <2>5, <4>1 DEF TakenBack, Answered, Unseen
    <3> QED
      BY <3>2, <3>3
  <2> QED
    BY <2>3, <2>4, <2>5 DEF LiveInv
<1>4. CASE ~(poller = "none" /\ poller' = "live") /\ ~(poller = "live" /\ poller' # "live")
  <2>1. UNCHANGED <<live, on>>
    BY <1>4 DEF LiveHandled
  <2>2. poller' = "live" <=> poller = "live"
    BY <1>1, <1>4 DEF PollerMoves
  <2> QED
    BY <1>1, <2>1, <2>2 DEF LiveInv
<1> QED
  BY <1>2, <1>3, <1>4

\* What the record of an output test holds after each of its operations.
LEMMA TestFields ==
    ASSUME NEW t \in Tests
    PROVE  /\ DOMAIN t = {"at", "requested", "selector", "error", "result"}
           /\ Stopping(t) \in Tests
           /\ Stopping(t).at = IF t.selector THEN "override" ELSE "end"
           /\ Stopping(t).selector = t.selector
           /\ Requested(t) \in Tests /\ Requested(t).at = t.at /\ Requested(t).requested
           /\ Requested(t).selector = Later
<1>1. DOMAIN t = {"at", "requested", "selector", "error", "result"}
  BY DEF Tests
<1>2. Stopping(t) \in Tests
  BY DEF Tests, Stopping
<1>3. /\ Stopping(t).at = IF t.selector THEN "override" ELSE "end"
      /\ Stopping(t).selector = t.selector
  BY <1>1 DEF Stopping
<1>4. Later \in BOOLEAN
  BY DEF Later
<1>5. Requested(t) \in Tests
  BY <1>4 DEF Tests, Requested
<1>6. Requested(t).at = t.at /\ Requested(t).requested /\ Requested(t).selector = Later
  BY <1>1 DEF Requested
<1> QED
  BY <1>1, <1>2, <1>3, <1>5, <1>6

LEMMA OutputHandledKeeps ==
    ASSUME IInv, TestInv, TestInv', OutputInv, Moves, OutputHandled, ReportHandled,
           UNCHANGED family, on' \subseteq on, Unseen' \subseteq Unseen
    PROVE  OutputInv'
<1>1. /\ TaskMoves /\ OutputMoves /\ (stage = "closed" => stage' = "closed")
      /\ out \in Tests /\ Later' = Later
  BY DEF Moves, OutputInv, Later
<1>2. CASE task # "output" /\ task' = "output"
  <2>1. out' = [NoTest EXCEPT !.at = "rpm"]
    BY <1>2 DEF OutputHandled
  <2>2. out' \in Tests /\ out'.at = "rpm"
    BY <2>1 DEF NoTest, Tests
  <2>3. step' = "running" /\ actuator = "none"
    BY <1>1, <1>2 DEF TaskMoves
  <2>4. ~(stage # "closed" /\ "output" \in Unseen)
    BY <2>3 DEF OutputInv
  <2> QED
    BY <1>1, <1>2, <2>2, <2>3, <2>4 DEF OutputInv
<1>3. CASE task # "stop" /\ task' = "stop"
  <2>1. out' = Stopping([out EXCEPT !.error = FALSE])
    BY <1>3 DEF OutputHandled
  <2>2. /\ [out EXCEPT !.error = FALSE] \in Tests
        /\ [out EXCEPT !.error = FALSE].selector = out.selector
    BY <1>1, TestFields DEF Tests
  <2>3. /\ out' \in Tests /\ out'.selector = out.selector
        /\ out'.at = IF out.selector THEN "override" ELSE "end"
    BY <2>1, <2>2, TestFields
  <2>4. step' = "running" /\ actuator' = "unconfirmed"
    BY <1>1, <1>3 DEF TaskMoves, TestInv
  <2> QED
    BY <1>1, <1>3, <2>3, <2>4 DEF OutputInv
<1>4. CASE task \in {"output", "stop"} /\ step = "running" /\ step' # "running" /\ task' = task
  <2>1. out.at = "done" /\ step' = out.result /\ UNCHANGED out
    BY <1>4 DEF OutputHandled
  <2>2. actuator' # "none"
    BY <1>4 DEF TestInv
  <2> QED
    BY <1>1, <1>4, <2>1, <2>2 DEF OutputInv
<1>5. CASE task \in {"output", "stop"} /\ task' = "none"
  <2>1. step \in {"ok", "failed", "unconfirmed"} /\ out.at = "done" /\ step = out.result
    BY <1>1, <1>5 DEF TaskMoves, Finished, OutputInv
  <2>2. out' = [out EXCEPT !.at = "none"]
    BY <1>5, <2>1 DEF OutputHandled
  <2>3. out' \in Tests /\ out'.at = "none" /\ out'.selector = out.selector
    BY <1>1, <2>2, TestFields DEF Tests
  <2>4. ASSUME stage' # "closed", "output" \in Unseen'
        PROVE  actuator' # "none" /\ (Later => out.selector)
    BY <1>1, <1>5, <2>1, <2>4 DEF OutputInv, OutputMoves
  <2> QED
    BY <1>1, <1>5, <2>3, <2>4 DEF OutputInv
<1>6. CASE ds2 /\ ~ds2'
  <2>1. {task, task'} \cap {"output", "stop"} = {}
    BY <1>1, <1>6 DEF OutputMoves
  <2>2. out' = NoTest
    BY <1>6, <2>1 DEF OutputHandled
  <2>3. out' \in Tests /\ out'.at = "none"
    BY <2>2 DEF NoTest, Tests
  <2>4. ~(stage' # "closed" /\ "output" \in Unseen')
    <3>1. CASE actuator = "none"
      BY <1>1, <3>1 DEF OutputInv
    <3>2. CASE actuator = "unconfirmed"
      BY <1>6, <3>2, GivenUpIsTold
    <3> QED
      BY <2>1, <3>1, <3>2 DEF TestInv, IInv, SideTyped
  <2> QED
    BY <2>1, <2>3, <2>4 DEF OutputInv
<1>7. CASE /\ ~(task # "output" /\ task' = "output") /\ ~(task # "stop" /\ task' = "stop")
           /\ ~(task \in {"output", "stop"} /\ task' = "none") /\ ~(ds2 /\ ~ds2')
           /\ ~(task \in {"output", "stop"} /\ step = "running" /\ step' # "running")
  <2>1. out' = out
    BY <1>7 DEF OutputHandled
  <2>2. /\ task' \in {"output", "stop"} <=> task \in {"output", "stop"}
        /\ task \in {"output", "stop"} => step' = step
        /\ actuator # "none" => actuator' # "none"
    BY <1>1, <1>7 DEF TaskMoves, Finished, OutputMoves
  <2> QED
    BY <1>1, <2>1, <2>2 DEF OutputInv
<1> QED
  BY <1>1, <1>2, <1>3, <1>4, <1>5, <1>6, <1>7 DEF TaskMoves

LEMMA AloneHandled ==
    ASSUME CheckInv, OutputInv, AloneInv, Moves, Unseen' \subseteq Unseen
    PROVE  AloneInv'
<1>1. TaskMoves /\ (stage = "closed" => stage' = "closed")
  BY DEF Moves
<1>2. CASE task' \in {task, "none", "stop"}
  BY <1>1, <1>2 DEF AloneInv
<1>3. CASE task' \notin {task, "none", "stop"}
  <2>1. poller \in {"none", "live"} /\ actuator = "none"
    BY <1>1, <1>3 DEF TaskMoves
  <2> QED
    BY <1>1, <2>1 DEF AloneInv, CheckInv, OutputInv
<1> QED
  BY <1>2, <1>3

LEMMA HandledKeeps ==
    ASSUME IInv, TestInv, SInv, Next, Handled
    PROVE  TestInv' /\ SInv'
<1>1. Moves /\ TestInv'
  BY OwnerMoves
<1>2. /\ RoughHandled /\ OutputHandled /\ LiveHandled /\ ReportHandled /\ UNCHANGED family
      /\ OnTyped /\ CheckInv /\ OutputInv /\ LiveInv /\ AloneInv
  BY DEF Handled, SInv
<1>3. OnTyped' /\ on' \subseteq on /\ Unseen' \subseteq Unseen
  BY <1>2, OnMoves
<1>4. CheckInv' /\ OutputInv' /\ LiveInv' /\ AloneInv'
  BY <1>1, <1>2, <1>3, CheckHandled, OutputHandledKeeps, LiveHandledKeeps, AloneHandled
<1> QED
  BY <1>1, <1>3, <1>4 DEF SInv

---------------------------------------------------------------------------
(* The workers.                                                            *)

\* A worker changes its own record, and of what is on only its own part.
LEMMA OthersRest ==
    ASSUME SInv, UNCHANGED <<vars, family>>, reported' = reported \cap on',
           NEW mine \in {"check", "output", "telegram"}, on' \in {on, on \cup {mine}, on \ {mine}}
    PROVE  /\ OnTyped'
           /\ \A other \in {"check", "output", "telegram"} \ {mine} :
                 other \in Unseen' <=> other \in Unseen
           /\ mine \in Unseen' => mine \in on' /\ (mine \in Unseen \/ mine \notin on)
           /\ Later' = Later
  BY DEF SInv, OnTyped, Unseen, Later

LEMMA RoughWorkerKeeps ==
    ASSUME IInv, SInv, RoughWorker
    PROVE  SInv'
<1>1. /\ stage # "closed" /\ UNCHANGED <<vars, family, out, live>> /\ reported' = reported \cap on'
      /\ RoughStep
  BY DEF RoughWorker, Worker
<1>2. /\ UNCHANGED <<poller, actuator, task, step, stage>>
      /\ rough \in Checks /\ rough.at \in {"new", "read", "cleanup"}
  BY <1>1 DEF vars, RoughStep, RoughStart, RoughRead, RoughCleanup, SInv, CheckInv
<1>3. poller \in {"rough", "stopping", "unconfirmed"} /\ task = "none"
  BY <1>2 DEF SInv, CheckInv, IInv, TaskInv
<1>4. /\ on' \in {on, on \cup {"check"}, on \ {"check"}}
      /\ rough' \in Checks /\ rough'.at \in {"read", "cleanup", "ended"}
      /\ rough'.at = "read" => rough'.failures # 3
      /\ rough'.at = "ended" /\ rough'.confirmed =>
            "check" \notin on' \/ (rough.at = "new" /\ on' = on)
  <2>0. DOMAIN rough = {"at", "confirmed", "failures"}
    BY <1>2 DEF Checks
  <2>1. CASE RoughStart
    <3>1. /\ rough' \in Checks /\ rough'.failures = 0
          /\ \/ rough'.at = "ended" /\ on' = on
             \/ rough'.at = "read" /\ on' = on \cup {"check"}
             \/ rough'.at = "cleanup" /\ on' \in {on, on \cup {"check"}}
      <4>1. rough.at = "new" /\ rough.failures = 0
        BY <2>1 DEF RoughStart, SInv, CheckInv
      <4>2. CASE rough' = [rough EXCEPT !.at = "ended", !.confirmed = TRUE] /\ Refused
        BY <1>2, <2>0, <4>1, <4>2 DEF Checks, Refused
      <4>3. CASE rough' = [rough EXCEPT !.at = "read"] /\ Answered(on \cup {"check"})
        BY <1>2, <2>0, <4>1, <4>3 DEF Checks, Answered
      <4>4. CASE rough' = UnknownStart(rough) /\ Lost(on \cup {"check"})
        BY <1>2, <2>0, <4>1, <4>4 DEF Checks, Lost, UnknownStart
      <4> QED
        BY <2>1, <4>2, <4>3, <4>4 DEF RoughStart
    <3> QED
      BY <2>1, <3>1 DEF RoughStart
  <2>2. CASE RoughRead
    <3>1. rough.at = "read" /\ on' = on /\ rough.failures \in 0 .. 2
      BY <1>2, <2>2 DEF RoughRead, Refused, SInv, CheckInv, Checks
    <3>2. CASE rough' = [rough EXCEPT !.at = "cleanup"]
      BY <1>2, <2>0, <3>1, <3>2 DEF Checks
    <3>3. CASE rough' = [rough EXCEPT !.failures = 0]
      BY <1>2, <2>0, <3>1, <3>3 DEF Checks
    <3>4. CASE rough' = [rough EXCEPT !.failures = @ + 1,
                                      !.at = IF rough.failures = 2 THEN "cleanup" ELSE "read"]
      <4>1. rough.failures + 1 \in 0 .. 3 /\ (rough.failures + 1 = 3 <=> rough.failures = 2)
        BY <3>1
      <4>2. rough' \in Checks
        BY <1>2, <3>4, <4>1 DEF Checks
      <4>3. /\ rough'.failures = rough.failures + 1
            /\ rough'.at = IF rough.failures = 2 THEN "cleanup" ELSE "read"
        BY <2>0, <3>4
      <4> QED
        BY <3>1, <4>1, <4>2, <4>3
    <3> QED
      BY <2>2, <3>2, <3>3, <3>4 DEF RoughRead
  <2>3. CASE RoughCleanup
    BY <1>2, <2>0, <2>3 DEF RoughCleanup, Answered, Lost, Checks
  <2> QED
    BY <1>1, <2>1, <2>2, <2>3 DEF RoughStep
<1>5. /\ OnTyped'
      /\ "output" \in Unseen' <=> "output" \in Unseen
      /\ "telegram" \in Unseen' <=> "telegram" \in Unseen
      /\ "check" \in Unseen' => "check" \in on' /\ ("check" \in Unseen \/ "check" \notin on)
      /\ Later' = Later
  BY <1>1, <1>4, OthersRest
<1>6. CheckInv'
  BY <1>2, <1>3, <1>4, <1>5 DEF SInv, CheckInv
<1>7. OutputInv' /\ LiveInv'
  BY <1>1, <1>2, <1>5 DEF SInv, OutputInv, LiveInv, vars
<1>8. AloneInv'
  BY <1>2, <1>3 DEF AloneInv
<1> QED
  BY <1>5, <1>6, <1>7, <1>8 DEF SInv

LEMMA OutputWorkerKeeps ==
    ASSUME IInv, TestInv, SInv, OutputWorker
    PROVE  SInv'
<1>1. /\ stage # "closed" /\ UNCHANGED <<vars, family, rough, live>>
      /\ reported' = reported \cap on'
      /\ OutputStep
  BY DEF OutputWorker, Worker
<1>2. /\ UNCHANGED <<poller, actuator, task, step, stage>> /\ out \in Tests
      /\ out.at \in {"rpm", "request", "hold", "override", "end"}
  BY <1>1
     DEF vars, OutputStep, CheckRpm, RequestOutput, Hold, StopOverride, EndSession, SInv,
         OutputInv
<1>3. task \in {"output", "stop"} /\ actuator # "none" /\ step = "running"
  BY <1>2 DEF SInv, OutputInv, TestInv
<1> DEFINE Good == /\ out' \in Tests /\ out'.at # "none"
                   /\ out'.at = "hold" => out'.selector = Later
                   /\ "output" \in Unseen' =>
                         /\ out'.at \in {"hold", "override", "end", "done"}
                         /\ Later => out'.selector /\ out'.at # "end"
                         /\ out'.at = "done" => out'.result = "unconfirmed"
<1>4. /\ on' \in {on, on \cup {"output"}, on \ {"output"}}
      /\ on' = on => ("output" \in Unseen' => "output" \in Unseen)
  BY <1>1
     DEF OutputStep, CheckRpm, RequestOutput, Hold, StopOverride, EndSession, Refused,
         Answered, Lost, Unseen
<1>5. ASSUME NEW result \in {"ok", "failed", "unconfirmed"}, OutEnds(result)
      PROVE  /\ out' \in Tests /\ out'.at = "done" /\ out'.result = result
             /\ out'.selector = out.selector
  BY <1>2, <1>5, TestFields DEF OutEnds, Tests
<1>6. ASSUME CheckRpm PROVE Good
  <2>1. on' = on /\ "output" \notin Unseen /\ out.at = "rpm"
    BY <1>1, <1>6 DEF CheckRpm, Refused, SInv, OutputInv
  <2>2. CASE out' = [out EXCEPT !.at = "request"]
    BY <1>2, <1>4, <2>1, <2>2, TestFields DEF Tests
  <2>3. CASE OutEnds("ok") \/ OutEnds("failed")
    BY <1>4, <1>5, <2>1, <2>3
  <2> QED
    BY <1>6, <2>2, <2>3 DEF CheckRpm
<1>7. ASSUME RequestOutput PROVE Good
  <2>1. "output" \notin Unseen /\ out.at = "request"
    BY <1>1, <1>7 DEF RequestOutput, SInv, OutputInv
  <2>2. ASSUME NEW t \in Tests
        PROVE  /\ AfterError(t) \in Tests /\ AfterError(t).at \in {"override", "end", "done"}
               /\ t.requested => /\ AfterError(t).selector = t.selector
                                 /\ AfterError(t).at = IF t.selector THEN "override" ELSE "end"
    <3>1. CASE t.requested
      <4>1. AfterError(t) = [Stopping(t) EXCEPT !.error = TRUE]
        BY <3>1 DEF AfterError
      <4>2. /\ Stopping(t) \in Tests /\ Stopping(t).selector = t.selector
            /\ Stopping(t).at = IF t.selector THEN "override" ELSE "end"
        BY TestFields
      <4>3. AfterError(t) \in Tests
        BY <4>1, <4>2 DEF Tests
      <4>4. AfterError(t).at = Stopping(t).at /\ AfterError(t).selector = Stopping(t).selector
        BY <4>1, <4>2, TestFields
      <4> QED
        BY <4>2, <4>3, <4>4
    <3>2. CASE ~t.requested
      <4>1. AfterError(t) = [t EXCEPT !.at = "done", !.result = "failed"]
        BY <3>2 DEF AfterError
      <4>2. AfterError(t) \in Tests
        BY <4>1 DEF Tests
      <4>3. AfterError(t).at = "done"
        BY <4>1, TestFields
      <4> QED
        BY <3>2, <4>2, <4>3
    <3> QED
      BY <3>1, <3>2
  <2>3. CASE OutEnds("ok") /\ Refused
    BY <1>4, <1>5, <2>1, <2>3 DEF Refused
  <2>4. CASE /\ Refused
             /\ out' \in {Stopping(out), Requested(out), AfterError(out),
                          AfterError([Requested(out) EXCEPT !.selector = FALSE])}
    <3>1. [Requested(out) EXCEPT !.selector = FALSE] \in Tests
      <4>1. Requested(out) \in Tests
        BY <1>2, TestFields
      <4> QED
        BY <4>1 DEF Tests
    <3>2. on' = on
      BY <2>4 DEF Refused
    <3>3. out' \in Tests /\ out'.at \in {"request", "override", "end", "done"}
      BY <1>2, <2>1, <2>2, <2>4, <3>1, TestFields
    <3> QED
      BY <1>4, <2>1, <3>2, <3>3
  <2>5. CASE out' = [Requested(out) EXCEPT !.at = "hold"]
    <3>0. Requested(out) \in Tests /\ Requested(out).selector = Later
      BY <1>2, TestFields
    <3>1. out' \in Tests
      BY <2>5, <3>0 DEF Tests
    <3>2. out'.at = "hold" /\ out'.selector = Later
      BY <2>5, <3>0, TestFields
    <3> QED
      BY <3>1, <3>2
  <2>6. CASE out' = AfterError(Requested(out))
    <3>1. /\ out' \in Tests /\ out'.selector = Later
          /\ out'.at = IF Later THEN "override" ELSE "end"
      BY <1>2, <2>2, <2>6, TestFields
    <3> QED
      BY <3>1
  <2> QED
    BY <1>7, <2>3, <2>4, <2>5, <2>6 DEF RequestOutput
<1>8. ASSUME Hold PROVE Good
  <2>1. on' = on /\ out' = Stopping(out) /\ out.selector = Later
    BY <1>8 DEF Hold, Refused, SInv, OutputInv
  <2>2. out' \in Tests /\ out'.selector = Later /\ out'.at = IF Later THEN "override" ELSE "end"
    BY <1>2, <2>1, TestFields
  <2> QED
    BY <2>2
<1>9. ASSUME StopOverride PROVE Good
  <2>1. CASE out' = [out EXCEPT !.at = "end"] /\ Answered(on \ {"output"})
    BY <1>2, <2>1, TestFields DEF Tests, Answered, Unseen
  <2>2. CASE OutEnds("unconfirmed") /\ Lost(on \ {"output"})
    <3>1. "output" \in Unseen' => "output" \in Unseen
      BY <1>4, <2>2 DEF Lost, Unseen
    <3> QED
      BY <1>1, <1>5, <2>2, <3>1 DEF SInv, OutputInv
  <2> QED
    BY <1>9, <2>1, <2>2 DEF StopOverride
<1>10. ASSUME EndSession PROVE Good
  <2>1. out.at = "end" /\ (Later => "output" \notin Unseen)
    BY <1>1, <1>10 DEF EndSession, SInv, OutputInv
  <2>2. on' = on \/ (~Later /\ on' = on \ {"output"})
    BY <1>10 DEF EndSession, Answered, Lost
  <2>3. Later => "output" \notin Unseen'
    BY <1>4, <2>1, <2>2
  <2>4. CASE OutEnds("unconfirmed")
    BY <1>5, <2>3, <2>4
  <2>5. CASE /\ Answered(IF Later THEN on ELSE on \ {"output"})
             /\ out' = [out EXCEPT !.at = "done", !.selector = FALSE,
                                   !.result = IF out.error THEN "failed" ELSE "ok"]
    <3>1. "output" \notin Unseen'
      BY <2>3, <2>5 DEF Answered, Unseen
    <3>2. out' \in Tests /\ out'.at = "done"
      BY <1>2, <2>5, TestFields DEF Tests
    <3> QED
      BY <3>1, <3>2
  <2> QED
    BY <1>10, <2>4, <2>5 DEF EndSession
<1>11. Good
  BY <1>1, <1>6, <1>7, <1>8, <1>9, <1>10 DEF OutputStep
<1>12. /\ OnTyped'
       /\ "check" \in Unseen' <=> "check" \in Unseen
       /\ "telegram" \in Unseen' <=> "telegram" \in Unseen
       /\ Later' = Later
  BY <1>1, <1>4, OthersRest
<1>13. OutputInv'
  BY <1>2, <1>3, <1>11, <1>12 DEF OutputInv
<1>14. CheckInv' /\ LiveInv'
  BY <1>1, <1>2, <1>12 DEF SInv, CheckInv, LiveInv
<1>15. AloneInv'
  BY <1>2, <1>3 DEF AloneInv
<1> QED
  BY <1>12, <1>13, <1>14, <1>15 DEF SInv

LEMMA LiveWorkerKeeps ==
    ASSUME IInv, SInv, LiveWorker
    PROVE  SInv'
<1>1. /\ stage # "closed" /\ UNCHANGED <<vars, family, rough, out>> /\ reported' = reported \cap on'
      /\ LiveSetup \/ LiveCycle \/ LiveUnregister \/ LiveRefresh
  BY DEF LiveWorker, Worker, LiveStep
<1>2. /\ UNCHANGED <<poller, actuator, task, step, stage>>
      /\ live \in Lives /\ live.at # "none" /\ poller = "live"
  BY <1>1 DEF vars, LiveSetup, LiveCycle, LiveUnregister, LiveRefresh, SInv, LiveInv
<1> DEFINE Good == /\ live' \in Lives /\ live'.at # "none"
                   /\ "telegram" \in Unseen' => live'.registered \/ live'.error
<1>3. /\ on' \in {on, on \cup {"telegram"}, on \ {"telegram"}}
      /\ on' = on => ("telegram" \in Unseen' => "telegram" \in Unseen)
  BY <1>1
     DEF LiveSetup, LiveCycle, LiveUnregister, LiveRefresh, TakenBack, Refused, Answered,
         Lost, Unseen
<1>4. "telegram" \in Unseen => live.registered \/ live.error
  BY <1>1 DEF SInv, LiveInv
<1>5. ASSUME LiveSetup PROVE Good
  <2>1. [live EXCEPT !.at = "cycle"] \in Lives
    BY <1>2 DEF Lives
  <2>2. CASE live' = [live EXCEPT !.at = "cycle"] /\ Refused
    BY <1>2, <1>3, <1>4, <2>1, <2>2, LiveHas DEF Refused
  <2>3. CASE live' = LiveFails(live)
    BY <1>2, <2>3, SetupFields
  <2>4. CASE live' \in {[Registered(live) EXCEPT !.at = "cycle"], LiveFails(Registered(live))}
    <3>1. Registered(live) \in Lives /\ Registered(live).registered = TRUE
      BY <1>2, SetupFields
    <3>2. CASE live' = [Registered(live) EXCEPT !.at = "cycle"]
      <4>1. live' \in Lives
        BY <3>1, <3>2 DEF Lives
      <4>2. live'.at = "cycle" /\ live'.registered = TRUE
        BY <3>1, <3>2, LiveHas
      <4> QED
        BY <4>1, <4>2
    <3>3. CASE live' = LiveFails(Registered(live))
      BY <3>1, <3>3, SetupFields
    <3> QED
      BY <2>4, <3>2, <3>3
  <2> QED
    BY <1>5, <2>2, <2>3, <2>4 DEF LiveSetup
<1>6. ASSUME LiveCycle PROVE Good
  BY <1>2, <1>3, <1>4, <1>6, SampledFields, SetupFields DEF LiveCycle, Refused
<1>7. ASSUME LiveUnregister PROVE Good
  <2>1. PICK confirmed \in BOOLEAN :
            /\ live' = [Unregistered(live, confirmed) EXCEPT !.at = "ended"]
            /\ TakenBack(live, confirmed)
    BY <1>7 DEF LiveUnregister
  <2>2. /\ Unregistered(live, confirmed) \in Lives
        /\ Unregistered(live, confirmed).error <=> live.error \/ (live.registered /\ ~confirmed)
    BY <1>2, UnregisteredFields
  <2>3. live' \in Lives
    BY <2>1, <2>2 DEF Lives
  <2>4. live'.at = "ended" /\ live'.error = Unregistered(live, confirmed).error
    BY <2>1, <2>2, LiveHas
  <2>5. "telegram" \in Unseen' => live'.error
    BY <1>3, <1>4, <2>1, <2>2, <2>4 DEF TakenBack, Refused, Answered, Unseen
  <2> QED
    BY <2>3, <2>4, <2>5
<1>8. ASSUME LiveRefresh PROVE Good
  BY <1>2, <1>3, <1>4, <1>8, EndedFields DEF LiveRefresh, Refused
<1>9. Good
  BY <1>1, <1>5, <1>6, <1>7, <1>8
<1>10. /\ OnTyped'
       /\ "check" \in Unseen' <=> "check" \in Unseen
       /\ "output" \in Unseen' <=> "output" \in Unseen
       /\ Later' = Later
  BY <1>1, <1>3, OthersRest
<1>11. LiveInv'
  BY <1>2, <1>9 DEF LiveInv
<1>12. CheckInv' /\ OutputInv'
  BY <1>1, <1>2, <1>10 DEF SInv, CheckInv, OutputInv
<1>13. AloneInv'
  <2>1. Unseen' \cap {"check", "output"} = Unseen \cap {"check", "output"}
    BY <1>10
  <2> QED
    BY <1>1, <1>2, <2>1 DEF SInv, AloneInv
<1> QED
  BY <1>10, <1>11, <1>12, <1>13 DEF SInv

---------------------------------------------------------------------------
(* Together.                                                               *)

\* The sessions add no step to OperationOwner's.
LEMMA SessionsStepIsOwners == [SessionsNext]_allVars => [Next]_vars
<1>1. OwnerStep \/ TimerStep => Next
  BY DEF OwnerStep, TimerStep, Next, Timers
<1>2. RoughWorker \/ OutputWorker \/ LiveWorker \/ PowerOff => UNCHANGED vars
  BY DEF RoughWorker, OutputWorker, LiveWorker, Worker, PowerOff
<1>3. UNCHANGED allVars => UNCHANGED vars
  BY DEF allVars
<1> QED
  BY <1>1, <1>2, <1>3 DEF SessionsNext

AllInv == IInv /\ TestInv /\ SInv

LEMMA SessionsInitially == ASSUME SessionsInit PROVE AllInv
<1>1. IInv
  BY Initially DEF SessionsInit
<1>2. TestInv
  BY DEF SessionsInit, Init, TestInv
<1>3. NoCheck \in Checks /\ NoTest \in Tests /\ NoLive \in Lives
  BY SessionsAssumption DEF NoCheck, NoTest, NoLive, Checks, Tests, Lives
<1>4. /\ NoCheck.at = "none" /\ NoTest.at = "none" /\ NoLive.at = "none"
      /\ NoLive.cursor = NoLive.sequence
  BY DEF NoCheck, NoTest, NoLive
<1>5. /\ rough = NoCheck /\ out = NoTest /\ live = NoLive /\ on = {} /\ reported = {} /\ Unseen = {}
      /\ family \in Families /\ poller = "none" /\ task = "none"
  BY DEF SessionsInit, Init, Unseen
<1>6. SInv
  BY <1>3, <1>4, <1>5 DEF SInv, OnTyped, CheckInv, OutputInv, LiveInv, AloneInv
<1> QED
  BY <1>1, <1>2, <1>6 DEF AllInv

LEMMA SessionsStepKeeps == ASSUME AllInv, [SessionsNext]_allVars PROVE AllInv'
<1>1. IInv /\ TestInv /\ SInv
  BY DEF AllInv
<1>2. IInv'
  BY <1>1, SessionsStepIsOwners, StepKeeps
<1>3. CASE OwnerStep \/ TimerStep
  <2>1. Next /\ Handled
    BY <1>3 DEF OwnerStep, TimerStep, Next, Timers
  <2> QED
    BY <1>1, <1>2, <2>1, HandledKeeps DEF AllInv
<1>4. CASE RoughWorker \/ OutputWorker \/ LiveWorker
  <2>1. UNCHANGED vars
    BY <1>4 DEF RoughWorker, OutputWorker, LiveWorker, Worker
  <2>2. TestInv'
    BY <1>1, <2>1 DEF TestInv, vars
  <2>3. SInv'
    BY <1>1, <1>4, RoughWorkerKeeps, OutputWorkerKeeps, LiveWorkerKeeps
  <2> QED
    BY <1>2, <2>2, <2>3 DEF AllInv
<1>5. CASE PowerOff
  <2>1. UNCHANGED <<vars, family, rough, out, live>> /\ on' = {} /\ reported' = {} /\ Unseen' = {}
    BY <1>5 DEF PowerOff, Unseen
  <2> QED
    BY <1>1, <1>2, <2>1
       DEF AllInv, TestInv, SInv, OnTyped, CheckInv, OutputInv, LiveInv, AloneInv, Later,
           vars
<1>6. CASE UNCHANGED allVars
  BY <1>1, <1>2, <1>6
     DEF AllInv, TestInv, SInv, OnTyped, CheckInv, OutputInv, LiveInv, AloneInv, Unseen,
         Later, allVars, vars, sessions
<1> QED
  BY <1>3, <1>4, <1>5, <1>6 DEF SessionsNext

\* Whatever is lost on the line, whatever the user clicks and wherever the workers
\* are, the inductive invariant of the window and of the sessions holds.
THEOREM SessionsInvariant == SessionsSpec => []AllInv
<1>1. SessionsInit => AllInv
  BY SessionsInitially
<1>2. AllInv /\ [SessionsNext]_allVars => AllInv'
  BY SessionsStepKeeps
<1> QED  BY <1>1, <1>2, PTL DEF SessionsSpec

\* The sessions run inside the window's task runner: they implement it.
THEOREM SessionsImplementOwner == SessionsSpec => Spec
<1>1. SessionsInit => Init
  BY DEF SessionsInit
<1> QED  BY <1>1, SessionsStepIsOwners, PTL DEF SessionsSpec, Spec

\* Every variable keeps its type, and a worker exists exactly while its session is
\* shown as under way.
THEOREM SessionsTyped == SessionsSpec => []SessionsTypeOK
<1>1. ASSUME AllInv PROVE SessionsTypeOK
  <2>1. TypeOK
    BY <1>1, TypeParts DEF AllInv, IInv
  <2>2. OnTyped /\ CheckInv /\ OutputInv /\ LiveInv
    BY <1>1 DEF AllInv, SInv
  <2>3. /\ {live.registered, live.error} \subseteq BOOLEAN
        /\ {live.sequence, live.cursor} \subseteq 0 .. MaxSamples
    BY <2>2, LiveHas DEF LiveInv
  <2>4. live.at \in {"none", "setup", "cycle", "unregister", "ended"}
    BY <2>2, LiveHas DEF LiveInv
  <2>5. rough \in Checks /\ (poller \in {"rough", "stopping", "unconfirmed"}) = (rough.at # "none")
    BY <2>2 DEF CheckInv
  <2>6. out \in Tests /\ (task \in {"output", "stop"}) = (out.at # "none")
    BY <2>2 DEF OutputInv
  <2>7. (poller = "live") = (live.at # "none")
    BY <2>2 DEF LiveInv
  <2> QED
    BY <2>1, <2>2, <2>3, <2>4, <2>5, <2>6, <2>7 DEF SessionsTypeOK, OnTyped, Checks, Tests
<1>2. AllInv => SessionsTypeOK
  BY <1>1
<1> QED  BY <1>2, SessionsInvariant, PTL

\* What is shown of a session that is over is true: what the program says has ended
\* is off in the engine computer unless the user was told, no other operation works
\* over a check or an output that is on, and every completed sample was given.
THEOREM ShownIsTrue == SessionsSpec => []ToldTruly
<1>1. ASSUME AllInv PROVE SwitchedOff
  <2>1. CheckInv /\ OutputInv /\ LiveInv /\ AloneInv
    BY <1>1 DEF AllInv, SInv
  <2>2. stage # "closed" /\ "check" \in Unseen => poller \in {"rough", "stopping", "unconfirmed"}
    BY <2>1 DEF CheckInv
  <2>3. /\ stage # "closed" /\ "output" \in Unseen => actuator # "none"
        /\ stage # "closed" /\ "telegram" \in Unseen => poller = "live"
    BY <2>1 DEF OutputInv, LiveInv
  <2> QED
    BY <2>1, <2>2, <2>3 DEF SwitchedOff, Unseen, AloneInv
<1>2. ASSUME AllInv PROVE SamplesGiven
  BY <1>2 DEF AllInv, SInv, LiveInv, SamplesGiven
<1>3. AllInv => ToldTruly
  BY <1>1, <1>2 DEF ToldTruly
<1> QED  BY <1>3, SessionsInvariant, PTL

\* The port is held by who uses it and by nobody else, with the workers of the
\* sessions running.
THEOREM SessionsPortHeld == SessionsSpec => []PortHeld
  BY SessionsImplementOwner, PortIsHeld, PTL

================================================================================
