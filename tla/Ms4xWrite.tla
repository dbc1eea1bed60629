------------------------------ MODULE Ms4xWrite ------------------------------
(***************************************************************************)
(* The MS42/MS43 writer: _write and retry_write of ms42_ms43.py over its   *)
(* three routes - the stock DS2 commands, the resident loader in RAM       *)
(* (ms42_ms43_resident.py) and the RAM agent (ms42_ms43_agent.py) - with   *)
(* the fallbacks between them, the repeats and the one sector repair of    *)
(* the agent, and the retained write of gui_ms42_ms43.py.                  *)
(*                                                                         *)
(* Any request may be lost, carried out with its reply lost, or refused;   *)
(* power may fail and the program may be closed between any two.           *)
(***************************************************************************)
EXTENDS Integers, Sequences, Functions

CONSTANTS Chunks,      \* packets of one region
          Attempts,    \* PACKET_ATTEMPTS: transmissions of an agent request
          LastRate     \* rates of the agent: the selected one first, 9600 last

VARIABLES
    ecu,      \* the engine computer: what answers, authorization, flash
    s,        \* the write in progress or retained
    pc,       \* its next step, or where it rests
    outcome,  \* history: what the operation was reported as
    touched   \* history: the operation has changed the flash

vars == <<ecu, s, pc, outcome, touched>>

Regions == {"program", "tune", "boot"}

\* "part": every bit still missing can be programmed by the same packet.
Cells == {"old", "blank", "part", "bad", "new"}
Routes == {"stock", "resident", "agent"}

\* The boot sectors follow a full write and need the agent.
Order(op) ==
    CASE op = "tune" -> <<"tune">>
      [] op = "full" -> <<"program", "tune">>
      [] op = "boot" -> <<"program", "tune", "boot">>

Pcs == {"idle", "enter", "fallback", "lower", "identity", "invalidate", "unlock", "erase",
        "erase_check", "program", "readback", "repair_verify", "verify", "boot",
        "boot_verify", "finalize", "leave", "conclude", "handler", "held"}
Computers ==
    [ runs : Routes, auth : BOOLEAN, marked : [{"program", "tune"} -> BOOLEAN],
      cells : [Regions -> [1 .. Chunks -> Cells]] ]

\* active: the loader or agent is believed to run; rate: rate_confirmed; ram:
\* the agent finalizes the target software itself; tier: the agent's rate.
Writes ==
    [ op : {"tune", "full", "boot"}, verify : BOOLEAN, ram : BOOLEAN, route : Routes,
      active : BOOLEAN, rate : BOOLEAN, tier : 1 .. LastRate,
      destructive_started : BOOLEAN, i : 1 .. 3, chunk : 1 .. Chunks,
      tries : 1 .. Attempts, repair_used : BOOLEAN, repairing : BOOLEAN ]

NewWrite(op, verify, ram, route) ==
    [ op |-> op, verify |-> verify, ram |-> ram, route |-> route, active |-> FALSE,
      rate |-> TRUE, tier |-> 1, destructive_started |-> FALSE, i |-> 1, chunk |-> 1,
      tries |-> 1, repair_used |-> FALSE, repairing |-> FALSE ]

Region == Order(s.op)[s.i]
Cell == ecu.cells[Region][s.chunk]
Holding(e, region, allowed) == \A k \in 1 .. Chunks : e.cells[region][k] \in allowed
HoldsNew(region) == Holding(ecu, region, {"new"})

\* The boot block answers DS2 also where the program is gone; what runs in RAM
\* answers until power is lost.
StockAnswers(e) == e.runs = "stock" /\ Holding(e, "boot", {"old", "new"})
Answers == IF s.route = "stock" THEN StockAnswers(ecu) /\ ecu.auth ELSE ecu.runs = s.route
Restarted(e) == [e EXCEPT !.runs = "stock", !.auth = FALSE]
---------------------------------------------------------------------------
Stays == UNCHANGED <<outcome, touched>>
Goto(label) == pc' = label /\ UNCHANGED s

\* What is left of an operation that is over.
Report(what) ==
    pc' = "idle" /\ outcome' = what /\ s' = NewWrite(s.op, FALSE, FALSE, "stock")
Raise(sess) == s' = sess /\ pc' = "handler"

\* The image is validated and matched with the computer first; a boot update
\* takes the agent, and a tune image the software it is for.
Start(op, verify, ram, route) ==
    /\ pc = "idle"
    /\ StockAnswers(ecu)
    /\ op = "boot" => route = "agent"
    /\ op = "tune" => Holding(ecu, "program", {"old", "new"})
    /\ ram => route = "agent"
    /\ ecu' = [ecu EXCEPT !.cells = [r \in Regions |-> [k \in 1 .. Chunks |->
                  IF @[r][k] \in {"old", "new"} THEN "old" ELSE "bad"]]]
    /\ s' = NewWrite(op, verify, ram, route)
    /\ pc' = IF route = "stock" THEN "unlock" ELSE "enter"
    /\ outcome' = "running"
    /\ touched' = FALSE

\* The stock route takes over only before anything was erased, while it is
\* known what answers, and never for a boot update.
FallsBack(protocol) ==
    /\ ~s.active /\ ~s.destructive_started
    /\ s.op # "boot"
    /\ protocol # "unknown"

\* enter of either loader, or the check of a retained one.  A failed entry
\* knows the dispatcher (_entry_protocol) only after a reply of it; a busy
\* authorization leaves the rate confirmed.
Enter ==
    /\ pc = "enter"
    /\ Stays
    /\ \/ s.active /\ UNCHANGED ecu
          /\ \/ Answers /\ Goto("identity")
             \/ Raise(s)
       \/ ~s.active /\ StockAnswers(ecu)
          /\ ecu' = [ecu EXCEPT !.runs = s.route]
          /\ s' = [s EXCEPT !.active = TRUE] /\ pc' = "identity"
       \/ /\ ~s.active
          /\ \E runs \in {"stock", "resident", s.route}, rate \in {FALSE, s.rate},
                protocol \in {"ds2", "resident", "unknown"} :
                /\ runs # ecu.runs => StockAnswers(ecu)
                /\ protocol = "ds2" => runs = "stock" /\ StockAnswers(ecu)
                /\ protocol = "resident" => runs = "resident"
                /\ rate => protocol = "ds2"
                /\ ecu' = [ecu EXCEPT !.runs = runs]
                /\ s' = [s EXCEPT !.rate = rate]
                /\ pc' \in IF FallsBack(protocol) THEN {"fallback", "handler"} ELSE {"handler"}

\* _fallback_to_ds2: the identity is read again over stock DS2.
Fallback ==
    /\ pc = "fallback"
    /\ Stays
    /\ \/ /\ ecu' = Restarted(ecu) /\ StockAnswers(ecu')
          /\ s' = [s EXCEPT !.route = "stock", !.rate = TRUE]
          /\ pc' = "unlock"
       \/ ecu' \in {ecu, Restarted(ecu)} /\ Raise([s EXCEPT !.rate = FALSE])

\* A read of the agent that failed in a way it recovers from is tried again at
\* a lower rate, before anything was erased; any other error is raised.
ReadFails ==
    \/ Raise(s)
    \/ /\ s.route = "agent" /\ ~s.destructive_started /\ s.tier < LastRate
       /\ pc' = "lower" /\ UNCHANGED s

\* _lower_baud: the agent is left by its reset and entered again.
Lower ==
    /\ pc = "lower"
    /\ Stays
    /\ \/ /\ ecu' = Restarted(ecu) /\ StockAnswers(ecu')
          /\ s' = [s EXCEPT !.active = FALSE, !.rate = TRUE, !.tier = @ + 1]
          /\ pc' = "enter"
       \/ /\ ecu' \in {ecu, Restarted(ecu)}
          /\ Raise([s EXCEPT !.active = FALSE, !.rate = FALSE])

\* The write has begun; no other rate or route is tried after it.
Begun == [s EXCEPT !.destructive_started = TRUE, !.tier = LastRate]

\* _prepare_image, _snapshot_identity and the first identity backup, which
\* programs blank space (identity data is not followed here); a set-up of the
\* loader that fails before the first request leaves it.
Identity ==
    /\ pc = "identity"
    /\ Stays
    /\ \/ /\ Answers
          /\ s' \in IF s.op = "tune" THEN {s} ELSE {s, Begun}
          /\ pc' = "invalidate"
          /\ UNCHANGED ecu
       \/ UNCHANGED ecu /\ (ReadFails \/ (s.op # "tune" /\ Raise(Begun)))
       \/ /\ s.route = "resident" /\ ~s.destructive_started
          /\ \E rate \in BOOLEAN :
                /\ ecu' \in IF rate THEN {Restarted(ecu)} ELSE {ecu, Restarted(ecu)}
                /\ Raise([s EXCEPT !.active = FALSE, !.rate = rate])

\* The second identity backup and _invalidate: the marker of the region is
\* programmed to zeros, unless it reads blank.
Invalidate ==
    /\ pc = "invalidate"
    /\ UNCHANGED outcome
    /\ LET unmarked == [ecu EXCEPT !.marked[Region] = FALSE]
       IN  \/ /\ Answers /\ ecu' = unmarked
              /\ touched' = (touched \/ ecu' # ecu)
              /\ s' \in IF ecu' # ecu THEN {Begun} ELSE {s, Begun}
              /\ pc' = "erase"
           \/ /\ ecu' \in IF Answers THEN {ecu, unmarked} ELSE {ecu}
              /\ touched' = (touched \/ ecu' # ecu)
              /\ Raise(Begun)
           \/ UNCHANGED <<ecu, touched>> /\ ReadFails

\* The challenge and its key, and the preparation of the stock route.
Unlock ==
    /\ pc = "unlock"
    /\ Stays
    /\ \/ /\ StockAnswers(ecu)
          /\ ecu' = [ecu EXCEPT !.auth = TRUE]
          /\ Goto("erase")
       \/ /\ ecu' \in {ecu} \cup (IF StockAnswers(ecu) THEN {[ecu EXCEPT !.auth = TRUE]} ELSE {})
          /\ Raise(s)
---------------------------------------------------------------------------
(* Erase, program and repair.                                              *)

Marks(e) == [e EXCEPT !.marked = [r \in DOMAIN @ |-> @[r] /\ r # Region]]
SectorErased == Marks([ecu EXCEPT !.cells[Region] = [k \in 1 .. Chunks |-> "blank"]])
SectorSpoilt == Marks([ecu EXCEPT !.cells[Region] = [k \in 1 .. Chunks |-> "bad"]])

EraseDone(sess) == s' = [sess EXCEPT !.chunk = 1, !.tries = 1] /\ pc' = "program"

\* The agent looks an erase up whose reply was lost; no other route does.
Erase ==
    /\ pc = "erase"
    /\ UNCHANGED outcome
    /\ \/ Answers /\ ecu' = SectorErased /\ touched' = TRUE /\ EraseDone(Begun)
       \/ /\ \/ UNCHANGED <<ecu, touched>>
             \/ Answers /\ ecu' \in {SectorErased, SectorSpoilt} /\ touched' = TRUE
          /\ \/ s.route = "agent" /\ s' = Begun /\ pc' = "erase_check"
             \/ Raise(Begun)

\* Mutant: the last attempt is counted one too late.
OneMore == s.tries <= Attempts
Again == s.tries < Attempts

SectorBlank == Holding(ecu, Region, {"blank"})
EraseCheck ==
    /\ pc = "erase_check"
    /\ UNCHANGED ecu /\ Stays
    /\ \/ Answers /\ SectorBlank /\ EraseDone(s)
       \/ /\ Answers /\ ~SectorBlank /\ Again
          /\ s' = [s EXCEPT !.tries = @ + 1] /\ pc' = "erase"
       \/ Raise(s)

\* After a region: the next one with its marker, the read-back, the boot
\* sectors, or the finalizer.
RegionDone(sess) ==
    LET done == [sess EXCEPT !.repairing = FALSE]
        next == [done EXCEPT !.i = @ + 1, !.chunk = 1, !.tries = 1]
    IN  CASE Region = "program" ->
                s' = next /\ pc' = IF s.route = "stock" THEN "erase" ELSE "invalidate"
          [] Region = "tune" ->
                s' = done /\ pc' = CASE s.route = "stock"  -> "finalize"
                                     [] s.verify /\ s.route # "stock" -> "verify"
                                     [] OTHER             -> "boot"
          [] OTHER -> s' = done /\ pc' = "boot_verify"

ChunkDone ==
    CASE s.chunk < Chunks -> s' = [s EXCEPT !.chunk = @ + 1, !.tries = 1] /\ pc' = "program"
      [] s.chunk = Chunks /\ s.repairing -> Goto("repair_verify")
      [] OTHER -> RegionDone(s)

Cut(cell) ==
    CASE cell \in {"blank", "part"} -> {cell, "part", "bad", "new"}
      [] cell = "new"               -> {"new"}
      [] OTHER                      -> {cell, "bad"}
Programmed(cell) == [ecu EXCEPT !.cells[Region][s.chunk] = cell]

\* _program of the agent reads back what it lost the reply of; the other
\* routes end.
Program ==
    /\ pc = "program"
    /\ Stays
    /\ \/ Answers /\ Cell \in {"blank", "part", "new"} /\ ecu' = Programmed("new") /\ ChunkDone
       \/ /\ ecu' \in {ecu} \cup (IF Answers THEN {Programmed(c) : c \in Cut(Cell)} ELSE {})
          /\ \/ s.route = "agent" /\ Goto("readback")
             \/ Raise(s)

\* No bit is missing that only an erase could bring back.
Resendable == Cell \in {"blank", "part"}

\* Mutant: the repair is not used up.
RepairAgain == TRUE
MayRepair == ~s.repair_used
Readback ==
    /\ pc = "readback"
    /\ UNCHANGED ecu /\ Stays
    /\ \/ Answers /\ Cell = "new" /\ ChunkDone
       \/ /\ Answers /\ Resendable /\ Again
          /\ s' = [s EXCEPT !.tries = @ + 1] /\ pc' = "program"
       \/ /\ Answers /\ Cell # "new" /\ ~Resendable /\ MayRepair
          /\ s' = [s EXCEPT !.repair_used = TRUE, !.repairing = TRUE, !.tries = 1]
          /\ pc' = "erase"
       \/ Raise(s)

\* The repaired sector is read as a whole; its remaining packets are then
\* skipped (_verified_sector).
RepairVerify ==
    /\ pc = "repair_verify"
    /\ UNCHANGED ecu /\ Stays
    /\ \/ Answers /\ HoldsNew(Region) /\ RegionDone(s)
       \/ Raise(s)
---------------------------------------------------------------------------
(* The end of a write.                                                     *)

\* The read-back of both loaders comes before the finalizer, that of the stock
\* route after it.
Verify ==
    /\ pc = "verify"
    /\ UNCHANGED ecu /\ Stays
    /\ \/ /\ Answers /\ \A r \in Range(Order(s.op)) \ {"boot"} : HoldsNew(r)
          /\ Goto(IF s.route = "stock" THEN "conclude" ELSE "boot")
       \/ Raise(s)

Finalizer == IF s.route = "agent" /\ s.ram THEN "finalize" ELSE "leave"

\* _finish_write: boot sectors that already hold the image are left alone.
Boot ==
    /\ pc = "boot"
    /\ UNCHANGED ecu /\ Stays
    /\ \/ s.op # "boot" /\ Goto(Finalizer)
       \/ /\ s.op = "boot" /\ Answers
          /\ IF HoldsNew("boot") THEN Goto(Finalizer)
             ELSE s' = [s EXCEPT !.i = 3, !.chunk = 1, !.tries = 1] /\ pc' = "erase"
       \/ s.op = "boot" /\ Raise(s)

BootVerify ==
    /\ pc = "boot_verify"
    /\ UNCHANGED ecu /\ Stays
    /\ \/ Answers /\ HoldsNew("boot") /\ Goto(Finalizer)
       \/ Raise(s)

\* The way from a loader back to stock DS2, before the stock finalizer.
Leave ==
    /\ pc = "leave"
    /\ Stays
    /\ \/ /\ ecu' = Restarted(ecu) /\ StockAnswers(ecu')
          /\ s' = [s EXCEPT !.active = FALSE, !.rate = TRUE] /\ pc' = "finalize"
       \/ /\ ecu' \in {ecu, Restarted(ecu)}
          /\ Raise([s EXCEPT !.active = FALSE, !.rate = FALSE])

\* The checksums of both regions, then both markers.
FinalizerPasses == \A r \in {"program", "tune"} : Holding(ecu, r, {"old", "new"})
FinalizerAnswers ==
    IF s.route = "agent" /\ s.ram THEN ecu.runs = "agent" ELSE StockAnswers(ecu)

\* FINALIZE of the agent, or validation, authorization and finalizer of the
\* stock program; the markers are read back where a loader wrote.
Finalize ==
    /\ pc = "finalize"
    /\ Stays
    /\ LET marked == [ecu EXCEPT !.marked = [r \in DOMAIN @ |-> TRUE]]
       IN  \/ /\ FinalizerAnswers /\ FinalizerPasses
              /\ ecu' = marked
              /\ Goto(IF s.route = "stock" /\ s.verify THEN "verify" ELSE "conclude")
           \/ /\ ecu' \in {ecu} \cup
                          (IF FinalizerAnswers /\ FinalizerPasses THEN {marked} ELSE {})
              /\ Raise(s)

\* Completed: a reset that fails now is reported as such and repeats nothing.
Conclude ==
    /\ pc = "conclude"
    /\ ecu' \in IF s.route = "agent" THEN {ecu, Restarted(ecu)} ELSE {ecu}
    /\ Report("complete")
    /\ UNCHANGED touched

\* Before the first change the write is dropped; after it, retained.
Handle ==
    /\ pc = "handler"
    /\ IF s.destructive_started
       THEN Goto("held") /\ UNCHANGED outcome
       ELSE Report("not_started")
    /\ UNCHANGED <<ecu, touched>>
---------------------------------------------------------------------------
(* The user and the surroundings.                                          *)

\* can_retry_write: on the open connection, while it is known how to talk.
RetrySupported == s.rate \/ (s.route # "stock" /\ s.active)

\* retry_write: the same image from the start, with a new sector repair.
Retry ==
    /\ pc = "held" /\ RetrySupported
    /\ s' = [Begun EXCEPT !.i = 1, !.chunk = 1, !.tries = 1,
                          !.repair_used = FALSE, !.repairing = FALSE]
    /\ pc' = IF s.route = "stock" THEN "unlock" ELSE "enter"
    /\ UNCHANGED <<ecu, outcome, touched>>

\* The user disconnects and abandons the write, or the program dies.
Exit ==
    /\ pc # "idle"
    /\ Report("abandoned")
    /\ UNCHANGED <<ecu, touched>>

PowerOff ==
    /\ ecu' = Restarted(ecu)
    /\ ecu' # ecu
    /\ UNCHANGED <<s, pc, outcome, touched>>

Init ==
    /\ ecu = [ runs |-> "stock", auth |-> FALSE,
               marked |-> [r \in {"program", "tune"} |-> TRUE],
               cells |-> [r \in Regions |-> [k \in 1 .. Chunks |-> "old"]] ]
    /\ s = NewWrite("tune", FALSE, FALSE, "stock")
    /\ pc = "idle"
    /\ outcome = "none"
    /\ touched = FALSE

WorkerStep ==
    \/ Enter \/ Fallback \/ Lower \/ Identity \/ Invalidate \/ Unlock
    \/ Erase \/ EraseCheck \/ Program \/ Readback \/ RepairVerify
    \/ Verify \/ Boot \/ BootVerify \/ Leave \/ Finalize \/ Conclude \/ Handle

Next ==
    \/ \E op \in {"tune", "full", "boot"}, verify \in BOOLEAN, ram \in BOOLEAN,
          route \in Routes : Start(op, verify, ram, route)
    \/ WorkerStep
    \/ Retry \/ Exit \/ PowerOff

Spec == Init /\ [][Next]_vars
FairSpec == Spec /\ WF_vars(WorkerStep)
---------------------------------------------------------------------------
TypeOK ==
    /\ ecu \in Computers
    /\ s \in Writes
    /\ pc \in Pcs
    /\ outcome \in {"none", "running", "not_started", "complete", "abandoned"}
    /\ touched \in BOOLEAN

\* A packet is sent only onto flash it can still be programmed into.
OnlyOntoErased ==
    pc = "program" /\ Answers =>
        /\ Cell \in {"blank", "part"}
        /\ s.tries = 1 => Cell = "blank"

Resting == pc \in {"idle", "held"}
WritesEnd == ~Resting ~> Resting

Content ==
    IF ~touched THEN "kept"
    ELSE IF /\ \A r \in Range(Order(s.op)) : HoldsNew(r)
            /\ \A r \in DOMAIN ecu.marked : ecu.marked[r]
         THEN "target" ELSE "torn"
Verdict == IF pc = "held" THEN "held" ELSE outcome

Promise == INSTANCE FlashOutcome WITH content <- Content, verdict <- Verdict
ImplementsPromise == Promise!Spec
==============================================================================
