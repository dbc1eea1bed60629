----------------------------- MODULE SoftBslWrite -----------------------------
(***************************************************************************)
(* The Soft-BSL writers: run_flash, write_tune, write_identity_sector,     *)
(* run_cross_bank, the writes of a retained boot-recovery session and      *)
(* resume_write_recovery of softbsl_service.py, with the flash primitives  *)
(* of engines/softbsl/softbsl_host.py they call, and what gui.py says and  *)
(* does about a failure.                                                   *)
(*                                                                         *)
(* A write enters flash mode (E740=1), uploads an agent into RAM, erases   *)
(* and programs through it, and returns to the application (E740=0).  An   *)
(* attempt that failed before its first erase is repeated at a lower rate; *)
(* one that failed after it is retained with the agent running.  The flash *)
(* may have two banks behind a switch only the operator can move.          *)
(***************************************************************************)
EXTENDS Integers, Sequences, Functions, FiniteSets

CONSTANTS Chunks,    \* program chunks of one erase sector
          Retries,   \* PROG_RETRIES: repeats of one request
          LastTier,  \* rates of the ladder: high first, low last
          MaxTorn    \* bound: sectors left torn when a write starts

VARIABLES
    ecu,      \* the engine computer: bank switch, E740, RAM agent, flash
    s,        \* the write in progress or retained
    pc,       \* its next step, or where it rests
    outcome,  \* history: what the operation was reported as
    touched   \* history: the operation has erased

vars == <<ecu, s, pc, outcome, touched>>

Banks == {"B", "T"}
Sectors == {"boot", "program", "tune"}

\* "part": every bit still missing can be programmed by the same packet.
Cells == {"old", "blank", "part", "bad", "new"}
Ops == {"tune", "full", "boot", "identity", "top", "cross"}
Tiers == 1 .. LastTier

\* Erase order: the boot sector, where it is written, comes last.  Only the
\* cross-bank write programs in this order too; the others follow the file,
\* and what they promise does not depend on it.
Order(op) ==
    CASE op = "tune"     -> <<"tune">>
      [] op = "full"     -> <<"tune", "program">>
      [] op = "identity" -> <<"boot">>
      [] OTHER           -> <<"tune", "program", "boot">>

Pcs == {"idle", "booted", "open", "flash_mode", "stage", "unstage", "preflight", "bank",
        "erase", "program", "inspect", "repair", "repair_verify", "verify", "return",
        "reset", "finalize", "handler", "held"}
Computers ==
    [ sw : Banks, e740 : BOOLEAN, agent : BOOLEAN,
      cells : [Banks -> [Sectors -> [1 .. Chunks -> Cells]]] ]

\* sent: flash_image has sent the reset;
\* ladder: the error may be tried again at a lower rate.
Sessions ==
    [ op : Ops, verify : BOOLEAN, boot : BOOLEAN, bank : Banks,
      tier : Tiers, i : 1 .. 3, chunk : 1 .. Chunks, tries : 0 .. Retries,
      replay : {"free", "running", "used"}, verifying : BOOLEAN,
      destructive_started : BOOLEAN, write_complete : BOOLEAN, sent : BOOLEAN,
      ladder : BOOLEAN, replay_attempted : BOOLEAN ]

NewSession(op, verify, boot, bank) ==
    [ op |-> op, verify |-> verify, boot |-> boot, bank |-> bank,
      tier |-> 1, i |-> 1, chunk |-> 1, tries |-> 0,
      replay |-> "free", verifying |-> FALSE,
      destructive_started |-> FALSE, write_complete |-> FALSE, sent |-> FALSE,
      ladder |-> FALSE, replay_attempted |-> FALSE ]

Sector == Order(s.op)[s.i]
Cell == ecu.cells[ecu.sw][Sector][s.chunk]
Holding(e, bank, sector, allowed) ==
    \A k \in 1 .. Chunks : e.cells[bank][sector][k] \in allowed
Whole(e, sector) == Holding(e, e.sw, sector, {"old", "new"})
Torn == {x \in Banks \X Sectors : ~Holding(ecu, x[1], x[2], {"old", "new"})}
HoldsNew(sector) == Holding(ecu, ecu.sw, sector, {"new"})

\* The stock program, or in flash mode the boot block alone, answers DS2.
StockAnswers == ~ecu.agent /\ Whole(ecu, "boot") /\ (ecu.e740 \/ Whole(ecu, "program"))

\* After the stock program check, which commits E740=0 where it passes.
Checked(e) ==
    [e EXCEPT !.e740 = @ /\ ~(~e.agent /\ Whole(e, "boot") /\ Whole(e, "program"))]

\* The bank marker is flash content: an erased one reads as that of BOTTOM.
Marked(bank) == Holding(ecu, bank, "boot", {"old", "new"})
Identified == IF ecu.sw = "T" /\ Marked("T") THEN "T" ELSE "B"
---------------------------------------------------------------------------
Stays == UNCHANGED <<outcome, touched>>
Goto(label) == pc' = label /\ UNCHANGED s

\* ladder: a SoftBSLError; any other exception ends the operation.
Raise(sess, ladder) == s' = [sess EXCEPT !.ladder = ladder] /\ pc' = "handler"
\* The session object goes with the operation.
Dropped == NewSession(s.op, FALSE, FALSE, s.bank)
Report(what) == pc' = "idle" /\ outcome' = what /\ s' = Dropped

\* _with_baud_fallback.
NextTier(ladder) ==
    IF ladder /\ s.tier < LastTier
    THEN s' = [s EXCEPT !.tier = @ + 1] /\ pc' = "open" /\ UNCHANGED outcome
    ELSE Report("not_started")

\* TOP preparation is asked of the connected TOP bank; an identity sector is
\* composed for either bank; every other image is one for BOTTOM.
Start(op, verify, bank) ==
    /\ pc \in {"idle", "booted"}
    /\ Cardinality(Torn) <= MaxTorn
    /\ pc = "booted" => op \notin {"identity", "cross"}
    /\ bank = "T" => op \in {"tune", "identity", "top", "cross"}
    /\ bank = "B" => op \notin {"top", "cross"}
    /\ op = "tune" => bank = ecu.sw
    /\ op \in {"identity", "cross"} => verify
    /\ s' = NewSession(op, verify, pc = "booted", bank)
    /\ pc' = IF pc = "booted" THEN "preflight" ELSE "open"
    /\ ecu' = [ecu EXCEPT !.cells = [b \in Banks |-> [x \in Sectors |-> [k \in 1 .. Chunks |->
                  IF @[b][x][k] \in {"old", "new"} THEN "old" ELSE "bad"]]]]
    /\ outcome' = "running"
    /\ touched' = FALSE

\* _open_session: without D2XX the fast tiers are skipped; a port that does
\* not open ends the operation.
Open ==
    /\ pc = "open"
    /\ UNCHANGED <<ecu, touched>>
    /\ \/ Goto("flash_mode") /\ UNCHANGED outcome
       \/ s.tier < LastTier /\ s' = [s EXCEPT !.tier = LastTier] /\ UNCHANGED <<pc, outcome>>
       \/ Report("not_started")

\* ensure_flash_mode: the 0x2A door sets E740 and restarts the computer.
FlashMode ==
    /\ pc = "flash_mode"
    /\ Stays
    /\ \/ StockAnswers /\ ecu' = [ecu EXCEPT !.e740 = TRUE] /\ Goto("stage")
       \/ /\ ecu' \in {ecu, [ecu EXCEPT !.e740 = @ \/ StockAnswers]}
          /\ \E ladder \in BOOLEAN : s' = [s EXCEPT !.ladder = ladder]
          /\ pc' = "unstage"

\* enter_staged: the loader takes a bootstrap, then the agent.
Stage ==
    /\ pc = "stage"
    /\ Stays
    /\ LET started == [ecu EXCEPT !.agent = @ \/ (StockAnswers /\ ecu.e740)]
       IN  \/ /\ StockAnswers /\ ecu.e740
              /\ ecu' = started
              /\ Goto(IF s.op = "cross" THEN "bank" ELSE "preflight")
           \/ /\ ecu' \in {ecu, started}
              /\ \E ladder \in BOOLEAN : s' = [s EXCEPT !.ladder = ladder]
              /\ pc' = "unstage"

\* _recover_staged_entry_marker0: stock DS2 must prove E740=0, by itself or
\* by its program check, which commits it.
Unstage ==
    /\ pc = "unstage"
    /\ UNCHANGED touched
    /\ ecu' \in {ecu, Checked(ecu)}
    /\ \/ StockAnswers /\ ~ecu'.e740 /\ NextTier(s.ladder)
       \/ Report("unconfirmed")

\* _prove_write_link.
Preflight ==
    /\ pc = "preflight"
    /\ UNCHANGED ecu /\ Stays
    /\ \/ ecu.agent /\ Goto(IF s.op = "tune" THEN "erase" ELSE "bank")
       \/ \E ladder \in BOOLEAN : Raise(s, ladder)

\* At a prompt the operator moves the switch as asked, or forgets to.
Prompted(bank) == {ecu, [ecu EXCEPT !.sw = bank]}

\* _confirm_top_bank; once SA7 is erased only a BOTTOM marker refuses.
TopConfirmed ==
    IF s.replay_attempted THEN ~(ecu.sw = "B" /\ Marked("B")) ELSE Identified = "T"

\* Mutant: the flip is not checked.
FlipTrusted(after) == TRUE
\* flash_cross_bank reads the same place on both sides of the flip.
FlipSeen(after) == after.sw # ecu.sw /\ (Marked("T") \/ Marked("B"))

\* _confirm_top_bank; select_half with its prompt; the guard of
\* flash_cross_bank.  Arming the boot sector may fail as well.
SelectBank ==
    /\ pc = "bank"
    /\ Stays
    /\ \/ /\ ecu.agent
          /\ CASE s.op = "top" ->
                    /\ UNCHANGED ecu
                    /\ IF TopConfirmed THEN Goto("erase") ELSE Raise(s, FALSE)
               [] s.op = "cross" ->
                    /\ ecu' \in Prompted("T")
                    /\ IF FlipSeen(ecu') THEN Goto("erase") ELSE Raise(s, FALSE)
               [] OTHER ->
                    IF Identified = s.bank THEN UNCHANGED ecu /\ Goto("erase")
                    ELSE /\ ecu' \in Prompted(s.bank)
                         /\ IF Identified' = s.bank THEN Goto("erase") ELSE Raise(s, TRUE)
       \/ /\ ecu' \in IF s.op = "cross" \/ (s.op # "top" /\ Identified # s.bank)
                      THEN Prompted(s.bank) ELSE {ecu}
          /\ Raise(s, TRUE)
---------------------------------------------------------------------------
(* Erase, program, repair and verification through the agent.              *)

SectorErased == [ecu EXCEPT !.cells[ecu.sw][Sector] = [k \in 1 .. Chunks |-> "blank"]]
SectorSpoilt == [ecu EXCEPT !.cells[ecu.sw][Sector] = [k \in 1 .. Chunks |-> "bad"]]

\* The erase order ends, or goes on; the cross-bank write programs each
\* sector before it erases the next.
EraseDone(sess) ==
    IF s.op # "cross" /\ s.i < Len(Order(s.op))
    THEN s' = [sess EXCEPT !.i = @ + 1, !.tries = 0] /\ pc' = "erase"
    ELSE /\ s' = [sess EXCEPT !.i = IF s.op = "cross" THEN @ ELSE 1,
                              !.chunk = 1, !.tries = 0]
         /\ pc' = "program"

\* No other rate is tried after it.
Boundary == [s EXCEPT !.destructive_started = TRUE, !.tier = LastTier]

\* The boundary callback comes first.  Statuses 2 and 4 are repeated, no
\* answer (0) and a denial are not.
Erase ==
    /\ pc = "erase"
    /\ UNCHANGED outcome
    /\ \/ ecu.agent /\ ecu' = SectorErased /\ touched' = TRUE /\ EraseDone(Boundary)
       \/ /\ ecu.agent /\ s.tries < Retries
          /\ \/ UNCHANGED <<ecu, touched>>
             \/ ecu' = SectorSpoilt /\ touched' = TRUE
          /\ s' = [Boundary EXCEPT !.tries = @ + 1]
          /\ UNCHANGED pc
       \/ /\ \/ UNCHANGED <<ecu, touched>>
             \/ ecu.agent /\ ecu' \in {SectorErased, SectorSpoilt} /\ touched' = TRUE
          /\ Raise(Boundary, TRUE)

Onto(cell) == IF cell \in {"blank", "part", "new"} THEN "new" ELSE "bad"
Cut(cell) ==
    CASE cell \in {"blank", "part"} -> {cell, "part", "bad", "new"}
      [] cell = "new"               -> {"new"}
      [] OTHER                      -> {cell, "bad"}
Programmed(cell) == [ecu EXCEPT !.cells[ecu.sw][Sector][s.chunk] = cell]

Written(sess) ==
    IF s.op = "cross" THEN s' = sess /\ pc' = "return"
    ELSE IF s.verify /\ s.op # "tune" THEN s' = sess /\ pc' = "reset"
    ELSE s' = [sess EXCEPT !.write_complete = TRUE] /\ pc' = "finalize"

AfterProgramming(sess) ==
    IF s.verify THEN s' = [sess EXCEPT !.i = 1, !.verifying = TRUE] /\ pc' = "verify"
    ELSE Written(sess)

\* The next sector of the image, or the end of this pass over it.
NextSector(sess) ==
    IF s.i < Len(Order(s.op))
    THEN /\ s' = [sess EXCEPT !.i = @ + 1, !.chunk = 1, !.tries = 0]
         /\ pc' = IF s.verifying THEN "verify"
                  ELSE IF s.op = "cross" THEN "erase" ELSE "program"
    ELSE IF s.verifying THEN Written(sess) ELSE AfterProgramming(sess)

ChunkDone ==
    CASE s.chunk < Chunks -> s' = [s EXCEPT !.chunk = @ + 1, !.tries = 0] /\ pc' = "program"
      [] s.chunk = Chunks /\ s.replay = "running" -> Goto("repair_verify")
      [] OTHER -> NextSector(s)

MayRepair == s.op # "cross" /\ s.replay = "free"

\* A mismatch that was read back: one repair of the sector in each write; the
\* calibration, which is one sector, starts over.
Mismatch ==
    CASE ~MayRepair -> Raise(s, TRUE)
      [] s.op = "tune" /\ MayRepair ->
            s' = [s EXCEPT !.replay = "used", !.verifying = FALSE, !.i = 1,
                           !.chunk = 1, !.tries = 0] /\ pc' = "erase"
      [] OTHER -> s' = [s EXCEPT !.replay = "running"] /\ pc' = "repair"

\* program_chunk and its identical repeats: statuses 0, 2 and 4 repeat, a
\* lost answer is looked up at once.
Program ==
    /\ pc = "program"
    /\ Stays
    /\ \/ ecu.agent /\ Onto(Cell) = "new" /\ ecu' = Programmed("new") /\ ChunkDone
       \/ /\ ecu.agent
          /\ \E cell \in Cut(Cell) :
                /\ ecu' = Programmed(cell)
                /\ \/ cell = "new" /\ ChunkDone
                   \/ cell \notin {"blank", "part", "new"} /\ Mismatch
                   \/ IF s.tries < Retries
                      THEN s' = [s EXCEPT !.tries = @ + 1] /\ UNCHANGED pc
                      ELSE IF s.op = "cross" THEN Raise(s, TRUE) ELSE Goto("inspect")
                   \/ Raise(s, TRUE)
       \/ UNCHANGED ecu /\ Raise(s, TRUE)

\* _program_chunk_with_retries reads a chunk back whose repeats are used up.
Inspect ==
    /\ pc = "inspect"
    /\ UNCHANGED ecu /\ Stays
    /\ \/ ecu.agent /\ Cell = "new" /\ ChunkDone
       \/ ecu.agent /\ Cell \notin {"blank", "part", "new"} /\ Mismatch
       \/ Raise(s, TRUE)

\* _replay_image_sector: the repair is used up before its erase, which is not
\* repeated.
Repair ==
    /\ pc = "repair"
    /\ UNCHANGED outcome
    /\ \/ /\ ecu.agent /\ ecu' = SectorErased /\ touched' = TRUE
          /\ s' = [s EXCEPT !.chunk = 1, !.tries = 0] /\ pc' = "program"
       \/ /\ \/ UNCHANGED <<ecu, touched>>
             \/ ecu.agent /\ ecu' \in {SectorErased, SectorSpoilt} /\ touched' = TRUE
          /\ Raise(s, TRUE)

RepairVerify ==
    /\ pc = "repair_verify"
    /\ UNCHANGED ecu /\ Stays
    /\ \/ ecu.agent /\ HoldsNew(Sector) /\ NextSector([s EXCEPT !.replay = "used"])
       \/ Raise(s, TRUE)

Verify ==
    /\ pc = "verify"
    /\ UNCHANGED ecu /\ Stays
    /\ \/ ecu.agent /\ HoldsNew(Sector) /\ NextSector(s)
       \/ ecu.agent /\ ~HoldsNew(Sector) /\ Mismatch
       \/ Raise(s, TRUE)
---------------------------------------------------------------------------
(* The way back, and failures.                                             *)

\* The magic-gated reset of the agent: E740=0 and a restart.
Restarted == [ecu EXCEPT !.e740 = @ /\ ~ecu.agent, !.agent = FALSE]

\* flash_cross_bank asks for the BOTTOM bank before it restarts.
ReturnSwitch ==
    /\ pc = "return"
    /\ Stays
    /\ ecu' \in Prompted("B")
    /\ Goto("reset")

\* flash_image resets at the end of its verification; the cross-bank write
\* reports success without a look at what came back.
Reset ==
    /\ pc = "reset"
    /\ UNCHANGED touched
    /\ ecu' \in {ecu, Restarted}
    /\ \/ IF s.op = "cross" THEN Report("complete")
          ELSE /\ s' = [s EXCEPT !.sent = TRUE, !.write_complete = TRUE]
               /\ pc' = "finalize" /\ UNCHANGED outcome
       \/ Raise(s, TRUE) /\ UNCHANGED outcome

\* Mutant: what came back after the reset is not looked at.
ConfirmedUnseen(e) == TRUE
\* E740 reads 0 over stock DS2.
Confirmed(e) == ~e.agent /\ ~e.e740 /\ Whole(e, "boot") /\ Whole(e, "program")

\* finalize_marker0, after a write or to undo the entry of a failed attempt:
\* the reset, unless it was sent, then E740=0 read over stock DS2, which may
\* have to run its program check first.
Finalize ==
    /\ pc = "finalize"
    /\ UNCHANGED touched
    /\ ecu' \in {ecu, Checked(ecu)} \cup
                (IF s.sent THEN {} ELSE {Restarted, Checked(Restarted)})
    /\ \/ /\ Confirmed(ecu')
          /\ IF s.write_complete THEN Report("complete") ELSE NextTier(s.ladder)
       \/ Report("unconfirmed")

\* After the first erase the agent and its port are retained; the cross-bank
\* write only closes the port.  Before it the entry is undone, except in a
\* session the user opened for boot recovery, which stays.
Handle ==
    /\ pc = "handler"
    /\ UNCHANGED <<ecu, touched>>
    /\ CASE s.op = "cross" ->
                Report(IF s.destructive_started THEN "abandoned" ELSE "not_started")
         [] s.op # "cross" /\ s.destructive_started ->
                Goto("held") /\ UNCHANGED outcome
         [] s.op # "cross" /\ ~s.destructive_started /\ s.boot ->
                s' = Dropped /\ pc' = "booted" /\ outcome' = "not_started"
         [] OTHER -> Goto("finalize") /\ UNCHANGED outcome
---------------------------------------------------------------------------
(* The user, the operator and the surroundings.                            *)

\* resume_write_recovery starts from a used-up sector repair.
Resumed ==
    [s EXCEPT !.replay_attempted = TRUE, !.replay = "used",
              !.i = 1, !.chunk = 1, !.tries = 0, !.verifying = FALSE]
RetrySupported == pc = "held" /\ ~s.replay_attempted
Retry ==
    /\ RetrySupported
    /\ s' = Resumed
    /\ pc' = "preflight"
    /\ UNCHANGED <<ecu, outcome, touched>>

\* open_boot_recovery catches the token at key-on and keeps the agent.
OpenBoot ==
    /\ pc = "idle"
    /\ ~ecu.agent /\ Whole(ecu, "boot")
    /\ ecu' = [ecu EXCEPT !.agent = TRUE]
    /\ pc' = "booted"
    /\ UNCHANGED <<s, outcome, touched>>

\* close_boot_recovery: the session stays open until E740=0 is confirmed.
CloseBoot ==
    /\ pc = "booted"
    /\ ecu' = Restarted
    /\ pc' = IF Confirmed(ecu') THEN "idle" ELSE "booted"
    /\ UNCHANGED <<s, outcome, touched>>

\* The program is closed on the session, or dies.
Exit ==
    /\ pc # "idle"
    /\ Report(IF outcome = "running" THEN "abandoned" ELSE outcome)
    /\ UNCHANGED <<ecu, touched>>

\* E740 is in the EEPROM and outlives the power.
PowerOff ==
    /\ ecu.agent
    /\ ecu' = [ecu EXCEPT !.agent = FALSE]
    /\ UNCHANGED <<s, pc, outcome, touched>>

\* The operator moves the switch between operations, and while an image write
\* is retained; not while a retained calibration waits for its retry.
MoveSwitch ==
    /\ pc \in {"idle", "booted"} \/ (pc = "held" /\ s.op # "tune")
    /\ \E bank \in Banks \ {ecu.sw} : ecu' = [ecu EXCEPT !.sw = bank]
    /\ UNCHANGED <<s, pc, outcome, touched>>

Init ==
    /\ ecu = [ sw |-> "B", e740 |-> FALSE, agent |-> FALSE,
               cells |-> [b \in Banks |-> [x \in Sectors |-> [k \in 1 .. Chunks |-> "old"]]] ]
    /\ s = NewSession("tune", FALSE, FALSE, "B")
    /\ pc = "idle"
    /\ outcome = "none"
    /\ touched = FALSE

WorkerStep ==
    \/ Open \/ FlashMode \/ Stage \/ Unstage \/ Preflight \/ SelectBank
    \/ Erase \/ Program \/ Inspect \/ Repair \/ RepairVerify \/ Verify
    \/ ReturnSwitch \/ Reset \/ Finalize \/ Handle

Next ==
    \/ \E op \in Ops, verify \in BOOLEAN, bank \in Banks : Start(op, verify, bank)
    \/ WorkerStep
    \/ Retry \/ OpenBoot \/ CloseBoot \/ Exit \/ PowerOff \/ MoveSwitch

Spec == Init /\ [][Next]_vars
FairSpec == Spec /\ WF_vars(WorkerStep)
---------------------------------------------------------------------------
TypeOK ==
    /\ ecu \in Computers
    /\ s \in Sessions
    /\ pc \in Pcs
    /\ outcome \in {"none", "running", "not_started", "complete", "abandoned", "unconfirmed"}
    /\ touched \in BOOLEAN

OnlyOntoErased ==
    pc = "program" /\ ecu.agent =>
        /\ Cell # "old"
        /\ s.tries = 0 => Cell = "blank"

\* A write that completes, one that ends before its erase, and an attempt that
\* is followed by another at a lower rate, have left flash mode; one that never
\* opened its port left things as they were.  Not so a cross-bank write: it ends with
\* an unconfirmed reset, and the user flips the switch and cycles the key.
LeavesNormal ==
    /\ outcome = "running" /\ s.op # "cross" /\ pc # "open"
    /\ \/ outcome' = "complete" \/ pc' = "open"
       \/ outcome' = "not_started" /\ pc' = "idle"
    => ~ecu'.e740
NormalAgain == [][LeavesNormal]_vars

WritesRightBank ==
    \A b \in Banks :
        outcome = "running" /\ outcome' = "running" /\ ecu'.cells[b] # ecu.cells[b] =>
            /\ b = s.bank \/ ~Marked(b)
            /\ s.op = "cross" /\ ecu'.cells[b]["boot"] # ecu.cells[b]["boot"] =>
                   \A x \in {"program", "tune"} : Holding(ecu, b, x, {"new"})
RightBank == [][WritesRightBank]_vars

Resting == pc \in {"idle", "booted", "held"}
WritesEnd == ~Resting ~> Resting

Content ==
    IF ~touched THEN "kept"
    ELSE IF \E b \in Banks : \A x \in Range(Order(s.op)) : Holding(ecu, b, x, {"new"})
         THEN "target" ELSE "torn"
Verdict == IF pc = "held" THEN "held"
           ELSE IF outcome = "unconfirmed" THEN "abandoned" ELSE outcome

Promise == INSTANCE FlashOutcome WITH content <- Content, verdict <- Verdict
ImplementsPromise == Promise!Spec
===============================================================================
