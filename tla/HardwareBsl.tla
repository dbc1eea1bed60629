----------------------------- MODULE HardwareBsl ------------------------------
(***************************************************************************)
(* The hardware recovery path: a flash plan previewed and confirmed in     *)
(* gui.py, run by bsl_service.py, which has cmd_flash of                   *)
(* engines/bsl/bsl_unbrick.py start a monitor over the bootstrap loader of *)
(* the processor, check that the result would be one firmware, and erase,  *)
(* program and verify region by region.  Nothing is retained after a       *)
(* failure: the plan can be confirmed again, and every region is erased    *)
(* again.                                                                  *)
(***************************************************************************)
EXTENDS Integers, Sequences, Functions, FiniteSets

CONSTANTS Firmwares,  \* the firmwares at hand, of the families below
          MaxTorn     \* bound: regions left torn when one region is to be written

VARIABLES
    ecu,      \* the flash: what each region holds
    s,        \* the plan and its progress
    pc,       \* the next step, "idle" when none runs
    outcome,  \* history: what the operation was reported as
    touched   \* history: the operation has erased

vars == <<ecu, s, pc, outcome, touched>>

\* _ordered_regions: the region the computer starts from comes last, in the
\* map of the four 64 KB sectors and in that of the small boot sectors.  The
\* program-mid region is left out: it is treated as the boot region is.
Coarse == <<"tune", "program-high", "low">>
Fine == <<"tune", "program-high", "program-low", "boot">>
Maps == {Coarse, Fine}
Regions == Range(Coarse) \cup Range(Fine)
Program == Regions \ {"tune"}

\* The region with the ECU ID and the compatibility ID of the program.
IdRegion(map) == IF map = Coarse THEN "low" ELSE "program-low"

\* fw: the firmware a region was written from; done: all of it.
None == "none"
Contents == [fw : Firmwares \cup {None}, done : BOOLEAN]
Of(fw) == [fw |-> fw, done |-> TRUE]
Part(fw) == [fw |-> fw, done |-> FALSE]
Blank == Of(None)
Spoilt == Part(None)

Pcs == {"idle", "start", "guard", "prepare", "erase", "program", "verify", "failed"}
Computers == UNION {[map : {m}, flash : [Range(m) -> Contents]] : m \in Maps}
\* sane: the flash was of one firmware when the write was confirmed.
Plans ==
    [ region : Regions \cup {"all"}, fw : Firmwares, force : BOOLEAN,
      i : 1 .. Len(Fine), sane : BOOLEAN ]

Order(region) == IF region = "all" THEN ecu.map ELSE <<region>>
Written == Range(Order(s.region))
Region == Order(s.region)[s.i]
Torn == {r \in Range(ecu.map) : ecu.flash[r] \notin {Of(fw) : fw \in Firmwares}}
OneFirmware(e) ==
    \E fw \in Firmwares : \A r \in Range(e.map) : e.flash[r] = Of(fw)
---------------------------------------------------------------------------
(* _variant_guard, on what is read of the flash.                           *)

\* What is read of a region that was half written may be there or not.
Reads(region) ==
    {ecu.flash[region].fw} \cup (IF ecu.flash[region].done THEN {} ELSE {None})

\* detect_program_variant: MS41.3 by its signature, the others by the ECU ID,
\* which MS41.3 shares with MS41.2.
ById(fw) == IF fw = "MS41.3" THEN "MS41.2" ELSE fw
LivePrograms ==
    {IF sig = "MS41.3" THEN sig ELSE ById(id) :
        sig \in Reads("program-high"), id \in Reads(IdRegion(ecu.map))}

\* A region other than the one with the signature must be of the live program.
SameProgram(program) ==
    "program-high" \notin Written /\ Written \cap Program # {} => s.fw = program

\* The compatibility ID of a firmware is that of its family.
Compatible(program, cal, idRead) ==
    LET newProgram == IF "program-high" \in Written THEN s.fw ELSE program
        newCal == IF "tune" \in Written THEN s.fw ELSE cal
        programId == IF Written \cap Program # {} THEN ById(s.fw) ELSE ById(idRead)
    IN  None \notin {newProgram, newCal, programId} /\ newProgram = newCal
            /\ programId = ById(newCal)

Admitted(program, cal, idRead) ==
    s.force \/ (SameProgram(program) /\ Compatible(program, cal, idRead))
---------------------------------------------------------------------------
Goto(label) == pc' = label /\ UNCHANGED s
Report(what) == pc' = "idle" /\ s' = [s EXCEPT !.i = 1] /\ outcome' = what
Refuse == Report("not_started") /\ UNCHANGED <<ecu, touched>>

Stop == Goto("failed") /\ UNCHANGED outcome

\* create_flash_plan and the review: a plan names its image for good.
Preview ==
    /\ pc = "idle"
    /\ \E region \in Range(ecu.map) \cup {"all"}, fw \in Firmwares, force \in BOOLEAN :
          /\ region = "all" \/ Cardinality(Torn) <= MaxTorn
          /\ s' = [s EXCEPT !.region = region, !.fw = fw, !.force = force]
    /\ pc' = "start" /\ outcome' = "running" /\ touched' = FALSE
    /\ UNCHANGED ecu

\* _on_bsl_arm of the plan that failed: it is still the one on the screen.
Rearm ==
    /\ pc = "idle" /\ outcome \in {"not_started", "abandoned"}
    /\ Goto("start") /\ outcome' = "running" /\ touched' = FALSE
    /\ UNCHANGED ecu

\* The typed confirmation, the reset into the bootstrap loader and the monitor.
StartMonitor ==
    /\ pc = "start"
    /\ \/ /\ s' = [s EXCEPT !.sane = OneFirmware(ecu)]
          /\ pc' = "guard" /\ UNCHANGED <<ecu, outcome, touched>>
       \/ Refuse

Guard ==
    /\ pc = "guard"
    /\ \/ /\ \E program \in LivePrograms, cal \in Reads("tune"),
                idRead \in Reads(IdRegion(ecu.map)) : Admitted(program, cal, idRead)
          /\ Goto("prepare") /\ UNCHANGED <<ecu, outcome, touched>>
       \/ Refuse

\* Where the low region answers, and the backup: before the region's erase.
Prepare ==
    /\ pc = "prepare"
    /\ UNCHANGED <<ecu, touched>>
    /\ \/ Goto("erase") /\ UNCHANGED outcome
       \/ Stop

\* The sectors of a region one by one, then the blank check.
Erase ==
    /\ pc = "erase"
    /\ touched' = TRUE
    /\ \/ ecu' = [ecu EXCEPT !.flash[Region] = Blank] /\ Goto("program") /\ UNCHANGED outcome
       \/ /\ \E left \in {ecu.flash[Region], Blank, Spoilt} :
                ecu' = [ecu EXCEPT !.flash[Region] = left]
          /\ Stop

\* A frame without its acknowledgement stops the write.
ProgramRegion ==
    /\ pc = "program"
    /\ UNCHANGED touched
    /\ \/ ecu' = [ecu EXCEPT !.flash[Region] = Of(s.fw)] /\ Goto("verify") /\ UNCHANGED outcome
       \/ /\ \E left \in {Blank, Part(s.fw), Of(s.fw)} :
                ecu' = [ecu EXCEPT !.flash[Region] = left]
          /\ Stop

Verify ==
    /\ pc = "verify"
    /\ UNCHANGED <<ecu, touched>>
    /\ \/ /\ ecu.flash[Region] = Of(s.fw)
          /\ IF s.i < Len(Order(s.region))
             THEN s' = [s EXCEPT !.i = @ + 1] /\ pc' = "prepare" /\ UNCHANGED outcome
             ELSE Report("complete")
       \/ Stop

\* _run_handler closes the session and the port whatever happened.
Failed ==
    /\ pc = "failed"
    /\ Report(IF touched THEN "abandoned" ELSE "not_started")
    /\ UNCHANGED <<ecu, touched>>

\* The program ends: the next one has no plan to confirm again.
Exit ==
    /\ pc # "idle"
    /\ Report("abandoned")
    /\ UNCHANGED <<ecu, touched>>

Init ==
    /\ \E fw \in Firmwares, map \in Maps :
          ecu = [map |-> map, flash |-> [r \in Range(map) |-> Of(fw)]]
    /\ s = [ region |-> "all", fw |-> CHOOSE fw \in Firmwares : TRUE, force |-> FALSE,
             i |-> 1, sane |-> TRUE ]
    /\ pc = "idle"
    /\ outcome = "none"
    /\ touched = FALSE

WorkerStep == StartMonitor \/ Guard \/ Prepare \/ Erase \/ ProgramRegion \/ Verify \/ Failed
Next == Preview \/ Rearm \/ WorkerStep \/ Exit
Spec == Init /\ [][Next]_vars
---------------------------------------------------------------------------
TypeOK ==
    /\ ecu \in Computers
    /\ s \in Plans
    /\ pc \in Pcs
    /\ outcome \in {"none", "running", "not_started", "complete", "abandoned"}
    /\ touched \in BOOLEAN

\* A write of everything touches the region the computer starts from when all
\* the others are verified.
BootLast ==
    s.region = "all" /\ s.i = Len(ecu.map) =>
        \A r \in Range(ecu.map) \ {Region} : ecu.flash[r] = Of(s.fw)

\* An unforced write that found one firmware and completes leaves one.
KeepsOneFirmware ==
    outcome = "running" /\ outcome' = "complete" /\ s.sane /\ ~s.force => OneFirmware(ecu')

Resting == pc = "idle"
Content ==
    IF ~touched THEN "kept"
    ELSE IF \A r \in Written : ecu.flash[r] = Of(s.fw) THEN "target" ELSE "torn"
Verdict == outcome
===============================================================================
