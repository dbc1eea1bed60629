------------------------------- MODULE Ms4xData -------------------------------
(***************************************************************************)
(* What the MS42/MS43 application writes besides firmware, through the RAM *)
(* agent: the restore of a storage backup (ms42_ms43_storage.py) and the   *)
(* VIN and virginize transactions (ms42_ms43_vin_write.py), with their     *)
(* retained retry.  Unlike a firmware write they send nothing twice by     *)
(* themselves, except to the EEPROM.                                       *)
(***************************************************************************)
EXTENDS Integers, FiniteSetsExt

CONSTANT Chunks     \* packets of one bank, sector or record

VARIABLES
    ecu,      \* the engine computer
    s,        \* the transaction (_StorageRestore, _IdentityWrite)
    pc,       \* its next step, or where it rests
    outcome,  \* history: what the operation was reported as
    touched   \* history: an erase or program request may have changed a place

vars == <<ecu, s, pc, outcome, touched>>

\* "retained": two flash banks.  "append": a free VIN record.  "rewrite": the
\* sector of a full VIN history.  "virginize": the same sector, no record.
Kinds == {"eeprom", "retained", "append", "rewrite", "virginize"}
Vin == {"append", "rewrite"}
Sector == {"rewrite", "virginize"}

\* Place 0 is the word of a VIN record that makes the computer use it.
Commit == 0
Places == Commit .. 2 * Chunks
Bank(p) == IF p > Chunks THEN 2 ELSE 1
PlacesOf(kind) ==
    CASE kind = "retained"  -> 1 .. 2 * Chunks
      [] kind \in Vin       -> Commit .. Chunks
      [] OTHER              -> 1 .. Chunks

\* Against what the transaction is to leave there: "old" needs an erase first,
\* "part" does not.  ("blank" is what a whole bank or sector is after one.)
Cells == {"old", "part", "blank", "new"}
Computers == [ mode : {"stock", "agent", "dead"}, cells : [Places -> Cells] ]

Pcs == {"idle", "enter", "backup", "bank", "erase", "program", "readback", "commit", "verify",
        "reset", "raise", "held"}
Transactions ==
    [ kind : Kinds, pending : BOOLEAN, active : BOOLEAN, destructive : BOOLEAN,
      erase_verified : BOOLEAN, bank : 1 .. 2 ]
NewTransaction(kind) ==
    [ kind |-> kind, pending |-> FALSE, active |-> FALSE, destructive |-> FALSE,
      erase_verified |-> FALSE, bank |-> 1 ]

Here == {p \in PlacesOf(s.kind) : Bank(p) = s.bank}
Body == Here \ {Commit}
Is(places, values) == \A p \in places : ecu.cells[p] \in values
With(places, value) == [ecu EXCEPT !.cells = [p \in Places |-> IF p \in places THEN value ELSE @[p]]]
Goto(label) == pc' = label /\ UNCHANGED s
Same == UNCHANGED <<outcome, touched>>
Raise == Goto("raise") /\ UNCHANGED ecu /\ Same
---------------------------------------------------------------------------
\* restore_storage, write_vin, virginize.  Whatever a sector holds before, it is
\* whole; a free record is blank and the rest of its history stays.
Before(kind) ==
    CASE kind = "append"   -> {"blank"}
      [] OTHER             -> {"old", "part", "new"}
Start ==
    /\ pc = "idle" /\ ecu.mode = "stock"
    /\ \E kind \in Kinds :
          /\ s' = NewTransaction(kind)
          /\ \E cells \in [Places -> Cells] :
                /\ \A p \in Places :
                      cells[p] \in IF p \in PlacesOf(kind) THEN Before(kind) ELSE {"new"}
                /\ \E p \in Places : cells[p] # "new"
                /\ ecu' = [ecu EXCEPT !.cells = cells]
    /\ pc' = "enter" /\ outcome' = "running" /\ touched' = FALSE

\* agent.enter: a failure may leave the agent in RAM.
Enter ==
    /\ pc = "enter"
    /\ Same
    /\ \/ ecu.mode = "stock" /\ ecu' = [ecu EXCEPT !.mode = "agent"]
          /\ s' = [s EXCEPT !.active = TRUE] /\ pc' = "backup"
       \/ /\ ecu' \in {ecu} \cup {[ecu EXCEPT !.mode = IF @ = "stock" THEN "agent" ELSE @]}
          /\ Goto("raise")

\* The original bytes go to the journal before the connection is claimed.  A
\* storage read that fails may go on at a lower rate (_read_before_mutation).
Backup ==
    /\ pc = "backup"
    /\ \/ /\ ecu.mode = "agent"
          /\ s' = [s EXCEPT !.pending = TRUE] /\ pc' = "bank"
          /\ UNCHANGED ecu /\ Same
       \/ Raise
       \/ /\ s.kind \in {"eeprom", "retained"}
          /\ s' = [s EXCEPT !.pending = TRUE] /\ pc' = "raise"    \* backup_cb fails
          /\ UNCHANGED ecu /\ Same

\* The next bank: leave it, erase it or program what is missing.
NeedsErase ==
    CASE s.kind = "retained" -> ~Is(Here, {"part", "blank", "new"})
      [] s.kind \in Sector   -> ~s.erase_verified \/ ~Is(Here, {"part", "blank", "new"})
      [] OTHER               -> FALSE
NextBank ==
    /\ pc = "bank"
    /\ UNCHANGED ecu /\ Same
    /\ \/ /\ Is(Here, {"new"})
          /\ IF s.kind = "retained" /\ s.bank = 1
             THEN s' = [s EXCEPT !.bank = 2] /\ pc' = "bank"
             ELSE Goto("verify")
       \/ /\ ~Is(Here, {"new"}) /\ NeedsErase
          /\ IF s.kind \in Sector /\ Is(Here, {"blank"})
             THEN s' = [s EXCEPT !.erase_verified = TRUE] /\ pc' = "program"
             ELSE Goto("erase")
       \/ /\ ~Is(Here, {"new"}) /\ ~NeedsErase
          /\ Goto(IF s.kind = "append" /\ ~Is(Here, {"part", "blank", "new"}) THEN "raise" ELSE "program")

\* A request that fails has been sent, received or executed, in part or whole.
Erase ==
    /\ pc = "erase"
    /\ UNCHANGED outcome
    /\ touched' = TRUE
    /\ LET sent == [s EXCEPT !.destructive = TRUE]
       IN  \/ /\ ecu.mode = "agent" /\ ecu' = With(Here, "blank")
              /\ s' = [sent EXCEPT !.erase_verified = s.kind \in Sector] /\ pc' = "program"
           \/ /\ ecu' \in {ecu} \cup (IF ecu.mode = "agent"
                                      THEN {With(Here, "blank"), With(Here, "old")} ELSE {})
              /\ s' = sent /\ pc' = "raise"

Missing == {p \in Body : ecu.cells[p] # "new"}
Program ==
    /\ pc = "program"
    /\ UNCHANGED outcome
    /\ \/ /\ Missing = {}
          /\ Goto("readback") /\ UNCHANGED <<ecu, touched>>
       \/ /\ Missing # {}
          /\ touched' = TRUE
          /\ s' = [s EXCEPT !.destructive = TRUE]
          /\ LET p == Min(Missing)
             IN  \/ ecu.mode = "agent" /\ ecu' = With({p}, "new") /\ UNCHANGED pc
                 \/ /\ ecu' \in {ecu} \cup (IF ecu.mode = "agent"
                                            THEN {With({p}, "new"), With({p}, "part")} ELSE {})
                    /\ pc' = "raise"

\* The bank or record reads back before anything else is touched.
Readback ==
    /\ pc = "readback"
    /\ UNCHANGED ecu /\ Same
    /\ \/ /\ ecu.mode = "agent" /\ Is(Body, {"new"})
          /\ Goto(CASE s.kind = "retained" -> "bank"
                    [] s.kind \in Vin      -> "commit"
                    [] OTHER               -> "verify")
       \/ Goto("raise")

\* The first word of the record; a record that holds it is used by the computer.
CommitWord ==
    /\ pc = "commit"
    /\ UNCHANGED outcome
    /\ \/ /\ ecu.cells[Commit] = "new"
          /\ Goto("verify") /\ UNCHANGED <<ecu, touched>>
       \/ /\ ecu.cells[Commit] # "new"
          /\ touched' = TRUE
          /\ s' = [s EXCEPT !.destructive = TRUE]
          /\ \/ ecu.mode = "agent" /\ ecu' = With({Commit}, "new") /\ pc' = "verify"
             \/ /\ ecu' \in {ecu} \cup (IF ecu.mode = "agent"
                                        THEN {With({Commit}, "new"), With({Commit}, "part")} ELSE {})
                /\ pc' = "raise"

\* The whole target; from here on the write is over and not to be repeated.
Verify ==
    /\ pc = "verify"
    /\ UNCHANGED <<ecu, outcome>>
    /\ \/ /\ ecu.mode = "agent" /\ Is(PlacesOf(s.kind), {"new"})
          /\ s' = [s EXCEPT !.pending = FALSE, !.active = FALSE]
          /\ pc' = "reset" /\ touched' = TRUE
       \/ Goto("raise") /\ UNCHANGED touched

\* The agent's reset and what is read after it: a failure is reported as a
\* write that is complete but unconfirmed.
Reset ==
    /\ pc = "reset"
    /\ ecu' \in {ecu, [ecu EXCEPT !.mode = IF @ = "agent" THEN "stock" ELSE @]}
    /\ outcome' = "complete"
    /\ Goto("idle") /\ UNCHANGED touched

\* The handler of run().
Handle ==
    /\ pc = "raise"
    /\ UNCHANGED touched
    /\ \/ /\ s.destructive
          /\ Goto("held") /\ UNCHANGED <<ecu, outcome>>
       \/ /\ ~s.destructive
          /\ s' = [s EXCEPT !.pending = FALSE, !.active = FALSE]
          /\ ecu' \in {ecu} \cup (IF s.active /\ ecu.mode = "agent"
                                  THEN {[ecu EXCEPT !.mode = "stock"]} ELSE {})
          /\ pc' = "idle" /\ outcome' = "not_started"
---------------------------------------------------------------------------
\* retry_storage, retry_vin: the same target over the connection that is still
\* open; the agent identifies itself and the memory is read again.
Retry ==
    /\ pc = "held" /\ s.active
    /\ s' = [s EXCEPT !.bank = 1]
    /\ pc' \in IF ecu.mode = "agent" THEN {"bank", "raise"} ELSE {"raise"}
    /\ UNCHANGED ecu /\ Same

\* close(), or the end of the program.
Exit ==
    /\ pc # "idle"
    /\ s' = NewTransaction(s.kind) /\ pc' = "idle"
    /\ outcome' = (IF touched THEN "abandoned" ELSE "not_started")
    /\ UNCHANGED <<ecu, touched>>

\* An ignition cycle.  The sector of the VIN history is the one the computer
\* starts from.
Ignition ==
    /\ ecu' = [ecu EXCEPT !.mode =
                  IF s.kind \in Sector /\ touched /\ ~Is(PlacesOf(s.kind) \ {Commit}, {"new"})
                  THEN "dead" ELSE IF @ = "dead" THEN @ ELSE "stock"]
    /\ UNCHANGED <<s, pc, outcome, touched>>

Init ==
    /\ ecu = [mode |-> "stock", cells |-> [p \in Places |-> "new"]]
    /\ s = NewTransaction("eeprom") /\ pc = "idle" /\ outcome = "none" /\ touched = FALSE

Writing == NextBank \/ Erase \/ Program \/ Readback \/ CommitWord
WorkerStep == Enter \/ Backup \/ Writing \/ Verify \/ Reset \/ Handle

Next == Start \/ WorkerStep \/ Retry \/ Exit \/ Ignition

Spec == Init /\ [][Next]_vars
FairSpec == Spec /\ WF_vars(WorkerStep)
---------------------------------------------------------------------------
TypeOK ==
    /\ ecu \in Computers /\ s \in Transactions /\ pc \in Pcs
    /\ outcome \in {"none", "running", "not_started", "complete", "abandoned"}
    /\ touched \in BOOLEAN

\* A packet is sent only onto flash it can be programmed into; EEPROM words
\* are rewritten.
OnlyOntoErased ==
    /\ pc = "program" /\ s.kind # "eeprom" => Is(Missing, {"part", "blank"})
    /\ pc = "commit" => ecu.cells[Commit] \in {"part", "blank", "new"}

\* The second bank is touched when the first one is verified; the word that
\* makes the computer use a VIN record is written when the rest is.
InOrder ==
    outcome = "running" /\ outcome' = "running" =>
        /\ s.kind = "retained"
               /\ (\E p \in Places : Bank(p) = 2 /\ ecu'.cells[p] # ecu.cells[p]) =>
               \A p \in 1 .. Chunks : ecu.cells[p] = "new"
        /\ ecu'.cells[Commit] = "new" /\ ecu.cells[Commit] # "new" =>
               Is(PlacesOf(s.kind) \ {Commit}, {"new"})

Resting == pc \in {"idle", "held"}

Content ==
    CASE ~touched -> "kept"
      [] touched /\ Is(PlacesOf(s.kind), {"new"}) -> "target"
      [] OTHER -> "torn"
Verdict == IF pc = "held" THEN "held" ELSE outcome
Promise == INSTANCE FlashOutcome WITH content <- Content, verdict <- Verdict
ImplementsPromise == Promise!Spec
===============================================================================
