----------------------------- MODULE EepromWrite ------------------------------
(***************************************************************************)
(* The writers of the serial EEPROM.  The agent of engines/softbsl/        *)
(* eeprom_ram.py, staged into the RAM of the engine computer, writes one   *)
(* byte at a time and keeps its session after a failure, for the user to   *)
(* resolve; ch341a_eeprom_service.py writes the chip with a programmer and *)
(* keeps nothing but what gui.py remembers of it.                          *)
(*                                                                         *)
(* Flash mode (E740), which the entry sets and the way back clears, is      *)
(* followed in SoftBslWrite; this entry accepts either value of it.        *)
(*                                                                         *)
(* The image is one checked record (two payload bytes, then the low and    *)
(* the high byte of its check) and the progression marker at 0x1DD.  One   *)
(* byte is written or not; the marker, three bytes, may stay mixed.        *)
(***************************************************************************)
EXTENDS Integers, Sequences, Functions

CONSTANTS Base,     \* values of a byte (256 in the code)
          Images,   \* the images the user has at hand
          LastTier  \* rates of the ladder: high first, low last

VARIABLES
    ecu,      \* the engine computer: its EEPROM, and whether the agent runs
    s,        \* the write in progress or retained, and what the window knows
    pc,       \* its next step, or where it rests
    outcome,  \* history: what the operation was reported as
    touched   \* history: the operation has changed a byte, or found the image written

vars == <<ecu, s, pc, outcome, touched>>

Low == 3
High == 4
Marker == 5
\* The marker: a normal progression, the recovery one 01 02 03, a mixture.
Normal == 0
Recovery == 1
Mixed == 2

Bytes == 0 .. Base - 1
Chips == [1 .. Marker -> Bytes]
None == <<>>
Ops == {"agent", "write", "seed", "restore"}
Programmer(op) == op # "agent"

\* additive_check.
Valid(image) == (image[1] + image[2] + 1) % (Base * Base) = image[Low] + Base * image[High]
SameRecord(a, b) == \A o \in 1 .. High : a[o] = b[o]

Writes == [at : 1 .. Marker, from : Bytes, to : Bytes]
Update(at, from, to) == [at |-> at, from |-> from, to |-> to]

\* The low byte that is to reject the record while its payload is rewritten.
InvalidLow(before, target) ==
    LET first == (target[Low] + 1) % Base
    IN  IF first = before[Low] THEN (first + 1) % Base ELSE first

\* A byte that holds its value is not written.
Change(at, from, to) == IF from = to THEN <<>> ELSE << Update(at, from, to) >>

\* build_write_plan: the check is spoilt first and completed last.
Plan(before, target) ==
    LET spoilt == IF before[1] = target[1] /\ before[2] = target[2]
                  THEN before[Low] ELSE InvalidLow(before, target)
    IN  Change(Low, before[Low], spoilt)
        \o Change(1, before[1], target[1]) \o Change(2, before[2], target[2])
        \o Change(High, before[High], target[High])
        \o Change(Low, spoilt, target[Low])
        \o Change(Marker, before[Marker], target[Marker])

\* A changed record must be valid in the target.
Refused(before, target) == ~SameRecord(before, target) /\ ~Valid(target)

Pcs == {"idle", "enter", "capture", "confirm", "write", "readback", "quit", "query", "held", "failed"}
Computers == [image : Chips, agent : BOOLEAN]
\* seen, preseed: the captures a seed and its restore are bound to;
\* uncertain: a programmer write ended without a proven state.
Sessions ==
    [ op : Ops, tier : 1 .. LastTier, before : Chips, target : Chips, rest : Seq(Writes),
      seen : Chips \cup {None}, preseed : Chips \cup {None}, uncertain : BOOLEAN ]

Stays == UNCHANGED <<outcome, touched>>
Goto(label) == pc' = label /\ UNCHANGED s
Remember(sess, seen) == [sess EXCEPT !.seen = seen]
Report(what, sess) ==
    /\ pc' = "idle" /\ outcome' = what
    /\ s' = [sess EXCEPT !.tier = 1, !.before = s.target, !.rest = <<>>]
---------------------------------------------------------------------------
\* The chip on the programmer: the computer is off.
Chip == [ecu EXCEPT !.agent = FALSE]

\* The marker is seeded, or put back, from captures the window has.
Targets(op) ==
    CASE op \in {"agent", "write"} -> Images
      [] op = "seed" ->
            IF s.seen # None /\ s.seen[Marker] = Normal
            THEN {[s.seen EXCEPT ![Marker] = Recovery]} ELSE {}
      [] OTHER ->
            IF /\ s.seen # None /\ s.preseed # None
               /\ s.seen[Marker] = Recovery /\ s.preseed[Marker] = Normal
               /\ SameRecord(s.seen, s.preseed)
            THEN {s.preseed} ELSE {}

Start(op) ==
    /\ pc = "idle"
    /\ Programmer(op) => ~s.uncertain
    /\ \E target \in Targets(op) :
          s' = [s EXCEPT !.op = op, !.tier = 1, !.before = target,
                         !.target = target, !.rest = <<>>]
    /\ ecu' = IF Programmer(op) THEN Chip ELSE ecu
    /\ pc' = IF Programmer(op) THEN "capture" ELSE "enter"
    /\ outcome' = "running"
    /\ touched' = FALSE

\* quit_to_normal.
Restarted == [ecu EXCEPT !.agent = FALSE]
Staged == [ecu EXCEPT !.agent = TRUE]

\* _open_agent: the staged entry, and what a failed one leaves.  The next rate
\* is tried, unless the entry was refused or interrupted, or the computer was
\* not seen to come back.
Enter ==
    /\ pc = "enter"
    /\ UNCHANGED touched
    /\ \/ ~ecu.agent /\ ecu' = Staged /\ Goto("capture") /\ UNCHANGED outcome
       \/ /\ ecu' \in {ecu, Staged}
          /\ \/ s.tier < LastTier
                /\ s' = [s EXCEPT !.tier = @ + 1] /\ UNCHANGED <<pc, outcome>>
             \/ Report("not_started", s)

\* Before the first byte: the agent is left, the programmer closed.
Fail(seen) ==
    IF Programmer(s.op) THEN Report("not_started", Remember(s, seen))
    ELSE Goto("quit") /\ UNCHANGED outcome

Reachable == Programmer(s.op) \/ ecu.agent

\* seed_ecu and restore_pre_seed compare the chip with the capture.
StillAsSeen == s.op \in {"agent", "write"} \/ ecu.image = s.seen

\* The stable capture, the comparison and the plan.  Nothing to write is a
\* success, without a question.
Capture ==
    /\ pc = "capture"
    /\ UNCHANGED ecu
    /\ \/ /\ Reachable /\ StillAsSeen /\ ~Refused(ecu.image, s.target)
          /\ LET plan == IF s.op = "seed"
                         THEN << Update(Marker, ecu.image[Marker], Recovery) >>
                         ELSE Plan(ecu.image, s.target)
             IN  IF plan = <<>> THEN Goto("quit") /\ touched' = TRUE /\ UNCHANGED outcome
                 ELSE /\ s' = [s EXCEPT !.before = ecu.image, !.rest = plan]
                      /\ pc' = "confirm" /\ Stays
       \/ Fail(None) /\ UNCHANGED touched

Confirm ==
    /\ pc = "confirm"
    /\ UNCHANGED <<ecu, touched>>
    /\ \/ Goto("write") /\ UNCHANGED outcome
       \/ Fail(s.seen)

\* A failed agent write is retained.  After one of the programmer the window
\* wants a new full read before anything else, and keeps the capture of a seed.
Failed ==
    /\ pc = "failed"
    /\ UNCHANGED <<ecu, touched>>
    /\ IF Programmer(s.op)
       THEN Report("abandoned",
                   [s EXCEPT !.uncertain = TRUE, !.seen = None,
                             !.preseed = IF s.op = "seed" THEN s.before ELSE @])
       ELSE pc' = "held" /\ UNCHANGED <<s, outcome>>

\* What an interrupted update leaves.
Cut(w) == {w.from, w.to} \cup (IF w.at = Marker THEN {Mixed} ELSE {})

\* Compare, write, read back; a lost answer tells nothing.
WriteByte ==
    /\ pc = "write"
    /\ LET w == Head(s.rest)
       IN  \/ /\ Reachable /\ ecu.image[w.at] = w.from
              /\ ecu' = [ecu EXCEPT !.image[w.at] = w.to]
              /\ touched' = TRUE
              /\ s' = [s EXCEPT !.rest = Tail(@)]
              /\ pc' = IF Len(s.rest) = 1 THEN "readback" ELSE "write"
              /\ UNCHANGED outcome
           \/ /\ \E value \in Cut(w) :
                    ecu' = IF Reachable /\ ecu.image[w.at] = w.from
                           THEN [ecu EXCEPT !.image[w.at] = value] ELSE ecu
              /\ touched' = (touched \/ ecu'.image # ecu.image)
              /\ Goto("failed") /\ UNCHANGED outcome

Succeed ==
    Report("complete",
           [s EXCEPT !.seen = IF Programmer(s.op) THEN ecu.image ELSE @,
                     !.preseed = CASE s.op = "seed"    -> s.before
                                   [] s.op = "restore" -> None
                                   [] OTHER            -> @])

\* The full readback and its archive; _finish_verified_write.
Readback ==
    /\ pc = "readback"
    /\ UNCHANGED <<ecu, touched>>
    /\ \/ /\ Reachable /\ ecu.image = s.target
          /\ IF Programmer(s.op) THEN Succeed ELSE Goto("quit") /\ UNCHANGED outcome
       \/ Goto("failed") /\ UNCHANGED outcome

\* _quit_and_close, of a verified write, of one with nothing to write (all the
\* programmer leaves here) or of one that did not start.  The user is told
\* where the computer is not seen to come back.
Quit ==
    /\ pc = "quit"
    /\ UNCHANGED touched
    /\ ecu' \in {ecu, Restarted}
    /\ IF touched THEN Succeed ELSE Report("not_started", s)
---------------------------------------------------------------------------
(* The retained session.                                                   *)

Resolve ==
    /\ pc = "held"
    /\ Goto("query")
    /\ UNCHANGED <<ecu, outcome, touched>>

\* _validate_recovery_image, of the plan the session began with.
Recognised(image) ==
    \A o \in 1 .. Marker :
        \/ image[o] = s.before[o]
        \/ \E w \in Range(Plan(s.before, s.target)) :
              w.at = o /\ (image[o] \in {w.from, w.to} \/ o = Marker)

\* _resolve_write_recovery: read, validate, finish, or ask and write the rest.
Query ==
    /\ pc = "query"
    /\ UNCHANGED <<ecu, touched, outcome>>
    /\ \/ /\ ecu.agent /\ Recognised(ecu.image)
          /\ IF ecu.image = s.target THEN Goto("quit")
             ELSE /\ s' = [s EXCEPT !.rest = Plan(ecu.image, s.target)]
                  /\ pc' = "write"
       \/ Goto("failed")

\* close_after_confirmed_power_cycle.
Release ==
    /\ pc = "held"
    /\ ecu' = [ecu EXCEPT !.agent = FALSE]
    /\ Report("abandoned", s)
    /\ UNCHANGED touched

\* _on_ch341a_read; a seeded chip may find its capture among the saved ones.
ReadChip ==
    /\ pc = "idle"
    /\ ecu' = Chip
    /\ \/ \E preseed \in {None, [ecu.image EXCEPT ![Marker] = Normal]} :
             /\ preseed # None => ecu.image[Marker] = Recovery
             /\ s' = [s EXCEPT !.seen = ecu.image, !.preseed = preseed, !.uncertain = FALSE]
       \/ s' = Remember(s, None)
    /\ UNCHANGED <<pc, outcome, touched>>

\* The program ends, and forgets what it knew of the chip.
Exit ==
    /\ Report(IF outcome = "running" THEN "abandoned" ELSE outcome,
              [s EXCEPT !.seen = None, !.preseed = None, !.uncertain = FALSE])
    /\ UNCHANGED <<ecu, touched>>

PowerOff ==
    /\ ecu.agent
    /\ ecu' = [ecu EXCEPT !.agent = FALSE]
    /\ UNCHANGED <<s, pc, outcome, touched>>

Init ==
    /\ ecu \in [image : Images, agent : {FALSE}]
    /\ s = [ op |-> "agent", tier |-> 1, before |-> ecu.image, target |-> ecu.image,
             rest |-> <<>>, seen |-> None, preseed |-> None, uncertain |-> FALSE ]
    /\ pc = "idle"
    /\ outcome = "none"
    /\ touched = FALSE

WorkerStep == Enter \/ Capture \/ Confirm \/ WriteByte \/ Readback \/ Failed \/ Quit \/ Query

Next ==
    \/ \E op \in Ops : Start(op)
    \/ WorkerStep
    \/ Resolve \/ Release \/ ReadChip \/ Exit \/ PowerOff

Spec == Init /\ [][Next]_vars
---------------------------------------------------------------------------
TypeOK ==
    /\ ecu \in Computers
    /\ s \in Sessions
    /\ pc \in Pcs
    /\ outcome \in {"none", "running", "not_started", "complete", "abandoned"}
    /\ touched \in BOOLEAN
    /\ pc = "write" => s.rest # <<>>

\* Seeding and its undoing leave every byte but the marker alone.
MarkerAlone ==
    s.op \in {"seed", "restore"} /\ outcome = "running" => SameRecord(ecu.image, ecu'.image)

\* A record that is being rewritten, or was left half-written, is rejected by
\* its check: the low byte that build_write_plan writes last makes it valid.
Rejected ==
    touched => \/ SameRecord(ecu.image, s.before)
               \/ SameRecord(ecu.image, s.target)
               \/ ~Valid(ecu.image)

Resting == pc \in {"idle", "held"}
Content ==
    IF ~touched THEN "kept" ELSE IF ecu.image = s.target THEN "target" ELSE "torn"
Verdict == IF pc = "held" THEN "held" ELSE outcome
===============================================================================
