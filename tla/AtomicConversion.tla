-------------------------- MODULE AtomicConversion --------------------------
(***************************************************************************)
(* What a guided conversion promises, seen from the vehicle: its coding is *)
(* only worked on while a durable record of the conversion is open, and a  *)
(* conversion is only ever closed with the vehicle wholly in its original  *)
(* or wholly in its target coding.  Between opening and closing, and       *)
(* whatever crashes, the coding may be any mixture.                        *)
(***************************************************************************)
VARIABLES open,    \* an unfinished conversion is on record
          coding   \* "original", "target", or anything else ("mixed")

Coding == {"original", "target", "mixed"}

TypeOK == open \in BOOLEAN /\ coding \in Coding

Init == open = FALSE /\ coding = "original"

\* A conversion is recorded before the vehicle is touched.
Open == ~open /\ open' = TRUE /\ coding = "original" /\ UNCHANGED coding

Work == open /\ UNCHANGED open /\ coding' \in Coding

Close == open /\ open' = FALSE /\ coding \in {"original", "target"} /\ UNCHANGED coding

\* A closed vehicle is coded by somebody else.
Outside == ~open /\ UNCHANGED open /\ coding' \in Coding

Next == Open \/ Work \/ Close \/ Outside

Spec == Init /\ [][Next]_<<open, coding>>
=============================================================================
