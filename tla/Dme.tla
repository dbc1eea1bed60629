--------------------------------- MODULE Dme ---------------------------------
(***************************************************************************)
(* The MS41 engine computer as the stock writers of this repository see    *)
(* it: not part of the repository, modelled from what its code sends, reads*)
(* and expects.  A computer is a record; every operator returns the record *)
(* after a request.                                                        *)
(*                                                                         *)
(*   rate   what it listens at: "low" (9600) or "high" (selected rate)     *)
(*   auth   E658: 0 locked, 1 waiting for a key, 2 authorized              *)
(*   wrong  E74B: wrong keys counted since power-up; 2 locks it            *)
(*   armed  the bare-BMW write arm is in force                             *)
(*   latch  E659, the completion latch of a fast session: "clear" after    *)
(*          power-up, "busy" after leaving the high rate, then "ready"     *)
(*   cells  the packets of the two flash arrays, against the data of the   *)
(*          operation in progress: "old", "blank" (erased), "prefix" (the  *)
(*          first part of the new data, then erased), "holes" (any other   *)
(*          mixture) or "new"                                              *)
(***************************************************************************)
EXTENDS Integers

CONSTANT Packets    \* packets of one flash array, in writing order

ASSUME DmeAssumption == Packets \in Nat \ {0}

Arrays == {"program", "tune"}
Cells == {"old", "blank", "prefix", "holes", "new"}
Dmes == [ rate : {"low", "high"}, auth : 0 .. 2, wrong : 0 .. 2, armed : BOOLEAN,
          latch : {"clear", "busy", "ready"}, cells : [Arrays -> [1 .. Packets -> Cells]] ]

\* Every array holds what it was last written with.
WholeArray(e, a) == \A p \in 1 .. Packets : e.cells[a][p] \in {"old", "new"}
HoldsNew(e, a) == \A p \in 1 .. Packets : e.cells[a][p] = "new"

\* At the high rate a listener in RAM answers; at the low rate the program
\* in flash does, if it is there.
Hears(e, rate) == e.rate = rate /\ (rate = "high" \/ WholeArray(e, "program"))

PowerUp(e) == [e EXCEPT !.rate = "low", !.auth = 0, !.wrong = 0,
                        !.armed = FALSE, !.latch = "clear"]

\* 0x90 "BMW" and a challenge byte.  While a key is expected it counts as a
\* wrong key.
Challenged(e) ==
    CASE e.auth = 0 -> [e EXCEPT !.auth = 1]
      [] e.auth = 1 -> [e EXCEPT !.wrong = IF @ < 2 THEN @ + 1 ELSE @]
      [] OTHER      -> e
Keyed(e) == IF e.auth = 1 THEN [e EXCEPT !.auth = 2] ELSE e

\* The bare BMW arm, the selectors and the bare BMW that ends a fast session.
Armed(e) == IF e.auth = 2 THEN [e EXCEPT !.armed = TRUE] ELSE e
SelectedHigh(e) == IF e.armed THEN [e EXCEPT !.rate = "high", !.latch = "clear"] ELSE e
SelectedLow(e) == [e EXCEPT !.rate = "low", !.latch = "busy"]
Disarmed(e) == [e EXCEPT !.armed = FALSE]

\* The finalizer of a calibration write issues a new seed.
SeededAgain(e) == [e EXCEPT !.auth = 1]

Erased(e, a) == [e EXCEPT !.cells[a] = [p \in 1 .. Packets |-> "blank"]]
Programmed(e, a, p, cell) == [e EXCEPT !.cells[a][p] = cell]

\* What a packet may hold after a program request whose reply was not seen.
Interrupted(cell) == {cell, "prefix", "holes", "new"}

\* The writer of a new operation compares against new data.
Retargeted(e) ==
    [e EXCEPT !.cells = [a \in Arrays |-> [p \in 1 .. Packets |->
        IF @[a][p] = "new" THEN "old" ELSE @[a][p]]]]
==============================================================================
