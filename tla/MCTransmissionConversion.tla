--------------------- MODULE MCTransmissionConversion ----------------------
(* Two coding owners suffice for a conversion stopped between two modules, *)
(* and for a rollback that fails on one and goes on with the other.  Three *)
(* records give a chain of two recoveries, the second of which reads the   *)
(* intents of both earlier ones; the fourth is the one that must succeed   *)
(* after two failures have used up two recoveries.                         *)
EXTENDS TransmissionConversion
=============================================================================
