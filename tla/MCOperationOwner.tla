--------------------------- MODULE MCOperationOwner ---------------------------
(***************************************************************************)
(* Every operation the program offers, one at a time as its task runner    *)
(* allows; nothing is counted, so any number of them follow each other.    *)
(***************************************************************************)
EXTENDS OperationOwner
MCTasks == AllTasks
==============================================================================
