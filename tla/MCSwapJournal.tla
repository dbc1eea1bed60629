-------------------------- MODULE MCSwapJournal ----------------------------
(* Two operations with two intended writes each, and two messages, so that *)
(* a repeated and a different failure report are told apart.               *)
EXTENDS SwapJournal
=============================================================================
