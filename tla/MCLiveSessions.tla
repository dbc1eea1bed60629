---------------------------- MODULE MCLiveSessions ----------------------------
(***************************************************************************)
(* Every operation the program offers, with the sessions it leaves in the  *)
(* engine computer.  One sample is enough for Stop to wait for one that    *)
(* the view has not been given.                                            *)
(***************************************************************************)
EXTENDS LiveSessions
MCTasks == AllTasks
===============================================================================
