-------------------------- MODULE MCNativeFastWrite --------------------------
(***************************************************************************)
(* Every kind of write, two packets an array, two writes in a row.  Two    *)
(* packets are the least with a packet before and after the one that fails;*)
(* two writes, the least with a latch and a key left over from the first.  *)
(***************************************************************************)
EXTENDS NativeFastWrite
MCKinds == {"partial", "full", "program_only"}
==============================================================================
