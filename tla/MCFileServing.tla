--------------------------- MODULE MCFileServing ---------------------------
(***************************************************************************)
(* FileServing on small instances: a download's own node and another one.   *)
(***************************************************************************)
EXTENDS FileServing, TLC
=============================================================================
