--------------------------- MODULE MCAria2Engine ---------------------------
(***************************************************************************)
(* The aria2 engine and its daemon on small instances: a job that is a     *)
(* magnet link and one that is not.                                        *)
(***************************************************************************)
EXTENDS Aria2Engine, TLC
=============================================================================
