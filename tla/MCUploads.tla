------------------------------ MODULE MCUploads ------------------------------
(***************************************************************************)
(* Uploads on small instances: two workers and the controller's own node.   *)
(***************************************************************************)
EXTENDS Uploads, TLC
=============================================================================
