-------------------------- MODULE MCNodeMembership --------------------------
(***************************************************************************)
(* NodeMembership on small instances.                                      *)
(***************************************************************************)
EXTENDS NodeMembership, TLC
=============================================================================
