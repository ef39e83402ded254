------------------------- MODULE MCDownloadService -------------------------
(***************************************************************************)
(* DownloadService on small instances.  Requests, users and ids are        *)
(* interchangeable, so runs of invariants and action properties use them   *)
(* as symmetry sets.                                                       *)
(***************************************************************************)
EXTENDS DownloadService, TLC

Symmetry == Permutations(Users) \cup Permutations(Adders)
              \cup Permutations(Deleters) \cup Permutations(JobIds)
              \cup Permutations(DlIds) \cup Permutations(Nodes)

\* The requests alone, with nodes that never report: a node may still be
\* found offline, which is what fails jobs and makes them ready to be reset.
RequestNext ==
    \/ \E s \in Adders : AddStep(s)
    \/ \E d \in Deleters : DelStep(d)
    \/ \E n \in Nodes : SweepUnfinished(n) \/ SweepCompleted(n)
RequestSpec == Init /\ [][RequestNext]_vars
=============================================================================
