---------------------------- MODULE MCStatusLoop ----------------------------
(***************************************************************************)
(* StatusLoop on small instances: two ids of one yt-dlp key (content added *)
(* again after a deletion), or a yt-dlp and an aria2 job.                  *)
(***************************************************************************)
EXTENDS StatusLoop, TLC

\* In a .cfg a function is given by its name.
ByPrefix == [j \in Jobs |-> IF j \in YtJobs THEN "yt" ELSE "aria"]
Symmetry == Permutations(Runs)

\* Nobody deletes: the liveness of the loop itself.
KeepNext ==
    \/ \E r \in DOMAIN engine : Finish(r)
    \/ \E j \in Jobs : Start(j) \/ Dispatch(j) \/ Activate(j) \/ FailRow(j)
    \/ LoopStep
    \/ FaultStep
KeepSpec == Init /\ [][KeepNext]_vars /\ Fairness
=============================================================================
