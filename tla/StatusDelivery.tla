--------------------------- MODULE StatusDelivery ---------------------------
(***************************************************************************)
(* What a node's status loop promises: it reads the outcome of a run once, *)
(* then holds it until it has been written to the jobs table, and lets go  *)
(* of one that was not only where the program may lose it (Lossy).         *)
(***************************************************************************)
CONSTANTS Outcomes, Lossy

VARIABLES held, recorded

Init == held = {} /\ recorded = {}

Read(R) ==
    /\ R \cap (held \cup recorded) = {}
    /\ held' = held \cup R
    /\ UNCHANGED recorded

Record(R) ==
    /\ R \subseteq held
    /\ recorded' = recorded \cup R
    /\ UNCHANGED held

LetGo(R) ==
    /\ R \subseteq recorded \/ Lossy
    /\ held' = held \ R
    /\ UNCHANGED recorded

Next == \E R \in SUBSET Outcomes : Read(R) \/ Record(R) \/ LetGo(R)

Spec == Init /\ [][Next]_<<held, recorded>>
=============================================================================
