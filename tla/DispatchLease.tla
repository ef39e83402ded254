---------------------------- MODULE DispatchLease ----------------------------
(***************************************************************************)
(* What concurrent Add requests promise each other, without the tables and *)
(* the reads that bring it about: the right to start a storage key is a    *)
(* lease.  A request takes a lease only while nobody holds it, gives it    *)
(* back when its dispatch is settled, and may lose it when the job is      *)
(* failed, made inactive or deleted under it; several leases may be lost   *)
(* at once (a node goes offline, the controller crashes).                  *)
(***************************************************************************)
CONSTANTS Keys, Adders

VARIABLE lease   \* key -> the requests that hold its lease

Init == lease = [k \in Keys |-> {}]

Take(k, s) ==
    /\ lease[k] = {}
    /\ lease' = [lease EXCEPT ![k] = {s}]

Lose(K) == lease' = [k \in Keys |-> IF k \in K THEN {} ELSE lease[k]]

Next ==
    \/ \E k \in Keys, s \in Adders : Take(k, s)
    \/ \E K \in SUBSET Keys : Lose(K)

Spec == Init /\ [][Next]_lease
=============================================================================
