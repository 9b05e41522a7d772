---------------------------- MODULE MCSyncEngine ----------------------------
(* Instances of SyncEngine for TLC: one or two resources, few changes. *)
EXTENDS SyncEngine, TLC

MCOne == <<"orders">>
MCTwo == <<"customers", "orders">>
MCOneJob == {1}
MCTwoJobs == 1..2
MCThreeJobs == 1..3
MCFourJobs == 1..4

(* Distinct instants, and a page whose changes share one. *)
MCDistinct == [p \in Changes |-> p]
MCTied == [p \in Changes |-> IF p < 3 THEN 1 ELSE 2]

MCWorkers == Permutations(Workers)

MCOrders == {KeyOf("orders", "incremental"), KeyOf("orders", "full")}
MCIncremental == {KeyOf("orders", "incremental")}
MCAll == {KeyOf("all", "full")}

(* The origin has two changes or more when the first run begins.           *)
MCSyncInit == head \in 2..Last /\ SyncInit
MCSyncSpec == MCSyncInit /\ [][SyncNext]_syncVars

=============================================================================
