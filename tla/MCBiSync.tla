------------------------------- MODULE MCBiSync -------------------------------
(* Instances of BiSync for TLC. *)
EXTENDS BiSync, TLC

CONSTANTS orders, users, o1, o2, ordersJob, manual

MCResources == {orders, users}
MCChanges == orders :> <<o1, o2, o1>> @@ users :> <<>>
MCAtFirst == orders :> 2 @@ users :> 0
MCOrderChanges == orders :> <<o1, o2, o1>>
MCOrdersAtFirst == orders :> 2
MCOrdersJob == ordersJob :> {orders}
MCPlans == {[resources |-> <<users, orders>>, full |-> TRUE]}
MCTokens == 1..5

===============================================================================
