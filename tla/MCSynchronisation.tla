-------------------------- MODULE MCSynchronisation --------------------------
(* Instances of the synchronisation for TLC: the changes of MCSyncEngine;  *)
(* the items of three orders with one worker -- the newest without items   *)
(* until it is deleted, one that does not map at first, one that loses its *)
(* items -- and of two of them with two workers.                           *)
EXTENDS Synchronisation, MCSyncEngine

Of(items) == [items |-> items, deleted |-> FALSE]

MCIssued == <<"o1", "o2", "o3">>
MCContent ==
  "o1" :> <<Of("none"), [Of("none") EXCEPT !.deleted = TRUE]>>
  @@ "o2" :> <<Of("bad"), Of("live")>>
  @@ "o3" :> <<Of("live"), Of("none")>>
MCNoOrders == [orders |-> {}, crew |-> {"h1"}]
MCOneWorker == {MCNoOrders, [orders |-> {"o1", "o2", "o3"}, crew |-> {"h1"}]}
MCTwoWorkers == {MCNoOrders, [orders |-> {"o2", "o3"}, crew |-> {"h1", "h2"}]}

=============================================================================
