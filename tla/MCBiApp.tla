------------------------------- MODULE MCBiApp -------------------------------
(* Instances of the BI for TLC: the synchronisation of MCBiSync; the read  *)
(* models of three orders and what may become of them, two customers, two  *)
(* sellers and three products the BI knows, and one of each that it does   *)
(* not; two requests on the attendance of one customer; and exports of     *)
(* three orders in pages of two.                                           *)
EXTENDS BiApp, MCBiSync

CONSTANTS p1, p2, p3, ana, bob, eve, sol, tom, zed, nut, cap, pin, odd

MCCustomers == ana :> [name |-> 1, state |-> {"SP"}, active |-> TRUE]
            @@ bob :> [name |-> 2, state |-> {}, active |-> FALSE]
MCSellers == sol :> [active |-> TRUE] @@ tom :> [active |-> FALSE]
MCProducts == nut :> [category |-> "x", listPrice |-> 5, stock |-> 4, active |-> TRUE]
           @@ cap :> [category |-> "y", listPrice |-> 1000, stock |-> 2, active |-> TRUE]
           @@ pin :> [category |-> "x", listPrice |-> 3, stock |-> 0, active |-> FALSE]
MCPeriods == "30d" :> 4 @@ "90d" :> 10 @@ "365d" :> 42

(* A line of a payload, and a payload.                                     *)
Item(good, quantity, list, net) ==
  [good |-> good, quantity |-> quantity, list |-> list, net |-> net, subtotal |-> 0,
   discount |-> 0, excluded |-> FALSE]
Struck(item) == [item EXCEPT !.excluded = TRUE]
Sold(buyer, seller, status, day, total, items) ==
  [buyer |-> buyer, seller |-> seller, status |-> status, issued |-> {day},
   created |-> {day}, updated |-> day, total |-> total, net |-> {}, gross |-> {},
   discountValue |-> {}, discount |-> 1, kind |-> {}, b2b |-> {}, items |-> items]
UpdatedOn(p, day) == [p EXCEPT !.updated = day]

MCVersions ==
  p1 :> <<Sold({ana}, {sol}, "2", 41, 10, <<Item({nut}, 2, {5}, {5})>>),
          UpdatedOn(Sold({ana}, {sol}, "5", 41, 10, <<Item({nut}, 2, {5}, {5})>>), 47),
          UpdatedOn([Sold({ana}, {tom}, "pedido", 46, 7,
                <<Item({nut}, 1, {5}, {4}), Item({cap}, 1, {}, {3}), Struck(Item({pin}, 1, {3}, {3}))>>)
               EXCEPT !.net = {6}], 47)>>
  @@
  p2 :> <<[Sold({bob}, {sol}, "1", 43, 8, <<Item({nut}, 2, {5}, {4})>>) EXCEPT !.b2b = {1}],
          [UpdatedOn(Sold({bob}, {sol}, "2", 44, 8, <<Item({nut}, 2, {5}, {4})>>), 46)
             EXCEPT !.b2b = {2}, !.created = {}, !.kind = {"web"}],
          UpdatedOn(Sold({bob}, {}, "2", 45, 300, <<>>), 47)>>
  @@
  p3 :> <<Sold({eve}, {zed}, "2", 46, 12, <<Item({nut}, 1, {}, {3}), Item({odd}, 3, {3}, {3})>>),
          [UpdatedOn(Sold({}, {tom}, "2", 39, 9, <<Item({nut}, 1, {5}, {5}), Item({pin}, 1, {3}, {4}), Item({nut}, 0, {}, {})>>), 46)
             EXCEPT !.issued = {}, !.discountValue = {2}, !.gross = {11}],
          UpdatedOn(Sold({ana}, {zed}, "9", 46, 0, <<Struck(Item({cap}, 1, {2}, {2}))>>), 46)>>

-----------------------------------------------------------------------------
MCTiers == <<1, 2, 3>>
MCBands == <<5, 8, 10>>

AnyOrder ==
  [dateFrom |-> {}, dateTo |-> {}, period |-> "all", granularity |-> "month",
   statuses |-> {}, sellerIds |-> {}, customerIds |-> {}, excludedCustomerIds |-> {},
   orderTypeIds |-> {}, minValue |-> {}, maxValue |-> {}, states |-> {},
   activeOnly |-> FALSE, productIds |-> {}, categoryIds |-> {}]

MCFilters ==
  {AnyOrder,
   [AnyOrder EXCEPT !.period = "30d", !.granularity = "day"],
   [AnyOrder EXCEPT !.period = "ytd", !.granularity = "quarter", !.sellerIds = {sol, zed}],
   [AnyOrder EXCEPT !.dateFrom = {41}, !.dateTo = {46}, !.granularity = "week"],
   [AnyOrder EXCEPT !.dateFrom = {42}, !.dateTo = {45}, !.productIds = {nut}, !.granularity = "day"],
   [AnyOrder EXCEPT !.categoryIds = {"x"}, !.statuses = {"2", "pedido"}],
   [AnyOrder EXCEPT !.period = "365d", !.states = {"SP"}, !.minValue = {7}, !.granularity = "year"],
   [AnyOrder EXCEPT !.excludedCustomerIds = {ana}, !.maxValue = {12}, !.dateTo = {46}],
   [AnyOrder EXCEPT !.activeOnly = TRUE, !.orderTypeIds = {"web"}]}

-----------------------------------------------------------------------------
MCSeen ==
  "sync" :> << >>
  @@ "reports" :> [o \in BookOrders |-> 1..3]
  @@ "leads" :> (p1 :> {1} @@ p2 :> {2})
  @@ "exports" :> (p1 :> {1, 2} @@ p2 :> {1, 2} @@ p3 :> {1})

MCDecisions ==
  {[seller |-> {}, outcome |-> "won", sale |-> 5],
   [seller |-> {"tom"}, outcome |-> "lost", sale |-> 0]}
MCAiAnswers == {<< >>, ana :> 120}
MCHeuristic(revenue, orders_, days) == revenue * orders_ + days
MCLeadPages == {[top |-> 1, size |-> 1], [top |-> 2, size |-> 1]}
MCRowId == p1 :> 2 @@ p2 :> 1 @@ p3 :> 3
MCExportFilters == {AnyOrder, [AnyOrder EXCEPT !.period = "30d", !.statuses = {"2"}]}

===============================================================================
