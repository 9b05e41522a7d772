----------------------------- MODULE Dashboards -----------------------------
(***************************************************************************)
(* The older reports of the BI, which go by the total of an order and by a *)
(* number of days (src/app/analytics.py): the dashboard, the customers by  *)
(* how they buy, the products that do not sell; and the report on the      *)
(* quality of the data (src/app/services/data_quality.py).                 *)
(***************************************************************************)
EXTENDS EntityReports

CONSTANTS
  MAX_ORDER_TOTAL,   (* a total from here on is an error of the data *)
  NewOrders          (* a new customer has at most so many orders: 5 in the code *)

(* The start of the last days; none for every order.                       *)
period_start(days) == IF days <= 0 THEN {} ELSE {Now - days}

Since(start) == {o \in DOMAIN book : \A s \in start : book[o].day >= s}
Sane(orders) == {o \in orders : book[o].total > 0 /\ book[o].total < MAX_ORDER_TOTAL}
SoldSince(start) == OfStatus(Since(start), VALID_SALE_STATUSES)

ValidIn(bounds) ==
  Sane({o \in SoldSince({}) : Within(book[o].day, bounds)})

TotalOf(orders) == SumOver(orders, LAMBDA o : book[o].total)
Counted(orders) == [orders |-> Cardinality(orders), revenue |-> TotalOf(orders)]

PeriodStats(bounds) ==
  Joined(Counted(ValidIn(bounds)),
         [customers |-> Cardinality(BuyersOf(ValidIn(bounds))),
          discount |-> SumOver(ValidIn(bounds), LAMBDA o : book[o].discount)])

(* The window of a dashboard, and the one before it.                       *)
Window(days) == <<period_start(days), IF days <= 0 THEN {} ELSE {Now}>>
WindowBefore(days) == <<{s - days : s \in period_start(days)}, period_start(days)>>

GroupBy(orders, key(_)) ==
  [k \in {key(o) : o \in orders} |-> Counted({o \in orders : key(o) = k})]

StateOf(o) ==
  UNION {CustomerTable[c].state : c \in book[o].buyer \cap DOMAIN CustomerTable}

dashboard(days) ==
  LET valid == ValidIn(Window(days))
      known == {o \in valid : book[o].buyer \cap DOMAIN CustomerTable # {}}
      all == {o \in DOMAIN book : Within(book[o].day, Window(days))}
      lines == LinesOf(valid)
      month == days <= 0 \/ days > 365
  IN [kpis |-> PeriodStats(Window(days)),
      previous |-> IF days <= 0 THEN [PeriodStats(Window(days)) EXCEPT !.orders = 0, !.revenue = 0]
                   ELSE PeriodStats(WindowBefore(days)),
      cancellations |-> Cardinality(OfStatus(all, CANCELLED_ORDER_STATUSES)),
      itemsSold |-> LinesQuantity(lines),
      productsSold |-> Cardinality(UNION {Line(l).good : l \in lines}),
      evolution |-> GroupBy(valid, LAMBDA o : FloorBucket(book[o].day, IF month THEN "month" ELSE "day")),
      status |-> GroupBy(all, LAMBDA o : book[o].status),
      weekdays |-> GroupBy(valid, LAMBDA o : book[o].day % 7),
      regions |-> GroupBy(known, StateOf),
      customers |-> GroupBy(known, LAMBDA o : book[o].buyer),
      sellers |-> GroupBy({o \in valid : book[o].seller \cap DOMAIN SellerTable # {}},
                          LAMBDA o : book[o].seller),
      products |-> [g \in {Line(l).good : l \in lines} |->
                     LinesValue({l \in lines : Line(l).good = g})],
      today |-> PeriodStats(<<{today}, {}>>)]

(* The rankings of the last days count totals the dashboard leaves out.    *)
rankings(days) ==
  LET sold == SoldSince(period_start(days))
  IN [products |-> [g \in {Line(l).good : l \in LinesOf(sold)} |->
                     LinesValue({l \in LinesOf(sold) : Line(l).good = g})],
      customers |-> GroupBy({o \in sold : book[o].buyer \cap DOMAIN CustomerTable # {}},
                            LAMBDA o : book[o].buyer),
      sellers |-> GroupBy({o \in sold : book[o].seller \cap DOMAIN SellerTable # {}},
                          LAMBDA o : book[o].seller)]

-----------------------------------------------------------------------------
(* A customer by when he first and last bought.                            *)
classify_customer(orders, inactive_days) ==
  LET days == {today - book[o].day : o \in orders}
  IN IF orders = {} THEN "lead_novo"
     ELSE IF Max(days) <= inactive_days /\ Cardinality(orders) <= NewOrders THEN "lead_novo"
     ELSE IF Min(days) <= inactive_days THEN "ativo"
     ELSE IF Min(days) > 2 * inactive_days THEN "recuperar" ELSE "em_risco"

OrdersOfCustomer(c) == {o \in Sane(SoldSince({})) : c \in book[o].buyer}

SegmentOf(c, inactive_days) == classify_customer(OrdersOfCustomer(c), inactive_days)

SegmentSummary(inactive_days) ==
  [s \in {"ativo", "em_risco", "recuperar", "lead_novo"} |->
    Cardinality({c \in DOMAIN CustomerTable : SegmentOf(c, inactive_days) = s})]

(* Who is listed under a segment: at risk are those to win back as well.   *)
Listed(segment, inactive_days) ==
  {c \in DOMAIN CustomerTable :
     SegmentOf(c, inactive_days)
       \in CASE segment = "todos" -> {"ativo", "em_risco", "recuperar", "lead_novo"}
             [] segment = "em_risco" -> {"em_risco", "recuperar"}
             [] OTHER -> {segment}}

leads_to_recover(inactive_days) ==
  {c \in Listed("todos", inactive_days) : SegmentOf(c, inactive_days) \in {"recuperar", "em_risco"}}

(* In stock, active and not sold for so many days.                         *)
GoodsIn(orders) == UNION {Line(l).good : l \in LinesOf(orders)}

dead_stock(days) ==
  LET stocked == {g \in DOMAIN ProductTable : ProductTable[g].stock > 0 /\ ProductTable[g].active}
      ever == SoldSince({})
  IN [g \in stocked \ GoodsIn(SoldSince(period_start(days))) |->
       [value |-> ProductTable[g].stock * ProductTable[g].listPrice,
        lastSale |-> LET mine == {o \in ever : g \in GoodsIn({o})}
                     IN IF mine = {} THEN {} ELSE {Max({book[o].day : o \in mine})}]]

product_movers(days) == rankings(days).products

orders_insight(days) ==
  LET rows == Sane(SoldSince(period_start(days)))
      bought == {o \in rows : book[o].buyer # {}}
      ever == {o \in SoldSince({}) : book[o].buyer # {}}
  IN [kpis |-> Counted(rows),
      topCustomers |-> GroupBy(bought, LAMBDA o : book[o].buyer),
      idle |-> [c \in BuyersOf(ever) |->
                 today - Max({book[o].day : o \in {x \in ever : c \in book[x].buyer}})]]

-----------------------------------------------------------------------------
(* Orders and lines by whether what they name is known.                    *)
OrderCoverage ==
  [orders |-> Cardinality(DOMAIN book),
   withItems |-> Cardinality({o \in DOMAIN book : book[o].itemCount > 0}),
   withCustomer |-> Cardinality({o \in DOMAIN book : book[o].buyer \cap DOMAIN CustomerTable # {}}),
   withSeller |-> Cardinality({o \in DOMAIN book : book[o].seller \cap DOMAIN SellerTable # {}}),
   recognized |-> Cardinality(OfStatus(DOMAIN book, CANCELLED_ORDER_STATUSES
                     \cup QUOTE_ORDER_STATUSES \cup VALID_SALE_STATUSES))]

(* Every line is counted, those struck out as well; known are only others. *)
ItemCoverage ==
  LET lines == LinesOf(DOMAIN book)
  IN [items |-> SumOver(DOMAIN book, LAMBDA o : Len(book[o].items)),
      withProduct |-> Cardinality({l \in lines : Line(l).good \cap DOMAIN ProductTable # {}})]

(* Orders whose total is not what their lines add up to.                   *)
OrderTotalDivergences ==
  Cardinality({o \in DOMAIN book :
    LinesOf({o}) # {} /\ book[o].total # LinesValue(LinesOf({o}))})

DataQuality ==
  [coverage |-> Joined(OrderCoverage, ItemCoverage),
   divergences |-> OrderTotalDivergences,
   range |-> {book[o].day : o \in DOMAIN book},
   zeroTotal |-> Cardinality({o \in DOMAIN book : book[o].total = 0}),
   zeroQuantity |-> Cardinality({l \in LinesOf(DOMAIN book) : Line(l).quantity = 0})]

===============================================================================
