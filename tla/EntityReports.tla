---------------------------- MODULE EntityReports ----------------------------
(***************************************************************************)
(* The reports by product, customer and seller: their pages, the ABC       *)
(* classes and tiers in them, the rankings, the insights and the cohorts   *)
(* (src/app/services/analytics_v2.py).                                     *)
(***************************************************************************)
EXTENDS Overview

CONSTANT Tiers   (* the sizes of the tiers of customers: <<5, 10, 20>> in the code *)

ASSUME TiersGrow ==
  DOMAIN Tiers = 1..3 /\ Tiers \in [1..3 -> Nat] /\ Tiers[1] <= Tiers[2] /\ Tiers[2] <= Tiers[3]

Sales(f) == SalesIn(f, date_bounds(f))
Revenues(rows) == SumOver(DOMAIN rows, LAMBDA x : rows[x].revenue)
OrderCounts(rows) == SumOver(DOMAIN rows, LAMBDA x : rows[x].orders)

(* The revenue of the rows that earned as much or more.  Rows of equal     *)
(* revenue are in one frame of the window.                                 *)
RevenueUpTo(rows, x) ==
  SumOver({y \in DOMAIN rows : rows[y].revenue >= rows[x].revenue},
          LAMBDA y : rows[y].revenue)

(* The class by the share of all revenue earned up to the row.             *)
AbcClass(rows, x) ==
  LET share(percent) == 100 * RevenueUpTo(rows, x) <= percent * Revenues(rows)
  IN IF share(80) THEN "A" ELSE IF share(95) THEN "B" ELSE "C"

-----------------------------------------------------------------------------
ProductAggregate(f) ==
  LET lines == ProductLines(Sales(f), f)
  IN [g \in {The(Line(l).good) : l \in lines} |->
       LET mine == {l \in lines : g \in Line(l).good}
       IN [quantity |-> LinesQuantity(mine), orders |-> Cardinality({l[1] : l \in mine}),
           revenue |-> LinesValue(mine), lastSale |-> Max({book[l[1]].day : l \in mine})]]

(* Filters on the sale itself leave only the products that were sold.      *)
AsksForSales(f) ==
  \/ f.sellerIds # {} \/ f.customerIds # {} \/ f.states # {} \/ f.orderTypeIds # {}
  \/ f.minValue # {} \/ f.maxValue # {}

ListedProducts(f, sold) ==
  {g \in DOMAIN ProductTable :
     /\ ProductScoped(f) => ChosenProduct(g, f)
     /\ f.activeOnly => ProductTable[g].active
     /\ AsksForSales(f) => g \in sold}

PeriodDays(f) ==
  LET bounds == date_bounds(f)
  IN {MaxOf2(ValueOr(bounds[2], Now) - start, 1) : start \in bounds[1]}

(* A product by its stock against how fast it sells.                       *)
StockClass(stock, sold, days) ==
  LET quantity == SumOver(sold, LAMBDA row : row.quantity)
      covers == IF days # {} /\ quantity > 0 THEN {(stock * The(days)) \div quantity} ELSE {}
      idle == {today - row.lastSale : row \in sold}
  IN CASE stock <= 0 -> "sem_estoque"
       [] \E c \in covers : c <= 30 -> "risco_ruptura"
       [] sold = {} -> "nunca_vendido"
       [] \E d \in idle : d >= 90 -> "estoque_parado"
       [] \E c \in covers : c >= 180 -> "excesso_estoque"
       [] OTHER -> IF quantity > 0 THEN "baixo_giro" ELSE "sem_venda_periodo"

ProductRows(f, sold) ==
  LET row(g) == IF g \in DOMAIN sold THEN {sold[g]} ELSE {}
  IN [g \in ListedProducts(f, DOMAIN sold) |->
       [orders |-> SumOver(row(g), LAMBDA r : r.orders),
        revenue |-> SumOver(row(g), LAMBDA r : r.revenue),
        abc |-> IF row(g) = {} THEN "none"
                ELSE AbcClass(sold, g),
        class |-> StockClass(ProductTable[g].stock, row(g), PeriodDays(f))]]

products_page(f) == ProductRows(f, ProductAggregate(f))

inventory_page(f) ==
  LET listed == ListedProducts(f, DOMAIN ProductAggregate(f))
  IN [stockValue |-> SumOver(listed, LAMBDA g : ProductTable[g].stock * ValueOr(ListPrice(g), 0)),
      positive |-> Cardinality({g \in listed : ProductTable[g].stock > 0}),
      empty |-> Cardinality({g \in listed : ProductTable[g].stock <= 0})]

-----------------------------------------------------------------------------
(* The sales by customer; those of no customer are a group of their own.   *)
ByCustomer(values) ==
  [c \in {book[o].buyer : o \in DOMAIN values} |->
    LET mine == {o \in DOMAIN values : book[o].buyer = c}
    IN [orders |-> Cardinality(mine),
        revenue |-> SumOver(mine, LAMBDA o : values[o].current),
        first |-> Min({book[o].day : o \in mine}), last |-> Max({book[o].day : o \in mine})]]

CustomerAggregate(f) == ByCustomer(AnalyticOrderValues(Sales(f), f))

(* A filter on the sales asks for a sale; one on the customer for himself. *)
ListedCustomers(f) ==
  {c \in DOMAIN CustomerTable :
     /\ f.customerIds # {} => c \in f.customerIds
     /\ c \notin f.excludedCustomerIds
     /\ CustomerPredicates(c, f)
     /\ (\/ f.sellerIds # {} \/ ProductScoped(f) \/ f.orderTypeIds # {}
         \/ f.minValue # {} \/ f.maxValue # {})
          => c \in BuyersOf(Sales(f))}

CustomerRows(f, bought) ==
  LET row(c) == IF {c} \in DOMAIN bought THEN {bought[{c}]} ELSE {}
  IN [c \in ListedCustomers(f) |->
       [orders |-> SumOver(row(c), LAMBDA r : r.orders),
        revenue |-> SumOver(row(c), LAMBDA r : r.revenue),
        abc |-> IF row(c) = {} THEN "none"
                ELSE AbcClass(bought, {c})]]

customers_page(f) == CustomerRows(f, CustomerAggregate(f))

(* A sorted list; those that tie come in the order the database likes.     *)
Sorted(S, better(_, _)) ==
  CHOOSE s \in [1..Cardinality(S) -> S] :
    \A i, j \in DOMAIN s : i < j => s[i] # s[j] /\ better(s[i], s[j])

(* The known customers with sales, the better first.                       *)
RankedCustomers(bought) ==
  LET known == {c \in DOMAIN CustomerTable : {c} \in DOMAIN bought}
      better(c, d) == \/ bought[{c}].revenue > bought[{d}].revenue
                      \/ /\ bought[{c}].revenue = bought[{d}].revenue
                         /\ bought[{c}].orders >= bought[{d}].orders
  IN [i \in 1..Cardinality(known) |-> bought[{Sorted(known, better)[i]}]]

(* The totals of a run of the ranking.                                     *)
CustomerCohort(rows) ==
  [customers |-> Len(rows), orders |-> SumOver(DOMAIN rows, LAMBDA i : rows[i].orders),
   revenue |-> SumOver(DOMAIN rows, LAMBDA i : rows[i].revenue)]

CustomerTiers(ranked) ==
  LET tier(from, to) == CustomerCohort(SubSeq(ranked, from, IF to < Len(ranked) THEN to ELSE Len(ranked)))
  IN [all |-> CustomerCohort(ranked), top |-> [i \in DOMAIN Tiers |-> tier(1, Tiers[i])],
      next |-> tier(Tiers[1] + 1, Tiers[2]), nextBut1 |-> tier(Tiers[2] + 1, Tiers[3]),
      rest |-> tier(Tiers[3] + 1, Len(ranked))]

-----------------------------------------------------------------------------
BySeller(values) ==
  [s \in UNION {book[o].seller : o \in DOMAIN values} |->
    LET mine == {o \in DOMAIN values : s \in book[o].seller}
    IN [orders |-> Cardinality(mine), customers |-> Cardinality(BuyersOf(mine)),
        revenue |-> SumOver(mine, LAMBDA o : values[o].current),
        discount |-> SumOver(mine, LAMBDA o : values[o].discount)]]

SellerAggregate(f) == BySeller(AnalyticOrderValues(Sales(f), f))

(* The customers whose first sale ever is one of these.                    *)
NewCustomers(orders) ==
  LET sales == OfStatus(DOMAIN book, VALID_SALE_STATUSES)
  IN {c \in BuyersOf(orders) :
        \E o \in orders : /\ c \in book[o].buyer
                          /\ \A p \in sales : c \in book[p].buyer => book[o].day <= book[p].day}

NoSales == [orders |-> 0, customers |-> 0, revenue |-> 0, discount |-> 0]

SellerRows(f, sold, sales, cancelled) ==
  LET of(orders, s) == {o \in orders : s \in book[o].seller}
  IN [s \in {x \in DOMAIN SellerTable :
               /\ f.sellerIds # {} => x \in f.sellerIds
               /\ f.activeOnly => SellerTable[x].active} |->
       Joined(IF s \in DOMAIN sold THEN sold[s] ELSE NoSales,
              [newCustomers |-> Cardinality(NewCustomers(of(sales, s))),
               cancellations |-> Cardinality(of(cancelled, s))])]

sellers_page(f) ==
  SellerRows(f, SellerAggregate(f), Sales(f), Cancelled(f, date_bounds(f)))

-----------------------------------------------------------------------------
(* The detail of one is the reports of all under a filter for it: the row, *)
(* when there is one, and more.                                            *)
Detail(rows, id, reports) ==
  IF id \in DOMAIN rows THEN {Joined(reports, [row |-> rows[id]])} ELSE {}

product_detail(g, f) ==
  LET scoped == [f EXCEPT !.productIds = {g}]
  IN Detail(products_page(scoped), g, [orders |-> OrdersSummary(scoped)])

customer_detail(c, f) ==
  LET scoped == [f EXCEPT !.customerIds = {c}]
  IN Detail(customers_page(scoped), c,
            [orders |-> OrdersSummary(scoped), products |-> products_page(scoped)])

seller_detail(s, f) ==
  LET scoped == [f EXCEPT !.sellerIds = {s}]
  IN Detail(sellers_page(scoped), s,
            [orders |-> OrdersSummary(scoped), customers |-> customers_page(scoped)])

-----------------------------------------------------------------------------
(* How many rows each class has and what they earned.  Without any revenue *)
(* there is no share to compare, and every row is of the last class.       *)
AbcBreakdown(rows) ==
  LET class(x) == IF Revenues(rows) = 0 THEN "C" ELSE AbcClass(rows, x)
  IN [k \in {class(x) : x \in DOMAIN rows} |->
       LET mine == {x \in DOMAIN rows : class(x) = k}
       IN [entities |-> Cardinality(mine), revenue |-> SumOver(mine, LAMBDA x : rows[x].revenue)]]

breakdowns(f) == [productAbc |-> AbcBreakdown(ProductAggregate(f)),
                  customerAbc |-> AbcBreakdown(CustomerAggregate(f))]

(* The products that earned something, by class, and how many it takes to  *)
(* earn most of it.  The last one reaches all of it.                       *)
product_insights(sold) ==
  LET earning == {g \in DOMAIN sold : sold[g].revenue > 0}
      before(percent) ==
        {g \in earning : 100 * RevenueUpTo(sold, g) < percent * Revenues(sold)}
      count(class(_)) ==
        [k \in {class(g) : g \in earning} |-> Cardinality({g \in earning : class(g) = k})]
      abc(g) == AbcClass(sold, g)
  IN [products |-> Cardinality(earning),
      revenue |-> SumOver(earning, LAMBDA g : sold[g].revenue),
      quantity |-> SumOver(earning, LAMBDA g : sold[g].quantity),
      needed |-> [p \in {80, 95} |-> Cardinality(before(p)) + 1],
      abc |-> count(abc),
      mix |-> count(LAMBDA g : IF ProductTable[g].stock <= 0 THEN "sem_estoque" ELSE abc(g))]

-----------------------------------------------------------------------------
(* The rankings of the overview page, by the headers and by every line of  *)
(* the orders found, whatever products are chosen.                         *)
RankingCustomers(f) ==
  LET sales == Sales(f)
  IN [c \in BuyersOf(sales) \cap DOMAIN CustomerTable |->
       LET mine == {o \in sales : c \in book[o].buyer}
       IN [orders |-> Cardinality(mine), revenue |-> SumOver(mine, HeaderRevenue)]]

RankingSellers(f) ==
  LET sales == Sales(f)
  IN [s \in UNION {book[o].seller : o \in sales} \cap DOMAIN SellerTable |->
       LET mine == {o \in sales : s \in book[o].seller}
       IN [orders |-> Cardinality(mine), revenue |-> SumOver(mine, HeaderRevenue),
           customers |-> Cardinality(BuyersOf(mine))]]

RankingProducts(f) ==
  LET lines == {l \in LinesOf(Sales(f)) : Line(l).good \cap DOMAIN ProductTable # {}}
  IN [g \in UNION {Line(l).good : l \in lines} |->
       LET mine == {l \in lines : g \in Line(l).good}
       IN [orders |-> Cardinality({l[1] : l \in mine}), revenue |-> LinesValue(mine),
           quantity |-> LinesQuantity(mine)]]

-----------------------------------------------------------------------------
(* Customers by the month of their first sale in the period, and how many  *)
(* of them bought again so many months later.                              *)
MonthsOf(c, values) == {MonthOf(book[o].day) : o \in {x \in DOMAIN values : c \in book[x].buyer}}

cohorts(values) ==
  LET buyers == BuyersOf(DOMAIN values)
      months == [c \in buyers |-> MonthsOf(c, values)]
      latest == Max(UNION {months[c] : c \in buyers})
      cohortOf == [c \in buyers |-> Min(months[c])]
      earned(c, m) == SumOver({o \in DOMAIN values : c \in book[o].buyer /\ MonthOf(book[o].day) = m},
                              LAMBDA o : values[o].current)
  IN [k \in {cohortOf[c] : c \in buyers} |->
       LET mine == {c \in buyers : cohortOf[c] = k}
       IN [size |-> Cardinality(mine), repeat |-> Cardinality({c \in mine : Cardinality(months[c]) > 1}),
           retention |-> [n \in 0..latest - k |->
             [customers |-> Cardinality({c \in mine : k + n \in months[c]}),
              revenue |-> SumOver({c \in mine : k + n \in months[c]}, LAMBDA c : earned(c, k + n))]]]]

(* Over all cohorts old enough: who could have been back by then, who was. *)
RetentionCurve(rows) ==
  LET old(n) == {k \in DOMAIN rows : n \in DOMAIN rows[k].retention}
  IN [n \in UNION {DOMAIN rows[k].retention : k \in DOMAIN rows} |->
       [eligible |-> SumOver(old(n), LAMBDA k : rows[k].size),
        active |-> SumOver(old(n), LAMBDA k : rows[k].retention[n].customers),
        cumulative |-> SumOver(old(n), LAMBDA k :
                         SumOver(0..n, LAMBDA m : rows[k].retention[m].revenue))]]

===============================================================================
