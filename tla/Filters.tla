------------------------------- MODULE Filters -------------------------------
(***************************************************************************)
(* The filters every report of the BI takes, the period they stand for and *)
(* the rows they let through (src/app/services/analytics_filters.py), and  *)
(* the value an order has under them, header or lines                      *)
(* (src/app/services/analytics_v2.py).                                     *)
(*                                                                         *)
(* An instant is the day it falls in; now is the end of today.  The        *)
(* calendar is a small one: months of 4 and 3 days by turns, twelve of     *)
(* them a year, weeks of 7 days.                                           *)
(***************************************************************************)
EXTENDS OrderMirror

CONSTANTS
  CustomerTable,   (* the customers the BI knows: id -> [name, state, active] *)
  SellerTable,     (* id -> [active] *)
  ProductTable,    (* id -> [category, listPrice, stock, active] *)
  PERIOD_DAYS,     (* period -> its days *)
  PLACEHOLDER_LIST_PRICES   (* prices that stand for no price *)

ASSUME CatalogueTyped ==
  /\ IsFiniteSet(DOMAIN CustomerTable)
  /\ \A c \in DOMAIN CustomerTable : Column(CustomerTable[c].state)
  /\ IsFiniteSet(DOMAIN ProductTable) /\ \A g \in DOMAIN ProductTable : ProductTable[g].stock \in Int
  /\ \A period \in DOMAIN PERIOD_DAYS : PERIOD_DAYS[period] \in Int

Now == today + 1

MonthStart(m) == 7 * (m \div 2) + 4 * (m % 2)
MonthOf(day) == 2 * (day \div 7) + IF day % 7 >= 4 THEN 1 ELSE 0
MonthLength(m) == MonthStart(m + 1) - MonthStart(m)
YearStart(day) == MonthStart(12 * (MonthOf(day) \div 12))

-----------------------------------------------------------------------------
(* The start and the end (excluded) of the period of the filters; either   *)
(* may be open.                                                            *)
date_bounds(f) ==
  <<Coalesce(f.dateFrom,
      IF f.period \in DOMAIN PERIOD_DAYS THEN {Now - PERIOD_DAYS[f.period]}
      ELSE IF f.period = "ytd" THEN {YearStart(today)} ELSE {}),
    {d + 1 : d \in f.dateTo}>>

(* The same day some months away, or the last day of a shorter month.      *)
ShiftMonths(day, months) ==
  LET m == MonthOf(day)
      n == IF day - MonthStart(m) < MonthLength(m + months)
           THEN day - MonthStart(m) ELSE MonthLength(m + months) - 1
  IN MonthStart(m + months) + n

ComparisonMonths(f) ==
  IF f.dateFrom = {} /\ f.dateTo = {} /\ f.period \in {"ytd", "365d"} THEN -12 ELSE -1

(* The period the report compares with.                                    *)
previous_bounds(f) ==
  LET bounds == date_bounds(f)
  IN IF bounds[1] = {} THEN <<{}, {}>>
     ELSE <<{ShiftMonths(The(bounds[1]), ComparisonMonths(f))},
            {ShiftMonths(ValueOr(bounds[2], Now), ComparisonMonths(f))}>>

-----------------------------------------------------------------------------
Within(day, bounds) ==
  /\ \A start \in bounds[1] : day >= start
  /\ \A end \in bounds[2] : day < end

(* A nullable column under an IN of a filter that names some values.       *)
Among(column, ids) == ids = {} \/ column \cap ids # {}

(* NULL is in no list of exclusions, and NOT IN of NULL is not true.       *)
NotExcluded(column, ids) == ids = {} \/ (column # {} /\ column \cap ids = {})

ProductScoped(f) == f.productIds # {} \/ f.categoryIds # {}

ChosenProduct(good, f) ==
  /\ good \in DOMAIN ProductTable
  /\ f.productIds # {} => good \in f.productIds
  /\ f.categoryIds # {} => ProductTable[good].category \in f.categoryIds

ListPrice(good) ==
  {ProductTable[good].listPrice} \ PLACEHOLDER_LIST_PRICES

CustomerPredicates(buyer, f) ==
  /\ Among(CustomerTable[buyer].state, f.states)
  /\ f.activeOnly => CustomerTable[buyer].active

order_conditions(row, f, bounds) ==
  /\ Within(row.day, bounds)
  /\ f.statuses # {} => row.status \in f.statuses
  /\ Among(row.seller, f.sellerIds)
  /\ Among(row.buyer, f.customerIds)
  /\ NotExcluded(row.buyer, f.excludedCustomerIds)
  /\ Among(row.kind, f.orderTypeIds)
  /\ \A low \in f.minValue : row.total >= low
  /\ \A high \in f.maxValue : row.total <= high
  /\ (f.states # {} \/ f.activeOnly) =>
       \E buyer \in row.buyer \cap DOMAIN CustomerTable : CustomerPredicates(buyer, f)
  /\ ProductScoped(f) =>
       \E i \in DOMAIN row.items :
         ~row.items[i].excluded /\ \E good \in row.items[i].good : ChosenProduct(good, f)

Matching(f, bounds) == {o \in DOMAIN book : order_conditions(book[o], f, bounds)}
OfStatus(orders, statuses) == {o \in orders : book[o].status \in statuses}
SalesIn(f, bounds) == OfStatus(Matching(f, bounds), VALID_SALE_STATUSES)
Cancelled(f, bounds) == OfStatus(Matching(f, bounds), CANCELLED_ORDER_STATUSES)

-----------------------------------------------------------------------------
(* Joins: the lines of some orders that are not struck out, and those of   *)
(* them whose product is in the catalogue and in the filters.              *)
LinesOf(orders) ==
  UNION {{<<o, i>> : i \in {j \in DOMAIN book[o].items : ~book[o].items[j].excluded}}
           : o \in orders}
Line(l) == book[l[1]].items[l[2]]
ProductLines(orders, f) ==
  {l \in LinesOf(orders) : \E good \in Line(l).good : ChosenProduct(good, f)}

LinesValue(lines) == SumOver(lines, LAMBDA l : Line(l).total)
LinesQuantity(lines) == SumOver(lines, LAMBDA l : Line(l).quantity)
LinesDiscount(lines) == SumOver(lines, LAMBDA l : Line(l).discount)
BuyersOf(orders) == UNION {book[o].buyer : o \in orders}

HeaderRevenue(o) == ValueOr(book[o].net, book[o].total)

(* The value of an order by its header.                                    *)
HeaderOrderValues(orders) ==
  [o \in orders |->
    [current |-> HeaderRevenue(o),
     gross |-> ValueOr(Coalesce(book[o].gross, book[o].net), book[o].total),
     discount |-> ValueOr(book[o].discountValue, book[o].discount),
     items |-> book[o].itemCount, skus |-> book[o].skuCount]]

(* ... and by its lines, when the filters choose among products: only what *)
(* was sold of those.  An order without such a line has no row.            *)
CurrentOrderValues(orders, f) ==
  LET mine(o) == IF ProductScoped(f) THEN ProductLines({o}, f) ELSE LinesOf({o})
      priced(o) == {l \in mine(o) : Line(l).list # {}}
  IN [o \in {x \in orders : mine(x) # {}} |->
       [current |-> LinesValue(mine(o)),
        gross |-> IF priced(o) = {} THEN LinesValue(mine(o))
                  ELSE SumOver(priced(o), LAMBDA l : Line(l).quantity * The(Line(l).list)),
        discount |-> LinesDiscount(mine(o)),
        items |-> LinesQuantity(mine(o)),
        skus |-> Cardinality(UNION {Line(l).good : l \in mine(o)})]]

AnalyticOrderValues(orders, f) ==
  IF ProductScoped(f) THEN CurrentOrderValues(orders, f) ELSE HeaderOrderValues(orders)

NetOf(values) == SumOver(DOMAIN values, LAMBDA o : values[o].current)

===============================================================================
