------------------------------ MODULE Overview ------------------------------
(***************************************************************************)
(* The key figures of a period, their series over time, the list of its    *)
(* orders and the breakdowns of it, each by queries of its own             *)
(* (src/app/services/analytics_v2.py).                                     *)
(***************************************************************************)
EXTENDS Filters

(* The sums of the values of the orders some query selected.               *)
Totals(values) ==
  [orders |-> Cardinality(DOMAIN values),
   grossRevenue |-> SumOver(DOMAIN values, LAMBDA o : values[o].gross),
   netRevenue |-> NetOf(values),
   discountTotal |-> SumOver(DOMAIN values, LAMBDA o : values[o].discount),
   customers |-> Cardinality(BuyersOf(DOMAIN values)),
   items |-> SumOver(DOMAIN values, LAMBDA o : values[o].items),
   skus |-> SumOver(DOMAIN values, LAMBDA o : values[o].skus)]

CancelledTotals(f, bounds) ==
  LET cancelled == Cancelled(f, bounds)
  IN [cancellations |-> Cardinality(cancelled),
      cancelledValue |-> NetOf(AnalyticOrderValues(cancelled, f)),
      allOrders |-> Cardinality(Matching(f, bounds))]

summary_for_bounds(f, bounds) ==
  Joined(Totals(AnalyticOrderValues(SalesIn(f, bounds), f)), CancelledTotals(f, bounds))

-----------------------------------------------------------------------------
(* Every buyer ever, by how often: once, or more.  The end of the period   *)
(* is not asked.                                                           *)
LifetimeMix(f) ==
  LET sales == SalesIn(f, <<{}, {}>>)
      count(c) == Cardinality({o \in sales : c \in book[o].buyer})
  IN <<Cardinality({c \in BuyersOf(sales) : count(c) = 1}),
       Cardinality({c \in BuyersOf(sales) : count(c) > 1})>>

(* The buyers of the period: those without and those with a sale before.   *)
PeriodMix(f, bounds) ==
  LET buyers == BuyersOf(SalesIn(f, bounds))
      earlier == BuyersOf(SalesIn(f, <<{}, bounds[1]>>))
  IN <<Cardinality(buyers \ earlier), Cardinality(buyers \cap earlier)>>

buyer_mix(f, bounds) == IF bounds[1] = {} THEN LifetimeMix(f) ELSE PeriodMix(f, bounds)

(* The key figures of the period and of the one it is compared with.       *)
overview(f) ==
  LET figures(bounds) ==
        [summary |-> summary_for_bounds(f, bounds), mix |-> buyer_mix(f, bounds)]
  IN [current |-> figures(date_bounds(f)),
      previous |-> IF previous_bounds(f)[1] = {} THEN {} ELSE {figures(previous_bounds(f))}]

-----------------------------------------------------------------------------
FloorBucket(day, granularity) ==
  CASE granularity = "day" -> day
    [] granularity = "week" -> day - (day % 7)
    [] granularity = "month" -> MonthStart(MonthOf(day))
    [] granularity = "quarter" -> MonthStart(3 * (MonthOf(day) \div 3))
    [] OTHER -> YearStart(day)

InBucket(orders, b, f) == {o \in orders : FloorBucket(book[o].day, f.granularity) = b}

(* The sums of one bucket: by the headers, or by the lines of the chosen   *)
(* products.                                                               *)
BucketTotals(orders, f) ==
  LET lines == ProductLines(orders, f)
      rows == IF ProductScoped(f) THEN {l[1] : l \in lines} ELSE orders
      values == HeaderOrderValues(orders)
  IN [orders |-> Cardinality(rows), customers |-> Cardinality(BuyersOf(rows)),
      revenue |-> IF ProductScoped(f) THEN LinesValue(lines) ELSE NetOf(values),
      items |-> IF ProductScoped(f) THEN LinesQuantity(lines)
                ELSE SumOver(orders, LAMBDA o : values[o].items),
      discounts |-> IF ProductScoped(f) THEN LinesDiscount(lines)
                    ELSE SumOver(orders, LAMBDA o : values[o].discount)]

(* A bucket has a row when it has a sale: the cancellations of another one *)
(* are counted and thrown away.                                            *)
timeseries_items(f, bounds) ==
  LET sales == SalesIn(f, bounds)
      cancelled == Cancelled(f, bounds)
  IN [b \in {FloorBucket(book[o].day, f.granularity) : o \in sales} |->
       Joined(BucketTotals(InBucket(sales, b, f), f),
              [cancellations |-> Cardinality(InBucket(cancelled, b, f))])]

EmptyBucket == [orders |-> 0, customers |-> 0, revenue |-> 0, items |-> 0,
                discounts |-> 0, cancellations |-> 0]

(* A bounded period shows every bucket from its first to its last day.     *)
dense_timeseries(items, bounds, granularity) ==
  IF bounds[1] = {} \/ bounds[2] = {} THEN items
  ELSE [b \in {FloorBucket(day, granularity) :
                 day \in FloorBucket(The(bounds[1]), granularity)..The(bounds[2]) - 1} |->
         IF b \in DOMAIN items THEN items[b] ELSE EmptyBucket]

timeseries(f) ==
  dense_timeseries(timeseries_items(f, date_bounds(f)), date_bounds(f), f.granularity)

-----------------------------------------------------------------------------
(* One page of the list of orders by date, the later first, and what the   *)
(* whole list adds up to.  Orders without a value under the filters are    *)
(* listed and counted with none.                                           *)
Before(o, p, seq) ==
  \/ book[o].day > book[p].day
  \/ book[o].day = book[p].day /\ seq[o] > seq[p]

PlaceIn(o, orders, seq) == Cardinality({p \in orders : Before(p, o, seq)})

OrdersPage(f, seq, page, size) ==
  LET all == Matching(f, date_bounds(f))
  IN {o \in all : PlaceIn(o, all, seq) \div size = page - 1}

SummaryOf(sales, values) ==
  LET totals == {values[o].current : o \in DOMAIN values}
  IN [validOrders |-> Cardinality(sales), orderValue |-> NetOf(values),
      smallest |-> IF totals = {} THEN 0 ELSE Min(totals),
      largest |-> IF totals = {} THEN 0 ELSE Max(totals)]

OrdersSummary(f) ==
  LET sales == SalesIn(f, date_bounds(f))
  IN SummaryOf(sales, AnalyticOrderValues(sales, f))

StatusDistribution(f) ==
  LET all == Matching(f, date_bounds(f))
  IN [s \in {book[o].status : o \in all} |-> Cardinality(OfStatus(all, {s}))]

(* The band of a value, by the upper limits of the bands.                  *)
BandOf(value, limits) == Cardinality({i \in DOMAIN limits : value >= limits[i]})

Bands(values, limits) ==
  [b \in {BandOf(values[o].current, limits) : o \in DOMAIN values} |->
    LET mine == {o \in DOMAIN values : BandOf(values[o].current, limits) = b}
    IN [orders |-> Cardinality(mine), value |-> SumOver(mine, LAMBDA o : values[o].current)]]

ValueDistribution(f, limits) ==
  Bands(AnalyticOrderValues(SalesIn(f, date_bounds(f)), f), limits)

(* One order and its lines, when the filters let it through.               *)
order_detail(o, f) ==
  IF o \in Matching(f, date_bounds(f))
  THEN {[total |-> HeaderRevenue(o), lines |-> {l[2] : l \in LinesOf({o})}]} ELSE {}

-----------------------------------------------------------------------------
(* The breakdowns go by the headers, whatever products are chosen.         *)
StatusBreakdown(f) ==
  LET all == Matching(f, date_bounds(f))
  IN [s \in {book[o].status : o \in all} |->
       [orders |-> Cardinality(OfStatus(all, {s})),
        value |-> SumOver(OfStatus(all, {s}), HeaderRevenue)]]

ValueBands(f, limits) == Bands(HeaderOrderValues(SalesIn(f, date_bounds(f))), limits)

(* The sales of each state of the country, or each city of it.             *)
ByState(values) ==
  LET stateOf(o) == UNION {CustomerTable[c].state : c \in book[o].buyer \cap DOMAIN CustomerTable}
  IN [s \in UNION {stateOf(o) : o \in DOMAIN values} |->
       LET mine == {o \in DOMAIN values : s \in stateOf(o)}
       IN [orders |-> Cardinality(mine), customers |-> Cardinality(BuyersOf(mine)),
           revenue |-> SumOver(mine, LAMBDA o : values[o].current)]]

geography(f) == ByState(AnalyticOrderValues(SalesIn(f, date_bounds(f)), f))

(* How often two products were sold in one order.                          *)
associations(f) ==
  LET sales == SalesIn(f, date_bounds(f))
      goods(o) == UNION {Line(l).good : l \in LinesOf({o})}
      pairs == UNION {{{a, b} : a, b \in goods(o)} : o \in sales}
  IN [pair \in {p \in pairs : Cardinality(p) = 2} |->
       Cardinality({o \in sales : pair \subseteq goods(o)})]

===============================================================================
