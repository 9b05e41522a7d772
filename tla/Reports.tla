------------------------------- MODULE Reports -------------------------------
(***************************************************************************)
(* What the reports of the BI have to agree on.  Each figure is computed   *)
(* by a query of its own, most of them more than once; a reader compares   *)
(* them on one screen.                                                     *)
(***************************************************************************)
EXTENDS Savings

CONSTANTS
  FilterSet,   (* the filters an instance asks with *)
  DaySet,      (* the numbers of days it asks the older reports for *)
  BandLimits   (* the upper limits of the bands of values *)

(* What a filter says; the numbers of days.                                *)
FilterFields ==
  {"dateFrom", "dateTo", "period", "granularity", "statuses", "sellerIds", "customerIds",
   "excludedCustomerIds", "orderTypeIds", "minValue", "maxValue", "states", "activeOnly",
   "productIds", "categoryIds"}

ASSUME QuestionsTyped ==
  /\ \A f \in FilterSet :
       FilterFields \subseteq DOMAIN f /\ Amount(f.dateFrom) /\ Amount(f.dateTo)
  /\ DaySet \subseteq Int

(* What the origin sends is not negative, and was not issued after it was  *)
(* changed.                                                                *)
ASSUME OriginIsSound ==
  \A o \in BookOrders : \A v \in DOMAIN Versions[o] :
    LET p == Versions[o][v]
    IN /\ p.total >= 0 /\ \A n \in p.net : n >= 0
       /\ ValueOr(Coalesce(p.issued, p.created), p.updated) <= p.updated
       /\ \A i \in DOMAIN p.items :
            /\ p.items[i].quantity >= 0 /\ p.items[i].subtotal >= 0
            /\ \A price \in p.items[i].net \cup p.items[i].list : price >= 0

Field(rows, value(_)) == SumOver(DOMAIN rows, LAMBDA x : value(rows[x]))

-----------------------------------------------------------------------------
(* The series of a period adds up to its key figures, bucket by bucket,    *)
(* also when the period is filled with empty buckets; cancellations may be *)
(* missing, in a bucket without a sale.                                    *)
SeriesAddsUp(series, total) ==
  /\ Field(series, LAMBDA b : b.orders) = total.orders
  /\ Field(series, LAMBDA b : b.revenue) = total.netRevenue
  /\ Field(series, LAMBDA b : b.items) = total.items
  /\ Field(series, LAMBDA b : b.discounts) = total.discountTotal
  /\ Field(series, LAMBDA b : b.cancellations) <= total.cancellations
  /\ \A b \in DOMAIN series : series[b].customers <= total.customers

(* The buyers of a period are the new ones and the recurring ones.         *)
MixAddsUp(f, total, mix) ==
  date_bounds(f)[1] # {} /\ ~ProductScoped(f) => mix[1] + mix[2] = total.customers

(* What a whole month is compared with ends where the month begins, and    *)
(* begins with a month.                                                    *)
MonthsMeet(f) ==
  LET whole(bounds) == \A side \in {1, 2} : \E day \in bounds[side] : day = MonthStart(MonthOf(day))
      oneMonth(bounds) == MonthOf(The(bounds[2])) = MonthOf(The(bounds[1])) + 1
      now == date_bounds(f)
  IN f.dateFrom # {} /\ whole(now) /\ oneMonth(now) =>
       /\ whole(previous_bounds(f)) /\ oneMonth(previous_bounds(f))
       /\ previous_bounds(f)[2] = now[1]

(* The list of the orders, its summary and its bands, and the breakdown by *)
(* status, show what the key figures show.                                 *)
ListAddsUp(f, total, list, status, bands) ==
  LET of(statuses) == DOMAIN status \cap statuses
  IN /\ list.validOrders = total.orders /\ list.orderValue = total.netRevenue
     /\ Field(bands, LAMBDA b : b.orders) = total.orders
     /\ Field(bands, LAMBDA b : b.value) = total.netRevenue
     /\ Field(StatusDistribution(f), LAMBDA n : n) = total.allOrders
     /\ SumOver(of(CANCELLED_ORDER_STATUSES), LAMBDA s : status[s].orders) = total.cancellations
     /\ ProductScoped(f) \/
          /\ SumOver(of(VALID_SALE_STATUSES), LAMBDA s : status[s].value) = total.netRevenue
          /\ Field(ValueBands(f, BandLimits), LAMBDA b : b.value) = total.netRevenue

-----------------------------------------------------------------------------
RankedAs(ranking, rows) ==
  \A x \in DOMAIN ranking :
    ranking[x].orders = rows[x].orders /\ ranking[x].revenue = rows[x].revenue

(* The sellers and the customers add up to the whole, but for the orders   *)
(* of nobody; without a choice of products the rankings say the same.      *)
PeopleAddUp(f, total, sellers, buyers) ==
  LET values == AnalyticOrderValues(Sales(f), f)
      nobody == {o \in DOMAIN values : book[o].seller = {}}
  IN /\ Revenues(sellers) + SumOver(nobody, LAMBDA o : values[o].current) = total.netRevenue
     /\ Revenues(buyers) = total.netRevenue /\ OrderCounts(buyers) = total.orders
     /\ ProductScoped(f) \/
          /\ RankedAs(RankingCustomers(f), [c \in BuyersOf(DOMAIN values) |-> buyers[{c}]])
          /\ RankedAs(RankingSellers(f), sellers)

(* The tiers of customers are a partition of them.                         *)
TiersAddUp(tiers) ==
  LET parts == <<tiers.top[1], tiers.next, tiers.nextBut1, tiers.rest>>
  IN /\ SumOver(1..4, LAMBDA i : parts[i].revenue) = tiers.all.revenue
     /\ SumOver(1..4, LAMBDA i : parts[i].customers) = tiers.all.customers
     /\ tiers.top[3].orders + tiers.rest.orders = tiers.all.orders

(* The page of one customer, seller or product, opened from the list,      *)
(* shows the row of the list.                                              *)
DrillDownAgrees(f, products, customers, sellers) ==
  /\ f.sellerIds = {} =>
       \A s \in DOMAIN sellers : \A detail \in seller_detail(s, f) :
         /\ detail.row = sellers[s]
         /\ detail.orders.orderValue = detail.row.revenue
         /\ detail.row.newCustomers <= detail.row.customers
  /\ f.customerIds = {} =>
       \A c \in DOMAIN customers : \A detail \in customer_detail(c, f) :
         /\ detail.row.revenue = customers[c].revenue
         /\ detail.orders.validOrders = detail.row.orders
  /\ f.productIds = {} =>
       \A g \in DOMAIN products : \A detail \in product_detail(g, f) :
         /\ detail.row.revenue = products[g].revenue
         /\ detail.orders.orderValue = detail.row.revenue

(* The ranking says what the page does, and no two products were sold      *)
(* together more often than one of them.                                   *)
RankedProductsAgree(f, sold, ranking, together) ==
  /\ ProductScoped(f) \/ \A g \in DOMAIN sold : ranking[g].revenue = sold[g].revenue
  /\ \A pair \in DOMAIN together : \A g \in pair \cap DOMAIN ranking :
       together[pair] <= ranking[g].orders

(* The products by class: the insights count those that earned something   *)
(* as the page classes them; the classes are the same money.               *)
ProductsAddUp(f, sold, page, insights, abc) ==
  LET earning == {g \in DOMAIN page : page[g].revenue > 0}
      stock == inventory_page(f)
  IN /\ Field(abc, LAMBDA k : k.revenue) = Revenues(sold)
     /\ Field(abc, LAMBDA k : k.entities) = Cardinality(DOMAIN sold)
     /\ insights.revenue = Revenues(sold)
     /\ \A k \in DOMAIN insights.abc :
          ~f.activeOnly => insights.abc[k] = Cardinality({g \in earning : page[g].abc = k})
     /\ insights.needed[80] <= insights.needed[95]
     /\ insights.products > 0 => insights.needed[95] <= insights.products
     /\ Field(insights.mix, LAMBDA n : n) = insights.products
     /\ stock.positive + stock.empty = Cardinality(DOMAIN page)
     /\ RankedProductsAgree(f, sold, RankingProducts(f), associations(f))

(* Every customer is in one cohort; all of one bought in its first month,  *)
(* and what they bought since is what the lines of the sales add up to.    *)
CohortsAddUp(values, rows, curve) ==
  LET mine == {o \in DOMAIN values : book[o].buyer # {}}
  IN /\ Field(rows, LAMBDA k : k.size) = Cardinality(BuyersOf(mine))
     /\ \A k \in DOMAIN rows : rows[k].retention[0].customers = rows[k].size
     /\ Field(rows, LAMBDA k : Field(k.retention, LAMBDA cell : cell.revenue))
          = SumOver(mine, LAMBDA o : values[o].current)
     /\ \A n \in DOMAIN curve :
          /\ curve[n].active <= curve[n].eligible
          /\ \A m \in 0..n : curve[m].eligible >= curve[n].eligible

CurveAddsUp(values, rows) == CohortsAddUp(values, rows, RetentionCurve(rows))
CohortsOfAddUp(values) == CurveAddsUp(values, cohorts(values))

(* The states add up to the sales of customers whose state is known.       *)
MapAddsUp(f, total) ==
  LET states == geography(f)
  IN Field(states, LAMBDA s : s.revenue) <= total.netRevenue

(* Each report is asked for once, and compared with the others.            *)
SalesAgree(f, total, mix) ==
  /\ SeriesAddsUp(timeseries(f), total) /\ MixAddsUp(f, total, mix)
  /\ ListAddsUp(f, total, OrdersSummary(f), StatusBreakdown(f), ValueDistribution(f, BandLimits))
  /\ PeopleAddUp(f, total, SellerAggregate(f), CustomerAggregate(f)) /\ MapAddsUp(f, total)
  /\ TiersAddUp(CustomerTiers(RankedCustomers(CustomerAggregate(f))))

GoodsAgree(f, sold, products) ==
  /\ ProductsAddUp(f, sold, products, product_insights(sold), breakdowns(f).productAbc)
  /\ DrillDownAgrees(f, products, customers_page(f), sellers_page(f))

FiguresOf(f, current) == SalesAgree(f, current.summary, current.mix)

FiguresAgree(f) ==
  /\ MonthsMeet(f) /\ FiguresOf(f, overview(f).current)
  /\ GoodsAgree(f, ProductAggregate(f), products_page(f))
  /\ CohortsOfAddUp(CurrentOrderValues(Sales(f), f))

-----------------------------------------------------------------------------
(* The dashboard agrees with itself and with the insight into the orders;  *)
(* the segments are a partition of the customers, and what does not sell   *)
(* and what was sold are a partition of the stock.                         *)
DashboardAgrees(days) ==
  LET d == dashboard(days)
      insight == orders_insight(days)
      listed(rows) == Field(rows, LAMBDA r : r.revenue)
      stocked == {g \in DOMAIN ProductTable : ProductTable[g].stock > 0 /\ ProductTable[g].active}
  IN /\ listed(d.evolution) = d.kpis.revenue /\ listed(d.weekdays) = d.kpis.revenue
     /\ insight.kpis = [orders |-> d.kpis.orders, revenue |-> d.kpis.revenue]
     /\ listed(d.regions) = listed(d.customers) /\ listed(d.sellers) <= d.kpis.revenue
     /\ d.today.revenue <= d.kpis.revenue
     /\ \A c \in DOMAIN d.customers :
          rankings(days).customers[c].revenue >= d.customers[c].revenue
     /\ Field(SegmentSummary(days), LAMBDA n : n) = Cardinality(DOMAIN CustomerTable)
     /\ Cardinality(leads_to_recover(days))
          = SegmentSummary(days)["em_risco"] + SegmentSummary(days)["recuperar"]
     /\ \A g \in DOMAIN dead_stock(days) :
          /\ {g} \notin DOMAIN product_movers(days)
          /\ \A last \in dead_stock(days)[g].lastSale : days > 0 /\ today - last >= days
     /\ \A g \in stocked \ DOMAIN dead_stock(days) : {g} \in DOMAIN product_movers(days)

(* The savings of the club are the same by order, product, customer, week  *)
(* and size of the drop, and every basket line is dropped, unchanged or    *)
(* new.                                                                    *)
SavingsAddUp(s, tiers) ==
  LET saved(rows) == Field(rows, LAMBDA r : r.savings)
  IN /\ saved(s.products) = s.club.savings /\ saved(s.customers) = s.club.savings
     /\ saved(s.weekly) = s.club.savings
     /\ Field(s.buckets, LAMBDA n : n) = s.club.savings
     /\ tiers[1] + tiers[2] + tiers[3] + tiers[4] = s.club.savings
     /\ s.club.after + s.unchanged.after + s.new.after = Saved(s.lines).after
     /\ s.club.before - s.club.savings = s.club.after

SavingsAgree(s) == SavingsAddUp(s, SavingsTiers(s.customers))

(* The stages are a partition of the carts of a period.                    *)
CartsAddUp(f) ==
  LET r == cart_report(f)
  IN /\ r.identified = Cardinality(r.items["all"]) /\ r.identified <= r.b2b
     /\ date_bounds(f) = <<{}, {}>> => \A o \in Carts(f) : book[o].b2b # {}

(* What the quality report counts as known is part of what there is, when  *)
(* that is counted; PostgreSQL's estimate of it may be behind.             *)
QualityAddsUp ==
  LET c == DataQuality.coverage
  IN /\ c.withCustomer <= c.orders /\ c.withSeller <= c.orders /\ c.recognized <= c.orders
     /\ c.withProduct <= c.items

(* The reports agree, whatever the synchronisation has stored.             *)
ReportsAgree ==
  /\ \A f \in FilterSet : FiguresAgree(f) /\ CartsAddUp(f)
  /\ \A days \in DaySet : DashboardAgrees(days)
  /\ SavingsAgree(price_savings) /\ QualityAddsUp

===============================================================================
