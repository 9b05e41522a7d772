------------------------------- MODULE Savings -------------------------------
(***************************************************************************)
(* What the customers of the club saved: the lines of the recent orders    *)
(* that cost less than the product did on average in the window before     *)
(* (src/app/services/price_savings.py), and the report on shopping carts   *)
(* (src/app/services/b2b_carts.py).  Money is whole: the grid it is        *)
(* rounded to.                                                             *)
(***************************************************************************)
EXTENDS Dashboards

CONSTANTS
  CURRENT_WINDOW_DAYS, PRIOR_LOOKBACK_DAYS,
  ClubFilters,               (* the filters of the report: every order *)
  AbandonmentDays            (* a cart nobody touched for so long may be abandoned *)

MAX_DROP_PCT == 70
DROP_LIMITS == <<10, 20, 30, 50>>

(* To the nearest, and to the even one of two.                             *)
Rounded(a, b) ==
  LET q == a \div b
      r == a % b
  IN IF 2 * r > b \/ (2 * r = b /\ q % 2 = 1) THEN q + 1 ELSE q

ClubStart == Now - CURRENT_WINDOW_DAYS
ClubSales == SalesIn(ClubFilters, <<{ClubStart}, {Now}>>)
PriorSales == SalesIn(ClubFilters, <<{ClubStart - PRIOR_LOOKBACK_DAYS}, {ClubStart}>>)

(* A total that is missing is what the quantity and the price make.        *)
LineTotal(item) == IF item.total > 0 THEN item.total ELSE item.quantity * item.unit

Purchases(orders) ==
  {l \in LinesOf(orders) : Line(l).good # {} /\ Line(l).quantity > 0}

(* The average price each product had before.                              *)
PreviousUnit ==
  LET lines == Purchases(PriorSales)
  IN [g \in UNION {Line(l).good : l \in lines} |->
       LET mine == {l \in lines : g \in Line(l).good}
       IN Rounded(SumOver(mine, LAMBDA l : LineTotal(Line(l))), LinesQuantity(mine))]

(* The lines of a product in one order are one line of its basket.         *)
BasketOf(o) ==
  [g \in UNION {Line(l).good : l \in Purchases({o})} |->
    LET mine == {l \in Purchases({o}) : g \in Line(l).good}
    IN [quantity |-> LinesQuantity(mine), total |-> SumOver(mine, LAMBDA l : LineTotal(Line(l)))]]

Baskets == {o \in ClubSales : BasketOf(o) # << >>}

(* A price before that is none, a placeholder or too far off does not      *)
(* count.                                                                  *)
PlausibleBefore(before, net) ==
  /\ before > net /\ net > 0 /\ before \notin PLACEHOLDER_LIST_PRICES
  /\ 100 * (before - net) <= MAX_DROP_PCT * before

LineSavings(line, before) ==
  LET net == Rounded(line.total, line.quantity)
  IN IF PlausibleBefore(before, net) THEN line.quantity * (before - net) ELSE 0

(* The lines of the baskets: what was paid, and what it would have cost.   *)
BasketLines ==
  LET unit == PreviousUnit
  IN UNION {{[order |-> o, good |-> g, quantity |-> BasketOf(o)[g].quantity,
              after |-> BasketOf(o)[g].total, known |-> g \in DOMAIN unit,
              savings |-> IF g \in DOMAIN unit THEN LineSavings(BasketOf(o)[g], unit[g]) ELSE 0]
               : g \in DOMAIN BasketOf(o)} : o \in Baskets}

Saved(lines) ==
  [savings |-> SumOver(lines, LAMBDA l : l.savings), after |-> SumOver(lines, LAMBDA l : l.after),
   before |-> SumOver(lines, LAMBDA l : l.after + l.savings),
   orders |-> Cardinality({l.order : l \in lines})]

SavedBy(lines, key(_)) ==
  [k \in {key(l) : l \in lines} |-> Saved({l \in lines : key(l) = k})]

(* An order of nobody is a customer of its own.                            *)
WhoSaved(l) == IF book[l.order].buyer = {} THEN {l.order} ELSE book[l.order].buyer

DropPct(saved) == Rounded(100 * saved.savings, saved.before)

SavingsOf(lines, dropped, products) ==
  [club |-> Saved(dropped), lines |-> lines, products |-> products,
   customers |-> SavedBy(dropped, WhoSaved),
   weekly |-> SavedBy(dropped, LAMBDA l : FloorBucket(book[l.order].day, "week")),
   buckets |-> [b \in {BandOf(DropPct(products[g]), DROP_LIMITS) : g \in DOMAIN products} |->
     SumOver({g \in DOMAIN products : BandOf(DropPct(products[g]), DROP_LIMITS) = b},
             LAMBDA g : products[g].savings)],
   unchanged |-> Saved({l \in lines \ dropped : l.known}),
   new |-> Saved({l \in lines : ~l.known}),
   revenue |-> SumOver(Baskets, HeaderRevenue)]

SavingsOfLines(lines) ==
  LET dropped == {l \in lines : l.savings > 0}
  IN SavingsOf(lines, dropped, SavedBy(dropped, LAMBDA l : l.good))

price_savings == SavingsOfLines(BasketLines)

(* The savings of the first so many, the next and the rest of a ranking.   *)
SavingsTiersOf(rollups, ranked) ==
  LET upTo(n) == IF n < Len(ranked) THEN n ELSE Len(ranked)
      tier(from, to) == SumOver(from + 1..upTo(to), LAMBDA i : rollups[ranked[i]].savings)
  IN <<tier(0, Tiers[1]), tier(Tiers[1], Tiers[2]), tier(Tiers[2], Tiers[3]),
       tier(Tiers[3], Len(ranked))>>

SavingsTiers(rollups) ==
  SavingsTiersOf(rollups,
    Sorted(DOMAIN rollups, LAMBDA x, y : rollups[x].savings >= rollups[y].savings))

-----------------------------------------------------------------------------
STAGES == {"open", "possible_abandonment", "converted", "completed_quote", "cancelled", "other"}

CartStage(row) ==
  LET quote == row.status \in QUOTE_ORDER_STATUSES
  IN CASE row.status \in CANCELLED_ORDER_STATUSES -> "cancelled"
       [] 2 \in row.b2b /\ row.status \in VALID_SALE_STATUSES -> "converted"
       [] 2 \in row.b2b /\ quote -> "completed_quote"
       [] 1 \in row.b2b /\ quote /\ row.updated <= today - AbandonmentDays -> "possible_abandonment"
       [] 1 \in row.b2b /\ quote -> "open"
       [] OTHER -> "other"

(* The carts the filters let through, whatever their date of issue, that   *)
(* were created in the period.                                             *)
Carts(f) ==
  {o \in Matching(f, <<{}, {}>>) :
     /\ book[o].b2b # {}
     /\ date_bounds(f) # <<{}, {}>> => book[o].created # {}
     /\ \A day \in book[o].created : Within(day, date_bounds(f))}

cart_report(f) ==
  LET groups == [s \in STAGES |-> {o \in Carts(f) : CartStage(book[o]) = s}]
  IN [groups |-> [s \in STAGES |-> Counted(groups[s])],
      items |-> [s \in STAGES \cup {"all"} |-> IF s = "all" THEN Carts(f) ELSE groups[s]],
      identified |-> SumOver(STAGES, LAMBDA s : Cardinality(groups[s])),
      b2b |-> Cardinality({o \in DOMAIN book : book[o].b2b # {}}),
      undated |-> Cardinality({o \in DOMAIN book : book[o].b2b # {} /\ book[o].created = {}})]

===============================================================================
