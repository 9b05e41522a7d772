----------------------------- MODULE OrderFinance -----------------------------
(***************************************************************************)
(* The receivable of a sales order and what is shown of it                 *)
(* (app/erp/services/order_finance.py): at most one title of an order is   *)
(* active; its state is derived from the titles and payments of Finance,   *)
(* once per order for a page and once as a filter.                         *)
(***************************************************************************)
EXTENDS Finance, SalesOrders

CONSTANTS
  OrderTitles,   (* the titles an order may get, by their causal keys' number *)
  BilledAtOrigin (* the orders that already have a title at Mercos *)

ASSUME SalesAreFinite == IsFiniteSet(Sales)
ASSUME OrderTitlesTyped ==
  /\ \A o \in Sales : OrderTitles[o] \in Seq(Titles)
  /\ \A o, q \in Sales : \A i \in DOMAIN OrderTitles[o], j \in DOMAIN OrderTitles[q] :
       OrderTitles[o][i] = OrderTitles[q][j] => o = q /\ i = j
  /\ BilledAtOrigin \subseteq Sales

TitlesOf(o) == {OrderTitles[o][i] : i \in DOMAIN OrderTitles[o]}
ActiveTitles(o) == {t \in TitlesOf(o) : title[t] \notin {"absent", "cancelled"}}
KnownTitles(o) == {t \in TitlesOf(o) : title[t] # "absent"}

Total(t) == SumFunction([i \in InstallmentsOf(t) |-> Installment[i].amount])
Settled(t) == SumFunction([i \in InstallmentsOf(t) |-> installment[i].settled])

-----------------------------------------------------------------------------
(* create_order_receivable                                                 *)

NothingActive(o) == ActiveTitles(o) = {}

(* The order is read, and only then locked: what it held when it was read  *)
(* decides whether a receivable is allowed.                                *)
ReadOrder(s, o) ==
  /\ Starts(s, [do |-> "receivable", locks |-> {}, o |-> o, seen |-> sale[o]])
  /\ UNCHANGED <<sale, moneyTables>>

(* The titles are read under the lock; the causal key counts those the     *)
(* order has had.                                                          *)
CreateReceivable(s, acknowledged) ==
  LET o == tx[s].o
      n == Cardinality(KnownTitles(o)) + 1
  IN /\ tx[s].do = "receivable"
     /\ n \in DOMAIN OrderTitles[o]
     /\ Free(s, {SaleRow(o)})
     /\ Allowed(tx[s].seen, "receivable")
     /\ Sale[tx[s].seen].total > 0
     /\ NothingActive(o)
     /\ o \in BilledAtOrigin => acknowledged
     /\ tx' = [tx EXCEPT ![s] =
          [do |-> "money", locks |-> {SaleRow(o)},
           title |-> OneRow(OrderTitles[o][n], "open"),
           installment |-> NoRows, payment |-> NoRows]]
     /\ UNCHANGED <<commits, sale, moneyTables>>

-----------------------------------------------------------------------------
(* state_provider, filter_provider, _cash                                  *)

Obligation(o) == SumFunction([t \in ActiveTitles(o) |-> Total(t)])
PaidOf(o) == SumFunction([t \in ActiveTitles(o) |-> Settled(t)])

Derived(obligation, paid) ==
  CASE obligation <= 0 -> "none"
    [] obligation > 0 /\ paid <= 0 -> "open"
    [] obligation > 0 /\ paid > 0 /\ paid >= obligation -> "paid"
    [] OTHER -> "partial"

FinanceState(o) == Derived(Obligation(o), PaidOf(o))

(* Mutant: an order whose titles were cancelled counts as open.            *)
FilterAnyTitle(o, value) ==
  CASE value = "none" -> KnownTitles(o) = {}
    [] value = "open" -> KnownTitles(o) # {} /\ PaidOf(o) <= 0
    [] value = "partial" -> PaidOf(o) > 0 /\ PaidOf(o) < Obligation(o)
    [] value = "paid" -> Obligation(o) > 0 /\ PaidOf(o) >= Obligation(o)

FinanceFilter(o, value) ==
  CASE value = "none" -> ActiveTitles(o) = {}
    [] value = "open" -> ActiveTitles(o) # {} /\ PaidOf(o) <= 0
    [] value = "partial" -> PaidOf(o) > 0 /\ PaidOf(o) < Obligation(o)
    [] value = "paid" -> Obligation(o) > 0 /\ PaidOf(o) >= Obligation(o)

(* Cash of the period: payments less reversals, of cancelled titles too.   *)
OrderPayments == {p \in Payments : \E o \in Sales : TitleOf(p) \in TitlesOf(o)}
MoneyIn(statuses) ==
  SumFunction([p \in {q \in OrderPayments : payment[q] \in statuses} |-> Payment[p].amount])
Received == MoneyIn({"paid", "reversed"})
Reversed == MoneyIn({"reversed"})

(* _receivable: what is open of the active titles.                         *)
OpenOf(t) ==
  SumFunction([i \in InstallmentsOf(t) |->
                 LET open == Installment[i].amount - installment[i].settled
                 IN IF open <= 0 THEN 0 ELSE open])

-----------------------------------------------------------------------------
(* Properties *)

(* An order has at most one active local title, whoever creates, pays and  *)
(* cancels at the same time (the obligation is never doubled).             *)
OneObligation == \A o \in Sales : Cardinality(ActiveTitles(o)) <= 1

(* Each order is in exactly one of the financial states the list filters   *)
(* by, and it is the state the page shows: the counts add up.              *)
CountsAddUp ==
  \A o \in Sales :
    {v \in {"none", "open", "partial", "paid"} : FinanceFilter(o, v)} = {FinanceState(o)}

(* The three money figures agree whatever was reversed or cancelled: the   *)
(* cash received, net of reversals, is what the orders show as paid, and   *)
(* with what is still open it makes up the obligation (order_finance.py:3-11). *)
MoneyAddsUp ==
  /\ Received - Reversed = SumFunction([o \in Sales |-> PaidOf(o)])
  /\ \A o \in Sales :
       Obligation(o) = PaidOf(o) + SumFunction([t \in ActiveTitles(o) |-> OpenOf(t)])

===============================================================================
