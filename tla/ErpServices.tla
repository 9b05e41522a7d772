----------------------------- MODULE ErpServices -----------------------------
(***************************************************************************)
(* The local services of the ERP over one database: purchasing with stock  *)
(* and payables, the receivables and refunds of sales orders, their        *)
(* shipping quotes and their invoice drafts; and the sessions of those who *)
(* use them.  The groups that share no row take turns: which group moves   *)
(* is chosen at first (focus), so that the state spaces add up instead of  *)
(* multiplying.                                                            *)
(***************************************************************************)
EXTENDS Purchasing, Refunds, Shipping, InvoiceDrafts, OperatorSessions

CONSTANT Budget  (* model bound: the transactions each group may commit *)

ASSUME BudgetTyped ==
  Budget \in [{"purchasing", "money", "shipping", "invoices", "access"} -> 0..MaxCommits]

(* The causal key of a title names a receipt or a sale, never both.       *)
ASSUME TitlesHaveOneCause == \A o \in Sales : TitlesOf(o) \cap Receipts = {}

VARIABLE focus   (* which group of services this behaviour is about *)

purchaseTables == <<stockTables, orderTables>>
services == <<focus, ledgers, sale, refund, shippingTables, draft, accessVars>>

ServicesInit ==
  /\ focus \in DOMAIN Budget
  /\ commits = MaxCommits - Budget[focus]
  /\ EmptyLedgers /\ SalesInit /\ RefundsInit /\ DraftsInit /\ AccessInit
  /\ IF focus = "shipping" THEN ShippingInit ELSE NoQuotes

(* The synchronisation brings a new content of some order.                 *)
OrderChanges == \E o \in Sales, c \in Contents : Resync(o, c)

(* A request that is refused, or whose connection is lost.                 *)
GivesUp == \E s \in Sessions : RollsBack(s)

MoneyNext ==
  \/ \E s \in Sessions : RefundStep(s)
  \/ (\E s \in Sessions : MoneyStep(s)) /\ UNCHANGED <<sale, refund>>
  \/ /\ \E s \in Sessions : \/ \E o \in Sales : ReadOrder(s, o)
                              \/ \E known \in BOOLEAN : CreateReceivable(s, known)
     /\ UNCHANGED refund
  \/ OrderChanges /\ UNCHANGED <<moneyTables, refund>>
  \/ GivesUp /\ UNCHANGED <<sale, refund, moneyTables>>

ShippingNext ==
  \/ \E s \in Sessions : ShippingStep(s)
  \/ \E x \in Options : Expire(x)
  \/ OrderChanges /\ UNCHANGED shippingTables
  \/ GivesUp /\ UNCHANGED <<sale, shippingTables>>

InvoicesNext ==
  \/ \E s \in Sessions : DraftStep(s)
  \/ OrderChanges /\ UNCHANGED draft
  \/ GivesUp /\ UNCHANGED <<sale, draft>>

AccessNext == RevokeSome \/ \E s \in Sessions : AccessStep(s)

ServicesNext ==
  /\ \/ /\ focus = "purchasing" /\ PurchasingNext
        /\ UNCHANGED <<sale, refund, shippingTables, draft, accessVars>>
     \/ /\ focus = "money" /\ MoneyNext
        /\ UNCHANGED <<purchaseTables, shippingTables, draft, accessVars>>
     \/ /\ focus = "shipping" /\ ShippingNext
        /\ UNCHANGED <<purchaseTables, moneyTables, refund, draft, accessVars>>
     \/ /\ focus = "invoices" /\ InvoicesNext
        /\ UNCHANGED <<purchaseTables, moneyTables, refund, shippingTables, accessVars>>
     \/ /\ focus = "access" /\ AccessNext
        /\ UNCHANGED <<purchaseTables, moneyTables, sale, refund, shippingTables, draft>>
  /\ UNCHANGED focus

ServicesSpec == ServicesInit /\ [][ServicesNext]_services

-----------------------------------------------------------------------------
(* The pages of the orders agree with themselves: whatever the services    *)
(* did, the state an order shows is the one it is counted and found under, *)
(* for its money and for its freight, although two different queries       *)
(* compute them (state_provider and filter_provider).                      *)
PagesAgree == ShippingTypeOK /\ CountsAddUp /\ FoundUnderItsState

===============================================================================
