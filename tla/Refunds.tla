------------------------------- MODULE Refunds -------------------------------
(***************************************************************************)
(* The refund requests of payments (app/erp/services/refunds.py).  What is *)
(* refundable is checked with the title locked; a request then moves by    *)
(* updates that ask for its version and status.  A version counts the      *)
(* moves and no status comes back, so the status stands for both here.     *)
(***************************************************************************)
EXTENDS OrderFinance

CONSTANT Refund     (* the requests that may be made: [payment, amount] *)

RefundRequests == DOMAIN Refund

ASSUME RefundsAreFinite == IsFiniteSet(RefundRequests)
ASSUME RefundsTyped ==
  \A f \in RefundRequests : Refund[f] \in [payment : Payments, amount : Nat \ {0}]

VARIABLE refund     (* erp_refund_requests: the status *)

RefundsInit == refund = [f \in RefundRequests |-> "absent"]

(* ACTIVE_REFUND: what still commits money of the payment.                 *)
Committing == {"requested", "approved", "external_confirmed", "reversed_local"}
Closed == {"rejected", "cancelled", "external_confirmed", "reversed_local"}

RefundsOf(p) == {f \in RefundRequests : Refund[f].payment = p}
Commitment(p) ==
  SumFunction([f \in {g \in RefundsOf(p) : refund[g] \in Committing} |-> Refund[f].amount])

RefundRow(f) == <<"refund", f>>

Writes(f, status, locks) ==
  [do |-> "refund", locks |-> locks, refund |-> OneRow(f, status),
   title |-> NoRows, installment |-> NoRows, payment |-> NoRows]

-----------------------------------------------------------------------------
(* Mutant: the title is not locked while the amount is compared.           *)
ContextUnlocked(s, p) == \E o \in Sales : TitleOf(p) \in TitlesOf(o)

(* _settlement_context: the payment of an order's title, which is locked.  *)
Context(s, p) ==
  /\ \E o \in Sales : TitleOf(p) \in TitlesOf(o)
  /\ Free(s, {TitleRow(TitleOf(p))})

RequestRefund(s, f) ==
  LET p == Refund[f].payment IN
    /\ refund[f] = "absent"
    /\ payment[p] = "paid"
    /\ Context(s, p)
    /\ Refund[f].amount <= Payment[p].amount - Commitment(p)
    /\ Starts(s, Writes(f, "requested", {TitleRow(TitleOf(p))}))
    /\ UNCHANGED <<sale, refund, moneyTables>>

(* _move: the conditional update.                                          *)
MayMove(s, f, allowed) == Free(s, {RefundRow(f)}) /\ refund[f] \in allowed

Approve(s, f) ==
  LET p == Refund[f].payment IN
    /\ Context(s, p)
    /\ payment[p] # "reversed"
    /\ MayMove(s, f, {"requested"})
    /\ Starts(s, Writes(f, "approved", {RefundRow(f), TitleRow(TitleOf(p))}))
    /\ UNCHANGED <<sale, refund, moneyTables>>

(* reject, cancel and confirm_external look at the request only.           *)
Decide(s, f, allowed, status) ==
  /\ MayMove(s, f, allowed)
  /\ Starts(s, Writes(f, status, {RefundRow(f)}))
  /\ UNCHANGED <<sale, refund, moneyTables>>

Reject(s, f) == Decide(s, f, {"requested"}, "rejected")
CancelRequest(s, f) == Decide(s, f, {"requested", "approved"}, "cancelled")
ConfirmExternal(s, f) == Decide(s, f, {"approved"}, "external_confirmed")

(* finance.reverse, in the same transaction.                               *)
ReversalOf(f) ==
  LET p == Refund[f].payment
      i == Payment[p].installment
  IN Settling(i, installment[i].settled - Payment[p].amount, p, "reversed")

(* apply_local_reversal: only of a whole payment.                          *)
ApplyLocalReversal(s, f) ==
  LET p == Refund[f].payment
      i == Payment[p].installment
      w == ReversalOf(f)
  IN /\ Context(s, p)
     /\ Refund[f].amount = Payment[p].amount
     /\ payment[p] # "reversed"
     /\ Free(s, {InstallmentRow(i)})
     /\ installment[i].settled >= Payment[p].amount
     /\ MayMove(s, f, {"approved"})
     /\ Starts(s, [do |-> "refund", refund |-> OneRow(f, "reversed_local"),
                   locks |-> {RefundRow(f), TitleRow(TitleOf(p)), InstallmentRow(i)},
                   title |-> w.title, installment |-> w.installment,
                   payment |-> w.payment])
     /\ UNCHANGED <<sale, refund, moneyTables>>

CommitRefund(s) ==
  /\ tx[s].do = "refund"
  /\ refund' = Written(refund, tx[s].refund)
  /\ title' = Written(title, tx[s].title)
  /\ installment' = Written(installment, tx[s].installment)
  /\ payment' = Written(payment, tx[s].payment)
  /\ Commits(s)
  /\ UNCHANGED sale

RefundStep(s) ==
  \/ \E f \in RefundRequests :
       \/ RequestRefund(s, f) \/ Approve(s, f) \/ Reject(s, f)
       \/ CancelRequest(s, f) \/ ConfirmExternal(s, f) \/ ApplyLocalReversal(s, f)
  \/ CommitRefund(s)

-----------------------------------------------------------------------------
(* Properties *)

RefundsTypeOK ==
  refund \in [RefundRequests -> {"absent", "requested", "approved"} \cup Closed]

(* The requests that stand never ask back more than was paid, whatever is  *)
(* requested, rejected and cancelled at the same time (refunds.py:13-16).  *)
RefundsWithinPayment == \A p \in Payments : Commitment(p) <= Payment[p].amount

(* A request marked as reversed locally is a whole payment that was        *)
(* reversed in the books, and no other request stands on that payment for  *)
(* money that was confirmed as returned outside.                           *)
LocalReversalIsReal ==
  \A f \in RefundRequests :
    refund[f] = "reversed_local" =>
      /\ payment[Refund[f].payment] = "reversed"
      /\ \A g \in RefundsOf(Refund[f].payment) \ {f} : refund[g] # "external_confirmed"

(* The money of a sale adds up: what is owed, received, returned and asked *)
(* back agree at every commit (order_finance.py, refunds.py).              *)
SaleMoneyAddsUp ==
  /\ RefundsTypeOK /\ OneObligation /\ MoneyAddsUp
  /\ RefundsWithinPayment /\ LocalReversalIsReal

===============================================================================
