------------------------------- MODULE Finance -------------------------------
(***************************************************************************)
(* The local titles, their installments and payments                       *)
(* (app/erp/services/finance.py).  Whoever changes an installment first    *)
(* locks its title, because the status of the title is computed from all   *)
(* its installments.                                                       *)
(***************************************************************************)
EXTENDS Transactions

CONSTANTS
  Titles,         (* titles that may be created *)
  Installment,    (* the installments: [title, amount] *)
  Payment         (* settlement requests by idempotency key:
                     [installment, amount] *)

Installments == DOMAIN Installment
Payments == DOMAIN Payment

ASSUME BooksAreFinite == IsFiniteSet(Installments) /\ IsFiniteSet(Payments)
ASSUME InstallmentsTyped ==
  \A i \in Installments : Installment[i] \in [title : Titles, amount : Nat]
ASSUME PaymentsTyped ==
  \A p \in Payments :
    Payment[p] \in [installment : Installments, amount : Nat \ {0}]

VARIABLES
  title,          (* erp_fin_titles: the status *)
  installment,    (* erp_fin_installments: settled_amount and status *)
  payment         (* erp_fin_settlements: a payment, and its reversal *)

moneyTables == <<title, installment, payment>>

FinanceInit ==
  /\ title = [t \in Titles |-> "absent"]
  /\ installment = [i \in Installments |-> [settled |-> 0, status |-> "open"]]
  /\ payment = [p \in Payments |-> "none"]

InstallmentsOf(t) == {i \in Installments : Installment[i].title = t}
TitleOf(p) == Installment[Payment[p].installment].title

-----------------------------------------------------------------------------
(* _refresh_status *)

InstallmentStatus(i, settled) ==
  CASE settled <= 0 -> "open"
    [] settled > 0 /\ settled >= Installment[i].amount -> "settled"
    [] OTHER -> "partial"

TitleStatus(t, rows) ==
  LET statuses == {rows[i].status : i \in InstallmentsOf(t)}
  IN CASE title[t] = "cancelled" -> "cancelled"
       [] title[t] # "cancelled" /\ statuses = {"settled"} -> "settled"
       [] title[t] # "cancelled" /\ statuses = {"open"} -> "open"
       [] OTHER -> "partially_settled"

-----------------------------------------------------------------------------
(* settle, reverse, cancel_title *)

TitleRow(t) == <<"title", t>>
InstallmentRow(i) == <<"installment", i>>

(* Mutant: the title is read without a lock.                               *)
ReadTitle(s, t) == TRUE

(* SELECT ... FOR UPDATE of a title.                                       *)
LockTitle(s, t) == Free(s, {TitleRow(t)})

(* The transaction that gives installment i a new settled amount.          *)
Settling(i, settled, p, status) ==
  LET t    == Installment[i].title
      row  == [settled |-> settled, status |-> InstallmentStatus(i, settled)]
      rows == Written(installment, OneRow(i, row))
  IN [do |-> "money", locks |-> {TitleRow(t), InstallmentRow(i)},
      title |-> OneRow(t, TitleStatus(t, rows)),
      installment |-> OneRow(i, row),
      payment |-> OneRow(p, status)]

Settle(s, p) ==
  LET i       == Payment[p].installment
      settled == installment[i].settled + Payment[p].amount
  IN /\ payment[p] = "none"
     /\ LockTitle(s, TitleOf(p))
     /\ title[TitleOf(p)] \notin {"absent", "cancelled"}
     /\ Free(s, {InstallmentRow(i)})
     /\ settled <= Installment[i].amount
     /\ Starts(s, Settling(i, settled, p, "paid"))
     /\ UNCHANGED moneyTables

(* A payment is reversed whole, and once: the existing reversal is looked  *)
(* up under the lock.                                                      *)
ReversePayment(s, p) ==
  LET i       == Payment[p].installment
      settled == installment[i].settled - Payment[p].amount
  IN /\ payment[p] = "paid"
     /\ LockTitle(s, TitleOf(p))
     /\ Free(s, {InstallmentRow(i)})
     /\ settled >= 0
     /\ Starts(s, Settling(i, settled, p, "reversed"))
     /\ UNCHANGED moneyTables

(* The sum of the settled amounts, none of which is negative, is positive. *)
HasMoney(t) == \E i \in InstallmentsOf(t) : installment[i].settled > 0

CancelTitle(s, t) ==
  /\ title[t] # "absent"
  /\ LockTitle(s, t)
  /\ ~HasMoney(t)
  /\ Starts(s, [do |-> "money", locks |-> {TitleRow(t)},
                title |-> OneRow(t, "cancelled"),
                installment |-> NoRows, payment |-> NoRows])
  /\ UNCHANGED moneyTables

CommitMoney(s) ==
  /\ tx[s].do = "money"
  /\ title' = Written(title, tx[s].title)
  /\ installment' = Written(installment, tx[s].installment)
  /\ payment' = Written(payment, tx[s].payment)
  /\ Commits(s)

MoneyStep(s) ==
  \/ \E p \in Payments : Settle(s, p) \/ ReversePayment(s, p)
  \/ \E t \in Titles : CancelTitle(s, t)
  \/ CommitMoney(s)

-----------------------------------------------------------------------------
(* Properties *)

PaidInto(i) ==
  {p \in Payments : Payment[p].installment = i /\ payment[p] = "paid"}

(* What an installment says it received is the payments that were not      *)
(* reversed, and never more than it is worth, however payments and         *)
(* reversals overlap (finance.py:3-6).                                     *)
SettledIsPaid ==
  \A i \in Installments :
    /\ installment[i].settled <= Installment[i].amount
    /\ installment[i].settled =
         SumFunction([p \in PaidInto(i) |-> Payment[p].amount])

(* The status of a title agrees with its installments even when two of     *)
(* them are paid at the same time (finance.py:194: simultaneous payments   *)
(* recompute the status in series).                                        *)
TitleStatusIsCurrent ==
  \A t \in Titles :
    title[t] \notin {"absent", "cancelled"} =>
      LET due == {i \in InstallmentsOf(t) :
                    installment[i].settled < Installment[i].amount}
      IN /\ title[t] = "settled" <=> due = {}
         /\ title[t] = "open" <=> ~HasMoney(t)

(* No money sits on a cancelled title, whether it was cancelled by a       *)
(* person or by the reversal of its receipt (settle, cancel_title).        *)
CancelledOwesNothing ==
  \A t \in Titles : title[t] = "cancelled" => ~HasMoney(t)

(* Titles, installments and payments agree at every commit (finance.py).   *)
TitlesAddUp == SettledIsPaid /\ TitleStatusIsCurrent /\ CancelledOwesNothing

===============================================================================
