----------------------------- MODULE LedgerProofs -----------------------------
(***************************************************************************)
(* What the money and the goods of the ERP add up to, for any titles,      *)
(* installments, payments, orders, refunds, receipts, balances and         *)
(* reservations, and any requests that overlap (services/finance.py,       *)
(* order_finance.py, refunds.py, purchasing.py, inventory.py,              *)
(* invoice_drafts.py).                                                     *)
(*                                                                         *)
(* Money.  Books says what the committed rows of titles, installments and  *)
(* payments have to do with each other.  What a transaction is about to    *)
(* write was computed from rows it has locked: MoneyReady and ReceiptReady *)
(* say that it still fits the books, and LocksHold that another's commit   *)
(* does not change the rows it fits.  So every commit keeps the books      *)
(* (PaymentKeepsBooks, TitleKeepsBooks).                                   *)
(*                                                                         *)
(* Refunds.  RefundsStand says the same of the requests: what they commit  *)
(* is within the payment, and a request that waits for its commit has the  *)
(* title or its own row locked (RefundReady).                              *)
(*                                                                         *)
(* Goods.  A cause has one place (OnePlace), so what is added to a balance *)
(* is the sum of the moves accepted for it (GoodsMove).  A request that    *)
(* reads without a lock promises only the shape of its moves (StockReady), *)
(* since MovesAccepted is asked again when it writes; a receipt or its     *)
(* reversal waits for its commit with its items and balances locked, so    *)
(* what it computed stays true (GoodsReady, ReadyStays).                   *)
(*                                                                         *)
(* Adjustments.  A request that adjusts carries the balance it read; it is *)
(* written only while that balance is still there, so the difference ends  *)
(* at the quantity that was asked for.                                     *)
(*                                                                         *)
(* Drafts.  What _organize takes of the items fits because it does so item *)
(* after item (OrganizedFits, an induction over the items).  A row waits   *)
(* for its commit with the order locked (RowFits): what the other live     *)
(* drafts of the order allot is what it was when the row was computed      *)
(* (RoomStays).                                                            *)
(***************************************************************************)
EXTENDS ErpServicesProofs, SumTheorems

-----------------------------------------------------------------------------
(* The books of titles, installments and payments *)

IsActive(t) == title[t] \notin {"absent", "cancelled"}

Books ==
  /\ title \in [Titles ->
       {"absent", "open", "partially_settled", "settled", "cancelled"}]
  /\ installment \in [Installments ->
       [settled : Nat, status : {"open", "partial", "settled"}]]
  /\ payment \in [Payments -> {"none", "paid", "reversed"}]
  /\ SettledIsPaid
  /\ \A i \in Installments :
       installment[i].status = InstallmentStatus(i, installment[i].settled)
  /\ \A t \in Titles : ~IsActive(t) => ~HasMoney(t)
  /\ \A t \in Titles :
       IsActive(t) /\ InstallmentsOf(t) # {} => title[t] = TitleStatus(t, installment)

(* A payment or its reversal enters the books, ...                         *)
PaymentFits(p, n, status) ==
  LET i == Payment[p].installment IN
    /\ IsActive(TitleOf(p))
    /\ \/ /\ status = "paid" /\ payment[p] = "none"
          /\ n = installment[i].settled + Payment[p].amount
          /\ n <= Installment[i].amount
       \/ /\ status = "reversed" /\ payment[p] = "paid"
          /\ n = installment[i].settled - Payment[p].amount
          /\ n >= 0

Row(i, n) == [settled |-> n, status |-> InstallmentStatus(i, n)]

PaymentEnters(p, n, status) ==
  LET i == Payment[p].installment IN
    /\ payment' = [payment EXCEPT ![p] = status]
    /\ installment' = [installment EXCEPT ![i] = Row(i, n)]
    /\ title' = [title EXCEPT ![TitleOf(p)] = TitleStatus(TitleOf(p), installment')]

(* ... a title is opened or cancelled.                                     *)
TitleFits(t, status) ==
  \/ status = "open" /\ title[t] = "absent"
  \/ status = "cancelled" /\ title[t] # "absent" /\ ~HasMoney(t)

TitleEnters(t, status) ==
  title' = [title EXCEPT ![t] = status] /\ UNCHANGED <<installment, payment>>

LEMMA PaymentsTyped2 ==
  ASSUME NEW p \in Payments
  PROVE  /\ Payment[p].installment \in Installments /\ Payment[p].amount \in Nat
         /\ Payment[p].amount > 0 /\ TitleOf(p) \in Titles
         /\ Installment[Payment[p].installment].amount \in Nat
         /\ Installment[Payment[p].installment].title = TitleOf(p)
         /\ Payment[p].installment \in InstallmentsOf(TitleOf(p))
BY PaymentsTyped, InstallmentsTyped DEF TitleOf, InstallmentsOf

LEMMA StatusTyped ==
  ASSUME NEW i \in Installments, NEW n \in Nat
  PROVE  /\ InstallmentStatus(i, n) \in {"open", "partial", "settled"}
         /\ InstallmentStatus(i, n) = "open" <=> n = 0
         /\ InstallmentStatus(i, n) = "settled" <=> n > 0 /\ n >= Installment[i].amount
<1>1. Installment[i].amount \in Nat
  BY InstallmentsTyped
<1> QED
  BY <1>1 DEF InstallmentStatus

LEMMA TitleStatusTyped ==
  ASSUME NEW t, NEW rows
  PROVE  TitleStatus(t, rows) \in {"open", "partially_settled", "settled", "cancelled"}
BY DEF TitleStatus

(* What was paid into an installment, with one payment more or less.       *)
PaidSum(i) == SumFunction([p \in PaidInto(i) |-> Payment[p].amount])

LEMMA PaidFinite ==
  ASSUME NEW i
  PROVE  /\ IsFiniteSet(PaidInto(i)) /\ PaidInto(i) \in SUBSET Payments
         /\ [p \in PaidInto(i) |-> Payment[p].amount] \in [PaidInto(i) -> Nat]
         /\ PaidSum(i) \in Nat
<1>1. IsFiniteSet(PaidInto(i)) /\ PaidInto(i) \in SUBSET Payments
  <2>1. PaidInto(i) \in SUBSET Payments
    BY DEF PaidInto
  <2> QED
    BY <2>1, BooksAreFinite, FS_Subset
<1>2. [p \in PaidInto(i) |-> Payment[p].amount] \in [PaidInto(i) -> Nat]
  BY <1>1, PaymentsTyped
<1>3. PaidSum(i) \in Nat
  BY <1>1, <1>2, SumNatural DEF PaidSum
<1> QED
  BY <1>1, <1>2, <1>3

(* What is paid, and what can be reversed, is on an active title.          *)
LEMMA PaidIsActive ==
  ASSUME Books, NEW p \in Payments, payment[p] = "paid"
  PROVE  IsActive(TitleOf(p))
<1> DEFINE i == Payment[p].installment
           f == [q \in PaidInto(i) |-> Payment[q].amount]
<1>1. /\ i \in Installments /\ Payment[p].amount \in Nat /\ Payment[p].amount > 0
      /\ TitleOf(p) \in Titles /\ i \in InstallmentsOf(TitleOf(p))
      /\ installment[i].settled \in Nat
  BY PaymentsTyped2 DEF Books
<1>2. p \in PaidInto(i) /\ f[p] = Payment[p].amount
  BY DEF PaidInto
<1>3. IsFiniteSet(PaidInto(i)) /\ f \in [PaidInto(i) -> Nat]
  BY PaidFinite
<1>4. installment[i].settled = SumFunction(f)
  BY <1>1 DEF Books, SettledIsPaid
<1> HIDE DEF f
<1>5. f[p] <= SumFunction(f)
  BY <1>2, <1>3, SumBounds
<1>6. HasMoney(TitleOf(p))
  BY <1>1, <1>2, <1>4, <1>5 DEF HasMoney
<1> QED
  BY <1>1, <1>6 DEF Books

LEMMA ReversalFits ==
  ASSUME Books, NEW p \in Payments, payment[p] = "paid",
         installment[Payment[p].installment].settled - Payment[p].amount >= 0
  PROVE  LET n == installment[Payment[p].installment].settled - Payment[p].amount
         IN n \in Nat /\ PaymentFits(p, n, "reversed")
<1> DEFINE i == Payment[p].installment
<1>1. Payment[p].amount \in Nat /\ installment[i].settled \in Nat
  BY PaymentsTyped2 DEF Books
<1> QED
  BY <1>1, PaidIsActive DEF PaymentFits

LEMMA OnePaymentMore ==
  ASSUME NEW A, IsFiniteSet(A), A \in SUBSET Payments, NEW p \in Payments, p \notin A
  PROVE  SumFunction([q \in A \cup {p} |-> Payment[q].amount])
           = SumFunction([q \in A |-> Payment[q].amount]) + Payment[p].amount
<1> DEFINE f == [q \in A |-> Payment[q].amount]
           g == [q \in A \cup {p} |-> Payment[q].amount]
<1>1. f \in [A -> Int] /\ g \in [A \cup {p} -> Int]
  BY PaymentsTyped
<1>2. \A q \in A : g[q] = f[q]
  OBVIOUS
<1>3. g[p] = Payment[p].amount
  OBVIOUS
<1> HIDE DEF f, g
<1>4. SumFunction(g) = SumFunction(f) + g[p]
  BY <1>1, <1>2, SumJoin
<1> QED
  BY <1>3, <1>4 DEF f, g

-----------------------------------------------------------------------------
(* A payment keeps the books *)

LEMMA PaymentKeepsBooks ==
  ASSUME Books, NEW p \in Payments, NEW n, NEW status,
         PaymentFits(p, n, status), PaymentEnters(p, n, status)
  PROVE  Books'
<1> DEFINE i == Payment[p].installment
           t == TitleOf(p)
<1>1. /\ i \in Installments /\ Payment[p].amount \in Nat /\ Payment[p].amount > 0
      /\ t \in Titles /\ Installment[i].amount \in Nat /\ Installment[i].title = t
      /\ i \in InstallmentsOf(t)
  BY PaymentsTyped2
<1>2. installment[i].settled \in Nat /\ n \in Nat /\ n <= Installment[i].amount
  <2>1. installment[i].settled \in Nat /\ installment[i].settled <= Installment[i].amount
    BY <1>1 DEF Books, SettledIsPaid
  <2> QED
    BY <1>1, <2>1 DEF PaymentFits
<1>3. Row(i, n) \in [settled : Nat, status : {"open", "partial", "settled"}]
  BY <1>1, <1>2, StatusTyped DEF Row
<1>4. /\ installment' \in [Installments -> [settled : Nat, status : {"open", "partial", "settled"}]]
      /\ installment'[i].settled = n /\ installment'[i].status = InstallmentStatus(i, n)
      /\ \A j \in Installments \ {i} : installment'[j] = installment[j]
  BY <1>1, <1>3 DEF Books, PaymentEnters, Row
<1>5. TitleStatus(t, installment') \in {"open", "partially_settled", "settled", "cancelled"}
  BY TitleStatusTyped
<1>6. /\ title' \in [Titles ->
            {"absent", "open", "partially_settled", "settled", "cancelled"}]
      /\ title'[t] = TitleStatus(t, installment')
      /\ \A u \in Titles \ {t} : title'[u] = title[u]
  BY <1>1, <1>5 DEF Books, PaymentEnters
<1>7. /\ payment' \in [Payments -> {"none", "paid", "reversed"}] /\ payment'[p] = status
      /\ \A q \in Payments \ {p} : payment'[q] = payment[q]
  BY DEF Books, PaymentEnters, PaymentFits
<1>8. title'[t] \notin {"absent", "cancelled"} /\ title[t] \notin {"absent", "cancelled"}
  <2>1. title[t] \notin {"absent", "cancelled"}
    BY DEF PaymentFits, IsActive
  <2>2. TitleStatus(t, installment') # "cancelled"
    BY <2>1 DEF TitleStatus
  <2> QED
    BY <1>5, <1>6, <2>1, <2>2
<1>9. \A j \in Installments \ {i} : PaidInto(j)' = PaidInto(j)
  <2>1. ASSUME NEW j \in Installments \ {i}, NEW q \in Payments, Payment[q].installment = j
        PROVE  payment'[q] = payment[q]
    BY <2>1, <1>7
  <2> QED
    BY <2>1 DEF PaidInto
<1>10. SettledIsPaid'
  <2>1. PaidSum(i)' = n
    <3>1. installment[i].settled = PaidSum(i)
      BY <1>1 DEF Books, SettledIsPaid, PaidSum
    <3>2. CASE status = "paid"
      <4>1. p \notin PaidInto(i) /\ PaidInto(i)' = PaidInto(i) \cup {p}
        BY <3>2, <1>7 DEF PaymentFits, PaidInto
      <4>2. PaidSum(i)' = PaidSum(i) + Payment[p].amount
        <5>1. IsFiniteSet(PaidInto(i)) /\ PaidInto(i) \in SUBSET Payments
          BY PaidFinite
        <5> QED
          BY <4>1, <5>1, OnePaymentMore DEF PaidSum
      <4> QED
        BY <3>1, <3>2, <4>2 DEF PaymentFits
    <3>3. CASE status = "reversed"
      <4> DEFINE A == PaidInto(i) \ {p}
      <4>1. p \in PaidInto(i) /\ PaidInto(i)' = A /\ PaidInto(i) = A \cup {p}
        BY <3>3, <1>7 DEF PaymentFits, PaidInto
      <4>2. IsFiniteSet(A) /\ A \in SUBSET Payments
        BY PaidFinite, FS_Subset
      <4>3. PaidSum(i) = PaidSum(i)' + Payment[p].amount
        <5>1. SumFunction([q \in A \cup {p} |-> Payment[q].amount])
                = SumFunction([q \in A |-> Payment[q].amount]) + Payment[p].amount
          BY <4>2, OnePaymentMore
        <5> QED
          BY <4>1, <5>1 DEF PaidSum
      <4>4. PaidSum(i)' \in Nat
        <5>1. [q \in A |-> Payment[q].amount] \in [A -> Nat]
          BY <4>2, PaymentsTyped
        <5>2. SumFunction([q \in A |-> Payment[q].amount]) \in Nat
          BY <4>2, <5>1, SumNatural
        <5> QED
          BY <4>1, <5>2 DEF PaidSum
      <4> QED
        BY <1>1, <1>2, <3>1, <3>3, <4>3, <4>4 DEF PaymentFits
    <3> QED
      BY <3>2, <3>3 DEF PaymentFits
  <2>2. \A j \in Installments \ {i} : PaidSum(j)' = PaidSum(j)
    BY <1>9 DEF PaidSum
  <2>3. \A j \in Installments : installment[j].settled <= Installment[j].amount
                                /\ installment[j].settled = PaidSum(j)
    BY DEF Books, SettledIsPaid, PaidSum
  <2>4. \A j \in Installments : installment'[j].settled <= Installment[j].amount
                                /\ installment'[j].settled = PaidSum(j)'
    BY <1>2, <1>4, <2>1, <2>2, <2>3
  <2> QED
    BY <2>4 DEF SettledIsPaid, PaidSum
<1>11. \A u \in Titles \ {t} : \A j \in InstallmentsOf(u) :
         j \in Installments /\ installment'[j] = installment[j]
  BY <1>1, <1>4 DEF InstallmentsOf
<1>12. \A j \in Installments :
         installment'[j].status = InstallmentStatus(j, installment'[j].settled)
  BY <1>4 DEF Books
<1>13. \A u \in Titles : ~IsActive(u)' => ~HasMoney(u)'
  <2>1. ASSUME NEW u \in Titles, ~IsActive(u)'
        PROVE  ~HasMoney(u)'
    <3>1. u # t /\ title'[u] = title[u]
      BY <2>1, <1>6, <1>8 DEF IsActive
    <3>2. ~HasMoney(u)
      BY <2>1, <3>1 DEF Books, IsActive
    <3> QED
      BY <3>1, <3>2, <1>11 DEF HasMoney
  <2> QED
    BY <2>1
<1>14. \A u \in Titles : IsActive(u)' /\ InstallmentsOf(u) # {}
                           => title'[u] = TitleStatus(u, installment)'
  <2>1. ASSUME NEW u \in Titles, IsActive(u)', InstallmentsOf(u) # {}, u # t
        PROVE  title'[u] = TitleStatus(u, installment)'
    <3>1. title'[u] = title[u] /\ title[u] = TitleStatus(u, installment)
      BY <2>1, <1>6 DEF Books, IsActive
    <3>2. {installment'[j].status : j \in InstallmentsOf(u)}
            = {installment[j].status : j \in InstallmentsOf(u)}
      BY <2>1, <1>11
    <3> QED
      BY <3>1, <3>2 DEF TitleStatus
  <2>2. title'[t] = TitleStatus(t, installment)'
    <3>1. (title[t] = "cancelled") <=> (title'[t] = "cancelled")
      BY <1>8
    <3> QED
      BY <1>6, <3>1 DEF TitleStatus
  <2> QED
    BY <2>1, <2>2
<1> QED
  BY <1>4, <1>6, <1>7, <1>10, <1>12, <1>13, <1>14 DEF Books

(* So does a title that is opened or cancelled.                            *)
LEMMA TitleKeepsBooks ==
  ASSUME Books, NEW t \in Titles, NEW status, TitleFits(t, status), TitleEnters(t, status)
  PROVE  Books'
<1>1. /\ title' \in [Titles ->
            {"absent", "open", "partially_settled", "settled", "cancelled"}]
      /\ title'[t] = status /\ \A u \in Titles \ {t} : title'[u] = title[u]
      /\ installment' = installment /\ payment' = payment
  BY DEF Books, TitleFits, TitleEnters
<1>2. ~HasMoney(t)
  BY DEF Books, TitleFits, IsActive
<1>3. \A u \in Titles : ~IsActive(u)' => ~HasMoney(u)'
  <2>1. ASSUME NEW u \in Titles, ~IsActive(u)'
        PROVE  ~HasMoney(u)'
    <3>1. ~HasMoney(u)
      BY <2>1, <1>1, <1>2 DEF Books, IsActive
    <3> QED
      BY <3>1, <1>1 DEF HasMoney
  <2> QED
    BY <2>1
<1>4. \A u \in Titles : IsActive(u)' /\ InstallmentsOf(u) # {}
                           => title'[u] = TitleStatus(u, installment)'
  <2>1. ASSUME NEW u \in Titles, IsActive(u)', InstallmentsOf(u) # {}, u # t
        PROVE  title'[u] = TitleStatus(u, installment)'
    <3>1. title'[u] = title[u] /\ title[u] = TitleStatus(u, installment)
      BY <2>1, <1>1 DEF Books, IsActive
    <3> QED
      BY <3>1, <1>1 DEF TitleStatus
  <2>2. ASSUME IsActive(t)', InstallmentsOf(t) # {}
        PROVE  title'[t] = TitleStatus(t, installment)'
    <3>1. title'[t] = "open"
      BY <2>2, <1>1 DEF TitleFits, IsActive
    <3>2. \A j \in InstallmentsOf(t) : installment[j].status = "open"
      <4>1. ASSUME NEW j \in InstallmentsOf(t)
            PROVE  installment[j].status = "open"
        <5>1. j \in Installments /\ installment[j].settled \in Nat
              /\ installment[j].status = InstallmentStatus(j, installment[j].settled)
          BY DEF InstallmentsOf, Books
        <5>2. ~(installment[j].settled > 0)
          BY <1>2 DEF HasMoney
        <5> QED
          BY <5>1, <5>2 DEF InstallmentStatus
      <4> QED
        BY <4>1
    <3>3. {installment[j].status : j \in InstallmentsOf(t)} = {"open"}
      BY <2>2, <3>2
    <3> QED
      BY <1>1, <3>1, <3>3 DEF TitleStatus
  <2> QED
    BY <2>1, <2>2
<1>5. SettledIsPaid'
  <2>1. \A i : PaidInto(i)' = PaidInto(i)
    BY <1>1 DEF PaidInto
  <2> QED
    BY <1>1, <2>1 DEF Books, SettledIsPaid
<1> QED
  BY <1>1, <1>3, <1>4, <1>5 DEF Books

-----------------------------------------------------------------------------
(* What a transaction is about to write fits the books as they are *)

SameRows(x, titles, installments, payments) ==
  x.title = titles /\ x.installment = installments /\ x.payment = payments

PaymentReady(x, p, n, status) ==
  LET i == Payment[p].installment
      t == TitleOf(p)
      rows == OneRow(i, Row(i, n))
  IN /\ PaymentFits(p, n, status)
     /\ TitleRow(t) \in x.locks
     /\ SameRows(x, OneRow(t, TitleStatus(t, Written(installment, rows))), rows,
                 OneRow(p, status))

CancelReady(x, t) ==
  /\ TitleFits(t, "cancelled")
  /\ TitleRow(t) \in x.locks
  /\ SameRows(x, OneRow(t, "cancelled"), NoRows, NoRows)

Known1(o) == Cardinality(KnownTitles(o)) + 1
NextTitle(o) == OrderTitles[o][Known1(o)]

SaleReady(x, o) ==
  /\ Known1(o) \in DOMAIN OrderTitles[o]
  /\ SaleRow(o) \in x.locks
  /\ ActiveTitles(o) = {}
  /\ title[NextTitle(o)] = "absent"
  /\ SameRows(x, OneRow(NextTitle(o), "open"), NoRows, NoRows)

MoneyReady(x) ==
  \/ \E p \in Payments : \E n \in Nat : \E status \in {"paid", "reversed"} :
       PaymentReady(x, p, n, status)
  \/ \E t \in Titles : CancelReady(x, t)
  \/ \E o \in Sales : SaleReady(x, o)
  \/ SameRows(x, NoRows, NoRows, NoRows)

(* A receipt is taken in, or reversed, with its payable.                   *)
Incoming(x, r) ==
  /\ x.receipt = OneRow(r, "received")
  /\ receipt[r] = "none"
  /\ x.title = IF Receipt[r].payable THEN OneRow(r, "open") ELSE NoRows

Outgoing(x, r) ==
  /\ x.receipt = OneRow(r, "reversed")
  /\ receipt[r] = "received"
  /\ x.title = PayableGone(r)
  /\ HasPayable(r) => TitleRow(r) \in x.locks /\ ~HasMoney(r)

ReceiptReady(x) ==
  \E r \in Receipts : ItemRows(r) \subseteq x.locks /\ (Incoming(x, r) \/ Outgoing(x, r))

TxFits(x) ==
  /\ x.do \in {"money", "refund"} => MoneyReady(x)
  /\ x.do = "commit" => ReceiptReady(x)
  /\ x.do \in {"receive", "reverse_receipt"} => x.receipt \in Receipts
  /\ x.do = "receivable" => x.o \in Sales

TransactionsFit ==
  /\ tx = [s \in Sessions |-> tx[s]]
  /\ \A s, u \in Sessions : s # u => tx[s].locks \cap tx[u].locks = {}
  /\ \A s \in Sessions : TxFits(tx[s])

(* The titles an order has had are the first of its titles, and at most    *)
(* one of them is active.                                                  *)
FirstTitles(o, k) == {OrderTitles[o][i] : i \in 1..k}

SaleInOrder(o) ==
  /\ IsFiniteSet(KnownTitles(o))
  /\ Cardinality(KnownTitles(o)) <= Len(OrderTitles[o])
  /\ KnownTitles(o) = FirstTitles(o, Cardinality(KnownTitles(o)))
  /\ \A t, u \in ActiveTitles(o) : t = u

ReceiptsInOrder ==
  /\ receipt \in [Receipts -> {"none", "received", "reversed"}]
  /\ \A r \in Receipts : r \in Titles /\ receipt[r] = "none" => title[r] = "absent"

MoneyInv ==
  /\ Books
  /\ ReceiptsInOrder
  /\ \A o \in Sales : SaleInOrder(o)
  /\ focus \in {"purchasing", "money"} => TransactionsFit

-----------------------------------------------------------------------------
(* The rows a commit writes *)

LEMMA WrittenOne ==
  ASSUME NEW f, NEW a, NEW v
  PROVE  Written(f, OneRow(a, v)) = [f EXCEPT ![a] = v]
BY DEF Written, OneRow

LEMMA WrittenNone ==
  ASSUME NEW f, f = [a \in DOMAIN f |-> f[a]]
  PROVE  Written(f, NoRows) = f
BY DEF Written, NoRows

LEMMA LinesTyped ==
  ASSUME NEW r \in Receipts
  PROVE  /\ Lines(r) \in Seq([item : Items, quantity : Nat \ {0},
                              place : Places \cup {NoPlace}])
         /\ Len(Lines(r)) \in Nat /\ Len(Lines(r)) > 0 /\ DOMAIN Lines(r) = 1..Len(Lines(r))
         /\ ItemRows(r) # {}
<1>1. /\ Lines(r) \in Seq([item : Items, quantity : Nat \ {0},
                              place : Places \cup {NoPlace}])
      /\ Lines(r) # <<>>
  BY ReceiptsTyped DEF Lines
<1>2. Len(Lines(r)) \in Nat /\ Len(Lines(r)) > 0 /\ DOMAIN Lines(r) = 1..Len(Lines(r))
  BY <1>1
<1>3. ItemRows(r) # {}
  <2>1. 1 \in DOMAIN Lines(r)
    BY <1>2
  <2>2. <<"item", Lines(r)[1].item>> \in ItemRows(r)
    BY <2>1 DEF ItemRows, ItemsIn
  <2> QED
    BY <2>2
<1> QED
  BY <1>1, <1>2, <1>3

LEMMA TitlesOfTyped ==
  ASSUME NEW o \in Sales
  PROVE  /\ TitlesOf(o) \subseteq Titles
         /\ DOMAIN OrderTitles[o] = 1..Len(OrderTitles[o]) /\ Len(OrderTitles[o]) \in Nat
         /\ \A i \in 1..Len(OrderTitles[o]) : OrderTitles[o][i] \in TitlesOf(o)
         /\ \A i, j \in 1..Len(OrderTitles[o]) :
              OrderTitles[o][i] = OrderTitles[o][j] => i = j
         /\ \A q \in Sales \ {o} : TitlesOf(o) \cap TitlesOf(q) = {}
         /\ TitlesOf(o) \cap Receipts = {}
<1>1. OrderTitles[o] \in Seq(Titles)
  BY OrderTitlesTyped
<1>2. DOMAIN OrderTitles[o] = 1..Len(OrderTitles[o]) /\ Len(OrderTitles[o]) \in Nat
      /\ \A i \in 1..Len(OrderTitles[o]) : OrderTitles[o][i] \in Titles
  BY <1>1
<1>3. \A q \in Sales \ {o} : TitlesOf(o) \cap TitlesOf(q) = {}
  BY OrderTitlesTyped DEF TitlesOf
<1>4. \A i, j \in 1..Len(OrderTitles[o]) : OrderTitles[o][i] = OrderTitles[o][j] => i = j
  BY <1>2, OrderTitlesTyped
<1> QED
  BY <1>2, <1>3, <1>4, TitlesHaveOneCause DEF TitlesOf

(* The title a sale gets next was never used.                              *)
LEMMA NextIsUnknown ==
  ASSUME NEW o \in Sales, SaleInOrder(o), Known1(o) \in DOMAIN OrderTitles[o]
  PROVE  /\ NextTitle(o) \in TitlesOf(o) /\ NextTitle(o) \in Titles
         /\ title[NextTitle(o)] = "absent"
         /\ Cardinality(KnownTitles(o)) \in Nat
<1> DEFINE k == Cardinality(KnownTitles(o))
<1>1. k \in Nat /\ k + 1 \in 1..Len(OrderTitles[o])
  BY FS_CardinalityType, TitlesOfTyped DEF SaleInOrder, Known1
<1>2. NextTitle(o) \notin FirstTitles(o, k)
  BY <1>1, TitlesOfTyped DEF NextTitle, Known1, FirstTitles
<1>3. NextTitle(o) \in TitlesOf(o) /\ NextTitle(o) \in Titles
  BY <1>1, TitlesOfTyped DEF NextTitle, Known1
<1> QED
  BY <1>1, <1>2, <1>3 DEF SaleInOrder, KnownTitles

-----------------------------------------------------------------------------
(* What others are about to write still fits *)

(* A title with its installments and payments is what it was, ...          *)
SameTitle(t) ==
  /\ title'[t] = title[t]
  /\ \A i \in InstallmentsOf(t) : installment'[i] = installment[i]
  /\ \A p \in Payments : TitleOf(p) = t => payment'[p] = payment[p]

(* ... and no title of the set is opened.                                  *)
NothingOpens(S) ==
  \A t \in S : /\ title'[t] = "absent" <=> title[t] = "absent"
               /\ IsActive(t)' => IsActive(t)

(* The rows a transaction locked are as it read them.                      *)
LocksHold(x) ==
  /\ \A t \in Titles : TitleRow(t) \in x.locks /\ title[t] # "absent" => SameTitle(t)
  /\ \A o \in Sales : SaleRow(o) \in x.locks => NothingOpens(TitlesOf(o))
  /\ \A r \in Receipts : ItemRows(r) \subseteq x.locks =>
       receipt'[r] = receipt[r] /\ (r \in Titles => NothingOpens({r}))

LEMMA PaymentStays ==
  ASSUME Books, Books', NEW x, NEW p \in Payments, NEW n, NEW status,
         PaymentReady(x, p, n, status), SameTitle(TitleOf(p))
  PROVE  PaymentReady(x, p, n, status)'
<1> DEFINE i == Payment[p].installment
           t == TitleOf(p)
           rows == OneRow(i, Row(i, n))
<1>1. i \in Installments /\ t \in Titles /\ Installment[i].title = t
  BY PaymentsTyped2
<1>2. title'[t] = title[t] /\ payment'[p] = payment[p]
      /\ \A j \in InstallmentsOf(t) : installment'[j] = installment[j]
  BY <1>1 DEF SameTitle, InstallmentsOf
<1>3. i \in InstallmentsOf(t)
  BY <1>1 DEF InstallmentsOf
<1>4. PaymentFits(p, n, status)'
  BY <1>2, <1>3 DEF PaymentReady, PaymentFits, IsActive
<1>5. \A j \in InstallmentsOf(t) : Written(installment', rows)[j] = Written(installment, rows)[j]
  <2>1. DOMAIN installment' = Installments /\ DOMAIN installment = Installments
    BY DEF Books
  <2> QED
    BY <1>2, <2>1 DEF Written, InstallmentsOf
<1>6. {Written(installment', rows)[j].status : j \in InstallmentsOf(t)}
        = {Written(installment, rows)[j].status : j \in InstallmentsOf(t)}
  BY <1>5
<1>7. TitleStatus(t, Written(installment, rows))' = TitleStatus(t, Written(installment, rows))
  <2> HIDE DEF rows
  <2> QED
    BY <1>2, <1>6 DEF TitleStatus
<1> QED
  BY <1>4, <1>7 DEF PaymentReady, SameRows

LEMMA CancelStays ==
  ASSUME NEW x, NEW t \in Titles, CancelReady(x, t), SameTitle(t)
  PROVE  CancelReady(x, t)'
<1>1. title'[t] = title[t] /\ \A j \in InstallmentsOf(t) : installment'[j] = installment[j]
  BY DEF SameTitle
<1>2. TitleFits(t, "cancelled")'
  BY <1>1 DEF CancelReady, TitleFits, HasMoney
<1> QED
  BY <1>2 DEF CancelReady, SameRows

LEMMA KnownStay ==
  ASSUME NEW o \in Sales, NothingOpens(TitlesOf(o))
  PROVE  /\ KnownTitles(o)' = KnownTitles(o)
         /\ ActiveTitles(o)' \subseteq ActiveTitles(o)
BY DEF NothingOpens, KnownTitles, ActiveTitles, IsActive

LEMMA SaleStays ==
  ASSUME NEW x, NEW o \in Sales, SaleReady(x, o), SaleInOrder(o), NothingOpens(TitlesOf(o))
  PROVE  SaleReady(x, o)'
<1>1. KnownTitles(o)' = KnownTitles(o) /\ ActiveTitles(o)' \subseteq ActiveTitles(o)
  BY KnownStay
<1>2. Known1(o)' = Known1(o) /\ NextTitle(o)' = NextTitle(o)
  BY <1>1 DEF Known1, NextTitle
<1>3. NextTitle(o) \in TitlesOf(o)
  BY NextIsUnknown DEF SaleReady
<1>4. title'[NextTitle(o)] = "absent"
  BY <1>3 DEF NothingOpens, SaleReady
<1> QED
  BY <1>1, <1>2, <1>4 DEF SaleReady, SameRows

LEMMA MoneyStays ==
  ASSUME MoneyInv, Books', NEW x, MoneyReady(x), LocksHold(x)
  PROVE  MoneyReady(x)'
<1>1. CASE \E p \in Payments : \E n \in Nat : \E status \in {"paid", "reversed"} :
             PaymentReady(x, p, n, status)
  <2>1. PICK p \in Payments, n \in Nat, status \in {"paid", "reversed"} :
               PaymentReady(x, p, n, status)
    BY <1>1
  <2>2. SameTitle(TitleOf(p))
    BY <2>1, PaymentsTyped2 DEF PaymentReady, PaymentFits, IsActive, LocksHold
  <2>3. PaymentReady(x, p, n, status)'
    BY <2>1, <2>2, PaymentStays DEF MoneyInv
  <2> QED
    BY <2>3 DEF MoneyReady
<1>2. CASE \E t \in Titles : CancelReady(x, t)
  <2>1. PICK t \in Titles : CancelReady(x, t)
    BY <1>2
  <2>2. SameTitle(t)
    BY <2>1 DEF CancelReady, TitleFits, LocksHold
  <2>3. CancelReady(x, t)'
    BY <2>1, <2>2, CancelStays
  <2> QED
    BY <2>3 DEF MoneyReady
<1>3. CASE \E o \in Sales : SaleReady(x, o)
  <2>1. PICK o \in Sales : SaleReady(x, o)
    BY <1>3
  <2>2. SaleReady(x, o)'
    BY <2>1, SaleStays DEF MoneyInv, SaleReady, LocksHold
  <2> QED
    BY <2>2 DEF MoneyReady
<1>4. CASE SameRows(x, NoRows, NoRows, NoRows)
  BY <1>4 DEF MoneyReady, SameRows
<1> QED
  BY <1>1, <1>2, <1>3, <1>4 DEF MoneyReady

LEMMA ReceiptStays ==
  ASSUME NEW x, ReceiptReady(x), LocksHold(x)
  PROVE  ReceiptReady(x)'
<1>1. PICK r \in Receipts : ItemRows(r) \subseteq x.locks /\ (Incoming(x, r) \/ Outgoing(x, r))
  BY DEF ReceiptReady
<1>2. receipt'[r] = receipt[r] /\ (r \in Titles => NothingOpens({r}))
  BY <1>1 DEF LocksHold
<1>3. CASE Incoming(x, r)
  BY <1>1, <1>2, <1>3 DEF Incoming, ReceiptReady
<1>4. CASE Outgoing(x, r) /\ HasPayable(r)
  <2>1. SameTitle(r)
    BY <1>4 DEF Outgoing, HasPayable, LocksHold
  <2>2. HasPayable(r)' /\ ~HasMoney(r)'
    BY <1>4, <2>1 DEF SameTitle, HasPayable, Outgoing, HasMoney
  <2>3. Outgoing(x, r)'
    BY <1>2, <1>4, <2>2 DEF Outgoing, PayableGone
  <2> QED
    BY <1>1, <2>3 DEF ReceiptReady
<1>5. CASE Outgoing(x, r) /\ ~HasPayable(r)
  <2>1. ~HasPayable(r)'
    BY <1>2, <1>5 DEF HasPayable, NothingOpens, IsActive
  <2>2. Outgoing(x, r)'
    BY <1>2, <1>5, <2>1 DEF Outgoing, PayableGone
  <2> QED
    BY <1>1, <2>2 DEF ReceiptReady
<1> QED
  BY <1>1, <1>3, <1>4, <1>5

LEMMA FitStays ==
  ASSUME MoneyInv, Books', NEW x, TxFits(x), LocksHold(x)
  PROVE  TxFits(x)'
<1>1. MoneyReady(x) => MoneyReady(x)'
  BY MoneyStays
<1>2. ReceiptReady(x) => ReceiptReady(x)'
  BY ReceiptStays
<1> QED
  BY <1>1, <1>2 DEF TxFits

LEMMA BooksStay ==
  ASSUME Books, UNCHANGED <<title, installment, payment>>
  PROVE  Books'
<1>1. \A i : PaidInto(i)' = PaidInto(i)
  BY DEF PaidInto
<1>2. SettledIsPaid'
  BY <1>1 DEF Books, SettledIsPaid
<1>3. \A t : HasMoney(t)' = HasMoney(t) /\ IsActive(t)' = IsActive(t)
            /\ TitleStatus(t, installment)' = TitleStatus(t, installment)
  BY DEF HasMoney, IsActive, TitleStatus
<1> QED
  BY <1>2, <1>3 DEF Books

(* The steps that write no table.                                          *)
LEMMA NothingWritten ==
  ASSUME Books, ReceiptsInOrder, \A o \in Sales : SaleInOrder(o),
         UNCHANGED <<title, installment, payment, receipt>>
  PROVE  /\ Books' /\ ReceiptsInOrder' /\ (\A o \in Sales : SaleInOrder(o))'
         /\ \A x : LocksHold(x)
<1>1. Books'
  BY BooksStay
<1>2. ReceiptsInOrder'
  BY DEF ReceiptsInOrder
<1>3. (\A o \in Sales : SaleInOrder(o))'
  BY DEF SaleInOrder, KnownTitles, ActiveTitles
<1>4. \A x : LocksHold(x)
  BY DEF LocksHold, SameTitle, NothingOpens, IsActive
<1> QED
  BY <1>1, <1>2, <1>3, <1>4

LEMMA Moves ==
  ASSUME MoneyInv, Books', ReceiptsInOrder', (\A o \in Sales : SaleInOrder(o))',
         focus' = focus, focus \in {"purchasing", "money"},
         NEW s \in Sessions, NEW x, tx' = [tx EXCEPT ![s] = x],
         Free(s, x.locks), TxFits(x)',
         \A u \in Sessions \ {s} : LocksHold(tx[u])
  PROVE  MoneyInv'
<1>1. \A u \in Sessions \ {s} : TxFits(tx[u])'
  <2>1. ASSUME NEW u \in Sessions \ {s}
        PROVE  TxFits(tx[u])'
    <3>1. PICK y : y = tx[u]
      OBVIOUS
    <3>2. TxFits(y) /\ LocksHold(y)
      BY <3>1 DEF MoneyInv, TransactionsFit
    <3>3. TxFits(y)'
      BY <3>2, FitStays
    <3>4. tx'[u] = y
      BY <3>1 DEF MoneyInv, TransactionsFit
    <3> QED
      BY <3>3, <3>4
  <2> QED
    BY <2>1
<1>2. tx'[s] = x /\ TxFits(tx[s])'
  <2>1. tx'[s] = x
    BY DEF MoneyInv, TransactionsFit
  <2> QED
    BY <2>1
<1>3. tx' = [u \in Sessions |-> tx'[u]] /\ \A u \in Sessions \ {s} : tx'[u] = tx[u]
  BY DEF MoneyInv, TransactionsFit
<1>4. \A u, v \in Sessions : u # v => tx'[u].locks \cap tx'[v].locks = {}
  BY <1>2, <1>3 DEF MoneyInv, TransactionsFit, Free
<1>5. TransactionsFit'
  BY <1>1, <1>2, <1>3, <1>4 DEF TransactionsFit
<1> QED
  BY <1>5 DEF MoneyInv

-----------------------------------------------------------------------------
(* A commit writes what was ready *)

(* What the commit of s changes, it had locked or it opens.                *)
Aside(s) ==
  /\ \A t \in Titles : SameTitle(t) \/ title[t] = "absent" \/ TitleRow(t) \in tx[s].locks
  /\ \A o \in Sales : SaleRow(o) \in tx[s].locks \/ NothingOpens(TitlesOf(o))
  /\ \A r \in Receipts :
       \/ ItemRows(r) \subseteq tx[s].locks
       \/ receipt'[r] = receipt[r] /\ (r \in Titles => NothingOpens({r}))

LEMMA OthersLocksHold ==
  ASSUME TransactionsFit, NEW s \in Sessions, Aside(s), NEW u \in Sessions \ {s}
  PROVE  LocksHold(tx[u])
<1>1. tx[s].locks \cap tx[u].locks = {}
  BY DEF TransactionsFit
<1>2. \A t \in Titles : TitleRow(t) \in tx[u].locks /\ title[t] # "absent" => SameTitle(t)
  BY <1>1 DEF Aside
<1>3. \A o \in Sales : SaleRow(o) \in tx[u].locks => NothingOpens(TitlesOf(o))
  BY <1>1 DEF Aside
<1>4. \A r \in Receipts : ItemRows(r) \subseteq tx[u].locks =>
       receipt'[r] = receipt[r] /\ (r \in Titles => NothingOpens({r}))
  <2>1. ASSUME NEW r \in Receipts, ItemRows(r) \subseteq tx[u].locks
        PROVE  ~(ItemRows(r) \subseteq tx[s].locks)
    <3>1. PICK row : row \in ItemRows(r)
      BY LinesTyped
    <3> QED
      BY <1>1, <2>1, <3>1
  <2> QED
    BY <2>1 DEF Aside
<1> QED
  BY <1>2, <1>3, <1>4 DEF LocksHold

LEMMA NoneFits ==
  TxFits(NoTransaction)'
BY DEF TxFits, NoTransaction

LEMMA CommitMoves ==
  ASSUME MoneyInv, Books', ReceiptsInOrder', (\A o \in Sales : SaleInOrder(o))',
         focus' = focus, focus \in {"purchasing", "money"},
         NEW s \in Sessions, tx' = [tx EXCEPT ![s] = NoTransaction], Aside(s)
  PROVE  MoneyInv'
<1>1. PICK x : x = NoTransaction
  OBVIOUS
<1>2. tx' = [tx EXCEPT ![s] = x] /\ Free(s, x.locks) /\ TxFits(x)'
  BY <1>1, NoneFits DEF NoTransaction, Free
<1>3. \A u \in Sessions \ {s} : LocksHold(tx[u])
  BY OthersLocksHold DEF MoneyInv
<1> QED
  BY <1>2, <1>3, Moves

LEMMA InOrderStays ==
  ASSUME NEW o \in Sales, SaleInOrder(o), NothingOpens(TitlesOf(o))
  PROVE  SaleInOrder(o)'
<1>1. KnownTitles(o)' = KnownTitles(o) /\ ActiveTitles(o)' \subseteq ActiveTitles(o)
  BY KnownStay
<1> QED
  BY <1>1 DEF SaleInOrder

(* The order that gets its next title.                                     *)
LEMMA NextInOrder ==
  ASSUME Books, NEW o \in Sales, SaleInOrder(o), NEW x, SaleReady(x, o),
         title' = [title EXCEPT ![NextTitle(o)] = "open"]
  PROVE  SaleInOrder(o)'
<1> DEFINE k == Cardinality(KnownTitles(o))
           a == NextTitle(o)
<1>1. k \in Nat /\ a \in TitlesOf(o) /\ a \in Titles /\ title[a] = "absent"
      /\ a = OrderTitles[o][k + 1] /\ k + 1 \in 1..Len(OrderTitles[o])
      /\ Len(OrderTitles[o]) \in Nat
  BY NextIsUnknown, TitlesOfTyped DEF SaleReady, NextTitle, Known1
<1>2. title'[a] = "open" /\ \A t \in TitlesOf(o) \ {a} : title'[t] = title[t]
  BY <1>1, TitlesOfTyped DEF Books
<1>3. KnownTitles(o)' = KnownTitles(o) \cup {a} /\ a \notin KnownTitles(o)
  BY <1>1, <1>2 DEF KnownTitles
<1>4. ActiveTitles(o)' = {a}
  BY <1>1, <1>2 DEF ActiveTitles, SaleReady
<1>5. IsFiniteSet(KnownTitles(o)') /\ Cardinality(KnownTitles(o)') = k + 1
  BY <1>3, FS_AddElement DEF SaleInOrder
<1>6. FirstTitles(o, k + 1) = FirstTitles(o, k) \cup {a}
  <2>1. 1..(k + 1) = (1..k) \cup {k + 1}
    BY <1>1
  <2> QED
    BY <1>1, <2>1 DEF FirstTitles
<1>7. KnownTitles(o)' = FirstTitles(o, k + 1)
  BY <1>3, <1>6 DEF SaleInOrder
<1> HIDE DEF k, a
<1>8. FirstTitles(o, Cardinality(KnownTitles(o)))' = FirstTitles(o, k + 1)
  BY <1>5 DEF FirstTitles
<1> QED
  BY <1>1, <1>4, <1>5, <1>7, <1>8 DEF SaleInOrder

LEMMA PaymentCommits ==
  ASSUME MoneyInv, focus' = focus, focus \in {"purchasing", "money"},
         NEW s \in Sessions, tx' = [tx EXCEPT ![s] = NoTransaction],
         NEW p \in Payments, NEW n \in Nat, NEW status \in {"paid", "reversed"},
         PaymentReady(tx[s], p, n, status),
         title' = Written(title, tx[s].title),
         installment' = Written(installment, tx[s].installment),
         payment' = Written(payment, tx[s].payment), receipt' = receipt
  PROVE  MoneyInv'
<1> DEFINE i == Payment[p].installment
           t == TitleOf(p)
<1>1. /\ i \in Installments /\ t \in Titles /\ Installment[i].title = t
      /\ TitleRow(t) \in tx[s].locks /\ PaymentFits(p, n, status)
  BY PaymentsTyped2 DEF PaymentReady
<1>2. /\ installment' = [installment EXCEPT ![i] = Row(i, n)]
      /\ payment' = [payment EXCEPT ![p] = status]
      /\ title' = [title EXCEPT ![t] = TitleStatus(t, installment')]
  BY WrittenOne DEF PaymentReady, SameRows
<1>3. Books'
  BY <1>1, <1>2, PaymentKeepsBooks DEF PaymentEnters, MoneyInv
<1>4. \A u \in Titles \ {t} : SameTitle(u)
  <2>1. ASSUME NEW u \in Titles \ {t}
        PROVE  SameTitle(u)
    <3>1. title'[u] = title[u]
      BY <1>2 DEF MoneyInv, Books
    <3>2. \A j \in InstallmentsOf(u) : installment'[j] = installment[j]
      BY <1>1, <1>2 DEF MoneyInv, Books, InstallmentsOf
    <3>3. \A q \in Payments : TitleOf(q) = u => payment'[q] = payment[q]
      BY <1>2 DEF MoneyInv, Books
    <3> QED
      BY <3>1, <3>2, <3>3 DEF SameTitle
  <2> QED
    BY <2>1
<1>5. IsActive(t) /\ title'[t] # "absent"
  <2>1. title'[t] = TitleStatus(t, installment')
    BY <1>1, <1>2 DEF MoneyInv, Books
  <2> QED
    BY <1>1, <2>1, TitleStatusTyped DEF PaymentFits
<1>6. NothingOpens(Titles)
  BY <1>4, <1>5 DEF NothingOpens, SameTitle, IsActive
<1>7. \A S \in SUBSET Titles : NothingOpens(S)
  BY <1>6 DEF NothingOpens
<1>8. \A o \in Sales : TitlesOf(o) \in SUBSET Titles
  BY TitlesOfTyped
<1>9. Aside(s)
  BY <1>1, <1>4, <1>7, <1>8 DEF Aside
<1>10. (\A o \in Sales : SaleInOrder(o))'
  BY <1>7, <1>8, InOrderStays DEF MoneyInv
<1>11. ReceiptsInOrder'
  BY <1>6 DEF MoneyInv, ReceiptsInOrder, NothingOpens
<1> QED
  BY <1>3, <1>9, <1>10, <1>11, CommitMoves

(* A title is cancelled, alone or with its receipt.                        *)
LEMMA CancelCommits ==
  ASSUME MoneyInv, focus' = focus, focus \in {"purchasing", "money"},
         NEW s \in Sessions, tx' = [tx EXCEPT ![s] = NoTransaction],
         NEW t \in Titles, TitleFits(t, "cancelled"), TitleRow(t) \in tx[s].locks,
         TitleEnters(t, "cancelled"),
         receipt' \in [Receipts -> {"none", "received", "reversed"}],
         \A r \in Receipts :
           \/ receipt'[r] = receipt[r]
           \/ ItemRows(r) \subseteq tx[s].locks /\ receipt'[r] # "none"
  PROVE  MoneyInv'
<1>1. Books'
  BY TitleKeepsBooks DEF MoneyInv
<1>2. \A u \in Titles \ {t} : SameTitle(u)
  BY DEF MoneyInv, Books, TitleEnters, SameTitle
<1>3. title[t] # "absent" /\ title'[t] = "cancelled"
  BY DEF MoneyInv, Books, TitleEnters, TitleFits
<1>4. NothingOpens(Titles)
  BY <1>2, <1>3 DEF NothingOpens, SameTitle, IsActive
<1>5. \A S \in SUBSET Titles : NothingOpens(S)
  BY <1>4 DEF NothingOpens
<1>6. \A o \in Sales : TitlesOf(o) \in SUBSET Titles
  BY TitlesOfTyped
<1>7. Aside(s)
  BY <1>2, <1>5, <1>6 DEF Aside
<1>8. (\A o \in Sales : SaleInOrder(o))'
  BY <1>5, <1>6, InOrderStays DEF MoneyInv
<1>9. ReceiptsInOrder'
  BY <1>4 DEF MoneyInv, ReceiptsInOrder, NothingOpens
<1> QED
  BY <1>1, <1>7, <1>8, <1>9, CommitMoves

(* An order gets its next title.                                           *)
LEMMA SaleCommits ==
  ASSUME MoneyInv, focus' = focus, focus \in {"purchasing", "money"},
         NEW s \in Sessions, tx' = [tx EXCEPT ![s] = NoTransaction],
         NEW o \in Sales, SaleReady(tx[s], o),
         TitleEnters(NextTitle(o), "open"), receipt' = receipt
  PROVE  MoneyInv'
<1> DEFINE a == NextTitle(o)
<1>1. a \in Titles /\ a \in TitlesOf(o) /\ title[a] = "absent"
      /\ SaleRow(o) \in tx[s].locks /\ a \notin Receipts
  BY NextIsUnknown, TitlesOfTyped DEF MoneyInv, SaleReady
<1>2. Books'
  BY <1>1, TitleKeepsBooks DEF MoneyInv, TitleFits
<1>3. \A u \in Titles \ {a} : SameTitle(u)
  BY DEF MoneyInv, Books, TitleEnters, SameTitle
<1>4. \A S \in SUBSET (Titles \ {a}) : NothingOpens(S)
  BY <1>3 DEF NothingOpens, SameTitle, IsActive
<1>5. \A q \in Sales \ {o} : TitlesOf(q) \in SUBSET (Titles \ {a})
  BY <1>1, TitlesOfTyped
<1>6. Aside(s)
  <2>1. \A q \in Sales : SaleRow(q) \in tx[s].locks \/ NothingOpens(TitlesOf(q))
    BY <1>1, <1>4, <1>5
  <2>2. \A r \in Receipts : r \in Titles => NothingOpens({r})
    BY <1>1, <1>4
  <2> QED
    BY <1>1, <1>3, <2>1, <2>2 DEF Aside
<1>7. (\A q \in Sales : SaleInOrder(q))'
  <2>1. SaleInOrder(o)'
    BY NextInOrder DEF MoneyInv, TitleEnters
  <2>2. ASSUME NEW q \in Sales \ {o}
        PROVE  SaleInOrder(q)'
    BY <1>4, <1>5, InOrderStays DEF MoneyInv
  <2> QED
    BY <2>1, <2>2
<1>8. ReceiptsInOrder'
  BY <1>1, <1>3 DEF MoneyInv, ReceiptsInOrder, SameTitle
<1> QED
  BY <1>2, <1>6, <1>7, <1>8, CommitMoves

LEMMA MoneyCommits ==
  ASSUME MoneyInv, focus' = focus, focus \in {"purchasing", "money"},
         NEW s \in Sessions, tx' = [tx EXCEPT ![s] = NoTransaction],
         tx[s].do \in {"money", "refund"},
         title' = Written(title, tx[s].title),
         installment' = Written(installment, tx[s].installment),
         payment' = Written(payment, tx[s].payment), receipt' = receipt
  PROVE  MoneyInv'
<1>1. MoneyReady(tx[s])
  BY DEF MoneyInv, TransactionsFit, TxFits
<1>2. CASE \E p \in Payments : \E n \in Nat : \E status \in {"paid", "reversed"} :
             PaymentReady(tx[s], p, n, status)
  <2>1. PICK p \in Payments, n \in Nat, status \in {"paid", "reversed"} :
               PaymentReady(tx[s], p, n, status)
    BY <1>2
  <2> QED
    BY <2>1, PaymentCommits
<1>3. /\ Written(installment, NoRows) = installment
      /\ Written(payment, NoRows) = payment /\ Written(title, NoRows) = title
  BY WrittenNone DEF MoneyInv, Books
<1>4. CASE \E t \in Titles : CancelReady(tx[s], t)
  <2>1. PICK t \in Titles : CancelReady(tx[s], t)
    BY <1>4
  <2>2. TitleEnters(t, "cancelled")
    BY <1>3, <2>1, WrittenOne DEF CancelReady, SameRows, TitleEnters
  <2>3. receipt' \in [Receipts -> {"none", "received", "reversed"}]
    BY DEF MoneyInv, ReceiptsInOrder
  <2> QED
    BY <2>1, <2>2, <2>3, CancelCommits DEF CancelReady
<1>5. CASE \E o \in Sales : SaleReady(tx[s], o)
  <2>1. PICK o \in Sales : SaleReady(tx[s], o)
    BY <1>5
  <2>2. TitleEnters(NextTitle(o), "open")
    BY <1>3, <2>1, WrittenOne DEF SaleReady, SameRows, TitleEnters
  <2> QED
    BY <2>1, <2>2, SaleCommits
<1>6. CASE SameRows(tx[s], NoRows, NoRows, NoRows)
  <2>1. UNCHANGED <<title, installment, payment, receipt>>
    BY <1>3, <1>6 DEF SameRows
  <2>2. /\ Books' /\ ReceiptsInOrder' /\ (\A o \in Sales : SaleInOrder(o))'
    BY <2>1, NothingWritten DEF MoneyInv
  <2>3. Aside(s)
    BY <2>1 DEF Aside, SameTitle, NothingOpens, IsActive
  <2> QED
    BY <2>2, <2>3, CommitMoves
<1> QED
  BY <1>1, <1>2, <1>4, <1>5, <1>6 DEF MoneyReady

-----------------------------------------------------------------------------
(* Receipts *)

LEMMA ReceiptCommits ==
  ASSUME MoneyInv, focus' = focus, focus \in {"purchasing", "money"},
         NEW s \in Sessions, tx' = [tx EXCEPT ![s] = NoTransaction], tx[s].do = "commit",
         receipt' = Written(receipt, tx[s].receipt), title' = Written(title, tx[s].title),
         UNCHANGED <<installment, payment>>
  PROVE  MoneyInv'
<1>1. PICK r \in Receipts :
        ItemRows(r) \subseteq tx[s].locks /\ (Incoming(tx[s], r) \/ Outgoing(tx[s], r))
  BY DEF MoneyInv, TransactionsFit, TxFits, ReceiptReady
<1>2. PICK v : v \in {"received", "reversed"} /\ tx[s].receipt = OneRow(r, v)
  BY <1>1 DEF Incoming, Outgoing
<1>3. receipt' = [receipt EXCEPT ![r] = v]
  BY <1>2, WrittenOne
<1>4. /\ receipt' \in [Receipts -> {"none", "received", "reversed"}]
      /\ receipt'[r] # "none" /\ \A q \in Receipts \ {r} : receipt'[q] = receipt[q]
  BY <1>2, <1>3 DEF MoneyInv, ReceiptsInOrder
<1>5. Written(title, NoRows) = title
  BY WrittenNone DEF MoneyInv, Books
<1>6. CASE tx[s].title = NoRows
  <2>1. UNCHANGED <<title, installment, payment>>
    BY <1>5, <1>6
  <2>2. Books' /\ (\A o \in Sales : SaleInOrder(o))'
    <3>1. Books'
      BY <2>1, BooksStay DEF MoneyInv
    <3>2. (\A o \in Sales : SaleInOrder(o))'
      <4>1. \A S : NothingOpens(S)
        BY <2>1 DEF NothingOpens, IsActive
      <4> QED
        BY <4>1, InOrderStays DEF MoneyInv
    <3> QED
      BY <3>1, <3>2
  <2>3. ReceiptsInOrder'
    BY <1>4, <2>1 DEF MoneyInv, ReceiptsInOrder
  <2>4. Aside(s)
    BY <1>1, <1>4, <2>1 DEF Aside, SameTitle, NothingOpens, IsActive
  <2> QED
    BY <2>2, <2>3, <2>4, CommitMoves
<1>7. CASE Incoming(tx[s], r) /\ Receipt[r].payable
  <2>1. r \in Titles /\ title[r] = "absent"
    BY <1>7, ReceiptsTyped DEF Incoming, MoneyInv, ReceiptsInOrder
  <2>2. TitleEnters(r, "open")
    BY <1>7, WrittenOne DEF Incoming, TitleEnters
  <2>3. Books'
    BY <2>1, <2>2, TitleKeepsBooks DEF MoneyInv, TitleFits
  <2>4. \A u \in Titles \ {r} : SameTitle(u)
    BY <2>2 DEF MoneyInv, Books, TitleEnters, SameTitle
  <2>5. \A S \in SUBSET (Titles \ {r}) : NothingOpens(S)
    BY <2>4 DEF NothingOpens, SameTitle, IsActive
  <2>6. \A o \in Sales : NothingOpens(TitlesOf(o))
    BY <2>5, TitlesOfTyped
  <2>7. Aside(s)
    BY <1>1, <1>4, <2>1, <2>4, <2>5, <2>6 DEF Aside
  <2>8. (\A o \in Sales : SaleInOrder(o))'
    BY <2>6, InOrderStays DEF MoneyInv
  <2>9. ReceiptsInOrder'
    BY <1>4, <2>4 DEF MoneyInv, ReceiptsInOrder, SameTitle
  <2> QED
    BY <2>3, <2>7, <2>8, <2>9, CommitMoves
<1>8. CASE Outgoing(tx[s], r) /\ HasPayable(r)
  <2>1. r \in Titles /\ TitleRow(r) \in tx[s].locks /\ TitleFits(r, "cancelled")
    BY <1>8 DEF Outgoing, HasPayable, TitleFits
  <2>2. TitleEnters(r, "cancelled")
    BY <1>8, WrittenOne DEF Outgoing, PayableGone, TitleEnters
  <2> QED
    BY <1>1, <1>4, <2>1, <2>2, CancelCommits
<1> QED
  BY <1>1, <1>6, <1>7, <1>8 DEF Incoming, Outgoing, PayableGone

-----------------------------------------------------------------------------
(* The steps that write no title, payment or receipt *)

LEMMA Begins ==
  ASSUME MoneyInv, focus' = focus, focus \in {"purchasing", "money"},
         NEW s \in Sessions, NEW x, tx' = [tx EXCEPT ![s] = x],
         Free(s, x.locks), TxFits(x), UNCHANGED <<title, installment, payment, receipt>>
  PROVE  MoneyInv'
<1>1. /\ Books' /\ ReceiptsInOrder' /\ (\A o \in Sales : SaleInOrder(o))'
      /\ \A y : LocksHold(y)
  BY NothingWritten DEF MoneyInv
<1>2. TxFits(x)'
  BY <1>1, FitStays
<1> QED
  BY <1>1, <1>2, Moves

(* A transaction of no interest here, or none.                             *)
LEMMA Passes ==
  ASSUME MoneyInv, focus' = focus, focus \in {"purchasing", "money"},
         NEW s \in Sessions, NEW x, tx' = [tx EXCEPT ![s] = x],
         x.do \in {"none", "order", "stock"}, x.locks = {},
         UNCHANGED <<title, installment, payment, receipt>>
  PROVE  MoneyInv'
<1>1. TxFits(x) /\ Free(s, x.locks)
  BY DEF TxFits, Free
<1> QED
  BY <1>1, Begins

LEMMA Finishes ==
  ASSUME MoneyInv, focus' = focus, focus \in {"purchasing", "money"},
         NEW s \in Sessions, tx' = [tx EXCEPT ![s] = NoTransaction],
         UNCHANGED <<title, installment, payment, receipt>>
  PROVE  MoneyInv'
<1>1. PICK x : x = NoTransaction
  OBVIOUS
<1>2. x.do = "none" /\ x.locks = {}
  BY <1>1 DEF NoTransaction
<1> QED
  BY <1>1, <1>2, Passes

LEMMA TablesStay ==
  ASSUME MoneyInv, UNCHANGED <<focus, tx, title, installment, payment, receipt>>
  PROVE  MoneyInv'
<1>1. /\ Books' /\ ReceiptsInOrder' /\ (\A o \in Sales : SaleInOrder(o))'
      /\ \A y : LocksHold(y)
  BY NothingWritten DEF MoneyInv
<1>2. ASSUME focus \in {"purchasing", "money"}
      PROVE  TransactionsFit'
  <2>1. ASSUME NEW u \in Sessions
        PROVE  TxFits(tx[u])'
    <3>1. PICK y : y = tx[u]
      OBVIOUS
    <3>2. TxFits(y)
      BY <1>2, <3>1 DEF MoneyInv, TransactionsFit
    <3>3. TxFits(y)'
      BY <1>1, <3>2, FitStays
    <3> QED
      BY <3>1, <3>3
  <2> QED
    BY <1>2, <2>1 DEF MoneyInv, TransactionsFit
<1> QED
  BY <1>1, <1>2 DEF MoneyInv

-----------------------------------------------------------------------------
(* settle, reverse, cancel_title *)

LEMMA MoneySteps ==
  ASSUME MoneyInv, focus' = focus, focus \in {"purchasing", "money"}, receipt' = receipt,
         NEW s \in Sessions, MoneyStep(s)
  PROVE  MoneyInv'
<1>1. ASSUME NEW p \in Payments, Settle(s, p)
      PROVE  MoneyInv'
  <2> DEFINE i == Payment[p].installment
             n == installment[i].settled + Payment[p].amount
  <2>1. PICK x : x = Settling(i, n, p, "paid")
    OBVIOUS
  <2>2. /\ i \in Installments /\ Payment[p].amount \in Nat /\ installment[i].settled \in Nat
        /\ Installment[i].title = TitleOf(p)
    BY PaymentsTyped2 DEF MoneyInv, Books
  <2>3. n \in Nat /\ PaymentFits(p, n, "paid")
    BY <1>1, <2>2 DEF Settle, PaymentFits, IsActive
  <2>4. PaymentReady(x, p, n, "paid")
    BY <2>1, <2>2, <2>3 DEF Settling, PaymentReady, SameRows, Row
  <2>5. x.do = "money" /\ TxFits(x)
    BY <2>1, <2>3, <2>4 DEF TxFits, MoneyReady, Settling
  <2>6. Free(s, x.locks)
    BY <1>1, <2>1, <2>2 DEF Settle, Settling, LockTitle, Free
  <2>7. tx' = [tx EXCEPT ![s] = x] /\ UNCHANGED <<title, installment, payment>>
    BY <1>1, <2>1 DEF Settle, Starts, moneyTables
  <2> QED
    BY <2>5, <2>6, <2>7, Begins
<1>2. ASSUME NEW p \in Payments, ReversePayment(s, p)
      PROVE  MoneyInv'
  <2> DEFINE i == Payment[p].installment
             n == installment[i].settled - Payment[p].amount
  <2>1. PICK x : x = Settling(i, n, p, "reversed")
    OBVIOUS
  <2>2. n \in Nat /\ PaymentFits(p, n, "reversed") /\ Installment[i].title = TitleOf(p)
    BY <1>2, ReversalFits, PaymentsTyped2 DEF ReversePayment, MoneyInv
  <2>3. PaymentReady(x, p, n, "reversed")
    BY <2>1, <2>2 DEF Settling, PaymentReady, SameRows, Row
  <2>4. x.do = "money" /\ TxFits(x)
    BY <2>1, <2>2, <2>3 DEF TxFits, MoneyReady, Settling
  <2>5. Free(s, x.locks)
    BY <1>2, <2>1, <2>2 DEF ReversePayment, Settling, LockTitle, Free
  <2>6. tx' = [tx EXCEPT ![s] = x] /\ UNCHANGED <<title, installment, payment>>
    BY <1>2, <2>1 DEF ReversePayment, Starts, moneyTables
  <2> QED
    BY <2>4, <2>5, <2>6, Begins
<1>3. ASSUME NEW t \in Titles, CancelTitle(s, t)
      PROVE  MoneyInv'
  <2>1. PICK x : x = [do |-> "money", locks |-> {TitleRow(t)},
                      title |-> OneRow(t, "cancelled"),
                      installment |-> NoRows, payment |-> NoRows]
    OBVIOUS
  <2>2. CancelReady(x, t)
    BY <1>3, <2>1 DEF CancelTitle, CancelReady, TitleFits, SameRows
  <2>3. x.do = "money" /\ TxFits(x)
    BY <2>1, <2>2 DEF TxFits, MoneyReady
  <2>4. Free(s, x.locks)
    BY <1>3, <2>1 DEF CancelTitle, LockTitle
  <2>5. tx' = [tx EXCEPT ![s] = x] /\ UNCHANGED <<title, installment, payment>>
    BY <1>3, <2>1 DEF CancelTitle, Starts, moneyTables
  <2> QED
    BY <2>3, <2>4, <2>5, Begins
<1>4. CASE CommitMoney(s)
  BY <1>4, MoneyCommits DEF CommitMoney, Commits
<1> QED
  BY <1>1, <1>2, <1>3, <1>4 DEF MoneyStep

-----------------------------------------------------------------------------
(* The receivables of the orders *)

LEMMA SaleSteps ==
  ASSUME MoneyInv, focus' = focus, focus = "money", receipt' = receipt,
         NEW s \in Sessions,
         \/ \E o \in Sales : ReadOrder(s, o)
         \/ \E known \in BOOLEAN : CreateReceivable(s, known)
  PROVE  MoneyInv'
<1>1. ASSUME NEW o \in Sales, ReadOrder(s, o)
      PROVE  MoneyInv'
  <2>1. PICK x : x = [do |-> "receivable", locks |-> {}, o |-> o, seen |-> sale[o]]
    OBVIOUS
  <2>2. TxFits(x) /\ Free(s, x.locks)
    BY <2>1 DEF TxFits, Free
  <2>3. tx' = [tx EXCEPT ![s] = x] /\ UNCHANGED <<title, installment, payment>>
    BY <1>1, <2>1 DEF ReadOrder, Starts, moneyTables
  <2> QED
    BY <2>2, <2>3, Begins
<1>2. ASSUME NEW known \in BOOLEAN, CreateReceivable(s, known)
      PROVE  MoneyInv'
  <2>1. PICK o \in Sales : o = tx[s].o
    BY <1>2 DEF CreateReceivable, MoneyInv, TransactionsFit, TxFits
  <2>2. PICK x : x = [do |-> "money", locks |-> {SaleRow(o)},
                      title |-> OneRow(NextTitle(o), "open"),
                      installment |-> NoRows, payment |-> NoRows]
    OBVIOUS
  <2>3. Known1(o) \in DOMAIN OrderTitles[o] /\ ActiveTitles(o) = {}
    BY <1>2, <2>1 DEF CreateReceivable, Known1, NothingActive
  <2>4. SaleReady(x, o)
    BY <2>2, <2>3, NextIsUnknown DEF SaleReady, SameRows, MoneyInv
  <2>5. x.do = "money" /\ TxFits(x)
    BY <2>2, <2>4 DEF TxFits, MoneyReady
  <2>6. Free(s, x.locks)
    BY <1>2, <2>1, <2>2 DEF CreateReceivable
  <2>7. tx' = [tx EXCEPT ![s] = x] /\ UNCHANGED <<title, installment, payment>>
    BY <1>2, <2>1, <2>2 DEF CreateReceivable, NextTitle, Known1, moneyTables
  <2> QED
    BY <2>5, <2>6, <2>7, Begins
<1> QED
  BY <1>1, <1>2

-----------------------------------------------------------------------------
(* Purchase orders and their receipts *)

LEMMA OrderSteps ==
  ASSUME MoneyInv, focus' = focus, focus = "purchasing",
         NEW s \in Sessions, OrderStep(s)
  PROVE  MoneyInv'
<1>1. ASSUME NEW o \in Orders, NEW status, Starts(s, OrderRequest(o, status)),
             UNCHANGED <<moneyTables, orderTables>>
      PROVE  MoneyInv'
  <2>1. PICK x : x = OrderRequest(o, status)
    OBVIOUS
  <2>2. x.do = "order" /\ x.locks = {} /\ tx' = [tx EXCEPT ![s] = x]
    BY <1>1, <2>1 DEF OrderRequest, Starts
  <2> QED
    BY <1>1, <2>2, Passes DEF moneyTables, orderTables
<1>2. ASSUME NEW r \in Receipts, NEW x, x.do \in {"receive", "reverse_receipt"},
             x.locks = {}, x.receipt = r, Starts(s, x),
             UNCHANGED <<moneyTables, orderTables>>
      PROVE  MoneyInv'
  <2>1. TxFits(x) /\ Free(s, x.locks)
    BY <1>2 DEF TxFits, Free
  <2> QED
    BY <1>2, <2>1, Begins DEF Starts, moneyTables, orderTables
<1>3. ASSUME NEW o \in Orders, ApproveRead(s, o) \/ CancelRead(s, o)
      PROVE  MoneyInv'
  BY <1>1, <1>3 DEF ApproveRead, CancelRead
<1>4. ASSUME NEW r \in Receipts, ReceiveRead(s, r) \/ ReverseReceiptRead(s, r)
      PROVE  MoneyInv'
  <2>1. PICK x, y :
          /\ x = [do |-> "receive", locks |-> {}, receipt |-> r,
                  seen |-> order[Receipt[r].order]]
          /\ y = [do |-> "reverse_receipt", locks |-> {}, receipt |-> r,
                  seen |-> order[Receipt[r].order]]
    OBVIOUS
  <2>2. /\ x.do = "receive" /\ x.locks = {} /\ x.receipt = r
        /\ y.do = "reverse_receipt" /\ y.locks = {} /\ y.receipt = r
    BY <2>1
  <2>3. (Starts(s, x) \/ Starts(s, y)) /\ UNCHANGED <<moneyTables, orderTables>>
    BY <1>4, <2>1 DEF ReceiveRead, ReverseReceiptRead
  <2> QED
    BY <1>2, <2>2, <2>3
<1>5. CASE OrderWrite(s) \/ Rollback(s)
  BY <1>5, Finishes DEF OrderWrite, Rollback, RollsBack, Commits, moneyTables, orderTables
<1>6. CASE ReceiveWork(s)
  <2>1. PICK r \in Receipts : r = tx[s].receipt
    BY <1>6 DEF ReceiveWork, MoneyInv, TransactionsFit, TxFits
  <2>2. PICK x : /\ tx' = [tx EXCEPT ![s] = x] /\ x.do = "commit"
                 /\ ItemRows(r) \subseteq x.locks /\ Free(s, x.locks)
                 /\ x.receipt = OneRow(r, "received")
                 /\ x.title = IF Receipt[r].payable THEN OneRow(r, "open") ELSE NoRows
    <3>1. PICK moves, items, change, rows, opened :
            /\ tx' = [tx EXCEPT ![s] =
                 [do |-> "commit", locks |-> rows, moves |-> moves, items |-> items,
                  order |-> change, receipt |-> OneRow(r, "received"), title |-> opened]]
            /\ Free(s, rows) /\ ItemRows(r) \subseteq rows
            /\ opened = IF Receipt[r].payable THEN OneRow(r, "open") ELSE NoRows
      BY <1>6, <2>1, Zenon DEF ReceiveWork
    <3>2. PICK x : x = [do |-> "commit", locks |-> rows, moves |-> moves, items |-> items,
                        order |-> change, receipt |-> OneRow(r, "received"),
                        title |-> opened]
      OBVIOUS
    <3>3. x.do = "commit" /\ x.locks = rows /\ x.receipt = OneRow(r, "received")
          /\ x.title = opened
      BY <3>2
    <3> QED
      BY <3>1, <3>2, <3>3
  <2>3. Incoming(x, r)
    BY <1>6, <2>1, <2>2 DEF ReceiveWork, Incoming
  <2>4. TxFits(x)
    BY <2>2, <2>3 DEF TxFits, ReceiptReady
  <2>5. UNCHANGED <<title, installment, payment, receipt>>
    BY <1>6 DEF ReceiveWork, moneyTables, orderTables
  <2> QED
    BY <2>2, <2>4, <2>5, Begins
<1>7. CASE ReverseReceiptWork(s)
  <2>1. PICK r \in Receipts : r = tx[s].receipt
    BY <1>7 DEF ReverseReceiptWork, MoneyInv, TransactionsFit, TxFits
  <2>2. PICK x : /\ tx' = [tx EXCEPT ![s] = x] /\ x.do = "commit"
                 /\ ItemRows(r) \subseteq x.locks /\ Free(s, x.locks)
                 /\ HasPayable(r) => TitleRow(r) \in x.locks
                 /\ x.receipt = OneRow(r, "reversed") /\ x.title = PayableGone(r)
    <3>1. PICK moves, items, change, rows :
            /\ tx' = [tx EXCEPT ![s] =
                 [do |-> "commit", locks |-> rows, moves |-> moves, items |-> items,
                  order |-> change, receipt |-> OneRow(r, "reversed"),
                  title |-> PayableGone(r)]]
            /\ Free(s, rows) /\ ItemRows(r) \subseteq rows
            /\ HasPayable(r) => TitleRow(r) \in rows
      BY <1>7, <2>1, Zenon DEF ReverseReceiptWork
    <3>2. PICK x : x = [do |-> "commit", locks |-> rows, moves |-> moves, items |-> items,
                        order |-> change, receipt |-> OneRow(r, "reversed"),
                        title |-> PayableGone(r)]
      OBVIOUS
    <3>3. x.do = "commit" /\ x.locks = rows /\ x.receipt = OneRow(r, "reversed")
          /\ x.title = PayableGone(r)
      BY <3>2
    <3> QED
      BY <3>1, <3>2, <3>3
  <2>3. Outgoing(x, r)
    BY <1>7, <2>1, <2>2 DEF ReverseReceiptWork, ClaimReversal, PayableCanGo, Outgoing
  <2>4. TxFits(x)
    BY <2>2, <2>3 DEF TxFits, ReceiptReady
  <2>5. UNCHANGED <<title, installment, payment, receipt>>
    BY <1>7 DEF ReverseReceiptWork, moneyTables, orderTables
  <2> QED
    BY <2>2, <2>4, <2>5, Begins
<1>8. CASE CommitReceipt(s)
  BY <1>8, ReceiptCommits DEF CommitReceipt, Commits
<1> QED
  BY <1>3, <1>4, <1>5, <1>6, <1>7, <1>8 DEF OrderStep

LEMMA StockSteps ==
  ASSUME MoneyInv, focus' = focus, focus = "purchasing",
         NEW s \in Sessions, StockStep(s), UNCHANGED <<moneyTables, orderTables>>
  PROVE  MoneyInv'
<1>1. UNCHANGED <<title, installment, payment, receipt>>
  BY DEF moneyTables, orderTables
<1>2. ASSUME NEW moves, NEW expected, NEW closing,
             Starts(s, StockRequest(moves, expected, closing))
      PROVE  MoneyInv'
  <2>1. PICK x : x = StockRequest(moves, expected, closing)
    OBVIOUS
  <2>2. x.do = "stock" /\ x.locks = {} /\ tx' = [tx EXCEPT ![s] = x]
    BY <1>2, <2>1 DEF StockRequest, Starts
  <2> QED
    BY <1>1, <2>2, Passes
<1>3. ASSUME NEW a \in DOMAIN Adjustment, AdjustRead(s, a)
      PROVE  MoneyInv'
  BY <1>2, <1>3 DEF AdjustRead
<1>4. ASSUME NEW t \in DOMAIN Transfer, TransferRead(s, t)
      PROVE  MoneyInv'
  BY <1>2, <1>4 DEF TransferRead
<1>5. ASSUME NEW r \in DOMAIN Reservation, ReserveRead(s, r) \/ ReleaseRead(s, r)
      PROVE  MoneyInv'
  BY <1>2, <1>5 DEF ReserveRead, ReleaseRead
<1>6. ASSUME NEW m \in movements, ReverseMovementRead(s, m)
      PROVE  MoneyInv'
  BY <1>2, <1>6 DEF ReverseMovementRead
<1>7. CASE StockWrite(s)
  BY <1>1, <1>7, Finishes DEF StockWrite, Commits
<1> QED
  BY <1>3, <1>4, <1>5, <1>6, <1>7 DEF StockStep

-----------------------------------------------------------------------------
(* Refunds: what a transaction is about to write of a request *)

RefundReady(x) ==
  \E f \in RefundRequests :
  \E v \in {"requested", "approved", "rejected", "cancelled", "external_confirmed",
            "reversed_local"} :
    LET p == Refund[f].payment
    IN /\ x.refund = OneRow(f, v)
       /\ payment[p] # "none"
       /\ \/ /\ v = "requested" /\ refund[f] = "absent"
             /\ TitleRow(TitleOf(p)) \in x.locks
             /\ Commitment(p) + Refund[f].amount <= Payment[p].amount
          \/ /\ v # "requested" /\ refund[f] \in {"requested", "approved"}
             /\ RefundRow(f) \in x.locks
       /\ v = "reversed_local" => /\ Refund[f].amount = Payment[p].amount
                                  /\ x.payment = OneRow(p, "reversed")

RefundsStand ==
  /\ RefundsTypeOK
  /\ RefundsWithinPayment
  /\ \A f \in RefundRequests : refund[f] # "absent" => payment[Refund[f].payment] # "none"
  /\ \A f \in RefundRequests :
       refund[f] = "reversed_local" =>
         /\ Refund[f].amount = Payment[Refund[f].payment].amount
         /\ payment[Refund[f].payment] = "reversed"

RefundInv ==
  /\ RefundsStand
  /\ focus = "money" =>
       \A s \in Sessions : tx[s].do = "refund" => RefundReady(tx[s])

(* No payment comes back from the reversed, or is unmade.                  *)
PaymentsGoOn ==
  \A p \in Payments : /\ payment[p] # "none" => payment'[p] # "none"
                      /\ payment[p] = "reversed" => payment'[p] = "reversed"

LEMMA RefundsOk ==
  ASSUME NEW f \in RefundRequests
  PROVE  /\ Refund[f].payment \in Payments /\ Refund[f].amount \in Nat
         /\ Refund[f].amount > 0 /\ TitleOf(Refund[f].payment) \in Titles
         /\ Payment[Refund[f].payment].amount \in Nat
BY RefundsTyped, PaymentsTyped2

(* The requests of a payment that commit its money.                        *)
CommittingOf(p) == {g \in RefundsOf(p) : refund[g] \in Committing}
Asked(A) == SumFunction([f \in A |-> Refund[f].amount])

LEMMA CommitmentIs ==
  ASSUME NEW p
  PROVE  /\ Commitment(p) = Asked(CommittingOf(p))
         /\ CommittingOf(p) \in SUBSET RefundRequests /\ IsFiniteSet(CommittingOf(p))
<1>1. CommittingOf(p) \in SUBSET RefundRequests
  BY DEF CommittingOf, RefundsOf
<1> QED
  BY <1>1, RefundsAreFinite, FS_Subset DEF Commitment, Asked, CommittingOf

LEMMA AskedTyped ==
  ASSUME NEW A \in SUBSET RefundRequests
  PROVE  Asked(A) \in Nat /\ IsFiniteSet(A) /\ [f \in A |-> Refund[f].amount] \in [A -> Nat]
<1>1. IsFiniteSet(A)
  BY RefundsAreFinite, FS_Subset
<1>2. [f \in A |-> Refund[f].amount] \in [A -> Nat]
  BY RefundsTyped
<1> QED
  BY <1>1, <1>2, SumNatural DEF Asked

LEMMA AskedMore ==
  ASSUME NEW A \in SUBSET RefundRequests, NEW f \in RefundRequests, f \notin A
  PROVE  Asked(A \cup {f}) = Asked(A) + Refund[f].amount
<1> DEFINE g == [q \in A |-> Refund[q].amount]
           h == [q \in A \cup {f} |-> Refund[q].amount]
<1>1. IsFiniteSet(A)
  BY AskedTyped
<1>2. g \in [A -> Int] /\ h \in [A \cup {f} -> Int]
  BY RefundsTyped
<1>3. h[f] = Refund[f].amount
  OBVIOUS
<1>4. \A q \in A : h[q] = g[q]
  OBVIOUS
<1> HIDE DEF g, h
<1>5. SumFunction(h) = SumFunction(g) + h[f]
  BY <1>1, <1>2, <1>4, SumJoin
<1> QED
  BY <1>3, <1>5 DEF g, h, Asked

(* A request that is closed frees money, one that is made takes its own.   *)
LEMMA CommitmentMoves ==
  ASSUME RefundsTypeOK, NEW f \in RefundRequests, NEW v,
         refund' = [refund EXCEPT ![f] = v],
         \/ v = "requested" /\ refund[f] = "absent"
         \/ refund[f] \in {"requested", "approved"},
         NEW p \in Payments
  PROVE  /\ Commitment(p) \in Nat /\ Commitment(p)' \in Nat
         /\ Commitment(p)' <= Commitment(p)
              \/ /\ p = Refund[f].payment /\ refund[f] = "absent"
                 /\ Commitment(p)' = Commitment(p) + Refund[f].amount
<1> DEFINE A == CommittingOf(p)
           B == CommittingOf(p)'
<1>1. /\ Commitment(p) = Asked(A) /\ Commitment(p)' = Asked(B)
      /\ A \in SUBSET RefundRequests /\ B \in SUBSET RefundRequests
  <2>1. Commitment(p) = Asked(A) /\ A \in SUBSET RefundRequests
    BY CommitmentIs
  <2>2. Commitment(p)' = Asked(B)
    BY DEF Commitment, Asked, CommittingOf
  <2>3. B \in SUBSET RefundRequests
    BY DEF CommittingOf, RefundsOf
  <2> QED
    BY <2>1, <2>2, <2>3
<1>2. Asked(A) \in Nat /\ Asked(B) \in Nat /\ Refund[f].amount \in Nat
  BY <1>1, AskedTyped, RefundsOk
<1>3. refund'[f] = v /\ \A g \in RefundRequests \ {f} : refund'[g] = refund[g]
  BY DEF RefundsTypeOK
<1>4. \A g \in RefundsOf(p) : g \in RefundRequests
  BY DEF RefundsOf
<1>5. CASE f \notin RefundsOf(p)
  <2>1. A = B
    BY <1>3, <1>4, <1>5 DEF CommittingOf
  <2> QED
    BY <1>1, <1>2, <2>1
<1>6. CASE f \in RefundsOf(p) /\ refund[f] = "absent"
  <2>1. v = "requested" /\ p = Refund[f].payment
    BY <1>6 DEF RefundsOf
  <2>2. B = A \cup {f} /\ f \notin A
    BY <1>3, <1>4, <1>6, <2>1 DEF CommittingOf, Committing
  <2>3. Asked(B) = Asked(A) + Refund[f].amount
    BY <1>1, <2>2, AskedMore
  <2> QED
    BY <1>1, <1>2, <1>6, <2>1, <2>3
<1>7. CASE f \in RefundsOf(p) /\ refund[f] \in {"requested", "approved"}
  <2>1. f \in A
    BY <1>7 DEF CommittingOf, Committing
  <2>2. CASE v \in Committing
    <3>1. A = B
      BY <1>3, <1>4, <2>1, <2>2, <1>7 DEF CommittingOf
    <3> QED
      BY <1>1, <1>2, <3>1
  <2>3. CASE v \notin Committing
    <3>1. f \notin B /\ A = B \cup {f}
      BY <1>3, <1>4, <2>1, <2>3 DEF CommittingOf
    <3>2. Asked(A) = Asked(B) + Refund[f].amount
      BY <1>1, <3>1, AskedMore
    <3> QED
      BY <1>1, <1>2, <3>2
  <2> QED
    BY <2>2, <2>3
<1> QED
  BY <1>5, <1>6, <1>7

(* Two requests that stand take both their amounts.                        *)
LEMMA TwoRequests ==
  ASSUME NEW p, NEW f \in CommittingOf(p), NEW g \in CommittingOf(p), f # g
  PROVE  Refund[f].amount + Refund[g].amount <= Commitment(p)
<1> DEFINE A == CommittingOf(p)
<1>1. A \in SUBSET RefundRequests /\ Commitment(p) = Asked(A)
  BY CommitmentIs
<1>2. A \ {f} \in SUBSET RefundRequests /\ A = (A \ {f}) \cup {f} /\ f \in RefundRequests
  BY <1>1
<1>3. Asked(A) = Asked(A \ {f}) + Refund[f].amount
  BY <1>2, AskedMore
<1>4. Refund[g].amount <= Asked(A \ {f})
  <2>1. IsFiniteSet(A \ {f}) /\ [q \in A \ {f} |-> Refund[q].amount] \in [A \ {f} -> Nat]
    BY <1>2, AskedTyped
  <2>2. g \in A \ {f}
    OBVIOUS
  <2>3. [q \in A \ {f} |-> Refund[q].amount][g] <= Asked(A \ {f})
    BY <2>1, <2>2, SumBounds DEF Asked
  <2> QED
    BY <2>2, <2>3
<1>5. Asked(A \ {f}) \in Nat /\ Refund[f].amount \in Nat /\ Refund[g].amount \in Nat
  BY <1>1, <1>2, AskedTyped, RefundsOk
<1> QED
  BY <1>1, <1>3, <1>4, <1>5

-----------------------------------------------------------------------------
(* Payments go on *)

LEMMA WrittenPayments ==
  ASSUME MoneyInv, NEW x, MoneyReady(x), payment' = Written(payment, x.payment)
  PROVE  PaymentsGoOn
<1>1. CASE \E p \in Payments : \E n \in Nat : \E status \in {"paid", "reversed"} :
             PaymentReady(x, p, n, status)
  <2>1. PICK p \in Payments, n \in Nat, status \in {"paid", "reversed"} :
               PaymentReady(x, p, n, status)
    BY <1>1
  <2>2. payment' = [payment EXCEPT ![p] = status]
    BY <2>1, WrittenOne DEF PaymentReady, SameRows
  <2>3. payment[p] # "reversed"
    BY <2>1 DEF PaymentReady, PaymentFits
  <2> QED
    BY <2>1, <2>2, <2>3 DEF PaymentsGoOn, MoneyInv, Books
<1>2. CASE x.payment = NoRows
  BY <1>2, WrittenNone DEF PaymentsGoOn, MoneyInv, Books
<1> QED
  BY <1>1, <1>2 DEF MoneyReady, CancelReady, SaleReady, SameRows

LEMMA PaymentsSame ==
  ASSUME UNCHANGED payment
  PROVE  PaymentsGoOn
BY DEF PaymentsGoOn

-----------------------------------------------------------------------------
(* The steps that write no request *)

LEMMA RefundsStay ==
  ASSUME RefundInv, UNCHANGED <<refund, focus>>, PaymentsGoOn
  PROVE  /\ RefundsStand'
         /\ \A x : RefundReady(x) => RefundReady(x)'
<1>1. \A p : Commitment(p)' = Commitment(p)
  BY DEF Commitment
<1>2. RefundsStand'
  BY <1>1, RefundsOk DEF RefundInv, RefundsStand, RefundsTypeOK, RefundsWithinPayment,
                         PaymentsGoOn
<1>3. ASSUME NEW x, RefundReady(x)
      PROVE  RefundReady(x)'
  BY <1>1, <1>3, RefundsOk DEF RefundReady, PaymentsGoOn
<1> QED
  BY <1>2, <1>3

LEMMA RefundBegins ==
  ASSUME RefundInv, TransactionsFit, UNCHANGED <<refund, focus>>, PaymentsGoOn,
         NEW s \in Sessions, NEW x, tx' = [tx EXCEPT ![s] = x],
         x.do = "refund" => RefundReady(x)
  PROVE  RefundInv'
<1>1. RefundsStand' /\ \A y : RefundReady(y) => RefundReady(y)'
  BY RefundsStay
<1>2. tx'[s] = x /\ \A u \in Sessions \ {s} : tx'[u] = tx[u]
  BY DEF TransactionsFit
<1>3. ASSUME focus = "money", NEW u \in Sessions, tx'[u].do = "refund"
      PROVE  RefundReady(tx[u])'
  <2>1. PICK y : y = tx'[u]
    OBVIOUS
  <2>2. RefundReady(y)
    BY <1>2, <1>3, <2>1 DEF RefundInv
  <2>3. RefundReady(y)'
    BY <1>1, <2>2
  <2> QED
    BY <2>1, <2>3
<1> QED
  BY <1>1, <1>3 DEF RefundInv

LEMMA RefundPasses ==
  ASSUME RefundInv, UNCHANGED <<refund, focus>>, PaymentsGoOn,
         focus = "money" => UNCHANGED tx
  PROVE  RefundInv'
<1>1. RefundsStand' /\ \A y : RefundReady(y) => RefundReady(y)'
  BY RefundsStay
<1>2. ASSUME focus = "money", NEW u \in Sessions, tx'[u].do = "refund"
      PROVE  RefundReady(tx[u])'
  <2>1. PICK y : y = tx[u]
    OBVIOUS
  <2>2. RefundReady(y)'
    BY <1>1, <1>2, <2>1 DEF RefundInv
  <2> QED
    BY <1>2, <2>1, <2>2
<1> QED
  BY <1>1, <1>2 DEF RefundInv

-----------------------------------------------------------------------------
(* A commit writes a request *)

LEMMA RefundCommits ==
  ASSUME MoneyInv, RefundInv, focus = "money", focus' = focus,
         NEW s \in Sessions, CommitRefund(s)
  PROVE  RefundInv'
<1>1. PICK f \in RefundRequests,
           v \in {"requested", "approved", "rejected", "cancelled", "external_confirmed",
                  "reversed_local"} :
        LET p == Refund[f].payment
        IN /\ tx[s].refund = OneRow(f, v)
           /\ payment[p] # "none"
           /\ \/ /\ v = "requested" /\ refund[f] = "absent"
                 /\ TitleRow(TitleOf(p)) \in tx[s].locks
                 /\ Commitment(p) + Refund[f].amount <= Payment[p].amount
              \/ /\ v # "requested" /\ refund[f] \in {"requested", "approved"}
                 /\ RefundRow(f) \in tx[s].locks
           /\ v = "reversed_local" => /\ Refund[f].amount = Payment[p].amount
                                      /\ tx[s].payment = OneRow(p, "reversed")
  BY DEF RefundInv, RefundReady, CommitRefund
<1> DEFINE p == Refund[f].payment
<1>2. refund' = [refund EXCEPT ![f] = v]
  BY <1>1, WrittenOne DEF CommitRefund
<1>3. refund'[f] = v /\ \A g \in RefundRequests \ {f} : refund'[g] = refund[g]
  BY <1>2 DEF RefundInv, RefundsStand, RefundsTypeOK
<1>4. PaymentsGoOn
  <2>1. MoneyReady(tx[s])
    BY DEF MoneyInv, TransactionsFit, TxFits, CommitRefund
  <2>2. payment' = Written(payment, tx[s].payment)
    BY DEF CommitRefund
  <2> QED
    BY <2>1, <2>2, WrittenPayments
<1>5. \A q \in Payments :
        /\ Commitment(q) \in Nat /\ Commitment(q)' \in Nat
        /\ Commitment(q)' <= Commitment(q)
             \/ /\ q = p /\ refund[f] = "absent"
                /\ Commitment(q)' = Commitment(q) + Refund[f].amount
  BY <1>1, <1>2, CommitmentMoves DEF RefundInv, RefundsStand
<1>6. RefundsTypeOK'
  BY <1>1, <1>2 DEF RefundInv, RefundsStand, RefundsTypeOK, Closed
<1>7. RefundsWithinPayment'
  <2>1. ASSUME NEW q \in Payments
        PROVE  Commitment(q)' <= Payment[q].amount
    <3>1. Commitment(q) <= Payment[q].amount /\ Payment[q].amount \in Nat
      BY PaymentsTyped DEF RefundInv, RefundsStand, RefundsWithinPayment
    <3> QED
      BY <1>1, <1>5, <3>1
  <2> QED
    BY <2>1 DEF RefundsWithinPayment
<1>8. \A g \in RefundRequests : refund'[g] # "absent" => payment'[Refund[g].payment] # "none"
  BY <1>1, <1>3, <1>4, RefundsOk DEF RefundInv, RefundsStand, PaymentsGoOn
<1>9. \A g \in RefundRequests :
        refund'[g] = "reversed_local" =>
          /\ Refund[g].amount = Payment[Refund[g].payment].amount
          /\ payment'[Refund[g].payment] = "reversed"
  <2>1. v = "reversed_local" => payment'[p] = "reversed"
    <3>1. ASSUME v = "reversed_local"
          PROVE  payment'[p] = "reversed"
      <4>1. payment' = [payment EXCEPT ![p] = "reversed"]
        BY <1>1, <3>1, WrittenOne DEF CommitRefund
      <4> QED
        BY <4>1, RefundsOk DEF MoneyInv, Books
    <3> QED
      BY <3>1
  <2> QED
    BY <1>1, <1>3, <1>4, <2>1, RefundsOk DEF RefundInv, RefundsStand, PaymentsGoOn
<1>10. RefundsStand'
  BY <1>6, <1>7, <1>8, <1>9 DEF RefundsStand
<1>11. tx'[s] = NoTransaction /\ \A u \in Sessions \ {s} : tx'[u] = tx[u]
  BY DEF CommitRefund, Commits, MoneyInv, TransactionsFit
<1>12. ASSUME NEW u \in Sessions, tx'[u].do = "refund"
       PROVE  RefundReady(tx[u])'
  <2>1. u # s
    BY <1>11, <1>12 DEF NoTransaction
  <2>2. PICK y : y = tx[u]
    OBVIOUS
  <2>3. y = tx'[u] /\ RefundReady(y) /\ y.locks \cap tx[s].locks = {}
    BY <1>11, <1>12, <2>1, <2>2 DEF RefundInv, MoneyInv, TransactionsFit
  <2>4. PICK g \in RefundRequests,
             w \in {"requested", "approved", "rejected", "cancelled",
                    "external_confirmed", "reversed_local"} :
          LET q == Refund[g].payment
          IN /\ y.refund = OneRow(g, w)
             /\ payment[q] # "none"
             /\ \/ /\ w = "requested" /\ refund[g] = "absent"
                   /\ TitleRow(TitleOf(q)) \in y.locks
                   /\ Commitment(q) + Refund[g].amount <= Payment[q].amount
                \/ /\ w # "requested" /\ refund[g] \in {"requested", "approved"}
                   /\ RefundRow(g) \in y.locks
             /\ w = "reversed_local" => /\ Refund[g].amount = Payment[q].amount
                                        /\ y.payment = OneRow(q, "reversed")
    BY <2>3 DEF RefundReady
  <2> DEFINE q == Refund[g].payment
  <2>5. payment'[q] # "none"
    BY <1>4, <2>4, RefundsOk DEF PaymentsGoOn
  <2>6. \/ /\ w = "requested" /\ refund'[g] = "absent"
           /\ TitleRow(TitleOf(q)) \in y.locks
           /\ Commitment(q)' + Refund[g].amount <= Payment[q].amount
        \/ /\ w # "requested" /\ refund'[g] \in {"requested", "approved"}
           /\ RefundRow(g) \in y.locks
    <3>1. CASE w = "requested"
      <4>1. refund[g] = "absent" /\ TitleRow(TitleOf(q)) \in y.locks
            /\ Commitment(q) + Refund[g].amount <= Payment[q].amount
        BY <2>4, <3>1
      <4>2. refund[f] = "absent" => q # p
        <5>1. refund[f] = "absent" => TitleRow(TitleOf(p)) \in tx[s].locks
          BY <1>1
        <5> QED
          BY <2>3, <4>1, <5>1
      <4>3. g # f
        BY <1>1, <4>1, <4>2
      <4>4. Commitment(q)' <= Commitment(q) /\ Commitment(q) \in Nat /\ Commitment(q)' \in Nat
        BY <1>5, <4>2, RefundsOk
      <4> QED
        BY <1>3, <3>1, <4>1, <4>3, <4>4, RefundsOk
    <3>2. CASE w # "requested"
      <4>1. refund[g] \in {"requested", "approved"} /\ RefundRow(g) \in y.locks
        BY <2>4, <3>2
      <4>2. g # f
        BY <1>1, <2>3, <4>1
      <4> QED
        BY <1>3, <3>2, <4>1, <4>2
    <3> QED
      BY <3>1, <3>2
  <2>7. RefundReady(y)'
    BY <2>4, <2>5, <2>6 DEF RefundReady
  <2> QED
    BY <2>3, <2>7
<1> QED
  BY <1>10, <1>12 DEF RefundInv

-----------------------------------------------------------------------------
(* The steps of the refund requests *)

LEMMA RequestBegins ==
  ASSUME MoneyInv, RefundInv, focus = "money", UNCHANGED <<focus, receipt, refund>>,
         UNCHANGED moneyTables, NEW s \in Sessions, NEW x, tx' = [tx EXCEPT ![s] = x],
         x.do = "refund", Free(s, x.locks), MoneyReady(x), RefundReady(x)
  PROVE  MoneyInv' /\ RefundInv'
<1>1. UNCHANGED <<title, installment, payment, receipt>>
  BY DEF moneyTables
<1>2. TxFits(x)
  BY DEF TxFits
<1>3. MoneyInv'
  BY <1>1, <1>2, Begins
<1>4. RefundInv'
  BY <1>1, PaymentsSame, RefundBegins DEF MoneyInv
<1> QED
  BY <1>3, <1>4

LEMMA RefundSteps ==
  ASSUME MoneyInv, RefundInv, focus = "money", UNCHANGED <<focus, receipt>>,
         NEW s \in Sessions, RefundStep(s)
  PROVE  MoneyInv' /\ RefundInv'
<1>1. ASSUME NEW f \in RefundRequests, RequestRefund(s, f)
      PROVE  MoneyInv' /\ RefundInv'
  <2> DEFINE p == Refund[f].payment
  <2>1. PICK x : x = Writes(f, "requested", {TitleRow(TitleOf(p))})
    OBVIOUS
  <2>2. /\ x.do = "refund" /\ x.locks = {TitleRow(TitleOf(p))}
        /\ x.refund = OneRow(f, "requested") /\ SameRows(x, NoRows, NoRows, NoRows)
    BY <2>1 DEF Writes, SameRows
  <2>3. Commitment(p) + Refund[f].amount <= Payment[p].amount
    <3>1. Commitment(p) \in Nat
      BY CommitmentIs, AskedTyped
    <3> QED
      BY <1>1, <3>1, RefundsOk DEF RequestRefund
  <2>4. RefundReady(x)
    BY <1>1, <2>2, <2>3 DEF RefundReady, RequestRefund
  <2>5. MoneyReady(x) /\ Free(s, x.locks)
    BY <1>1, <2>2 DEF MoneyReady, RequestRefund, Context
  <2>6. tx' = [tx EXCEPT ![s] = x] /\ UNCHANGED refund /\ UNCHANGED moneyTables
    BY <1>1, <2>1 DEF RequestRefund, Starts
  <2> QED
    BY <2>2, <2>4, <2>5, <2>6, RequestBegins
<1>2. ASSUME NEW f \in RefundRequests,
             NEW v \in {"approved", "rejected", "cancelled", "external_confirmed"},
             NEW locks, RefundRow(f) \in locks, Free(s, locks),
             refund[f] \in {"requested", "approved"},
             Starts(s, Writes(f, v, locks)), UNCHANGED <<refund, moneyTables>>
      PROVE  MoneyInv' /\ RefundInv'
  <2>1. PICK x : x = Writes(f, v, locks)
    OBVIOUS
  <2>2. /\ x.do = "refund" /\ x.locks = locks
        /\ x.refund = OneRow(f, v) /\ SameRows(x, NoRows, NoRows, NoRows)
    BY <2>1 DEF Writes, SameRows
  <2>3. payment[Refund[f].payment] # "none"
    BY <1>2 DEF RefundInv, RefundsStand
  <2>4. RefundReady(x)
    BY <1>2, <2>2, <2>3 DEF RefundReady
  <2>5. MoneyReady(x)
    BY <2>2 DEF MoneyReady
  <2>6. tx' = [tx EXCEPT ![s] = x] /\ UNCHANGED refund /\ UNCHANGED moneyTables
    BY <1>2, <2>1 DEF Starts
  <2> QED
    BY <1>2, <2>2, <2>4, <2>5, <2>6, RequestBegins
<1>3. ASSUME NEW f \in RefundRequests, Approve(s, f)
      PROVE  MoneyInv' /\ RefundInv'
  <2>1. PICK locks : locks = {RefundRow(f), TitleRow(TitleOf(Refund[f].payment))}
    OBVIOUS
  <2>2. RefundRow(f) \in locks /\ Free(s, locks)
    BY <1>3, <2>1 DEF Approve, Context, MayMove, Free
  <2>3. Starts(s, Writes(f, "approved", locks)) /\ UNCHANGED <<refund, moneyTables>>
        /\ refund[f] \in {"requested", "approved"}
    BY <1>3, <2>1 DEF Approve, MayMove
  <2> QED
    BY <2>2, <2>3, <1>2
<1>4. ASSUME NEW f \in RefundRequests, NEW allowed \in SUBSET {"requested", "approved"},
             NEW v \in {"rejected", "cancelled", "external_confirmed"},
             Decide(s, f, allowed, v)
      PROVE  MoneyInv' /\ RefundInv'
  <2>1. PICK locks : locks = {RefundRow(f)}
    OBVIOUS
  <2>2. RefundRow(f) \in locks /\ Free(s, locks)
    BY <1>4, <2>1 DEF Decide, MayMove
  <2>3. Starts(s, Writes(f, v, locks)) /\ UNCHANGED <<refund, moneyTables>>
        /\ refund[f] \in {"requested", "approved"}
    BY <1>4, <2>1 DEF Decide, MayMove
  <2> QED
    BY <2>2, <2>3, <1>2
<1>5. ASSUME NEW f \in RefundRequests,
             Reject(s, f) \/ CancelRequest(s, f) \/ ConfirmExternal(s, f)
      PROVE  MoneyInv' /\ RefundInv'
  BY <1>4, <1>5 DEF Reject, CancelRequest, ConfirmExternal
<1>6. ASSUME NEW f \in RefundRequests, ApplyLocalReversal(s, f)
      PROVE  MoneyInv' /\ RefundInv'
  <2> DEFINE p == Refund[f].payment
             i == Payment[p].installment
             n == installment[i].settled - Payment[p].amount
  <2>1. PICK w : w = Settling(i, n, p, "reversed")
    OBVIOUS
  <2>2. PICK x : x = [do |-> "refund", refund |-> OneRow(f, "reversed_local"),
                      locks |-> {RefundRow(f), TitleRow(TitleOf(p)), InstallmentRow(i)},
                      title |-> w.title, installment |-> w.installment,
                      payment |-> w.payment]
    OBVIOUS
  <2>3. tx' = [tx EXCEPT ![s] = x] /\ UNCHANGED refund /\ UNCHANGED moneyTables
    BY <1>6, <2>1, <2>2 DEF ApplyLocalReversal, ReversalOf, Starts
  <2>4. p \in Payments /\ refund[f] = "approved" /\ payment[p] = "paid"
    <3>1. refund[f] = "approved" /\ payment[p] # "reversed"
      BY <1>6 DEF ApplyLocalReversal, MayMove
    <3>2. payment[p] # "none" /\ p \in Payments
      BY <3>1, RefundsOk DEF RefundInv, RefundsStand
    <3> QED
      BY <3>1, <3>2 DEF MoneyInv, Books
  <2>5. i \in Installments /\ installment[i].settled \in Nat /\ Payment[p].amount \in Nat
        /\ Installment[i].title = TitleOf(p)
    BY <2>4, PaymentsTyped2 DEF MoneyInv, Books
  <2>6. n \in Nat /\ PaymentFits(p, n, "reversed")
    <3>1. n >= 0
      BY <1>6, <2>5 DEF ApplyLocalReversal
    <3> QED
      BY <2>4, <3>1, ReversalFits DEF MoneyInv
  <2>7. PaymentReady(x, p, n, "reversed")
    BY <2>1, <2>2, <2>5, <2>6 DEF Settling, PaymentReady, SameRows, Row
  <2>8. MoneyReady(x)
    BY <2>4, <2>6, <2>7 DEF MoneyReady
  <2>9. RefundReady(x)
    <3>1. x.refund = OneRow(f, "reversed_local") /\ RefundRow(f) \in x.locks
          /\ x.payment = OneRow(p, "reversed")
      BY <2>1, <2>2 DEF Settling
    <3>2. Refund[f].amount = Payment[p].amount
      BY <1>6 DEF ApplyLocalReversal
    <3> QED
      BY <2>4, <3>1, <3>2 DEF RefundReady
  <2>10. x.do = "refund" /\ Free(s, x.locks)
    BY <1>6, <2>2 DEF ApplyLocalReversal, Context, MayMove, Free
  <2> QED
    BY <2>3, <2>8, <2>9, <2>10, RequestBegins
<1>7. CASE CommitRefund(s)
  <2>1. MoneyInv'
    BY <1>7, MoneyCommits DEF CommitRefund, Commits
  <2>2. RefundInv'
    BY <1>7, RefundCommits
  <2> QED
    BY <2>1, <2>2
<1> QED
  BY <1>1, <1>3, <1>5, <1>6, <1>7 DEF RefundStep

-----------------------------------------------------------------------------
(* The other steps, for the refunds *)

LEMMA MoneyStepIs ==
  ASSUME MoneyInv, focus \in {"purchasing", "money"}, NEW s \in Sessions, MoneyStep(s)
  PROVE  /\ PaymentsGoOn
         /\ \E x : x.do # "refund" /\ tx' = [tx EXCEPT ![s] = x]
<1>1. ASSUME NEW p \in Payments, Settle(s, p) \/ ReversePayment(s, p)
      PROVE  UNCHANGED payment /\ \E x : x.do # "refund" /\ tx' = [tx EXCEPT ![s] = x]
  <2>1. PICK i, n, status : Starts(s, Settling(i, n, p, status)) /\ UNCHANGED moneyTables
    BY <1>1 DEF Settle, ReversePayment
  <2>2. PICK x : x = Settling(i, n, p, status)
    OBVIOUS
  <2>3. x.do # "refund"
    BY <2>2 DEF Settling
  <2> QED
    BY <2>1, <2>2, <2>3 DEF Starts, moneyTables
<1>2. ASSUME NEW t \in Titles, CancelTitle(s, t)
      PROVE  UNCHANGED payment /\ \E x : x.do # "refund" /\ tx' = [tx EXCEPT ![s] = x]
  <2>1. PICK x : x = [do |-> "money", locks |-> {TitleRow(t)},
                      title |-> OneRow(t, "cancelled"),
                      installment |-> NoRows, payment |-> NoRows]
    OBVIOUS
  <2>2. x.do # "refund"
    BY <2>1
  <2> QED
    BY <1>2, <2>1, <2>2 DEF CancelTitle, Starts, moneyTables
<1>3. CASE CommitMoney(s)
  <2>1. MoneyReady(tx[s])
    BY <1>3 DEF MoneyInv, TransactionsFit, TxFits, CommitMoney
  <2>2. PaymentsGoOn
    BY <1>3, <2>1, WrittenPayments DEF CommitMoney
  <2>3. PICK x : x = NoTransaction
    OBVIOUS
  <2>4. x.do # "refund" /\ tx' = [tx EXCEPT ![s] = x]
    BY <1>3, <2>3 DEF NoTransaction, CommitMoney, Commits
  <2> QED
    BY <2>2, <2>4
<1> QED
  BY <1>1, <1>2, <1>3, PaymentsSame DEF MoneyStep

LEMMA SaleStepIs ==
  ASSUME NEW s \in Sessions,
         \/ \E o \in Sales : ReadOrder(s, o)
         \/ \E known \in BOOLEAN : CreateReceivable(s, known)
  PROVE  /\ UNCHANGED payment
         /\ \E x : x.do # "refund" /\ tx' = [tx EXCEPT ![s] = x]
<1>1. ASSUME NEW o \in Sales, ReadOrder(s, o)
      PROVE  UNCHANGED payment /\ \E x : x.do # "refund" /\ tx' = [tx EXCEPT ![s] = x]
  <2>1. PICK x : x = [do |-> "receivable", locks |-> {}, o |-> o, seen |-> sale[o]]
    OBVIOUS
  <2>2. x.do # "refund"
    BY <2>1
  <2> QED
    BY <1>1, <2>1, <2>2 DEF ReadOrder, Starts, moneyTables
<1>2. ASSUME NEW known \in BOOLEAN, CreateReceivable(s, known)
      PROVE  UNCHANGED payment /\ \E x : x.do # "refund" /\ tx' = [tx EXCEPT ![s] = x]
  <2>1. PICK o, rows :
          /\ tx' = [tx EXCEPT ![s] =
               [do |-> "money", locks |-> {SaleRow(o)}, title |-> rows,
                installment |-> NoRows, payment |-> NoRows]]
          /\ UNCHANGED moneyTables
    BY <1>2 DEF CreateReceivable
  <2>2. PICK x : x = [do |-> "money", locks |-> {SaleRow(o)}, title |-> rows,
                      installment |-> NoRows, payment |-> NoRows]
    OBVIOUS
  <2>3. x.do # "refund"
    BY <2>2
  <2> QED
    BY <2>1, <2>2, <2>3 DEF moneyTables
<1> QED
  BY <1>1, <1>2

-----------------------------------------------------------------------------
(* All the services *)

LedgerInv == MoneyInv /\ RefundInv

LEMMA MoneyNextKeeps ==
  ASSUME LedgerInv, focus = "money", UNCHANGED <<focus, receipt>>, MoneyNext
  PROVE  LedgerInv'
<1>1. ASSUME NEW s \in Sessions, RefundStep(s)
      PROVE  LedgerInv'
  BY <1>1, RefundSteps DEF LedgerInv
<1>2. ASSUME NEW s \in Sessions, MoneyStep(s), UNCHANGED refund
      PROVE  LedgerInv'
  <2>1. PaymentsGoOn /\ \E x : x.do # "refund" /\ tx' = [tx EXCEPT ![s] = x]
    BY <1>2, MoneyStepIs DEF LedgerInv
  <2>2. RefundInv'
    BY <1>2, <2>1, RefundBegins DEF LedgerInv, MoneyInv
  <2>3. MoneyInv'
    BY <1>2, MoneySteps DEF LedgerInv
  <2> QED
    BY <2>2, <2>3 DEF LedgerInv
<1>3. ASSUME NEW s \in Sessions, UNCHANGED refund,
             \/ \E o \in Sales : ReadOrder(s, o)
             \/ \E known \in BOOLEAN : CreateReceivable(s, known)
      PROVE  LedgerInv'
  <2>1. PaymentsGoOn /\ \E x : x.do # "refund" /\ tx' = [tx EXCEPT ![s] = x]
    BY <1>3, SaleStepIs, PaymentsSame
  <2>2. RefundInv'
    BY <1>3, <2>1, RefundBegins DEF LedgerInv, MoneyInv
  <2>3. MoneyInv'
    BY <1>3, SaleSteps DEF LedgerInv
  <2> QED
    BY <2>2, <2>3 DEF LedgerInv
<1>4. CASE OrderChanges /\ UNCHANGED <<moneyTables, refund>>
  <2>1. UNCHANGED <<tx, title, installment, payment>>
    BY <1>4 DEF OrderChanges, Resync, moneyTables
  <2>2. MoneyInv'
    BY <2>1, TablesStay DEF LedgerInv
  <2>3. RefundInv'
    BY <1>4, <2>1, PaymentsSame, RefundPasses DEF LedgerInv
  <2> QED
    BY <2>2, <2>3 DEF LedgerInv
<1>5. ASSUME NEW s \in Sessions, RollsBack(s), UNCHANGED <<refund, moneyTables>>
      PROVE  LedgerInv'
  <2>1. tx' = [tx EXCEPT ![s] = NoTransaction]
        /\ UNCHANGED <<title, installment, payment, receipt>>
    BY <1>5 DEF RollsBack, moneyTables
  <2>2. PICK x : x = NoTransaction
    OBVIOUS
  <2>3. x.do # "refund" /\ tx' = [tx EXCEPT ![s] = x]
    BY <2>1, <2>2 DEF NoTransaction
  <2>4. MoneyInv'
    BY <2>1, Finishes DEF LedgerInv
  <2>5. RefundInv'
    BY <1>5, <2>1, <2>3, PaymentsSame, RefundBegins DEF LedgerInv, MoneyInv
  <2> QED
    BY <2>4, <2>5 DEF LedgerInv
<1> QED
  BY <1>1, <1>2, <1>3, <1>4, <1>5 DEF MoneyNext, GivesUp

LEMMA PurchasingKeeps ==
  ASSUME LedgerInv, focus = "purchasing", UNCHANGED <<focus, refund>>, PurchasingNext
  PROVE  LedgerInv'
<1>1. MoneyInv' /\ PaymentsGoOn
  <2>1. ASSUME NEW s \in Sessions, OrderStep(s)
        PROVE  MoneyInv' /\ PaymentsGoOn
    <3>1. UNCHANGED payment
      BY <2>1 DEF OrderStep, ApproveRead, CancelRead, ReceiveRead, ReverseReceiptRead,
                  OrderWrite, ReceiveWork, ReverseReceiptWork, CommitReceipt, Rollback,
                  moneyTables
    <3> QED
      BY <2>1, <3>1, OrderSteps, PaymentsSame DEF LedgerInv
  <2>2. ASSUME NEW s \in Sessions, StockStep(s), UNCHANGED <<moneyTables, orderTables>>
        PROVE  MoneyInv' /\ PaymentsGoOn
    BY <2>2, StockSteps, PaymentsSame DEF LedgerInv, moneyTables
  <2>3. ASSUME NEW s \in Sessions, MoneyStep(s), UNCHANGED <<stockTables, orderTables>>
        PROVE  MoneyInv' /\ PaymentsGoOn
    BY <2>3, MoneySteps, MoneyStepIs DEF LedgerInv, orderTables
  <2>4. CASE SetAuthority /\ UNCHANGED <<moneyTables, orderTables>>
    <3>1. UNCHANGED <<tx, title, installment, payment, receipt>>
      BY <2>4 DEF SetAuthority, moneyTables, orderTables
    <3> QED
      BY <3>1, TablesStay, PaymentsSame DEF LedgerInv
  <2> QED
    BY <2>1, <2>2, <2>3, <2>4 DEF PurchasingNext
<1>2. RefundInv'
  BY <1>1, RefundPasses DEF LedgerInv
<1> QED
  BY <1>1, <1>2 DEF LedgerInv

LEMMA LedgerStep ==
  ASSUME LedgerInv, [ServicesNext]_services
  PROVE  LedgerInv'
<1>1. CASE focus = "purchasing" /\ PurchasingNext /\ UNCHANGED <<focus, refund>>
  BY <1>1, PurchasingKeeps
<1>2. CASE focus = "money" /\ MoneyNext /\ UNCHANGED <<focus, receipt>>
  BY <1>2, MoneyNextKeeps
<1>3. CASE /\ focus \notin {"purchasing", "money"}
           /\ UNCHANGED <<focus, title, installment, payment, receipt, refund>>
  <2>1. MoneyInv'
    <3>1. Books' /\ ReceiptsInOrder' /\ (\A o \in Sales : SaleInOrder(o))'
      BY <1>3, NothingWritten DEF LedgerInv, MoneyInv
    <3> QED
      BY <1>3, <3>1 DEF MoneyInv
  <2>2. RefundInv'
    BY <1>3, PaymentsSame, RefundPasses DEF LedgerInv
  <2> QED
    BY <2>1, <2>2 DEF LedgerInv
<1>4. CASE UNCHANGED services
  <2>1. UNCHANGED <<focus, tx, title, installment, payment, receipt, refund>>
    BY <1>4 DEF services, ledgers
  <2>2. MoneyInv'
    BY <2>1, TablesStay DEF LedgerInv
  <2>3. RefundInv'
    BY <2>1, PaymentsSame, RefundPasses DEF LedgerInv
  <2> QED
    BY <2>2, <2>3 DEF LedgerInv
<1> QED
  BY <1>1, <1>2, <1>3, <1>4 DEF ServicesNext, purchaseTables, orderTables, moneyTables

LEMMA LedgerBegins ==
  ASSUME ServicesInit
  PROVE  LedgerInv
<1>1. /\ title = [t \in Titles |-> "absent"]
      /\ installment = [i \in Installments |-> [settled |-> 0, status |-> "open"]]
      /\ payment = [p \in Payments |-> "none"]
      /\ receipt = [r \in Receipts |-> "none"]
      /\ tx = [s \in Sessions |-> NoTransaction]
      /\ refund = [f \in RefundRequests |-> "absent"]
  BY DEF ServicesInit, EmptyLedgers, FinanceInit, RefundsInit
<1>2. Books
  <2>1. \A i : PaidInto(i) = {}
    BY <1>1 DEF PaidInto
  <2>2. \A i : PaidSum(i) = 0
    <3>1. ASSUME NEW i
          PROVE  PaidSum(i) = 0
      <4>1. PaidInto(i) = {}
        BY <2>1
      <4>2. PICK f : f = [p \in PaidInto(i) |-> Payment[p].amount]
        OBVIOUS
      <4>3. f \in [{} -> Int]
        BY <4>1, <4>2
      <4> QED
        BY <4>2, <4>3, SumOfNone DEF PaidSum
    <3> QED
      BY <3>1
  <2>3. SettledIsPaid
    BY <1>1, <2>2, InstallmentsTyped DEF SettledIsPaid, PaidSum
  <2>4. \A i \in Installments : InstallmentStatus(i, 0) = "open"
    BY StatusTyped
  <2>5. \A t : ~HasMoney(t)
    BY <1>1 DEF HasMoney, InstallmentsOf
  <2> QED
    BY <1>1, <2>3, <2>4, <2>5 DEF Books, IsActive
<1>3. \A o \in Sales : SaleInOrder(o)
  <2>1. ASSUME NEW o \in Sales
        PROVE  SaleInOrder(o)
    <3>1. KnownTitles(o) = {} /\ ActiveTitles(o) = {}
      BY <1>1, TitlesOfTyped DEF KnownTitles, ActiveTitles
    <3>2. IsFiniteSet(KnownTitles(o)) /\ Cardinality(KnownTitles(o)) = 0
      BY <3>1, FS_EmptySet
    <3>3. FirstTitles(o, 0) = {}
      BY DEF FirstTitles
    <3> QED
      BY <3>1, <3>2, <3>3, TitlesOfTyped DEF SaleInOrder
  <2> QED
    BY <2>1
<1>4. ReceiptsInOrder
  BY <1>1 DEF ReceiptsInOrder
<1>5. TransactionsFit
  BY <1>1 DEF TransactionsFit, TxFits, NoTransaction
<1>6. RefundsStand
  <2>1. RefundsTypeOK
    BY <1>1 DEF RefundsTypeOK
  <2>2. ASSUME NEW p \in Payments
        PROVE  Commitment(p) <= Payment[p].amount
    <3>1. CommittingOf(p) = {}
      BY <1>1 DEF CommittingOf, RefundsOf, Committing
    <3>2. PICK f : f = [g \in CommittingOf(p) |-> Refund[g].amount]
      OBVIOUS
    <3>3. f \in [{} -> Int]
      BY <3>1, <3>2
    <3>4. Commitment(p) = 0
      BY <3>2, <3>3, SumOfNone, CommitmentIs DEF Asked
    <3> QED
      BY <3>4, PaymentsTyped
  <2> QED
    BY <1>1, <2>1, <2>2 DEF RefundsStand, RefundsWithinPayment
<1>7. \A s \in Sessions : tx[s].do # "refund"
  BY <1>1 DEF NoTransaction
<1> QED
  BY <1>2, <1>3, <1>4, <1>5, <1>6, <1>7 DEF LedgerInv, MoneyInv, RefundInv

(* The ledgers hold at every commit: the books of titles, installments and  *)
(* payments, the refunds, and what every open transaction of finance.py,     *)
(* order_finance.py, refunds.py and purchasing.py holds in its hand.         *)
THEOREM LedgersHold == ServicesSpec => []LedgerInv
<1>1. ServicesInit => LedgerInv
  BY LedgerBegins
<1>2. LedgerInv /\ [ServicesNext]_services => LedgerInv'
  BY LedgerStep
<1> QED
  BY <1>1, <1>2, PTL DEF ServicesSpec

-----------------------------------------------------------------------------
(* Titles *)

(* Every title has an installment, and each is worth something.           *)
TitlesArePayable ==
  /\ \A t \in Titles : InstallmentsOf(t) # {}
  /\ \A i \in Installments : Installment[i].amount > 0

LEMMA InstallmentsFinite ==
  ASSUME NEW t
  PROVE  InstallmentsOf(t) \in SUBSET Installments /\ IsFiniteSet(InstallmentsOf(t))
<1>1. InstallmentsOf(t) \in SUBSET Installments
  BY DEF InstallmentsOf
<1> QED
  BY <1>1, BooksAreFinite, FS_Subset

LEMMA TitlesFromBooks ==
  ASSUME Books, TitlesArePayable
  PROVE  TitleStatusIsCurrent
<1>1. ASSUME NEW t \in Titles, title[t] \notin {"absent", "cancelled"}
      PROVE  LET due == {i \in InstallmentsOf(t) :
                           installment[i].settled < Installment[i].amount}
             IN /\ title[t] = "settled" <=> due = {}
                /\ title[t] = "open" <=> ~HasMoney(t)
  <2> DEFINE statuses == {installment[i].status : i \in InstallmentsOf(t)}
             due == {i \in InstallmentsOf(t) :
                       installment[i].settled < Installment[i].amount}
  <2>1. InstallmentsOf(t) # {} /\ title[t] = TitleStatus(t, installment)
    BY <1>1 DEF TitlesArePayable, Books, IsActive
  <2>2. ASSUME NEW i \in InstallmentsOf(t)
        PROVE  /\ (installment[i].status = "settled")
                    <=> ~(installment[i].settled < Installment[i].amount)
               /\ (installment[i].status = "open") <=> ~(installment[i].settled > 0)
    <3>1. i \in Installments /\ installment[i].settled \in Nat
          /\ installment[i].status = InstallmentStatus(i, installment[i].settled)
      BY InstallmentsFinite DEF Books
    <3>2. Installment[i].amount \in Nat /\ Installment[i].amount > 0
      BY <3>1, InstallmentsTyped DEF TitlesArePayable
    <3> QED
      BY <3>1, <3>2, StatusTyped
  <2>3. statuses = {"settled"} <=> due = {}
    <3>1. statuses = {"settled"} <=> \A i \in InstallmentsOf(t) : installment[i].status = "settled"
      BY <2>1
    <3> QED
      BY <2>2, <3>1
  <2>4. statuses = {"open"} <=> ~HasMoney(t)
    <3>1. statuses = {"open"} <=> \A i \in InstallmentsOf(t) : installment[i].status = "open"
      BY <2>1
    <3> QED
      BY <2>2, <3>1 DEF HasMoney
  <2>5. statuses = {"settled"} => statuses # {"open"}
    OBVIOUS
  <2>6. title[t] = "settled" <=> statuses = {"settled"}
    BY <1>1, <2>1 DEF TitleStatus
  <2>7. title[t] = "open" <=> statuses = {"open"}
    BY <1>1, <2>1, <2>5 DEF TitleStatus
  <2> QED
    BY <2>3, <2>4, <2>6, <2>7
<1> QED
  BY <1>1 DEF TitleStatusIsCurrent

LEMMA CancelledFromBooks ==
  ASSUME Books
  PROVE  CancelledOwesNothing
BY DEF Books, CancelledOwesNothing, IsActive

-----------------------------------------------------------------------------
(* Sums over a title *)

Amounts(t) == [i \in InstallmentsOf(t) |-> Installment[i].amount]
Settleds(t) == [i \in InstallmentsOf(t) |-> installment[i].settled]

LEMMA TitleSums ==
  ASSUME Books, NEW t
  PROVE  /\ Amounts(t) \in [InstallmentsOf(t) -> Nat] /\ Total(t) \in Nat
         /\ Settleds(t) \in [InstallmentsOf(t) -> Nat] /\ Settled(t) \in Nat
         /\ OpenOf(t) \in Nat /\ Total(t) = Settled(t) + OpenOf(t)
<1> DEFINE D == InstallmentsOf(t)
           gap == [i \in D |-> LET open == Installment[i].amount - installment[i].settled
                               IN IF open <= 0 THEN 0 ELSE open]
<1>1. D \in SUBSET Installments /\ IsFiniteSet(D)
  BY InstallmentsFinite
<1>2. \A i \in D : /\ Installment[i].amount \in Nat /\ installment[i].settled \in Nat
                   /\ installment[i].settled <= Installment[i].amount
  BY <1>1, InstallmentsTyped DEF Books, SettledIsPaid
<1>3. Amounts(t) \in [D -> Nat] /\ Settleds(t) \in [D -> Nat]
  BY <1>2 DEF Amounts, Settleds
<1>4. gap \in [D -> Nat] /\ \A i \in D : Amounts(t)[i] = Settleds(t)[i] + gap[i]
  <2>1. ASSUME NEW i \in D
        PROVE  gap[i] \in Nat /\ Amounts(t)[i] = Settleds(t)[i] + gap[i]
    BY <1>2 DEF Amounts, Settleds
  <2>2. gap = [i \in D |-> gap[i]]
    OBVIOUS
  <2> HIDE DEF gap
  <2> QED
    BY <2>1, <2>2
<1>5. Total(t) = SumFunction(Amounts(t)) /\ Settled(t) = SumFunction(Settleds(t))
      /\ OpenOf(t) = SumFunction(gap)
  BY DEF Total, Settled, OpenOf, Amounts, Settleds
<1> HIDE DEF gap, D
<1>6. /\ SumFunction(Amounts(t)) \in Nat /\ SumFunction(Settleds(t)) \in Nat
      /\ SumFunction(gap) \in Nat
  BY <1>1, <1>3, <1>4, SumNatural
<1>7. SumFunction(Amounts(t)) = SumFunction(Settleds(t)) + SumFunction(gap)
  <2>1. /\ Amounts(t) \in [D -> Int] /\ Settleds(t) \in [D -> Int] /\ gap \in [D -> Int]
    BY <1>3, <1>4
  <2> QED
    BY <1>1, <1>4, <2>1, SumPlus
<1> QED
  BY <1>3, <1>5, <1>6, <1>7 DEF D

LEMMA OrderFinite ==
  ASSUME NEW o \in Sales
  PROVE  /\ IsFiniteSet(TitlesOf(o))
         /\ ActiveTitles(o) \in SUBSET TitlesOf(o) /\ IsFiniteSet(ActiveTitles(o))
<1>1. IsFiniteSet(1..Len(OrderTitles[o])) /\ DOMAIN OrderTitles[o] = 1..Len(OrderTitles[o])
  BY TitlesOfTyped, FS_Interval
<1>2. IsFiniteSet(TitlesOf(o))
  <2> DEFINE f == [i \in 1..Len(OrderTitles[o]) |-> OrderTitles[o][i]]
  <2>1. f \in Surjection(1..Len(OrderTitles[o]), TitlesOf(o))
    BY <1>1 DEF Surjection, TitlesOf
  <2> QED
    BY <1>1, <2>1, FS_Surjection
<1>3. ActiveTitles(o) \in SUBSET TitlesOf(o)
  BY DEF ActiveTitles
<1> QED
  BY <1>2, <1>3, FS_Subset

(* Of an order: what is owed, what was paid and what is open.              *)
LEMMA OrderSums ==
  ASSUME Books, NEW o \in Sales
  PROVE  /\ [t \in ActiveTitles(o) |-> Total(t)] \in [ActiveTitles(o) -> Nat]
         /\ Obligation(o) \in Nat /\ PaidOf(o) \in Nat
         /\ Obligation(o) = PaidOf(o) + SumFunction([t \in ActiveTitles(o) |-> OpenOf(t)])
<1> DEFINE A == ActiveTitles(o)
           f == [t \in A |-> Total(t)]
           g == [t \in A |-> Settled(t)]
           h == [t \in A |-> OpenOf(t)]
<1>1. IsFiniteSet(A)
  BY OrderFinite
<1>2. \A t \in A : /\ Total(t) \in Nat /\ Settled(t) \in Nat /\ OpenOf(t) \in Nat
                   /\ Total(t) = Settled(t) + OpenOf(t)
  BY TitleSums
<1>3. f \in [A -> Nat] /\ g \in [A -> Nat] /\ h \in [A -> Nat]
  BY <1>2
<1>4. \A t \in A : f[t] = g[t] + h[t]
  BY <1>2
<1>5. Obligation(o) = SumFunction(f) /\ PaidOf(o) = SumFunction(g)
  BY DEF Obligation, PaidOf
<1> HIDE DEF f, g, h, A
<1>6. SumFunction(f) \in Nat /\ SumFunction(g) \in Nat
  BY <1>1, <1>3, SumNatural
<1>7. SumFunction(f) = SumFunction(g) + SumFunction(h)
  <2>1. f \in [A -> Int] /\ g \in [A -> Int] /\ h \in [A -> Int]
    BY <1>3
  <2> QED
    BY <1>1, <1>4, <2>1, SumPlus
<1> QED
  BY <1>3, <1>5, <1>6, <1>7 DEF f, h, A

LEMMA CountsFromBooks ==
  ASSUME Books, TitlesArePayable
  PROVE  CountsAddUp
<1>1. ASSUME NEW o \in Sales
      PROVE  {v \in {"none", "open", "partial", "paid"} : FinanceFilter(o, v)}
               = {FinanceState(o)}
  <2> DEFINE A == ActiveTitles(o)
             f == [t \in A |-> Total(t)]
             g == [t \in A |-> Settled(t)]
  <2>1. Obligation(o) \in Nat /\ PaidOf(o) \in Nat /\ f \in [A -> Nat] /\ IsFiniteSet(A)
    BY OrderSums, OrderFinite
  <2>2. Obligation(o) = SumFunction(f) /\ PaidOf(o) = SumFunction(g)
    BY DEF Obligation, PaidOf
  <2>3. A = {} => Obligation(o) = 0 /\ PaidOf(o) = 0
    <3>1. ASSUME A = {}
          PROVE  DOMAIN f = {} /\ DOMAIN g = {}
      BY <3>1
    <3> HIDE DEF f, g
    <3> QED
      BY <2>2, <3>1, SumOfNone
  <2>4. ASSUME A # {}
        PROVE  Obligation(o) > 0
    <3>1. PICK t \in A : TRUE
      BY <2>4
    <3>2. t \in Titles
      BY OrderFinite, TitlesOfTyped
    <3>3. PICK i : i \in InstallmentsOf(t)
      BY <3>2 DEF TitlesArePayable
    <3>4. Amounts(t)[i] <= Total(t) /\ Total(t) \in Nat
      <4>1. Amounts(t) \in [InstallmentsOf(t) -> Nat] /\ IsFiniteSet(InstallmentsOf(t))
            /\ Total(t) \in Nat
        BY TitleSums, InstallmentsFinite
      <4> QED
        BY <3>3, <4>1, SumBounds DEF Total, Amounts
    <3>5. Amounts(t)[i] \in Nat /\ Amounts(t)[i] > 0
      BY <3>3, InstallmentsFinite, InstallmentsTyped DEF Amounts, TitlesArePayable
    <3>6. f[t] = Total(t)
      BY <3>1
    <3> HIDE DEF f
    <3>7. f[t] <= SumFunction(f)
      BY <2>1, <3>1, SumBounds
    <3> QED
      BY <2>1, <2>2, <3>4, <3>5, <3>6, <3>7
  <2> HIDE DEF A, f, g
  <2>5. PICK owed \in Nat, paid \in Nat : owed = Obligation(o) /\ paid = PaidOf(o)
    BY <2>1
  <2>6. CASE A = {}
    <3>1. FinanceState(o) = "none"
      BY <2>3, <2>6 DEF FinanceState, Derived
    <3>2. \A v \in {"none", "open", "partial", "paid"} : FinanceFilter(o, v) <=> v = "none"
      <4>1. owed = 0 /\ paid = 0
        BY <2>3, <2>5, <2>6
      <4>2. ~(paid > 0) /\ ~(owed > 0)
        BY <4>1
      <4>3. A = {} /\ ~(PaidOf(o) > 0) /\ ~(Obligation(o) > 0)
        BY <2>5, <2>6, <4>2
      <4> QED
        BY <4>3 DEF FinanceFilter, A
    <3> QED
      BY <3>1, <3>2
  <2>7. CASE A # {}
    <3>1. owed > 0
      BY <2>4, <2>5, <2>7
    <3>2. FinanceState(o) =
            IF paid <= 0 THEN "open" ELSE IF paid >= owed THEN "paid" ELSE "partial"
      BY <2>5, <3>1 DEF FinanceState, Derived
    <3>3. \A v \in {"none", "open", "partial", "paid"} :
            FinanceFilter(o, v) <=> \/ v = "open" /\ paid <= 0
                                    \/ v = "partial" /\ paid > 0 /\ paid < owed
                                    \/ v = "paid" /\ owed > 0 /\ paid >= owed
      BY <2>5, <2>7 DEF FinanceFilter, A
    <3> QED
      BY <3>1, <3>2, <3>3
  <2> QED
    BY <2>6, <2>7
<1> QED
  BY <1>1 DEF CountsAddUp

-----------------------------------------------------------------------------
(* Payments counted by order, title and installment *)

PaidIn(A) == SumFunction([p \in A |-> Payment[p].amount])

LEMMA PaidInTyped ==
  ASSUME NEW A \in SUBSET Payments
  PROVE  /\ IsFiniteSet(A) /\ PaidIn(A) \in Nat
         /\ [p \in A |-> Payment[p].amount] \in [A -> Int]
<1>1. IsFiniteSet(A)
  BY BooksAreFinite, FS_Subset
<1>2. [p \in A |-> Payment[p].amount] \in [A -> Nat]
  BY PaymentsTyped
<1>3. PaidIn(A) \in Nat
  BY <1>1, <1>2, SumNatural DEF PaidIn
<1> QED
  BY <1>1, <1>2, <1>3

LEMMA PaidByClass ==
  ASSUME NEW C, IsFiniteSet(C), NEW S \in SUBSET Payments, NEW k \in [S -> C]
  PROVE  PaidIn(S) = SumFunction([c \in C |-> PaidIn({p \in S : k[p] = c})])
<1> DEFINE f == [p \in S |-> Payment[p].amount]
<1>1. IsFiniteSet(S) /\ f \in [S -> Int]
  BY PaidInTyped
<1>2. \A c : Over(f, ClassOf(k, S, c)) = [p \in {p \in S : k[p] = c} |-> Payment[p].amount]
  BY DEF Over, ClassOf
<1>3. [c \in C |-> SumFunction(Over(f, ClassOf(k, S, c)))]
        = [c \in C |-> PaidIn({p \in S : k[p] = c})]
  BY <1>2 DEF PaidIn
<1>4. PaidIn(S) = SumFunction(f)
  BY DEF PaidIn
<1> HIDE DEF f
<1>5. SumFunction(f) = SumFunction([c \in C |-> SumFunction(Over(f, ClassOf(k, S, c)))])
  BY <1>1, SumByClass
<1> QED
  BY <1>3, <1>4, <1>5

PaidOn(t) == {p \in Payments : TitleOf(p) = t /\ payment[p] = "paid"}

LEMMA PaidByTitle ==
  ASSUME Books, NEW t
  PROVE  PaidIn(PaidOn(t)) = Settled(t)
<1> DEFINE S == PaidOn(t)
           C == InstallmentsOf(t)
           k == [p \in S |-> Payment[p].installment]
<1>1. S \in SUBSET Payments /\ IsFiniteSet(C)
  BY InstallmentsFinite DEF PaidOn
<1>2. k \in [S -> C]
  BY PaymentsTyped DEF PaidOn, TitleOf, InstallmentsOf
<1>3. \A i \in C : {p \in S : k[p] = i} = PaidInto(i)
  BY DEF PaidInto, PaidOn, InstallmentsOf, TitleOf
<1>4. \A i \in C : PaidIn(PaidInto(i)) = installment[i].settled
  BY InstallmentsFinite DEF Books, SettledIsPaid, PaidIn
<1>5. [i \in C |-> PaidIn({p \in S : k[p] = i})] = Settleds(t)
  BY <1>3, <1>4 DEF Settleds
<1> HIDE DEF S, C, k
<1>6. PaidIn(S) = SumFunction([i \in C |-> PaidIn({p \in S : k[p] = i})])
  BY <1>1, <1>2, PaidByClass
<1> QED
  BY <1>5, <1>6 DEF S, Settled, Settleds

PaidOnOrder(o) == {p \in Payments : TitleOf(p) \in TitlesOf(o) /\ payment[p] = "paid"}

LEMMA PaidByOrder ==
  ASSUME Books, NEW o \in Sales
  PROVE  PaidIn(PaidOnOrder(o)) = PaidOf(o)
<1> DEFINE S == PaidOnOrder(o)
           C == ActiveTitles(o)
           k == [p \in S |-> TitleOf(p)]
<1>1. S \in SUBSET Payments /\ IsFiniteSet(C)
  BY OrderFinite DEF PaidOnOrder
<1>2. k \in [S -> C]
  <2>1. ASSUME NEW p \in S
        PROVE  TitleOf(p) \in C
    <3>1. IsActive(TitleOf(p))
      BY PaidIsActive DEF PaidOnOrder
    <3> QED
      BY <3>1 DEF PaidOnOrder, ActiveTitles, IsActive
  <2> QED
    BY <2>1
<1>3. \A t \in C : {p \in S : k[p] = t} = PaidOn(t)
  BY OrderFinite DEF PaidOn, PaidOnOrder
<1>4. [t \in C |-> PaidIn({p \in S : k[p] = t})] = [t \in C |-> Settled(t)]
  BY <1>3, PaidByTitle
<1> HIDE DEF S, C, k
<1>5. PaidIn(S) = SumFunction([t \in C |-> PaidIn({p \in S : k[p] = t})])
  BY <1>1, <1>2, PaidByClass
<1> QED
  BY <1>4, <1>5 DEF S, C, PaidOf

LEMMA CashFromBooks ==
  ASSUME Books
  PROVE  Received - Reversed = SumFunction([o \in Sales |-> PaidOf(o)])
<1> DEFINE In == {q \in OrderPayments : payment[q] \in {"paid", "reversed"}}
           Back == {q \in OrderPayments : payment[q] \in {"reversed"}}
           S == {q \in OrderPayments : payment[q] = "paid"}
           f == [p \in In |-> Payment[p].amount]
<1>1. In \in SUBSET Payments /\ Back \in SUBSET Payments /\ S \in SUBSET Payments
  BY DEF OrderPayments
<1>2. In = Back \cup S /\ Back \cap S = {}
  OBVIOUS
<1>3. Received = PaidIn(In) /\ Reversed = PaidIn(Back)
  BY DEF Received, Reversed, MoneyIn, PaidIn
<1>4. PaidIn(In) = PaidIn(Back) + PaidIn(S)
  <2>1. IsFiniteSet(Back) /\ IsFiniteSet(S) /\ f \in [Back \cup S -> Int]
    BY <1>1, <1>2, PaidInTyped
  <2>2. Over(f, Back) = [p \in Back |-> Payment[p].amount]
        /\ Over(f, S) = [p \in S |-> Payment[p].amount]
    BY <1>2 DEF Over
  <2>3. PaidIn(In) = SumFunction(f)
    BY DEF PaidIn
  <2> HIDE DEF f, Back, S, In
  <2>4. InTwo(f, Back, S)
    BY <1>2, <2>1, SumOfTwo
  <2> QED
    BY <2>2, <2>3, <2>4 DEF InTwo, PaidIn
<1>5. PaidIn(S) = SumFunction([o \in Sales |-> PaidOf(o)])
  <2> DEFINE k == [p \in S |-> CHOOSE o \in Sales : TitleOf(p) \in TitlesOf(o)]
  <2>1. k \in [S -> Sales] /\ \A p \in S : TitleOf(p) \in TitlesOf(k[p])
    <3>1. \A p \in S : \E o \in Sales : TitleOf(p) \in TitlesOf(o)
      BY DEF OrderPayments
    <3> QED
      BY <3>1
  <2>2. \A o \in Sales : {p \in S : k[p] = o} = PaidOnOrder(o)
    <3>1. ASSUME NEW o \in Sales, NEW p \in PaidOnOrder(o)
          PROVE  p \in S /\ k[p] = o
      <4>1. p \in S
        BY <3>1 DEF PaidOnOrder, OrderPayments
      <4>2. TitleOf(p) \in TitlesOf(o) /\ TitleOf(p) \in TitlesOf(k[p]) /\ k[p] \in Sales
        BY <2>1, <4>1 DEF PaidOnOrder
      <4> QED
        BY <4>1, <4>2, TitlesOfTyped
    <3>2. ASSUME NEW o \in Sales, NEW p \in S, k[p] = o
          PROVE  p \in PaidOnOrder(o)
      BY <2>1, <3>2 DEF PaidOnOrder, OrderPayments
    <3> QED
      BY <3>1, <3>2
  <2>3. [o \in Sales |-> PaidIn({p \in S : k[p] = o})] = [o \in Sales |-> PaidOf(o)]
    BY <2>2, PaidByOrder
  <2> HIDE DEF S, k
  <2>4. PaidIn(S) = SumFunction([o \in Sales |-> PaidIn({p \in S : k[p] = o})])
    BY <1>1, <2>1, SalesAreFinite, PaidByClass
  <2> QED
    BY <2>3, <2>4
<1>6. PaidIn(In) \in Nat /\ PaidIn(Back) \in Nat /\ PaidIn(S) \in Nat
  BY <1>1, PaidInTyped
<1> QED
  BY <1>3, <1>4, <1>5, <1>6

LEMMA MoneyFromBooks ==
  ASSUME Books
  PROVE  MoneyAddsUp
BY CashFromBooks, OrderSums DEF MoneyAddsUp

-----------------------------------------------------------------------------
(* Orders and refunds *)

LEMMA OneFromOrder ==
  ASSUME \A o \in Sales : SaleInOrder(o)
  PROVE  OneObligation
<1>1. ASSUME NEW o \in Sales
      PROVE  Cardinality(ActiveTitles(o)) <= 1
  <2>1. CASE ActiveTitles(o) = {}
    <3>1. Cardinality(ActiveTitles(o)) = 0
      BY <2>1, FS_EmptySet
    <3> QED
      BY <3>1
  <2>2. ASSUME NEW t \in ActiveTitles(o)
        PROVE  Cardinality(ActiveTitles(o)) <= 1
    <3>1. ActiveTitles(o) = {t}
      BY <2>2 DEF SaleInOrder
    <3>2. Cardinality(ActiveTitles(o)) = 1
      BY <3>1, FS_Singleton
    <3> QED
      BY <3>2
  <2> QED
    BY <2>1, <2>2
<1> QED
  BY <1>1 DEF OneObligation

LEMMA ReversalsAreReal ==
  ASSUME RefundsStand
  PROVE  LocalReversalIsReal
<1>1. ASSUME NEW f \in RefundRequests, refund[f] = "reversed_local",
             NEW g \in RefundsOf(Refund[f].payment) \ {f}, refund[g] = "external_confirmed"
      PROVE  FALSE
  <2> DEFINE p == Refund[f].payment
  <2>1. f \in CommittingOf(p) /\ g \in CommittingOf(p) /\ g \in RefundRequests
    BY <1>1 DEF CommittingOf, RefundsOf, Committing
  <2>2. Refund[f].amount + Refund[g].amount <= Commitment(p)
    BY <2>1, TwoRequests
  <2>3. Commitment(p) <= Payment[p].amount /\ Commitment(p) \in Nat
    BY RefundsOk, CommitmentIs, AskedTyped DEF RefundsStand, RefundsWithinPayment
  <2>4. Refund[f].amount = Payment[p].amount
    BY <1>1 DEF RefundsStand
  <2> QED
    BY <2>1, <2>2, <2>3, <2>4, RefundsOk
<1> QED
  BY <1>1 DEF LocalReversalIsReal, RefundsStand

-----------------------------------------------------------------------------
(* Causes and places *)

(* The place a causal key is about.                                        *)
FirstLine(r, n) == \A j \in LinesOf(r, Lines(r)[n].item) : n <= j

Placed(key, p) ==
  \/ \E a \in DOMAIN Adjustment : key = <<"adjust", a>> /\ p = Adjustment[a].place
  \/ \E t \in DOMAIN Transfer : key = <<"transfer_out", t>> /\ p = Transfer[t].from
  \/ \E t \in DOMAIN Transfer : key = <<"transfer_in", t>> /\ p = Transfer[t].to
  \/ \E h \in DOMAIN Reservation : key = <<"reserve", h>> /\ p = Reservation[h].place
  \/ \E h \in DOMAIN Reservation : key = <<"release", h>> /\ p = Reservation[h].place
  \/ \E r \in Receipts : \E n \in DOMAIN Lines(r) :
       /\ key = ReceiptKey(r, Lines(r)[n].item) /\ p = Lines(r)[n].place
       /\ FirstLine(r, n)

BelongsTo(key, p) ==
  Placed(key, p) \/ (key = ReversalKey(key[2]) /\ Placed(key[2], p))

IsMove(m) ==
  /\ m.place \in Places /\ m.quantity \in Int /\ m.reserved \in Int
  /\ BelongsTo(m.key, m.place)
  /\ Kind(m) \notin {"reserve", "release"} => m.reserved = 0

AreMoves(moves) == IsFiniteSet(moves) /\ \A m \in moves : IsMove(m)

BroughtBy(m, r) == \E i \in ItemsIn(r) : m.key = ReceiptKey(r, i)
ReserveKey(h) == <<"reserve", h>>
ReleaseKey(h) == <<"release", h>>

(* The committed rows of goods.                                            *)
StockTyped ==
  /\ authority \in {"mercos", "erp"}
  /\ balance \in [Places -> [on_hand : Nat, reserved : Nat]]
  /\ reservation \in [DOMAIN Reservation -> {"none", "active", "released"}]
  /\ AreMoves(movements)

ReservationsKnown ==
  \A h \in DOMAIN Reservation :
    /\ Known(ReserveKey(h)) <=> reservation[h] # "none"
    /\ Known(ReleaseKey(h)) <=> reservation[h] = "released"

Stock == StockTyped /\ ReservationsKnown /\ ReservationsCovered /\ EveryCauseCountsOnce

PurchasesTyped ==
  /\ order \in [Orders -> OrderStatuses]
  /\ received \in [Items -> Nat]

NothingLeft ==
  \A r \in Receipts : receipt[r] = "reversed" =>
    /\ r \in Titles => ~IsActive(r)
    /\ \A m \in movements : BroughtBy(m, r) => Known(ReversalKey(m.key))

Purchases == PurchasesTyped /\ ReceivedMatchesReceipts /\ NothingLeft

(* What a request holds in its hand.                                       *)
Plain(m) == Kind(m) \in {"adjust", "transfer_out", "transfer_in", "reverse"}

Holding(x, h) ==
  /\ x.reservation = OneRow(h, "active")
  /\ x.moves = {Movement(ReserveKey(h), Reservation[h].place, 0, Reservation[h].quantity)}

Releasing(x, h) ==
  /\ x.reservation = OneRow(h, "released")
  /\ reservation[h] # "none"
  /\ x.moves = {Movement(ReleaseKey(h), Reservation[h].place, 0, -Reservation[h].quantity)}

StockReady(x) ==
  /\ AreMoves(x.moves)
  /\ \/ x.reservation = NoRows /\ \A m \in x.moves : Plain(m)
     \/ \E h \in DOMAIN Reservation : Holding(x, h) \/ Releasing(x, h)

TakesIn(x, r) ==
  /\ x.receipt = OneRow(r, "received") /\ receipt[r] = "none"
  /\ x.items = [i \in ItemsIn(r) |-> received[i] + QuantityOf(r, i)]
  /\ \A i \in ItemsIn(r) : received[i] + QuantityOf(r, i) <= Item[i].quantity
  /\ \A m \in x.moves : BroughtBy(m, r)

Answered(moves, r) ==
  \A m \in movements : BroughtBy(m, r) =>
    Known(ReversalKey(m.key)) \/ \E n \in moves : n.key = ReversalKey(m.key)

TakesOut(x, r) ==
  /\ x.receipt = OneRow(r, "reversed") /\ receipt[r] = "received"
  /\ x.items = [i \in ItemsIn(r) |-> received[i] - QuantityOf(r, i)]
  /\ \A i \in ItemsIn(r) : received[i] - QuantityOf(r, i) >= 0
  /\ \A m \in x.moves : Kind(m) = "reverse"
  /\ Answered(x.moves, r)

OrderRowTyped(rows) ==
  rows = NoRows \/ \E o \in Orders : \E status \in OrderStatuses : rows = OneRow(o, status)

GoodsReady(x, r) ==
  /\ ItemRows(r) \cup BalanceRows(x.moves) \subseteq x.locks
  /\ AreMoves(x.moves) /\ MovesAccepted(x.moves)
  /\ OrderRowTyped(x.order)
  /\ TakesIn(x, r) \/ TakesOut(x, r)

GoodsFit(x) ==
  /\ x.do = "stock" => StockReady(x)
  /\ x.do = "commit" => \E r \in Receipts : GoodsReady(x, r)
  /\ x.do = "order" => OrderRowTyped(x.order)

GoodsInv ==
  /\ Stock /\ Purchases
  /\ IF focus = "purchasing" THEN \A s \in Sessions : GoodsFit(tx[s])
                             ELSE \A r \in Receipts : receipt[r] = "none"

-----------------------------------------------------------------------------
(* Causes *)

LEMMA PlacedKinds ==
  ASSUME NEW key, NEW p, Placed(key, p)
  PROVE  key[1] \in {"adjust", "transfer_out", "transfer_in", "reserve", "release", "receipt"}
BY DEF Placed, ReceiptKey

(* One cause, one place.                                                   *)
LEMMA OnePlaced ==
  ASSUME NEW key, NEW p, NEW q, Placed(key, p), Placed(key, q)
  PROVE  p = q
<1>1. CASE \E a \in DOMAIN Adjustment : key = <<"adjust", a>> /\ p = Adjustment[a].place
  <2>1. key[1] = "adjust"
    BY <1>1
  <2>2. PICK b \in DOMAIN Adjustment : key = <<"adjust", b>> /\ q = Adjustment[b].place
    BY <2>1 DEF Placed, ReceiptKey
  <2> QED
    BY <1>1, <2>2
<1>2. CASE \E t \in DOMAIN Transfer : key = <<"transfer_out", t>> /\ p = Transfer[t].from
  <2>1. key[1] = "transfer_out"
    BY <1>2
  <2>2. PICK b \in DOMAIN Transfer : key = <<"transfer_out", b>> /\ q = Transfer[b].from
    BY <2>1 DEF Placed, ReceiptKey
  <2> QED
    BY <1>2, <2>2
<1>3. CASE \E t \in DOMAIN Transfer : key = <<"transfer_in", t>> /\ p = Transfer[t].to
  <2>1. key[1] = "transfer_in"
    BY <1>3
  <2>2. PICK b \in DOMAIN Transfer : key = <<"transfer_in", b>> /\ q = Transfer[b].to
    BY <2>1 DEF Placed, ReceiptKey
  <2> QED
    BY <1>3, <2>2
<1>4. CASE \E h \in DOMAIN Reservation : key = <<"reserve", h>> /\ p = Reservation[h].place
  <2>1. key[1] = "reserve"
    BY <1>4
  <2>2. PICK b \in DOMAIN Reservation : key = <<"reserve", b>> /\ q = Reservation[b].place
    BY <2>1 DEF Placed, ReceiptKey
  <2> QED
    BY <1>4, <2>2
<1>5. CASE \E h \in DOMAIN Reservation : key = <<"release", h>> /\ p = Reservation[h].place
  <2>1. key[1] = "release"
    BY <1>5
  <2>2. PICK b \in DOMAIN Reservation : key = <<"release", b>> /\ q = Reservation[b].place
    BY <2>1 DEF Placed, ReceiptKey
  <2> QED
    BY <1>5, <2>2
<1>6. CASE \E r \in Receipts : \E n \in DOMAIN Lines(r) :
             /\ key = ReceiptKey(r, Lines(r)[n].item) /\ p = Lines(r)[n].place
             /\ FirstLine(r, n)
  <2>1. PICK r, n :
          /\ r \in Receipts /\ n \in DOMAIN Lines(r)
          /\ key = ReceiptKey(r, Lines(r)[n].item) /\ p = Lines(r)[n].place
          /\ FirstLine(r, n)
    BY <1>6
  <2>2. key[1] = "receipt"
    BY <2>1 DEF ReceiptKey
  <2>3. PICK u, k :
          /\ u \in Receipts /\ k \in DOMAIN Lines(u)
          /\ key = ReceiptKey(u, Lines(u)[k].item) /\ q = Lines(u)[k].place
          /\ FirstLine(u, k)
    BY <2>2 DEF Placed
  <2>4. u = r /\ Lines(u)[k].item = Lines(r)[n].item
    BY <2>1, <2>3 DEF ReceiptKey
  <2>5. k \in LinesOf(r, Lines(r)[n].item) /\ n \in LinesOf(r, Lines(r)[k].item)
    BY <2>1, <2>3, <2>4 DEF LinesOf
  <2>6. k <= n /\ n <= k
    BY <2>1, <2>3, <2>4, <2>5 DEF FirstLine
  <2>7. k \in Nat /\ n \in Nat
    BY <2>1, <2>3, <2>4, LinesTyped
  <2>8. k = n
    BY <2>6, <2>7
  <2> QED
    BY <2>1, <2>3, <2>4, <2>8
<1> QED
  BY <1>1, <1>2, <1>3, <1>4, <1>5, <1>6 DEF Placed

LEMMA OnePlace ==
  ASSUME NEW m, NEW n, IsMove(m), IsMove(n), m.key = n.key
  PROVE  m.place = n.place
<1>1. /\ BelongsTo(m.key, m.place) /\ BelongsTo(m.key, n.place)
  BY DEF IsMove
<1>2. CASE Placed(m.key, m.place)
  <2>1. m.key[1] # "reverse"
    BY <1>2, PlacedKinds
  <2>2. Placed(m.key, n.place)
    BY <1>1, <2>1 DEF BelongsTo, ReversalKey
  <2> QED
    BY <1>2, <2>2, OnePlaced
<1>3. CASE m.key = ReversalKey(m.key[2]) /\ Placed(m.key[2], m.place)
  <2>1. m.key[1] = "reverse"
    BY <1>3 DEF ReversalKey
  <2>2. Placed(m.key[2], n.place)
    BY <1>1, <2>1, PlacedKinds DEF BelongsTo
  <2> QED
    BY <1>3, <2>2, OnePlaced
<1> QED
  BY <1>1, <1>2, <1>3 DEF BelongsTo

LEMMA MovementIs ==
  ASSUME NEW key, NEW p, NEW q, NEW res
  PROVE  LET m == Movement(key, p, q, res)
         IN m.key = key /\ m.place = p /\ m.quantity = q /\ m.reserved = res /\ Kind(m) = key[1]
BY DEF Movement, Kind

-----------------------------------------------------------------------------
(* Balances and movements *)

LEMMA AtTyped ==
  ASSUME NEW moves, AreMoves(moves), NEW p
  PROVE  /\ IsFiniteSet(MovesAt(moves, p))
         /\ [m \in MovesAt(moves, p) |-> m.quantity] \in [MovesAt(moves, p) -> Int]
         /\ [m \in MovesAt(moves, p) |-> m.reserved] \in [MovesAt(moves, p) -> Int]
         /\ TotalQuantity(MovesAt(moves, p)) \in Int
         /\ TotalReserved(MovesAt(moves, p)) \in Int
<1>1. MovesAt(moves, p) \in SUBSET moves
  BY DEF MovesAt
<1>2. IsFiniteSet(MovesAt(moves, p))
  BY <1>1, FS_Subset DEF AreMoves
<1> DEFINE A == MovesAt(moves, p)
<1>3. \A m \in A : m.quantity \in Int /\ m.reserved \in Int
  BY <1>1 DEF AreMoves, IsMove
<1> HIDE DEF A
<1>4. PICK f : f = [m \in A |-> m.quantity]
  OBVIOUS
<1>5. PICK g : g = [m \in A |-> m.reserved]
  OBVIOUS
<1>6. f \in [A -> Int] /\ g \in [A -> Int]
  BY <1>3, <1>4, <1>5
<1>7. SumFunction(f) \in Int /\ SumFunction(g) \in Int
  BY <1>2, <1>6, SumTyped DEF A
<1> QED
  BY <1>2, <1>4, <1>5, <1>6, <1>7 DEF A, TotalQuantity, TotalReserved

LEMMA NothingAt ==
  ASSUME NEW moves, NEW p, MovesAt(moves, p) = {}
  PROVE  TotalQuantity(MovesAt(moves, p)) = 0 /\ TotalReserved(MovesAt(moves, p)) = 0
<1>1. PICK f : f = [m \in MovesAt(moves, p) |-> m.quantity]
  OBVIOUS
<1>2. PICK g : g = [m \in MovesAt(moves, p) |-> m.reserved]
  OBVIOUS
<1>3. SumFunction(f) = 0 /\ SumFunction(g) = 0
  BY <1>1, <1>2, SumOfNone
<1> QED
  BY <1>1, <1>2, <1>3 DEF TotalQuantity, TotalReserved

(* New moves are added to what was moved.                                  *)
LEMMA MovesJoin ==
  ASSUME NEW old, NEW new, AreMoves(old), AreMoves(new), old \cap new = {}, NEW p
  PROVE  /\ TotalQuantity(MovesAt(old \cup new, p))
              = TotalQuantity(MovesAt(old, p)) + TotalQuantity(MovesAt(new, p))
         /\ TotalReserved(MovesAt(old \cup new, p))
              = TotalReserved(MovesAt(old, p)) + TotalReserved(MovesAt(new, p))
<1>1. PICK A, C : A = MovesAt(old, p) /\ C = MovesAt(new, p)
  OBVIOUS
<1>2. MovesAt(old \cup new, p) = A \cup C /\ A \cap C = {}
  BY <1>1 DEF MovesAt
<1>3. IsFiniteSet(A) /\ IsFiniteSet(C)
  BY <1>1, AtTyped
<1>4. \A m \in A \cup C : m.quantity \in Int /\ m.reserved \in Int
  BY <1>1 DEF MovesAt, AreMoves, IsMove
<1>5. PICK f : f = [m \in A \cup C |-> m.quantity]
  OBVIOUS
<1>6. PICK g : g = [m \in A \cup C |-> m.reserved]
  OBVIOUS
<1>7. f \in [A \cup C -> Int] /\ g \in [A \cup C -> Int]
  BY <1>4, <1>5, <1>6
<1>8. InTwo(f, A, C) /\ InTwo(g, A, C)
  BY <1>2, <1>3, <1>7, SumOfTwo
<1>9. /\ Over(f, A) = [m \in A |-> m.quantity] /\ Over(f, C) = [m \in C |-> m.quantity]
      /\ Over(g, A) = [m \in A |-> m.reserved] /\ Over(g, C) = [m \in C |-> m.reserved]
  BY <1>5, <1>6 DEF Over
<1> QED
  BY <1>1, <1>2, <1>5, <1>6, <1>8, <1>9 DEF InTwo, TotalQuantity, TotalReserved

LEMMA MovesUnite ==
  ASSUME NEW A, NEW C, AreMoves(A), AreMoves(C)
  PROVE  AreMoves(A \cup C)
BY FS_Union DEF AreMoves

LEMMA AfterIs ==
  ASSUME NEW moves, NEW p \in Places
  PROVE  /\ After(moves)[p].on_hand = balance[p].on_hand + TotalQuantity(MovesAt(moves, p))
         /\ After(moves)[p].reserved = balance[p].reserved + TotalReserved(MovesAt(moves, p))
BY DEF After

(* Accepted moves keep the balances.                                       *)
LEMMA BalancesMove ==
  ASSUME StockTyped, EveryCauseCountsOnce, ReservationsCovered,
         NEW moves, AreMoves(moves), MovesAccepted(moves),
         balance' = After(moves), movements' = movements \cup moves
  PROVE  /\ AreMoves(movements)'
         /\ balance' \in [Places -> [on_hand : Nat, reserved : Nat]]
         /\ EveryCauseCountsOnce'
         /\ \A p \in Places :
              /\ balance'[p].reserved <= balance'[p].on_hand
              /\ balance'[p].reserved = balance[p].reserved + TotalReserved(MovesAt(moves, p))
<1>1. AreMoves(movements)'
  BY MovesUnite DEF StockTyped
<1>2. movements \cap moves = {}
  BY DEF MovesAccepted, NoCauseRepeats, Known
<1>3. ASSUME NEW p \in Places
      PROVE  /\ balance'[p].on_hand \in Nat /\ balance'[p].reserved \in Nat
             /\ balance'[p].reserved <= balance'[p].on_hand
             /\ balance'[p].on_hand = balance[p].on_hand + TotalQuantity(MovesAt(moves, p))
             /\ balance'[p].reserved = balance[p].reserved + TotalReserved(MovesAt(moves, p))
  <2>1. /\ balance'[p].on_hand = balance[p].on_hand + TotalQuantity(MovesAt(moves, p))
        /\ balance'[p].reserved = balance[p].reserved + TotalReserved(MovesAt(moves, p))
    BY AfterIs
  <2>2. /\ TotalQuantity(MovesAt(moves, p)) \in Int /\ TotalReserved(MovesAt(moves, p)) \in Int
    BY AtTyped
  <2>3. /\ balance[p].on_hand \in Nat /\ balance[p].reserved \in Nat
        /\ balance[p].reserved <= balance[p].on_hand
    BY DEF StockTyped, ReservationsCovered
  <2>4. CASE p \in PlacesOf(moves)
    <3>1. /\ balance'[p].on_hand >= 0 /\ balance'[p].reserved >= 0
          /\ balance'[p].reserved <= balance'[p].on_hand
      BY <2>4 DEF MovesAccepted, BalancesAllow
    <3> QED
      BY <2>1, <2>2, <2>3, <3>1
  <2>5. CASE p \notin PlacesOf(moves)
    <3>1. MovesAt(moves, p) = {}
      BY <2>5 DEF MovesAt, PlacesOf
    <3>2. TotalQuantity(MovesAt(moves, p)) = 0 /\ TotalReserved(MovesAt(moves, p)) = 0
      BY <3>1, NothingAt
    <3> QED
      BY <2>1, <2>3, <3>2
  <2> QED
    BY <2>4, <2>5
<1>4. balance' \in [Places -> [on_hand : Nat, reserved : Nat]]
  <2>1. balance' = [p \in Places |-> [on_hand |-> balance'[p].on_hand,
                                      reserved |-> balance'[p].reserved]]
    BY DEF After
  <2> QED
    BY <1>3, <2>1
<1>5. EveryCauseCountsOnce'
  <2>1. ASSUME NEW p \in Places
        PROVE  /\ balance'[p].on_hand = TotalQuantity(MovesAt(movements', p))
               /\ balance'[p].reserved = TotalReserved(MovesAt(movements', p))
    <3>1. /\ balance[p].on_hand = TotalQuantity(MovesAt(movements, p))
          /\ balance[p].reserved = TotalReserved(MovesAt(movements, p))
      BY DEF EveryCauseCountsOnce
    <3>2. /\ TotalQuantity(MovesAt(movements', p))
              = TotalQuantity(MovesAt(movements, p)) + TotalQuantity(MovesAt(moves, p))
          /\ TotalReserved(MovesAt(movements', p))
              = TotalReserved(MovesAt(movements, p)) + TotalReserved(MovesAt(moves, p))
      BY <1>2, MovesJoin DEF StockTyped
    <3> QED
      BY <1>3, <3>1, <3>2
  <2>2. \A p \in Places :
          /\ balance'[p].on_hand = TotalQuantity(MovesAt(movements', p))
          /\ balance'[p].reserved = TotalReserved(MovesAt(movements', p))
    BY <2>1
  <2> QED
    BY <2>2 DEF EveryCauseCountsOnce, TotalQuantity, TotalReserved, MovesAt
<1> QED
  BY <1>1, <1>3, <1>4, <1>5

-----------------------------------------------------------------------------
(* What a commit of another leaves *)

(* The commit of moves whose balances are not locked by mine.              *)
Apart(mine, moves) == BalanceRows(mine) \cap BalanceRows(moves) = {}

LEMMA MovesStay ==
  ASSUME StockTyped, NEW moves, AreMoves(moves), NEW mine, AreMoves(mine),
         MovesAccepted(mine), Apart(mine, moves),
         balance' = After(moves), movements' = movements \cup moves
  PROVE  MovesAccepted(mine)'
<1>1. PlacesOf(mine) \cap PlacesOf(moves) = {}
  <2>1. ASSUME NEW p \in PlacesOf(mine), p \in PlacesOf(moves)
        PROVE  FALSE
    <3>1. <<"balance", p>> \in BalanceRows(mine) /\ <<"balance", p>> \in BalanceRows(moves)
      BY <2>1 DEF BalanceRows
    <3> QED
      BY <3>1 DEF Apart
  <2> QED
    BY <2>1
<1>2. NoCauseRepeats(mine)'
  <2>1. ASSUME NEW m \in mine, NEW n \in movements \cup moves, n.key = m.key
        PROVE  FALSE
    <3>1. n \notin movements
      BY <2>1 DEF MovesAccepted, NoCauseRepeats, Known
    <3>2. n.place = m.place
      BY <2>1, <3>1, OnePlace DEF AreMoves
    <3> QED
      BY <1>1, <2>1, <3>1, <3>2 DEF PlacesOf
  <2> QED
    BY <2>1 DEF NoCauseRepeats, Known
<1>3. BalancesAllow(mine)'
  <2>1. ASSUME NEW p \in PlacesOf(mine)
        PROVE  After(mine)'[p] = After(mine)[p]
    <3>1. p \in Places
      BY DEF PlacesOf, AreMoves, IsMove
    <3>2. MovesAt(moves, p) = {}
      BY <1>1 DEF MovesAt, PlacesOf
    <3>3. TotalQuantity(MovesAt(moves, p)) = 0 /\ TotalReserved(MovesAt(moves, p)) = 0
      BY <3>2, NothingAt
    <3>4. balance'[p].on_hand = balance[p].on_hand + 0
          /\ balance'[p].reserved = balance[p].reserved + 0
      BY <3>1, <3>3, AfterIs
    <3>5. balance[p].on_hand \in Nat /\ balance[p].reserved \in Nat
      BY <3>1 DEF StockTyped
    <3>6. balance'[p].on_hand = balance[p].on_hand /\ balance'[p].reserved = balance[p].reserved
      BY <3>4, <3>5
    <3> QED
      BY <3>1, <3>6 DEF After
  <2>2. PlacesOf(mine)' = PlacesOf(mine)
    BY DEF PlacesOf
  <2> QED
    BY <2>1, <2>2 DEF MovesAccepted, BalancesAllow
<1> QED
  BY <1>2, <1>3 DEF MovesAccepted

-----------------------------------------------------------------------------
(* The reservations *)

Holds(A) == SumFunction([h \in A |-> Reservation[h].quantity])
HeldAt(p) == Holds(ActiveAt(p))

LEMMA HoldsOneMore ==
  ASSUME NEW A \in SUBSET DOMAIN Reservation, NEW h \in DOMAIN Reservation, h \notin A
  PROVE  /\ Holds(A \cup {h}) = Holds(A) + Reservation[h].quantity
         /\ Holds(A) \in Int
<1> DEFINE f == [k \in A |-> Reservation[k].quantity]
           g == [k \in A \cup {h} |-> Reservation[k].quantity]
<1>1. f \in [A -> Int] /\ g \in [A \cup {h} -> Int]
  BY ReservationsTyped
<1>2. \A k \in A : g[k] = f[k]
  OBVIOUS
<1>3. g[h] = Reservation[h].quantity
  OBVIOUS
<1>4. IsFiniteSet(A)
  BY ReservationsAreFinite, FS_Subset
<1>5. Holds(A \cup {h}) = SumFunction(g) /\ Holds(A) = SumFunction(f)
  BY DEF Holds
<1> HIDE DEF f, g
<1>6. SumFunction(g) = SumFunction(f) + g[h]
  BY <1>1, <1>2, <1>4, SumJoin
<1>7. SumFunction(f) \in Int
  BY <1>1, <1>4, SumTyped
<1> QED
  BY <1>3, <1>5, <1>6, <1>7

LEMMA NothingReserved ==
  ASSUME NEW moves, AreMoves(moves), NEW p,
         \A m \in moves : Kind(m) \notin {"reserve", "release"}
  PROVE  TotalReserved(MovesAt(moves, p)) = 0
<1>1. PICK A : A = MovesAt(moves, p)
  OBVIOUS
<1>2. PICK f : f = [m \in A |-> m.reserved]
  OBVIOUS
<1>3. \A m \in A : m.reserved = 0
  BY <1>1 DEF MovesAt, AreMoves, IsMove
<1>4. f \in [A -> {0}]
  BY <1>2, <1>3
<1>5. IsFiniteSet(A)
  BY <1>1, AtTyped
<1>6. SumFunction(f) = 0
  BY <1>4, <1>5, SumOfZeros
<1> QED
  BY <1>1, <1>2, <1>6 DEF TotalReserved

(* Moves of goods that are not about a reservation.                        *)
LEMMA GoodsMove ==
  ASSUME Stock, NEW moves, AreMoves(moves), MovesAccepted(moves),
         \A m \in moves : Kind(m) \notin {"reserve", "release"},
         balance' = After(moves), movements' = movements \cup moves,
         authority' = authority, reservation' = reservation
  PROVE  Stock'
<1>1. /\ AreMoves(movements)' /\ balance' \in [Places -> [on_hand : Nat, reserved : Nat]]
      /\ EveryCauseCountsOnce'
      /\ \A p \in Places :
           /\ balance'[p].reserved <= balance'[p].on_hand
           /\ balance'[p].reserved = balance[p].reserved + TotalReserved(MovesAt(moves, p))
  BY BalancesMove DEF Stock
<1>2. StockTyped'
  BY <1>1 DEF Stock, StockTyped
<1>3. ReservationsKnown'
  <2>1. \A h : /\ Known(ReserveKey(h))' <=> Known(ReserveKey(h))
               /\ Known(ReleaseKey(h))' <=> Known(ReleaseKey(h))
    <3>1. \A h : \A m \in moves : m.key # ReserveKey(h) /\ m.key # ReleaseKey(h)
      BY DEF ReserveKey, ReleaseKey, Kind
    <3> QED
      BY <3>1 DEF Known
  <2> QED
    BY <2>1 DEF Stock, ReservationsKnown
<1>4. ReservationsCovered'
  <2>1. \A p : HeldAt(p)' = HeldAt(p)
    BY DEF HeldAt, ActiveAt
  <2>2. ASSUME NEW p \in Places
        PROVE  balance'[p].reserved <= balance'[p].on_hand /\ balance'[p].reserved = HeldAt(p)'
    <3>1. TotalReserved(MovesAt(moves, p)) = 0
      BY NothingReserved
    <3>2. balance[p].reserved = HeldAt(p) /\ balance[p].reserved \in Nat
      BY DEF Stock, ReservationsCovered, HeldAt, Holds, StockTyped
    <3> QED
      BY <1>1, <2>1, <3>1, <3>2
  <2> QED
    BY <2>2 DEF ReservationsCovered, HeldAt, Holds
<1> QED
  BY <1>1, <1>2, <1>3, <1>4 DEF Stock

LEMMA OneMove ==
  ASSUME NEW m, IsMove(m)
  PROVE  /\ AreMoves({m})
         /\ TotalReserved(MovesAt({m}, m.place)) = m.reserved
         /\ \A p : p # m.place => TotalReserved(MovesAt({m}, p)) = 0
<1>1. AreMoves({m})
  BY FS_Singleton DEF AreMoves
<1>2. ASSUME NEW p, p # m.place
      PROVE  TotalReserved(MovesAt({m}, p)) = 0
  <2>1. MovesAt({m}, p) = {}
    BY <1>2 DEF MovesAt
  <2> QED
    BY <2>1, NothingAt
<1>3. TotalReserved(MovesAt({m}, m.place)) = m.reserved
  <2>1. MovesAt({m}, m.place) = {m}
    BY DEF MovesAt
  <2>2. PICK g : g = [n \in {m} |-> n.reserved]
    OBVIOUS
  <2>3. PICK f : f = [n \in {} |-> n.reserved]
    OBVIOUS
  <2>4. m.reserved \in Int
    BY DEF IsMove
  <2>5. g \in [{m} -> Int] /\ f \in [{} -> Int] /\ g[m] = m.reserved
    BY <2>2, <2>3, <2>4
  <2>6. SumFunction(f) = 0
    BY <2>3, SumOfNone
  <2>7. IsFiniteSet({}) /\ m \notin {} /\ {} \cup {m} = {m}
    BY FS_EmptySet
  <2>8. SumFunction(g) = SumFunction(f) + g[m]
    <3>1. g \in [{} \cup {m} -> Int]
      BY <2>5, <2>7
    <3>2. SumFunction(g) = SumFunction(f) + g[m]
      <4>1. f \in [{} -> Int]
        BY <2>5
      <4>2. IsFiniteSet({})
        BY <2>7
      <4> QED
        BY <3>1, <4>1, <4>2, SumJoin
    <3> QED
      BY <3>2
  <2> QED
    BY <2>1, <2>2, <2>4, <2>5, <2>6, <2>8 DEF TotalReserved
<1> QED
  BY <1>1, <1>2, <1>3

(* The reservation h begins or ends to hold its goods.                     *)
LEMMA HeldChanges ==
  ASSUME Stock, NEW h \in DOMAIN Reservation, NEW status,
         reservation' = [reservation EXCEPT ![h] = status],
         \/ reservation[h] # "active" /\ status = "active"
         \/ reservation[h] = "active" /\ status = "released"
  PROVE  /\ \A p \in Places \ {Reservation[h].place} : HeldAt(p)' = HeldAt(p)
         /\ HeldAt(Reservation[h].place)' = HeldAt(Reservation[h].place)
              + (IF status = "active" THEN Reservation[h].quantity ELSE -Reservation[h].quantity)
<1> DEFINE q == Reservation[h].place
<1>1. reservation'[h] = status /\ \A k \in DOMAIN Reservation \ {h} : reservation'[k] = reservation[k]
  BY DEF Stock, StockTyped
<1>2. ASSUME NEW p \in Places \ {q}
      PROVE  HeldAt(p)' = HeldAt(p)
  <2>1. ActiveAt(p)' = ActiveAt(p)
    BY <1>1 DEF ActiveAt
  <2> QED
    BY <2>1 DEF HeldAt
<1>3. PICK A, C : A = ActiveAt(q) /\ C = ActiveAt(q)'
  OBVIOUS
<1>4. A \in SUBSET DOMAIN Reservation /\ C \in SUBSET DOMAIN Reservation
  BY <1>3 DEF ActiveAt
<1>5. HeldAt(q) = Holds(A) /\ HeldAt(q)' = Holds(C)
  BY <1>3 DEF HeldAt, Holds
<1>6. Reservation[h].quantity \in Int
  BY ReservationsTyped
<1>7. CASE reservation[h] # "active" /\ status = "active"
  <2>1. h \notin A /\ C = A \cup {h}
    BY <1>1, <1>3, <1>7 DEF ActiveAt
  <2>2. Holds(A \cup {h}) = Holds(A) + Reservation[h].quantity
    BY <1>4, <2>1, HoldsOneMore
  <2> QED
    BY <1>2, <1>5, <1>7, <2>1, <2>2
<1>8. CASE reservation[h] = "active" /\ status = "released"
  <2>1. h \notin C /\ A = C \cup {h}
    BY <1>1, <1>3, <1>8 DEF ActiveAt
  <2>2. /\ Holds(C \cup {h}) = Holds(C) + Reservation[h].quantity
        /\ Holds(C) \in Int
    BY <1>4, <2>1, HoldsOneMore
  <2>3. Holds(C) = Holds(A) + (-Reservation[h].quantity)
    BY <1>6, <2>1, <2>2
  <2> QED
    BY <1>2, <1>5, <1>8, <2>3
<1> QED
  BY <1>7, <1>8

(* A reservation's move, if it is accepted, finds the reservation as it    *)
(* must be: its cause is new.                                              *)
ReservationRow(h, m, status) ==
  \/ /\ m = Movement(ReserveKey(h), Reservation[h].place, 0, Reservation[h].quantity)
     /\ reservation[h] = "none" /\ status = "active"
  \/ /\ m = Movement(ReleaseKey(h), Reservation[h].place, 0, -Reservation[h].quantity)
     /\ reservation[h] = "active" /\ status = "released"

LEMMA ReservationRowFits ==
  ASSUME Stock, NEW x, MovesAccepted(x.moves),
         NEW h \in DOMAIN Reservation, Holding(x, h) \/ Releasing(x, h)
  PROVE  \E m, status : /\ ReservationRow(h, m, status)
                        /\ x.moves = {m} /\ x.reservation = OneRow(h, status)
<1>1. CASE Holding(x, h)
  <2>1. PICK m : m = Movement(ReserveKey(h), Reservation[h].place, 0, Reservation[h].quantity)
    OBVIOUS
  <2>2. m.key = ReserveKey(h) /\ x.moves = {m}
    BY <1>1, <2>1 DEF Holding, Movement
  <2>3. ~Known(ReserveKey(h))
    BY <2>2 DEF MovesAccepted, NoCauseRepeats
  <2>4. reservation[h] = "none"
    BY <2>3 DEF Stock, ReservationsKnown
  <2> QED
    BY <1>1, <2>1, <2>2, <2>4 DEF Holding, ReservationRow
<1>2. CASE Releasing(x, h)
  <2>1. PICK m : m = Movement(ReleaseKey(h), Reservation[h].place, 0, -Reservation[h].quantity)
    OBVIOUS
  <2>2. m.key = ReleaseKey(h) /\ x.moves = {m}
    BY <1>2, <2>1 DEF Releasing, Movement
  <2>3. ~Known(ReleaseKey(h))
    BY <2>2 DEF MovesAccepted, NoCauseRepeats
  <2>4. reservation[h] # "released" /\ reservation[h] # "none"
    BY <1>2, <2>3 DEF Stock, ReservationsKnown, Releasing
  <2>5. reservation[h] = "active"
    BY <2>4 DEF Stock, StockTyped
  <2> QED
    BY <1>2, <2>1, <2>2, <2>5 DEF Releasing, ReservationRow
<1> QED
  BY <1>1, <1>2

LEMMA ReservationMove ==
  ASSUME Stock, NEW h \in DOMAIN Reservation, NEW m, NEW status,
         ReservationRow(h, m, status), IsMove(m), MovesAccepted({m}),
         balance' = After({m}), movements' = movements \cup {m},
         authority' = authority, reservation' = [reservation EXCEPT ![h] = status]
  PROVE  Stock'
<1> DEFINE q == Reservation[h].place
           n == Reservation[h].quantity
<1>0. q \in Places /\ n \in Nat
  BY ReservationsTyped
<1>1. AreMoves({m}) /\ m.place = q
      /\ m.reserved = (IF status = "active" THEN n ELSE -n)
  <2>1. AreMoves({m})
    BY OneMove
  <2>2. m.place = q /\ m.reserved = (IF status = "active" THEN n ELSE -n)
    BY DEF ReservationRow, Movement
  <2> QED
    BY <2>1, <2>2
<1>2. /\ AreMoves(movements)' /\ balance' \in [Places -> [on_hand : Nat, reserved : Nat]]
      /\ EveryCauseCountsOnce'
      /\ \A p \in Places :
           /\ balance'[p].reserved <= balance'[p].on_hand
           /\ balance'[p].reserved = balance[p].reserved + TotalReserved(MovesAt({m}, p))
  BY <1>1, BalancesMove DEF Stock
<1>3. reservation'[h] = status /\ \A k \in DOMAIN Reservation \ {h} : reservation'[k] = reservation[k]
  BY DEF Stock, StockTyped
<1>4. StockTyped'
  <2>1. status \in {"active", "released"}
    BY DEF ReservationRow
  <2> QED
    BY <1>2, <2>1 DEF Stock, StockTyped
<1>5. ReservationsKnown'
  <2>1. \A key : Known(key)' <=> (Known(key) \/ key = m.key)
    BY DEF Known
  <2>2. ASSUME NEW k \in DOMAIN Reservation
        PROVE  /\ Known(ReserveKey(k))' <=> reservation'[k] # "none"
               /\ Known(ReleaseKey(k))' <=> reservation'[k] = "released"
    <3>1. /\ Known(ReserveKey(k)) <=> reservation[k] # "none"
          /\ Known(ReleaseKey(k)) <=> reservation[k] = "released"
      BY DEF Stock, ReservationsKnown
    <3>2. \/ m.key = ReserveKey(h) /\ reservation[h] = "none" /\ status = "active"
          \/ m.key = ReleaseKey(h) /\ reservation[h] = "active" /\ status = "released"
      BY MovementIs DEF ReservationRow
    <3>3. /\ ReserveKey(k) # ReleaseKey(h) /\ ReleaseKey(k) # ReserveKey(h)
          /\ (ReserveKey(k) = ReserveKey(h)) <=> (k = h)
          /\ (ReleaseKey(k) = ReleaseKey(h)) <=> (k = h)
      BY DEF ReserveKey, ReleaseKey
    <3>4. CASE k = h
      BY <1>3, <2>1, <3>1, <3>2, <3>3, <3>4
    <3>5. CASE k # h
      BY <1>3, <2>1, <3>1, <3>2, <3>3, <3>5
    <3> QED
      BY <3>4, <3>5
  <2> QED
    BY <2>2 DEF ReservationsKnown
<1>6. ReservationsCovered'
  <2>1. \/ reservation[h] # "active" /\ status = "active"
        \/ reservation[h] = "active" /\ status = "released"
    BY DEF ReservationRow
  <2>2. /\ \A p \in Places \ {q} : HeldAt(p)' = HeldAt(p)
        /\ HeldAt(q)' = HeldAt(q) + (IF status = "active" THEN n ELSE -n)
    BY <2>1, HeldChanges
  <2>3. ASSUME NEW p \in Places
        PROVE  balance'[p].reserved <= balance'[p].on_hand /\ balance'[p].reserved = HeldAt(p)'
    <3>1. balance[p].reserved = HeldAt(p) /\ balance[p].reserved \in Nat
      BY DEF Stock, ReservationsCovered, HeldAt, Holds, StockTyped
    <3>2. CASE p = q
      <4>1. TotalReserved(MovesAt({m}, p)) = m.reserved
        BY <1>1, <3>2, OneMove
      <4> QED
        BY <1>1, <1>2, <2>2, <3>1, <3>2, <4>1
    <3>3. CASE p # q
      <4>1. TotalReserved(MovesAt({m}, p)) = 0
        BY <1>1, <3>3, OneMove
      <4>2. HeldAt(p)' = HeldAt(p)
        BY <2>2, <3>3
      <4>3. /\ balance'[p].reserved <= balance'[p].on_hand
            /\ balance'[p].reserved = balance[p].reserved + 0
        BY <1>2, <4>1
      <4> QED
        BY <3>1, <4>2, <4>3
    <3> QED
      BY <3>2, <3>3
  <2> QED
    BY <2>3 DEF ReservationsCovered, HeldAt, Holds
<1> QED
  BY <1>2, <1>4, <1>5, <1>6 DEF Stock

(* The commit of a stock request.                                          *)
LEMMA StockKeeps ==
  ASSUME Stock, NEW x, StockReady(x), MovesAccepted(x.moves),
         balance' = After(x.moves), movements' = movements \cup x.moves,
         authority' = authority, reservation' = Written(reservation, x.reservation)
  PROVE  Stock'
<1>0. reservation = [h \in DOMAIN reservation |-> reservation[h]]
  BY DEF Stock, StockTyped
<1>1. CASE x.reservation = NoRows /\ \A m \in x.moves : Plain(m)
  <2>1. \A m \in x.moves : Kind(m) \notin {"reserve", "release"}
    BY <1>1 DEF Plain
  <2>2. reservation' = reservation
    BY <1>0, <1>1, WrittenNone
  <2> QED
    BY <2>1, <2>2, GoodsMove DEF StockReady
<1>2. ASSUME NEW h \in DOMAIN Reservation, Holding(x, h) \/ Releasing(x, h)
      PROVE  Stock'
  <2>1. PICK m, status : /\ ReservationRow(h, m, status)
                         /\ x.moves = {m} /\ x.reservation = OneRow(h, status)
    BY <1>2, ReservationRowFits
  <2>2. IsMove(m)
    BY <2>1 DEF StockReady, AreMoves
  <2>3. reservation' = [reservation EXCEPT ![h] = status]
    BY <2>1, WrittenOne
  <2> QED
    BY <2>1, <2>2, <2>3, ReservationMove
<1> QED
  BY <1>1, <1>2 DEF StockReady

-----------------------------------------------------------------------------
(* What was received of an item *)

LEMMA LineTyped ==
  ASSUME NEW r \in Receipts, NEW n \in DOMAIN Lines(r)
  PROVE  /\ Lines(r)[n].item \in Items /\ Lines(r)[n].quantity \in Nat \ {0}
         /\ Lines(r)[n].place \in Places \cup {NoPlace}
         /\ n \in Nat
<1>1. PICK S : S = [item : Items, quantity : Nat \ {0}, place : Places \cup {NoPlace}]
  OBVIOUS
<1>2. PICK l : l = Lines(r)
  OBVIOUS
<1>3. l \in Seq(S) /\ DOMAIN l = 1..Len(l)
  BY <1>1, <1>2, LinesTyped
<1>4. n \in 1..Len(l) /\ n \in Nat
  BY <1>2, <1>3
<1>5. l[n] \in S
  BY <1>3, <1>4
<1> QED
  BY <1>1, <1>2, <1>4, <1>5

LEMMA QuantitiesTyped ==
  ASSUME NEW r \in Receipts, NEW i
  PROVE  /\ QuantityOf(r, i) \in Nat
         /\ i \notin ItemsIn(r) => QuantityOf(r, i) = 0
<1>1. PICK A : A = LinesOf(r, i)
  OBVIOUS
<1>2. PICK f : f = [n \in A |-> Lines(r)[n].quantity]
  OBVIOUS
<1>3. A \in SUBSET (1..Len(Lines(r)))
  BY <1>1, LinesTyped DEF LinesOf
<1>4. IsFiniteSet(A)
  <2>1. IsFiniteSet(1..Len(Lines(r)))
    BY LinesTyped, FS_Interval
  <2> QED
    BY <1>3, <2>1, FS_Subset
<1>5. f \in [A -> Nat]
  <2>1. \A n \in A : Lines(r)[n].quantity \in Nat
    BY <1>1, LineTyped DEF LinesOf
  <2> QED
    BY <1>2, <2>1
<1>6. SumFunction(f) \in Nat
  BY <1>4, <1>5, SumNatural
<1>7. ASSUME i \notin ItemsIn(r)
      PROVE  SumFunction(f) = 0
  <2>1. A = {}
    BY <1>1, <1>7 DEF LinesOf, ItemsIn
  <2> QED
    BY <1>2, <2>1, SumOfNone
<1> QED
  BY <1>1, <1>2, <1>6, <1>7 DEF QuantityOf

Brought(A, i) == SumFunction([r \in A |-> QuantityOf(r, i)])

LEMMA BroughtOneMore ==
  ASSUME NEW A \in SUBSET Receipts, NEW r \in Receipts, r \notin A, NEW i
  PROVE  /\ Brought(A \cup {r}, i) = Brought(A, i) + QuantityOf(r, i)
         /\ Brought(A, i) \in Int
<1> DEFINE f == [k \in A |-> QuantityOf(k, i)]
           g == [k \in A \cup {r} |-> QuantityOf(k, i)]
<1>1. f \in [A -> Int] /\ g \in [A \cup {r} -> Int]
  BY QuantitiesTyped
<1>2. \A k \in A : g[k] = f[k]
  OBVIOUS
<1>3. g[r] = QuantityOf(r, i)
  OBVIOUS
<1>4. IsFiniteSet(A)
  BY ReceiptsAreFinite, FS_Subset
<1>5. Brought(A \cup {r}, i) = SumFunction(g) /\ Brought(A, i) = SumFunction(f)
  BY DEF Brought
<1> HIDE DEF f, g
<1>6. SumFunction(g) = SumFunction(f) + g[r]
  BY <1>1, <1>2, <1>4, SumJoin
<1>7. SumFunction(f) \in Int
  BY <1>1, <1>4, SumTyped
<1> QED
  BY <1>3, <1>5, <1>6, <1>7

LEMMA ReceivedKeeps ==
  ASSUME PurchasesTyped, ReceivedMatchesReceipts, ReceiptsInOrder,
         NEW x, NEW r \in Receipts, TakesIn(x, r) \/ TakesOut(x, r),
         received' = Written(received, x.items), receipt' = Written(receipt, x.receipt)
  PROVE  received' \in [Items -> Nat] /\ ReceivedMatchesReceipts'
<1>0. ItemsIn(r) \subseteq Items
  BY LineTyped DEF ItemsIn
<1>1. DOMAIN received = Items /\ \A i \in Items : received[i] \in Nat
  BY DEF PurchasesTyped
<1>2. \A i \in Items : QuantityOf(r, i) \in Nat /\ Item[i].quantity \in Nat
  BY QuantitiesTyped, ItemsTyped
<1>3. \A i \in Items : received[i] <= Item[i].quantity /\ received[i] = Brought(Standing, i)
  BY DEF ReceivedMatchesReceipts, Brought
<1>4. receipt \in [Receipts -> {"none", "received", "reversed"}]
  BY DEF ReceiptsInOrder
<1>5. CASE TakesIn(x, r)
  <2>1. receipt' = [receipt EXCEPT ![r] = "received"] /\ receipt[r] = "none"
    BY <1>5, WrittenOne DEF TakesIn
  <2>2. PICK A : A = Standing
    OBVIOUS
  <2>3. Standing' = A \cup {r} /\ r \notin A /\ A \in SUBSET Receipts
    BY <1>4, <2>1, <2>2 DEF Standing
  <2>4. ASSUME NEW i \in Items
        PROVE  /\ received'[i] = received[i] + QuantityOf(r, i)
               /\ received'[i] <= Item[i].quantity
    <3>1. CASE i \in ItemsIn(r)
      <4>1. received'[i] = received[i] + QuantityOf(r, i)
        BY <1>1, <1>5, <3>1 DEF TakesIn, Written
      <4> QED
        BY <1>5, <3>1, <4>1 DEF TakesIn
    <3>2. CASE i \notin ItemsIn(r)
      <4>1. received'[i] = received[i]
        BY <1>1, <1>5, <3>2 DEF TakesIn, Written
      <4>2. QuantityOf(r, i) = 0
        BY <3>2, QuantitiesTyped
      <4> QED
        BY <1>1, <1>3, <4>1, <4>2
    <3> QED
      BY <3>1, <3>2
  <2>5. received' \in [Items -> Nat]
    <3>1. \A i \in Items : received'[i] \in Nat
      BY <1>1, <1>2, <2>4
    <3>2. received' = [i \in Items |-> received'[i]]
      BY <1>1 DEF Written
    <3> QED
      BY <3>1, <3>2
  <2>6. ASSUME NEW i \in Items
        PROVE  received'[i] = Brought(A \cup {r}, i)
    <3>1. Brought(A \cup {r}, i) = Brought(A, i) + QuantityOf(r, i)
      BY <2>3, BroughtOneMore
    <3> QED
      BY <1>3, <2>2, <2>4, <3>1
  <2> QED
    BY <2>3, <2>4, <2>5, <2>6 DEF ReceivedMatchesReceipts, Brought, QuantityOf, LinesOf, Lines
<1>6. CASE TakesOut(x, r)
  <2>1. receipt' = [receipt EXCEPT ![r] = "reversed"] /\ receipt[r] = "received"
    BY <1>6, WrittenOne DEF TakesOut
  <2>2. PICK A : A = Standing'
    OBVIOUS
  <2>3. Standing = A \cup {r} /\ r \notin A /\ A \in SUBSET Receipts
    BY <1>4, <2>1, <2>2 DEF Standing
  <2>4. ASSUME NEW i \in Items
        PROVE  received'[i] = received[i] - QuantityOf(r, i) /\ received'[i] >= 0
    <3>1. CASE i \in ItemsIn(r)
      <4>1. received'[i] = received[i] - QuantityOf(r, i)
        BY <1>1, <1>6, <3>1 DEF TakesOut, Written
      <4> QED
        BY <1>6, <3>1, <4>1 DEF TakesOut
    <3>2. CASE i \notin ItemsIn(r)
      <4>1. received'[i] = received[i]
        BY <1>1, <1>6, <3>2 DEF TakesOut, Written
      <4>2. QuantityOf(r, i) = 0
        BY <3>2, QuantitiesTyped
      <4> QED
        BY <1>1, <1>3, <4>1, <4>2
    <3> QED
      BY <3>1, <3>2
  <2>5. received' \in [Items -> Nat]
    <3>1. \A i \in Items : received'[i] \in Nat
      BY <1>1, <1>2, <2>4
    <3>2. received' = [i \in Items |-> received'[i]]
      BY <1>1 DEF Written
    <3> QED
      BY <3>1, <3>2
  <2>6. ASSUME NEW i \in Items
        PROVE  received'[i] = Brought(A, i) /\ received'[i] <= Item[i].quantity
    <3>1. /\ Brought(A \cup {r}, i) = Brought(A, i) + QuantityOf(r, i)
          /\ Brought(A, i) \in Int
      BY <2>3, BroughtOneMore
    <3>2. received[i] = Brought(A, i) + QuantityOf(r, i) /\ received[i] <= Item[i].quantity
      BY <1>3, <2>3, <3>1
    <3> QED
      BY <1>1, <1>2, <2>4, <3>1, <3>2
  <2> QED
    BY <2>2, <2>5, <2>6 DEF ReceivedMatchesReceipts, Brought, QuantityOf, LinesOf, Lines
<1> QED
  BY <1>5, <1>6

-----------------------------------------------------------------------------
(* What a reversed receipt leaves *)

LEMMA SameRow ==
  ASSUME NEW a, NEW v, NEW b, NEW w, OneRow(a, v) = OneRow(b, w)
  PROVE  a = b /\ v = w
<1>1. DOMAIN OneRow(a, v) = {a} /\ DOMAIN OneRow(b, w) = {b}
  BY DEF OneRow
<1>2. a = b
  BY <1>1
<1>3. OneRow(a, v)[a] = v /\ OneRow(b, w)[b] = w
  BY DEF OneRow
<1> QED
  BY <1>2, <1>3

LEMMA BroughtByOne ==
  ASSUME NEW m, NEW r, NEW u, BroughtBy(m, r), BroughtBy(m, u)
  PROVE  r = u /\ Kind(m) = "receipt"
BY DEF BroughtBy, ReceiptKey, Kind

LEMMA NothingLeftKeeps ==
  ASSUME NothingLeft, ReceiptsInOrder, Books, NEW x, NEW r \in Receipts,
         TakesIn(x, r) \/ TakesOut(x, r), ReceiptReady(x),
         receipt' = Written(receipt, x.receipt), title' = Written(title, x.title),
         movements' = movements \cup x.moves
  PROVE  NothingLeft'
<1>1. PICK u \in Receipts : Incoming(x, u) \/ Outgoing(x, u)
  BY DEF ReceiptReady
<1>2. u = r
  BY <1>1, SameRow DEF Incoming, Outgoing, TakesIn, TakesOut
<1>3. \/ TakesIn(x, r) /\ Incoming(x, r)
      \/ TakesOut(x, r) /\ Outgoing(x, r)
  BY <1>1, <1>2 DEF Incoming, Outgoing, TakesIn, TakesOut
<1>4. /\ DOMAIN receipt = Receipts /\ \A v \in Receipts \ {r} : receipt'[v] = receipt[v]
  BY <1>3 DEF TakesIn, TakesOut, ReceiptsInOrder, Written, OneRow
<1>5. \A v \in Titles \ {r} : title'[v] = title[v]
  BY <1>3 DEF Incoming, Outgoing, PayableGone, Written, OneRow, NoRows, Books
<1>6. \A key : Known(key) => Known(key)'
  BY DEF Known
<1>7. ASSUME NEW v \in Receipts, v # r, receipt'[v] = "reversed"
      PROVE  /\ v \in Titles => ~IsActive(v)'
             /\ \A m \in movements' : BroughtBy(m, v) => Known(ReversalKey(m.key))'
  <2>1. receipt[v] = "reversed"
    BY <1>4, <1>7
  <2>2. v \in Titles => ~IsActive(v)'
    BY <1>5, <1>7, <2>1 DEF NothingLeft, IsActive
  <2>3. \A m \in x.moves : ~BroughtBy(m, v)
    BY <1>7, BroughtByOne DEF TakesIn, TakesOut
  <2> QED
    BY <1>6, <2>1, <2>2, <2>3 DEF NothingLeft
<1>8. ASSUME receipt'[r] = "reversed"
      PROVE  /\ r \in Titles => ~IsActive(r)'
             /\ \A m \in movements' : BroughtBy(m, r) => Known(ReversalKey(m.key))'
  <2>1. receipt' = [receipt EXCEPT ![r] = "received"] \/ TakesOut(x, r)
    BY <1>3, WrittenOne DEF TakesIn
  <2>2. TakesOut(x, r) /\ Outgoing(x, r)
    BY <1>3, <1>4, <1>8, <2>1 DEF TakesIn, TakesOut, Incoming, Outgoing
  <2>3. r \in Titles => ~IsActive(r)'
    <3>1. CASE HasPayable(r)
      <4>1. title'[r] = "cancelled"
        BY <2>2, <3>1 DEF Outgoing, PayableGone, HasPayable, Written, OneRow, Books
      <4> QED
        BY <4>1 DEF IsActive
    <3>2. CASE ~HasPayable(r)
      <4>1. r \in Titles => title'[r] = title[r]
        BY <2>2, <3>2 DEF Outgoing, PayableGone, Written, NoRows, Books
      <4> QED
        BY <3>2, <4>1 DEF HasPayable, IsActive
    <3> QED
      BY <3>1, <3>2
  <2>4. \A m \in movements : BroughtBy(m, r) => Known(ReversalKey(m.key))'
    BY <2>2 DEF TakesOut, Answered, Known
  <2>5. \A m \in x.moves : ~BroughtBy(m, r)
    BY <2>2, BroughtByOne DEF TakesOut
  <2> QED
    BY <2>3, <2>4, <2>5
<1> QED
  BY <1>7, <1>8 DEF NothingLeft

-----------------------------------------------------------------------------
(* What is held stays good while another commits *)

LEMMA ReadyKept ==
  ASSUME StockTyped, NEW x, NEW r \in Receipts, GoodsReady(x, r),
         NEW moves, AreMoves(moves), Apart(x.moves, moves),
         \A m \in moves : ~BroughtBy(m, r),
         balance' = After(moves), movements' = movements \cup moves,
         \A i \in ItemsIn(r) : received'[i] = received[i], receipt'[r] = receipt[r]
  PROVE  GoodsReady(x, r)'
<1>1. MovesAccepted(x.moves)'
  BY MovesStay DEF GoodsReady
<1>2. TakesIn(x, r) => TakesIn(x, r)'
  BY DEF TakesIn
<1>3. Answered(x.moves, r) => Answered(x.moves, r)'
  BY DEF Answered, Known
<1>4. TakesOut(x, r) => TakesOut(x, r)'
  BY <1>3 DEF TakesOut
<1> QED
  BY <1>1, <1>2, <1>4 DEF GoodsReady

(* Another receipt is committed, ...                                       *)
LEMMA ReadyStays ==
  ASSUME StockTyped, PurchasesTyped, ReceiptsInOrder,
         NEW x, NEW r \in Receipts, GoodsReady(x, r),
         NEW y, NEW u \in Receipts, GoodsReady(y, u), x.locks \cap y.locks = {},
         balance' = After(y.moves), movements' = movements \cup y.moves,
         received' = Written(received, y.items), receipt' = Written(receipt, y.receipt)
  PROVE  GoodsReady(x, r)'
<1>1. ItemRows(r) \cap ItemRows(u) = {} /\ Apart(x.moves, y.moves)
  BY DEF GoodsReady, Apart
<1>2. ItemsIn(r) \cap ItemsIn(u) = {}
  <2>1. ASSUME NEW i \in ItemsIn(r), i \in ItemsIn(u)
        PROVE  FALSE
    <3>1. <<"item", i>> \in ItemRows(r) /\ <<"item", i>> \in ItemRows(u)
      BY <2>1 DEF ItemRows
    <3> QED
      BY <1>1, <3>1
  <2> QED
    BY <2>1
<1>3. r # u
  BY <1>1, LinesTyped
<1>4. \A i \in ItemsIn(r) : i \in Items /\ received'[i] = received[i]
  <2>1. ItemsIn(r) \subseteq Items
    BY LineTyped DEF ItemsIn
  <2>2. DOMAIN y.items = ItemsIn(u)
    BY DEF GoodsReady, TakesIn, TakesOut
  <2> QED
    BY <1>2, <2>1, <2>2 DEF Written, PurchasesTyped
<1>5. receipt'[r] = receipt[r]
  BY <1>3 DEF GoodsReady, TakesIn, TakesOut, Written, OneRow, ReceiptsInOrder
<1>6. \A m \in y.moves : ~BroughtBy(m, r)
  BY <1>3, BroughtByOne DEF GoodsReady, TakesIn, TakesOut
<1>7. AreMoves(y.moves)
  BY DEF GoodsReady
<1> QED
  BY <1>1, <1>4, <1>5, <1>6, <1>7, ReadyKept

(* ... or a stock request.                                                 *)
LEMMA ReadyStaysStock ==
  ASSUME StockTyped, NEW x, NEW r \in Receipts, GoodsReady(x, r),
         NEW y, StockReady(y), x.locks \cap BalanceRows(y.moves) = {},
         balance' = After(y.moves), movements' = movements \cup y.moves,
         received' = received, receipt' = receipt
  PROVE  GoodsReady(x, r)'
<1>1. Apart(x.moves, y.moves)
  BY DEF GoodsReady, Apart
<1>2. ASSUME NEW m \in y.moves
      PROVE  Kind(m) # "receipt"
  BY MovementIs DEF StockReady, Plain, Holding, Releasing, ReserveKey, ReleaseKey, Movement, Kind
<1>3. \A m \in y.moves : ~BroughtBy(m, r)
  BY <1>2, BroughtByOne
<1>4. AreMoves(y.moves)
  BY DEF StockReady
<1> QED
  BY <1>1, <1>3, <1>4, ReadyKept

(* A reservation does not begin again.                                     *)
LEMMA StockReadyStays ==
  ASSUME NEW x, StockReady(x),
         \A h \in DOMAIN Reservation : reservation[h] # "none" => reservation'[h] # "none"
  PROVE  StockReady(x)'
BY DEF StockReady, Holding, Releasing

-----------------------------------------------------------------------------
(* The moves of a receipt *)

LEMMA ImageIsFinite ==
  ASSUME NEW S, IsFiniteSet(S), NEW T, NEW f \in [S -> T], T = {f[x] : x \in S}
  PROVE  IsFiniteSet(T)
<1>1. f \in Surjection(S, T)
  BY DEF Surjection
<1> QED
  BY <1>1, FS_Surjection

LEMMA ReceiptMovesTyped ==
  ASSUME NEW r \in Receipts
  PROVE  AreMoves(ReceiptMoves(r)) /\ \A m \in ReceiptMoves(r) : BroughtBy(m, r)
<1> DEFINE N == {k \in DOMAIN Lines(r) : /\ Lines(r)[k].place # NoPlace
                                         /\ \A j \in LinesOf(r, Lines(r)[k].item) : k <= j}
           f == [n \in N |-> Movement(ReceiptKey(r, Lines(r)[n].item), Lines(r)[n].place,
                                      Lines(r)[n].quantity, 0)]
<1>1. ReceiptMoves(r) = {f[n] : n \in N}
  BY DEF ReceiptMoves
<1>2. IsFiniteSet(N)
  <2>1. IsFiniteSet(DOMAIN Lines(r))
    BY LinesTyped, FS_Interval
  <2> QED
    BY <2>1, FS_Subset
<1>3. IsFiniteSet(ReceiptMoves(r))
  <2>1. f \in [N -> {f[n] : n \in N}]
    OBVIOUS
  <2> HIDE DEF f, N
  <2> QED
    BY <1>1, <1>2, <2>1, ImageIsFinite
<1>4. ASSUME NEW n \in N
      PROVE  IsMove(f[n]) /\ BroughtBy(f[n], r)
  <2>1. PICK m : m = f[n]
    OBVIOUS
  <2>2. /\ m.key = ReceiptKey(r, Lines(r)[n].item) /\ m.place = Lines(r)[n].place
        /\ m.quantity = Lines(r)[n].quantity /\ m.reserved = 0
    BY <2>1 DEF Movement
  <2>3. n \in DOMAIN Lines(r) /\ FirstLine(r, n) /\ Lines(r)[n].place # NoPlace
    BY DEF FirstLine
  <2>4. Placed(m.key, m.place)
    BY <2>2, <2>3 DEF Placed
  <2>5. BroughtBy(m, r)
    BY <2>2, <2>3 DEF BroughtBy, ItemsIn
  <2>6. m.place \in Places /\ m.quantity \in Int /\ m.reserved \in Int
    BY <2>2, <2>3, LineTyped
  <2> HIDE DEF f, N
  <2> QED
    BY <2>1, <2>2, <2>4, <2>5, <2>6 DEF IsMove, BelongsTo
<1> HIDE DEF f, N
<1> QED
  BY <1>1, <1>3, <1>4 DEF AreMoves

LEMMA OppositeIsMove ==
  ASSUME NEW m, IsMove(m), Kind(m) \in {"receipt", "adjust"}
  PROVE  /\ IsMove(Opposite(m)) /\ Kind(Opposite(m)) = "reverse"
         /\ Opposite(m).key = ReversalKey(m.key)
<1>1. PICK n : n = Opposite(m)
  OBVIOUS
<1>2. /\ n.key = ReversalKey(m.key) /\ n.place = m.place
      /\ n.quantity = -m.quantity /\ n.reserved = -m.reserved
  BY <1>1 DEF Opposite, Movement
<1>3. Placed(m.key, m.place)
  <2>1. m.key[1] # "reverse"
    BY DEF Kind
  <2> QED
    BY <2>1 DEF IsMove, BelongsTo, ReversalKey
<1>4. n.key[2] = m.key /\ Kind(n) = "reverse"
  BY <1>2 DEF ReversalKey, Kind
<1>5. BelongsTo(n.key, n.place)
  BY <1>2, <1>3, <1>4 DEF BelongsTo
<1>6. m.reserved = 0 /\ n.reserved = 0
  <2>1. m.reserved = 0
    BY DEF IsMove
  <2>2. m.reserved \in Int
    BY <2>1
  <2>3. \A k \in Int : -k = 0 - k
    OBVIOUS
  <2>4. -m.reserved = 0
    <3>1. -m.reserved = 0 - m.reserved
      BY <2>2, <2>3, Zenon
    <3> QED
      BY <2>1, <3>1
  <2> QED
    BY <1>2, <2>1, <2>4
<1>7. IsMove(n)
  <2>1. n.quantity \in Int /\ n.place \in Places
    BY <1>2 DEF IsMove
  <2>2. n.reserved \in Int
    BY <1>6
  <2> QED
    BY <1>5, <1>6, <2>1, <2>2 DEF IsMove
<1> QED
  BY <1>1, <1>2, <1>4, <1>7

LEMMA ReversalsTyped ==
  ASSUME StockTyped, NEW r \in Receipts
  PROVE  /\ AreMoves(ReceiptReversals(r))
         /\ \A m \in ReceiptReversals(r) : Kind(m) = "reverse"
         /\ Answered(ReceiptReversals(r), r)
<1> DEFINE N == {n \in movements : /\ \E i \in ItemsIn(r) : n.key = ReceiptKey(r, i)
                                   /\ ~Known(ReversalKey(n.key))}
           f == [m \in N |-> Opposite(m)]
<1>1. ReceiptReversals(r) = {f[n] : n \in N}
  BY DEF ReceiptReversals
<1>2. IsFiniteSet(N)
  BY FS_Subset DEF StockTyped, AreMoves
<1>3. IsFiniteSet(ReceiptReversals(r))
  <2>1. f \in [N -> {f[n] : n \in N}]
    OBVIOUS
  <2> HIDE DEF f, N
  <2> QED
    BY <1>1, <1>2, <2>1, ImageIsFinite
<1>4. ASSUME NEW n \in N
      PROVE  IsMove(f[n]) /\ Kind(f[n]) = "reverse" /\ f[n].key = ReversalKey(n.key)
  <2>1. Kind(n) = "receipt"
    BY DEF ReceiptKey, Kind
  <2>2. IsMove(n)
    BY DEF StockTyped, AreMoves
  <2>3. f[n] = Opposite(n)
    OBVIOUS
  <2> QED
    BY <2>1, <2>2, <2>3, OppositeIsMove
<1>5. ASSUME NEW m \in movements, BroughtBy(m, r), ~Known(ReversalKey(m.key))
      PROVE  \E n \in ReceiptReversals(r) : n.key = ReversalKey(m.key)
  <2>1. m \in N
    BY <1>5 DEF BroughtBy
  <2> HIDE DEF f, N
  <2> QED
    BY <1>1, <1>4, <2>1
<1> HIDE DEF f, N
<1> QED
  BY <1>1, <1>3, <1>4, <1>5 DEF AreMoves, Answered

-----------------------------------------------------------------------------
(* The steps *)

GoodsRows == <<balance, movements, reservation, order, received, receipt>>

(* No title of a receipt becomes active.                                   *)
TitlesRest == \A r \in Receipts : r \in Titles /\ ~IsActive(r) => ~IsActive(r)'

LEMMA FitsStill ==
  ASSUME NEW x, GoodsFit(x), UNCHANGED <<balance, movements, reservation, received, receipt>>
  PROVE  GoodsFit(x)'
<1>1. StockReady(x) => StockReady(x)'
  BY StockReadyStays
<1>2. MovesAccepted(x.moves) => MovesAccepted(x.moves)'
  BY DEF MovesAccepted, NoCauseRepeats, Known, BalancesAllow, After
<1>3. ASSUME NEW r \in Receipts, GoodsReady(x, r)
      PROVE  GoodsReady(x, r)'
  <2>1. TakesIn(x, r) => TakesIn(x, r)'
    BY DEF TakesIn
  <2>2. TakesOut(x, r) => TakesOut(x, r)'
    BY DEF TakesOut, Answered, Known
  <2> QED
    BY <1>2, <1>3, <2>1, <2>2 DEF GoodsReady
<1> QED
  BY <1>1, <1>3 DEF GoodsFit

LEMMA StockStill ==
  ASSUME Stock, UNCHANGED <<balance, movements, reservation>>, authority' \in {"mercos", "erp"}
  PROVE  Stock'
<1>1. StockTyped'
  BY DEF Stock, StockTyped
<1>2. ReservationsKnown' /\ ReservationsCovered' /\ EveryCauseCountsOnce'
  BY DEF Stock, ReservationsKnown, ReservationsCovered, EveryCauseCountsOnce, Known, ActiveAt
<1> QED
  BY <1>1, <1>2 DEF Stock

LEMMA PurchasesStill ==
  ASSUME Purchases, UNCHANGED <<movements, received, receipt>>,
         order' \in [Orders -> OrderStatuses], TitlesRest
  PROVE  Purchases'
<1>1. PurchasesTyped' /\ ReceivedMatchesReceipts'
  BY DEF Purchases, PurchasesTyped, ReceivedMatchesReceipts, Standing
<1>2. NothingLeft'
  BY DEF Purchases, NothingLeft, Known, TitlesRest
<1> QED
  BY <1>1, <1>2 DEF Purchases

(* A request reads, or takes hold of what it will write.                   *)
LEMMA GoodsBegin ==
  ASSUME MoneyInv, GoodsInv, focus = "purchasing", focus' = focus, NEW s \in Sessions, NEW x,
         tx' = [tx EXCEPT ![s] = x], GoodsFit(x), TitlesRest,
         UNCHANGED <<balance, movements, reservation, received, receipt>>,
         authority' = authority, order' \in [Orders -> OrderStatuses]
  PROVE  GoodsInv'
<1>1. Stock' /\ Purchases'
  BY StockStill, PurchasesStill DEF GoodsInv, Stock, StockTyped
<1>2. ASSUME NEW u \in Sessions
      PROVE  GoodsFit(tx[u])'
  <2>1. PICK y : y = tx'[u]
    OBVIOUS
  <2>2. GoodsFit(y)
    <3>1. y = x \/ y = tx[u]
      BY <2>1 DEF MoneyInv, TransactionsFit
    <3> QED
      BY <3>1 DEF GoodsInv
  <2>3. GoodsFit(y)'
    BY <2>2, FitsStill
  <2> QED
    BY <2>1, <2>3
<1> QED
  BY <1>1, <1>2 DEF GoodsInv

LEMMA GoodsIdle ==
  ASSUME MoneyInv, GoodsInv, focus = "purchasing", focus' = focus, NEW s \in Sessions, NEW x,
         tx' = [tx EXCEPT ![s] = x], x.do \notin {"stock", "commit", "order"}, TitlesRest,
         UNCHANGED <<balance, movements, reservation, received, receipt, authority, order>>
  PROVE  GoodsInv'
<1>1. GoodsFit(x)
  BY DEF GoodsFit
<1>2. order' \in [Orders -> OrderStatuses]
  BY DEF GoodsInv, Purchases, PurchasesTyped
<1> QED
  BY <1>1, <1>2, GoodsBegin

LEMMA TitlesSame == ASSUME title' = title PROVE TitlesRest
BY DEF TitlesRest, IsActive

LEMMA OrderRows ==
  ASSUME PurchasesTyped, NEW rows, OrderRowTyped(rows)
  PROVE  Written(order, rows) \in [Orders -> OrderStatuses]
<1>1. CASE rows = NoRows
  BY <1>1, WrittenNone DEF PurchasesTyped
<1>2. ASSUME NEW o \in Orders, NEW status \in OrderStatuses, rows = OneRow(o, status)
      PROVE  Written(order, rows) \in [Orders -> OrderStatuses]
  BY <1>2, WrittenOne DEF PurchasesTyped
<1> QED
  BY <1>1, <1>2 DEF OrderRowTyped

LEMMA StatusChangeTyped ==
  ASSUME NEW o \in Orders, NEW seen, NEW status \in OrderStatuses
  PROVE  OrderRowTyped(StatusChange(o, seen, status))
BY DEF OrderRowTyped, StatusChange

(* approve, cancel and the reads of receive and reverse_receipt            *)
LEMMA ReadsKeepGoods ==
  ASSUME MoneyInv, GoodsInv, focus = "purchasing", focus' = focus, NEW s \in Sessions,
         \/ \E o \in Orders : ApproveRead(s, o) \/ CancelRead(s, o)
         \/ \E r \in Receipts : ReceiveRead(s, r) \/ ReverseReceiptRead(s, r)
         \/ OrderWrite(s) \/ Rollback(s)
  PROVE  GoodsInv'
<1>1. ASSUME NEW o \in Orders, ApproveRead(s, o) \/ CancelRead(s, o)
      PROVE  GoodsInv'
  <2>1. PICK status \in OrderStatuses : Starts(s, OrderRequest(o, status))
    BY <1>1 DEF ApproveRead, CancelRead, OrderStatuses
  <2>2. PICK x : x = OrderRequest(o, status)
    OBVIOUS
  <2>3. x.do = "order" /\ x.order = OneRow(o, status)
    BY <2>2 DEF OrderRequest
  <2>4. GoodsFit(x)
    BY <2>3 DEF GoodsFit, OrderRowTyped
  <2>5. UNCHANGED <<stockTables, moneyTables, orderTables>>
    BY <1>1 DEF ApproveRead, CancelRead
  <2>6. order' \in [Orders -> OrderStatuses]
    BY <2>5 DEF orderTables, GoodsInv, Purchases, PurchasesTyped
  <2>7. tx' = [tx EXCEPT ![s] = x]
    BY <2>1, <2>2 DEF Starts
  <2> QED
    BY <2>4, <2>5, <2>6, <2>7, GoodsBegin, TitlesSame DEF stockTables, moneyTables, orderTables
<1>2. ASSUME NEW r \in Receipts, ReceiveRead(s, r) \/ ReverseReceiptRead(s, r)
      PROVE  GoodsInv'
  <2>1. PICK x, y :
          /\ x = [do |-> "receive", locks |-> {}, receipt |-> r,
                  seen |-> order[Receipt[r].order]]
          /\ y = [do |-> "reverse_receipt", locks |-> {}, receipt |-> r,
                  seen |-> order[Receipt[r].order]]
    OBVIOUS
  <2>2. x.do = "receive" /\ y.do = "reverse_receipt"
    BY <2>1
  <2>3. Starts(s, x) \/ Starts(s, y)
    BY <1>2, <2>1 DEF ReceiveRead, ReverseReceiptRead
  <2>4. UNCHANGED <<stockTables, moneyTables, orderTables>>
    BY <1>2 DEF ReceiveRead, ReverseReceiptRead
  <2> QED
    BY <2>2, <2>3, <2>4, GoodsIdle, TitlesSame
       DEF Starts, stockTables, moneyTables, orderTables
<1>3. PICK none : none = NoTransaction
  OBVIOUS
<1>4. none.do = "none" /\ GoodsFit(none)
  BY <1>3 DEF NoTransaction, GoodsFit
<1>5. CASE OrderWrite(s)
  <2>1. OrderRowTyped(tx[s].order)
    BY <1>5 DEF OrderWrite, GoodsInv, GoodsFit
  <2>2. order' \in [Orders -> OrderStatuses]
    BY <1>5, <2>1, OrderRows DEF OrderWrite, GoodsInv, Purchases
  <2>3. /\ tx' = [tx EXCEPT ![s] = none]
        /\ UNCHANGED <<stockTables, moneyTables, received, receipt>>
    BY <1>3, <1>5 DEF OrderWrite, Commits
  <2> QED
    BY <1>4, <2>2, <2>3, GoodsBegin, TitlesSame DEF stockTables, moneyTables
<1>6. CASE Rollback(s)
  <2>1. /\ tx' = [tx EXCEPT ![s] = none]
        /\ UNCHANGED <<stockTables, moneyTables, orderTables>>
    BY <1>3, <1>6 DEF Rollback, RollsBack
  <2> QED
    BY <1>4, <2>1, GoodsIdle, TitlesSame DEF stockTables, moneyTables, orderTables
<1> QED
  BY <1>1, <1>2, <1>5, <1>6

(* The work of receive and reverse_receipt up to the commit.               *)
LEMMA WorkKeepsGoods ==
  ASSUME MoneyInv, GoodsInv, focus = "purchasing", focus' = focus, NEW s \in Sessions,
         ReceiveWork(s) \/ ReverseReceiptWork(s)
  PROVE  GoodsInv'
<1>1. ASSUME NEW x, NEW r \in Receipts, x.do = "commit", GoodsReady(x, r),
             tx' = [tx EXCEPT ![s] = x],
             UNCHANGED <<commits, stockTables, moneyTables, orderTables>>
      PROVE  GoodsInv'
  <2>1. GoodsFit(x)
    BY <1>1 DEF GoodsFit
  <2>2. order' \in [Orders -> OrderStatuses]
    BY <1>1 DEF orderTables, GoodsInv, Purchases, PurchasesTyped
  <2> QED
    BY <1>1, <2>1, <2>2, GoodsBegin, TitlesSame DEF stockTables, moneyTables, orderTables
<1>2. CASE ReceiveWork(s)
  <2>1. PICK r : r = tx[s].receipt
    OBVIOUS
  <2>2. r \in Receipts
    BY <1>2, <2>1 DEF ReceiveWork, MoneyInv, TransactionsFit, TxFits
  <2>3. PICK moves : moves = IF authority = "erp" THEN ReceiptMoves(r) ELSE {}
    OBVIOUS
  <2>4. PICK items : items = [i \in ItemsIn(r) |-> received[i] + QuantityOf(r, i)]
    OBVIOUS
  <2>5. PICK status : status = ReceivedStatus(Receipt[r].order, Written(received, items))
    OBVIOUS
  <2>6. PICK locks : locks = ItemRows(r) \cup BalanceRows(moves)
    OBVIOUS
  <2>7. PICK rows : rows = StatusChange(Receipt[r].order, tx[s].seen, status)
    OBVIOUS
  <2>8. PICK x :
          x = [do |-> "commit", locks |-> locks, moves |-> moves, items |-> items,
               order |-> rows, receipt |-> OneRow(r, "received"),
               title |-> IF Receipt[r].payable THEN OneRow(r, "open") ELSE NoRows]
    OBVIOUS
  <2>9. /\ receipt[r] = "none" /\ WithinOrdered(r) /\ MovesAccepted(moves)
        /\ tx' = [tx EXCEPT ![s] = x]
        /\ UNCHANGED <<commits, stockTables, moneyTables, orderTables>>
    BY <1>2, <2>1, <2>3, <2>4, <2>5, <2>6, <2>7, <2>8, Zenon DEF ReceiveWork
  <2>10. AreMoves(moves) /\ \A m \in moves : BroughtBy(m, r)
    BY <2>2, <2>3, ReceiptMovesTyped, FS_EmptySet DEF AreMoves
  <2>11. OrderRowTyped(rows)
    <3>1. Receipt[r].order \in Orders
      BY <2>2, ReceiptsTyped
    <3>2. status \in OrderStatuses
      BY <2>5 DEF ReceivedStatus, OrderStatuses
    <3> QED
      BY <2>7, <3>1, <3>2, StatusChangeTyped
  <2>12. /\ x.do = "commit" /\ x.locks = locks /\ x.moves = moves /\ x.items = items
         /\ x.order = rows /\ x.receipt = OneRow(r, "received")
    BY <2>8
  <2>13. TakesIn(x, r)
    BY <2>4, <2>9, <2>10, <2>12 DEF TakesIn, WithinOrdered
  <2>14. GoodsReady(x, r)
    BY <2>6, <2>9, <2>10, <2>11, <2>12, <2>13 DEF GoodsReady
  <2> QED
    BY <1>1, <2>2, <2>9, <2>12, <2>14
<1>3. CASE ReverseReceiptWork(s)
  <2>1. PICK r : r = tx[s].receipt
    OBVIOUS
  <2>2. r \in Receipts
    BY <1>3, <2>1 DEF ReverseReceiptWork, MoneyInv, TransactionsFit, TxFits
  <2>3. PICK moves : moves = ReceiptReversals(r)
    OBVIOUS
  <2>4. PICK items : items = [i \in ItemsIn(r) |-> received[i] - QuantityOf(r, i)]
    OBVIOUS
  <2>5. PICK status : status = ReversedStatus(Receipt[r].order, Written(received, items))
    OBVIOUS
  <2>6. PICK locks : locks = {ReceiptRow(r)} \cup ItemRows(r) \cup BalanceRows(moves)
                               \cup (IF HasPayable(r) THEN {TitleRow(r)} ELSE {})
    OBVIOUS
  <2>7. PICK rows : rows = StatusChange(Receipt[r].order, tx[s].seen, status)
    OBVIOUS
  <2>8. PICK x :
          x = [do |-> "commit", locks |-> locks, moves |-> moves, items |-> items,
               order |-> rows, receipt |-> OneRow(r, "reversed"), title |-> PayableGone(r)]
    OBVIOUS
  <2>9. /\ ClaimReversal(r) /\ (\A i \in ItemsIn(r) : items[i] >= 0) /\ MovesAccepted(moves)
        /\ tx' = [tx EXCEPT ![s] = x]
        /\ UNCHANGED <<commits, stockTables, moneyTables, orderTables>>
    BY <1>3, <2>1, <2>3, <2>4, <2>5, <2>6, <2>7, <2>8, Zenon DEF ReverseReceiptWork
  <2>10. AreMoves(moves) /\ (\A m \in moves : Kind(m) = "reverse") /\ Answered(moves, r)
    BY <2>2, <2>3, ReversalsTyped DEF GoodsInv, Stock
  <2>11. OrderRowTyped(rows)
    <3>1. Receipt[r].order \in Orders
      BY <2>2, ReceiptsTyped
    <3>2. status \in OrderStatuses
      BY <2>5 DEF ReversedStatus, ReceivedStatus, OrderStatuses
    <3> QED
      BY <2>7, <3>1, <3>2, StatusChangeTyped
  <2>12. /\ x.do = "commit" /\ x.locks = locks /\ x.moves = moves /\ x.items = items
         /\ x.order = rows /\ x.receipt = OneRow(r, "reversed")
    BY <2>8
  <2>13. TakesOut(x, r)
    BY <2>4, <2>9, <2>10, <2>12 DEF TakesOut, ClaimReversal
  <2>14. GoodsReady(x, r)
    BY <2>6, <2>9, <2>10, <2>11, <2>12, <2>13 DEF GoodsReady
  <2> QED
    BY <1>1, <2>2, <2>9, <2>12, <2>14
<1> QED
  BY <1>2, <1>3

(* The commit of a receipt or of its reversal.                             *)
LEMMA CommitKeepsGoods ==
  ASSUME MoneyInv, GoodsInv, focus = "purchasing", focus' = focus, NEW s \in Sessions,
         CommitReceipt(s)
  PROVE  GoodsInv'
<1>1. PICK x : x = tx[s]
  OBVIOUS
<1>2. /\ x.do = "commit"
      /\ order' = Written(order, x.order) /\ received' = Written(received, x.items)
      /\ receipt' = Written(receipt, x.receipt) /\ title' = Written(title, x.title)
      /\ balance' = After(x.moves) /\ movements' = movements \cup x.moves
      /\ tx' = [tx EXCEPT ![s] = NoTransaction]
      /\ authority' = authority /\ reservation' = reservation
  BY <1>1 DEF CommitReceipt, Commits
<1>3. PICK r \in Receipts : GoodsReady(x, r)
  BY <1>1, <1>2 DEF GoodsInv, GoodsFit
<1>4. ReceiptReady(x)
  BY <1>1, <1>2 DEF MoneyInv, TransactionsFit, TxFits
<1>5. Stock'
  <2>1. \A m \in x.moves : Kind(m) \notin {"reserve", "release"}
    BY <1>3, BroughtByOne DEF GoodsReady, TakesIn, TakesOut
  <2> QED
    BY <1>2, <1>3, <2>1, GoodsMove DEF GoodsInv, GoodsReady
<1>6. Purchases'
  <2>1. received' \in [Items -> Nat] /\ ReceivedMatchesReceipts'
    BY <1>2, <1>3, ReceivedKeeps DEF GoodsInv, Purchases, MoneyInv, GoodsReady
  <2>2. order' \in [Orders -> OrderStatuses]
    BY <1>2, <1>3, OrderRows DEF GoodsInv, Purchases, GoodsReady
  <2>3. NothingLeft'
    BY <1>2, <1>3, <1>4, NothingLeftKeeps DEF GoodsInv, Purchases, MoneyInv, GoodsReady
  <2> QED
    BY <2>1, <2>2, <2>3 DEF Purchases, PurchasesTyped
<1>7. ASSUME NEW u \in Sessions
      PROVE  GoodsFit(tx[u])'
  <2>1. CASE u = s
    <3>1. PICK none : none = NoTransaction
      OBVIOUS
    <3>2. none.do = "none" /\ tx'[u] = none
      BY <1>2, <2>1, <3>1 DEF NoTransaction, MoneyInv, TransactionsFit
    <3>3. GoodsFit(none)'
      BY <3>2 DEF GoodsFit
    <3> QED
      BY <3>2, <3>3
  <2>2. CASE u # s
    <3>1. PICK y : y = tx[u]
      OBVIOUS
    <3>2. GoodsFit(y) /\ tx'[u] = y /\ y.locks \cap x.locks = {}
      BY <1>1, <1>2, <2>2, <3>1 DEF GoodsInv, MoneyInv, TransactionsFit
    <3>3. y.do = "stock" => StockReady(y)'
      BY <1>2, <3>2, StockReadyStays DEF GoodsFit
    <3>4. ASSUME NEW v \in Receipts, GoodsReady(y, v)
          PROVE  GoodsReady(y, v)'
      BY <1>2, <1>3, <3>2, <3>4, ReadyStays DEF GoodsInv, Stock, Purchases, MoneyInv
    <3>5. GoodsFit(y)'
      BY <3>2, <3>3, <3>4 DEF GoodsFit
    <3> QED
      BY <3>2, <3>5
  <2> QED
    BY <2>1, <2>2
<1> QED
  BY <1>2, <1>5, <1>6, <1>7 DEF GoodsInv

-----------------------------------------------------------------------------
(* Stock requests *)

LEMMA PlainReady ==
  ASSUME NEW moves, AreMoves(moves), \A m \in moves : Plain(m), NEW expected,
         NEW x, x = StockRequest(moves, expected, NoRows)
  PROVE  StockReady(x)
BY DEF StockReady, StockRequest

LEMMA AdjustIsReady ==
  ASSUME Stock, NEW a \in DOMAIN Adjustment, NEW m,
         m = Movement(<<"adjust", a>>, Adjustment[a].place,
                      Adjustment[a].to - balance[Adjustment[a].place].on_hand, 0)
  PROVE  AreMoves({m}) /\ Plain(m)
<1>1. /\ m.key = <<"adjust", a>> /\ m.place = Adjustment[a].place
      /\ m.quantity = Adjustment[a].to - balance[Adjustment[a].place].on_hand
      /\ m.reserved = 0
  BY DEF Movement
<1>2. Adjustment[a].place \in Places /\ Adjustment[a].to \in Nat
  BY AdjustmentsTyped
<1>3. balance[Adjustment[a].place].on_hand \in Nat
  BY <1>2 DEF Stock, StockTyped
<1>4. m.quantity \in Int /\ m.place \in Places /\ m.reserved \in Int
  BY <1>1, <1>2, <1>3
<1>5. BelongsTo(m.key, m.place) /\ Kind(m) = "adjust"
  <2>1. Placed(m.key, m.place)
    BY <1>1 DEF Placed
  <2>2. Kind(m) = "adjust"
    BY <1>1 DEF Kind
  <2> QED
    BY <2>1, <2>2 DEF BelongsTo
<1>6. IsMove(m)
  BY <1>1, <1>4, <1>5 DEF IsMove
<1> QED
  BY <1>5, <1>6, OneMove DEF Plain

LEMMA TransferIsReady ==
  ASSUME NEW t \in DOMAIN Transfer, NEW out, NEW in,
         out = Movement(<<"transfer_out", t>>, Transfer[t].from, -Transfer[t].quantity, 0),
         in = Movement(<<"transfer_in", t>>, Transfer[t].to, Transfer[t].quantity, 0)
  PROVE  AreMoves({out, in}) /\ Plain(out) /\ Plain(in)
<1>1. /\ Transfer[t].from \in Places /\ Transfer[t].to \in Places
      /\ Transfer[t].quantity \in Nat
  BY TransfersTyped
<1>2. /\ out.key = <<"transfer_out", t>> /\ out.place = Transfer[t].from
      /\ out.quantity = -Transfer[t].quantity /\ out.reserved = 0
      /\ in.key = <<"transfer_in", t>> /\ in.place = Transfer[t].to
      /\ in.quantity = Transfer[t].quantity /\ in.reserved = 0
  BY DEF Movement
<1>3. /\ out.quantity \in Int /\ out.place \in Places /\ out.reserved \in Int
      /\ in.quantity \in Int /\ in.place \in Places /\ in.reserved \in Int
  BY <1>1, <1>2
<1>4. BelongsTo(out.key, out.place) /\ Kind(out) = "transfer_out"
  BY <1>2 DEF BelongsTo, Placed, Kind
<1>5. BelongsTo(in.key, in.place) /\ Kind(in) = "transfer_in"
  BY <1>2 DEF BelongsTo, Placed, Kind
<1>6. IsMove(out) /\ IsMove(in)
  BY <1>2, <1>3, <1>4, <1>5 DEF IsMove
<1>7. AreMoves({out} \cup {in})
  BY <1>6, OneMove, MovesUnite
<1>8. {out} \cup {in} = {out, in}
  OBVIOUS
<1> QED
  BY <1>4, <1>5, <1>7, <1>8 DEF Plain

LEMMA ReservationIsMove ==
  ASSUME NEW h \in DOMAIN Reservation, NEW m,
         \/ m = Movement(ReserveKey(h), Reservation[h].place, 0, Reservation[h].quantity)
         \/ m = Movement(ReleaseKey(h), Reservation[h].place, 0, -Reservation[h].quantity)
  PROVE  AreMoves({m})
<1>1. Reservation[h].place \in Places /\ Reservation[h].quantity \in Nat
  BY ReservationsTyped
<1>2. /\ m.key \in {ReserveKey(h), ReleaseKey(h)} /\ m.place = Reservation[h].place
      /\ m.quantity = 0 /\ m.reserved \in {Reservation[h].quantity, -Reservation[h].quantity}
  BY DEF Movement
<1>3. m.quantity \in Int /\ m.place \in Places /\ m.reserved \in Int
  BY <1>1, <1>2
<1>4. BelongsTo(m.key, m.place) /\ Kind(m) \in {"reserve", "release"}
  BY <1>2 DEF BelongsTo, Placed, Kind, ReserveKey, ReleaseKey
<1>5. IsMove(m)
  BY <1>3, <1>4 DEF IsMove
<1> QED
  BY <1>5, OneMove

LEMMA StockReadsKeepGoods ==
  ASSUME MoneyInv, GoodsInv, focus = "purchasing", focus' = focus, NEW s \in Sessions,
         UNCHANGED <<moneyTables, orderTables>>,
         \/ \E a \in DOMAIN Adjustment : AdjustRead(s, a)
         \/ \E t \in DOMAIN Transfer : TransferRead(s, t)
         \/ \E h \in DOMAIN Reservation : ReserveRead(s, h) \/ ReleaseRead(s, h)
         \/ \E m \in movements : ReverseMovementRead(s, m)
  PROVE  GoodsInv'
<1>1. ASSUME NEW moves, NEW expected, NEW closing,
             Starts(s, StockRequest(moves, expected, closing)), UNCHANGED stockTables,
             StockReady(StockRequest(moves, expected, closing))
      PROVE  GoodsInv'
  <2>1. PICK x : x = StockRequest(moves, expected, closing)
    OBVIOUS
  <2>2. GoodsFit(x)
    BY <1>1, <2>1 DEF GoodsFit, StockRequest
  <2>3. tx' = [tx EXCEPT ![s] = x]
    BY <1>1, <2>1 DEF Starts
  <2>4. order' \in [Orders -> OrderStatuses]
    BY DEF orderTables, GoodsInv, Purchases, PurchasesTyped
  <2> QED
    BY <1>1, <2>2, <2>3, <2>4, GoodsBegin, TitlesSame DEF stockTables, moneyTables, orderTables
<1>2. ASSUME NEW a \in DOMAIN Adjustment, AdjustRead(s, a)
      PROVE  GoodsInv'
  <2>1. PICK m, seen :
          /\ seen = balance[Adjustment[a].place].on_hand
          /\ m = Movement(<<"adjust", a>>, Adjustment[a].place, Adjustment[a].to - seen, 0)
    OBVIOUS
  <2>2. AreMoves({m}) /\ Plain(m)
    BY <2>1, AdjustIsReady DEF GoodsInv
  <2>3. StockReady(StockRequest({m}, seen, NoRows))
    BY <2>2, PlainReady
  <2>4. Starts(s, StockRequest({m}, seen, NoRows)) /\ UNCHANGED stockTables
    BY <1>2, <2>1 DEF AdjustRead
  <2> QED
    BY <1>1, <2>3, <2>4
<1>3. ASSUME NEW t \in DOMAIN Transfer, TransferRead(s, t)
      PROVE  GoodsInv'
  <2>1. PICK out, in :
          /\ out = Movement(<<"transfer_out", t>>, Transfer[t].from, -Transfer[t].quantity, 0)
          /\ in = Movement(<<"transfer_in", t>>, Transfer[t].to, Transfer[t].quantity, 0)
    OBVIOUS
  <2>2. AreMoves({out, in}) /\ Plain(out) /\ Plain(in)
    BY <2>1, TransferIsReady
  <2>3. StockReady(StockRequest({out, in}, AnyBalance, NoRows))
    BY <2>2, PlainReady
  <2>4. Starts(s, StockRequest({out, in}, AnyBalance, NoRows)) /\ UNCHANGED stockTables
    BY <1>3, <2>1 DEF TransferRead
  <2> QED
    BY <1>1, <2>3, <2>4
<1>4. ASSUME NEW h \in DOMAIN Reservation, ReserveRead(s, h)
      PROVE  GoodsInv'
  <2>1. PICK m : m = Movement(ReserveKey(h), Reservation[h].place, 0, Reservation[h].quantity)
    OBVIOUS
  <2>2. PICK x : x = StockRequest({m}, AnyBalance, OneRow(h, "active"))
    OBVIOUS
  <2>3. AreMoves({m})
    BY <2>1, ReservationIsMove
  <2>4. Holding(x, h) /\ x.moves = {m}
    BY <2>1, <2>2 DEF Holding, StockRequest
  <2>5. StockReady(x)
    BY <2>3, <2>4 DEF StockReady
  <2>6. Starts(s, x) /\ UNCHANGED stockTables
    BY <1>4, <2>1, <2>2 DEF ReserveRead, ReserveKey
  <2> QED
    BY <1>1, <2>2, <2>5, <2>6
<1>5. ASSUME NEW h \in DOMAIN Reservation, ReleaseRead(s, h)
      PROVE  GoodsInv'
  <2>1. PICK m : m = Movement(ReleaseKey(h), Reservation[h].place, 0, -Reservation[h].quantity)
    OBVIOUS
  <2>2. PICK x : x = StockRequest({m}, AnyBalance, OneRow(h, "released"))
    OBVIOUS
  <2>3. AreMoves({m})
    BY <2>1, ReservationIsMove
  <2>4. Releasing(x, h) /\ x.moves = {m}
    BY <1>5, <2>1, <2>2 DEF Releasing, StockRequest, ReleaseRead
  <2>5. StockReady(x)
    BY <2>3, <2>4 DEF StockReady
  <2>6. Starts(s, x) /\ UNCHANGED stockTables
    BY <1>5, <2>1, <2>2 DEF ReleaseRead, ReleaseKey
  <2> QED
    BY <1>1, <2>2, <2>5, <2>6
<1>6. ASSUME NEW m \in movements, ReverseMovementRead(s, m)
      PROVE  GoodsInv'
  <2>1. IsMove(m) /\ Kind(m) \in {"receipt", "adjust"}
    BY <1>6 DEF ReverseMovementRead, REVERSIBLE_KINDS, GoodsInv, Stock, StockTyped, AreMoves
  <2>2. PICK n : n = Opposite(m)
    OBVIOUS
  <2>3. AreMoves({n}) /\ Plain(n)
    BY <2>1, <2>2, OppositeIsMove, OneMove DEF Plain
  <2>4. StockReady(StockRequest({n}, AnyBalance, NoRows))
    BY <2>3, PlainReady
  <2>5. Starts(s, StockRequest({n}, AnyBalance, NoRows)) /\ UNCHANGED stockTables
    BY <1>6, <2>2 DEF ReverseMovementRead
  <2> QED
    BY <1>1, <2>4, <2>5
<1> QED
  BY <1>2, <1>3, <1>4, <1>5, <1>6

LEMMA StockWriteKeepsGoods ==
  ASSUME MoneyInv, GoodsInv, focus = "purchasing", focus' = focus, NEW s \in Sessions,
         UNCHANGED <<moneyTables, orderTables>>, StockWrite(s)
  PROVE  GoodsInv'
<1>1. PICK x : x = tx[s]
  OBVIOUS
<1>2. /\ x.do = "stock" /\ Free(s, BalanceRows(x.moves)) /\ MovesAccepted(x.moves)
      /\ balance' = After(x.moves) /\ movements' = movements \cup x.moves
      /\ reservation' = Written(reservation, x.reservation)
      /\ tx' = [tx EXCEPT ![s] = NoTransaction] /\ authority' = authority
  BY <1>1 DEF StockWrite, Commits
<1>3. UNCHANGED <<title, order, received, receipt>>
  BY DEF moneyTables, orderTables
<1>4. StockReady(x)
  BY <1>1, <1>2 DEF GoodsInv, GoodsFit
<1>5. Stock'
  BY <1>2, <1>4, StockKeeps DEF GoodsInv
<1>6. \A m \in x.moves : Kind(m) # "receipt"
  BY <1>4, MovementIs DEF StockReady, Plain, Holding, Releasing, ReserveKey, ReleaseKey,
                          Movement, Kind
<1>7. Purchases'
  <2>1. PurchasesTyped' /\ ReceivedMatchesReceipts'
    BY <1>3 DEF GoodsInv, Purchases, PurchasesTyped, ReceivedMatchesReceipts, Standing
  <2>2. \A key : Known(key) => Known(key)'
    BY <1>2 DEF Known
  <2>3. \A r : \A m \in x.moves : ~BroughtBy(m, r)
    BY <1>6, BroughtByOne
  <2>4. NothingLeft'
    BY <1>2, <1>3, <2>2, <2>3 DEF GoodsInv, Purchases, NothingLeft, IsActive
  <2> QED
    BY <2>1, <2>4 DEF Purchases
<1>8. \A h \in DOMAIN Reservation : reservation[h] # "none" => reservation'[h] # "none"
  BY <1>2, <1>4 DEF StockReady, Holding, Releasing, Written, OneRow, NoRows,
                    GoodsInv, Stock, StockTyped
<1>9. ASSUME NEW u \in Sessions
      PROVE  GoodsFit(tx[u])'
  <2>1. CASE u = s
    <3>1. PICK none : none = NoTransaction
      OBVIOUS
    <3>2. none.do = "none" /\ tx'[u] = none
      BY <1>2, <2>1, <3>1 DEF NoTransaction, MoneyInv, TransactionsFit
    <3>3. GoodsFit(none)'
      BY <3>2 DEF GoodsFit
    <3> QED
      BY <3>2, <3>3
  <2>2. CASE u # s
    <3>1. PICK y : y = tx[u]
      OBVIOUS
    <3>2. GoodsFit(y) /\ tx'[u] = y /\ y.locks \cap BalanceRows(x.moves) = {}
      BY <1>1, <1>2, <2>2, <3>1 DEF GoodsInv, MoneyInv, TransactionsFit, Free
    <3>3. y.do = "stock" => StockReady(y)'
      BY <1>8, <3>2, StockReadyStays DEF GoodsFit
    <3>4. ASSUME NEW v \in Receipts, GoodsReady(y, v)
          PROVE  GoodsReady(y, v)'
      BY <1>2, <1>3, <1>4, <3>2, <3>4, ReadyStaysStock DEF GoodsInv, Stock
    <3>5. GoodsFit(y)'
      BY <3>2, <3>3, <3>4 DEF GoodsFit
    <3> QED
      BY <3>2, <3>5
  <2> QED
    BY <2>1, <2>2
<1> QED
  BY <1>3, <1>5, <1>7, <1>9 DEF GoodsInv

-----------------------------------------------------------------------------
(* Money, and the rest *)

(* No payment, cancellation or sale brings the payable of a receipt back.  *)
LEMMA MoneyRests ==
  ASSUME MoneyInv, NEW x, MoneyReady(x), title' = Written(title, x.title)
  PROVE  TitlesRest
<1>1. ASSUME NEW p \in Payments, NEW n \in Nat, NEW status \in {"paid", "reversed"},
             PaymentReady(x, p, n, status)
      PROVE  TitlesRest
  <2>1. IsActive(TitleOf(p))
    BY <1>1 DEF PaymentReady, PaymentFits
  <2>2. PICK new : x.title = OneRow(TitleOf(p), new)
    BY <1>1 DEF PaymentReady, SameRows
  <2>3. title' = [title EXCEPT ![TitleOf(p)] = new]
    BY <2>2, WrittenOne
  <2> QED
    BY <2>1, <2>3 DEF TitlesRest, IsActive, MoneyInv, Books
<1>2. ASSUME NEW t \in Titles, CancelReady(x, t)
      PROVE  TitlesRest
  <2>1. title' = [title EXCEPT ![t] = "cancelled"]
    BY <1>2, WrittenOne DEF CancelReady, SameRows
  <2> QED
    BY <2>1 DEF TitlesRest, IsActive, MoneyInv, Books
<1>3. ASSUME NEW o \in Sales, SaleReady(x, o)
      PROVE  TitlesRest
  <2>1. NextTitle(o) \notin Receipts
    BY <1>3, NextIsUnknown, TitlesOfTyped DEF MoneyInv, SaleReady
  <2>2. title' = [title EXCEPT ![NextTitle(o)] = "open"]
    BY <1>3, WrittenOne DEF SaleReady, SameRows
  <2> QED
    BY <2>1, <2>2 DEF TitlesRest, IsActive, MoneyInv, Books
<1>4. CASE SameRows(x, NoRows, NoRows, NoRows)
  <2>1. title' = title
    BY <1>4, WrittenNone DEF SameRows, MoneyInv, Books
  <2> QED
    BY <2>1, TitlesSame
<1> QED
  BY <1>1, <1>2, <1>3, <1>4 DEF MoneyReady

LEMMA MoneyKeepsGoods ==
  ASSUME MoneyInv, GoodsInv, focus = "purchasing", focus' = focus, NEW s \in Sessions,
         UNCHANGED <<stockTables, orderTables>>, MoneyStep(s)
  PROVE  GoodsInv'
<1>1. UNCHANGED <<balance, movements, reservation, received, receipt, authority, order>>
  BY DEF stockTables, orderTables
<1>2. ASSUME NEW p \in Payments, Settle(s, p) \/ ReversePayment(s, p)
      PROVE  GoodsInv'
  <2>1. PICK i, n, status : Starts(s, Settling(i, n, p, status)) /\ UNCHANGED moneyTables
    BY <1>2 DEF Settle, ReversePayment
  <2>2. PICK x : x = Settling(i, n, p, status)
    OBVIOUS
  <2>3. x.do = "money"
    BY <2>2 DEF Settling
  <2>4. tx' = [tx EXCEPT ![s] = x] /\ title' = title
    BY <2>1, <2>2 DEF Starts, moneyTables
  <2> QED
    BY <1>1, <2>3, <2>4, TitlesSame, GoodsIdle
<1>3. ASSUME NEW t \in Titles, CancelTitle(s, t)
      PROVE  GoodsInv'
  <2>1. PICK x : x = [do |-> "money", locks |-> {TitleRow(t)},
                      title |-> OneRow(t, "cancelled"),
                      installment |-> NoRows, payment |-> NoRows]
    OBVIOUS
  <2>2. x.do = "money"
    BY <2>1
  <2>3. tx' = [tx EXCEPT ![s] = x] /\ title' = title
    BY <1>3, <2>1 DEF CancelTitle, Starts, moneyTables
  <2> QED
    BY <1>1, <2>2, <2>3, TitlesSame, GoodsIdle
<1>4. CASE CommitMoney(s)
  <2>1. MoneyReady(tx[s])
    BY <1>4 DEF MoneyInv, TransactionsFit, TxFits, CommitMoney
  <2>2. TitlesRest
    BY <1>4, <2>1, MoneyRests DEF CommitMoney
  <2>3. PICK x : x = NoTransaction
    OBVIOUS
  <2>4. x.do = "none" /\ tx' = [tx EXCEPT ![s] = x]
    BY <1>4, <2>3 DEF NoTransaction, CommitMoney, Commits
  <2> QED
    BY <1>1, <2>2, <2>4, GoodsIdle
<1> QED
  BY <1>2, <1>3, <1>4 DEF MoneyStep

(* Nothing of goods moves, whoever owns the balances.                      *)
LEMMA GoodsPass ==
  ASSUME MoneyInv, GoodsInv, authority' \in {"mercos", "erp"},
         UNCHANGED <<focus, tx, title, balance, movements, reservation, order, received, receipt>>
  PROVE  GoodsInv'
<1>1. Stock'
  BY StockStill DEF GoodsInv
<1>2. order' \in [Orders -> OrderStatuses]
  BY DEF GoodsInv, Purchases, PurchasesTyped
<1>3. Purchases'
  BY <1>2, TitlesSame, PurchasesStill DEF GoodsInv
<1>4. ASSUME focus = "purchasing", NEW u \in Sessions
      PROVE  GoodsFit(tx[u])'
  <2>1. PICK y : y = tx[u]
    OBVIOUS
  <2>2. GoodsFit(y) /\ tx'[u] = y
    BY <1>4, <2>1 DEF GoodsInv
  <2>3. GoodsFit(y)'
    BY <2>2, FitsStill
  <2> QED
    BY <2>2, <2>3
<1> QED
  BY <1>1, <1>3, <1>4 DEF GoodsInv

LEMMA PurchasingKeepsGoods ==
  ASSUME MoneyInv, GoodsInv, focus = "purchasing", focus' = focus, PurchasingNext
  PROVE  GoodsInv'
<1>1. ASSUME NEW s \in Sessions, OrderStep(s)
      PROVE  GoodsInv'
  BY <1>1, ReadsKeepGoods, WorkKeepsGoods, CommitKeepsGoods DEF OrderStep
<1>2. ASSUME NEW s \in Sessions, StockStep(s), UNCHANGED <<moneyTables, orderTables>>
      PROVE  GoodsInv'
  BY <1>2, StockReadsKeepGoods, StockWriteKeepsGoods DEF StockStep
<1>3. ASSUME NEW s \in Sessions, MoneyStep(s), UNCHANGED <<stockTables, orderTables>>
      PROVE  GoodsInv'
  BY <1>3, MoneyKeepsGoods
<1>4. CASE SetAuthority /\ UNCHANGED <<moneyTables, orderTables>>
  <2>1. /\ authority' \in {"mercos", "erp"}
        /\ UNCHANGED <<tx, title, balance, movements, reservation, order, received, receipt>>
    BY <1>4 DEF SetAuthority, moneyTables, orderTables
  <2> QED
    BY <2>1, GoodsPass
<1> QED
  BY <1>1, <1>2, <1>3, <1>4 DEF PurchasingNext

(* Without purchasing, no receipt was ever taken in.                       *)
LEMMA GoodsAside ==
  ASSUME GoodsInv, focus # "purchasing",
         UNCHANGED <<focus, authority, balance, movements, reservation, order, received, receipt>>
  PROVE  GoodsInv'
<1>1. Stock'
  BY StockStill DEF GoodsInv, Stock, StockTyped
<1>2. \A r \in Receipts : receipt[r] = "none"
  BY DEF GoodsInv
<1>3. PurchasesTyped' /\ ReceivedMatchesReceipts'
  BY DEF GoodsInv, Purchases, PurchasesTyped, ReceivedMatchesReceipts, Standing
<1>4. NothingLeft'
  BY <1>2 DEF NothingLeft
<1> QED
  BY <1>1, <1>2, <1>3, <1>4 DEF GoodsInv, Purchases

LEMMA GoodsStep ==
  ASSUME LedgerInv, GoodsInv, [ServicesNext]_services
  PROVE  GoodsInv'
<1>1. CASE focus = "purchasing" /\ PurchasingNext /\ UNCHANGED focus
  BY <1>1, PurchasingKeepsGoods DEF LedgerInv
<1>2. CASE focus # "purchasing" /\ UNCHANGED <<focus, purchaseTables>>
  <2>1. UNCHANGED <<focus, authority, balance, movements, reservation, order, received, receipt>>
    BY <1>2 DEF purchaseTables, stockTables, orderTables
  <2> QED
    BY <1>2, <2>1, GoodsAside
<1>3. CASE UNCHANGED services
  <2>1. /\ authority' \in {"mercos", "erp"}
        /\ UNCHANGED <<focus, tx, title, balance, movements, reservation, order, received, receipt>>
    BY <1>3 DEF services, ledgers, GoodsInv, Stock, StockTyped
  <2> QED
    BY <2>1, GoodsPass DEF LedgerInv
<1> QED
  BY <1>1, <1>2, <1>3 DEF ServicesNext

LEMMA GoodsBegins ==
  ASSUME ServicesInit
  PROVE  GoodsInv
<1>1. /\ authority \in {"mercos", "erp"} /\ movements = {}
      /\ balance = [p \in Places |-> [on_hand |-> 0, reserved |-> 0]]
      /\ reservation = [r \in DOMAIN Reservation |-> "none"]
      /\ order = [o \in Orders |-> "draft"]
      /\ received = [i \in Items |-> 0]
      /\ receipt = [r \in Receipts |-> "none"]
      /\ tx = [s \in Sessions |-> NoTransaction]
  BY DEF ServicesInit, EmptyLedgers, InventoryInit
<1>2. StockTyped
  <2>1. AreMoves(movements)
    BY <1>1, FS_EmptySet DEF AreMoves
  <2> QED
    BY <1>1, <2>1 DEF StockTyped
<1>3. ReservationsKnown
  BY <1>1 DEF ReservationsKnown, Known
<1>4. ReservationsCovered
  <2>1. ASSUME NEW p \in Places
        PROVE  HeldAt(p) = 0
    <3>1. ActiveAt(p) = {}
      BY <1>1 DEF ActiveAt
    <3>2. PICK f : f = [h \in ActiveAt(p) |-> Reservation[h].quantity]
      OBVIOUS
    <3>3. f \in [{} -> Int]
      BY <3>1, <3>2
    <3>4. SumFunction(f) = 0
      BY <3>3, SumOfNone
    <3> QED
      BY <3>2, <3>4 DEF HeldAt, Holds
  <2> QED
    BY <1>1, <2>1 DEF ReservationsCovered, HeldAt, Holds
<1>5. EveryCauseCountsOnce
  <2>1. \A p : MovesAt(movements, p) = {}
    BY <1>1 DEF MovesAt
  <2>2. \A p : /\ TotalQuantity(MovesAt(movements, p)) = 0
               /\ TotalReserved(MovesAt(movements, p)) = 0
    BY <2>1, NothingAt
  <2> QED
    BY <1>1, <2>2 DEF EveryCauseCountsOnce
<1>6. ReceivedMatchesReceipts
  <2>1. Standing = {}
    BY <1>1 DEF Standing
  <2>2. \A i \in Items : Brought(Standing, i) = 0
    <3>1. ASSUME NEW i \in Items
          PROVE  Brought(Standing, i) = 0
      <4>1. PICK f : f = [r \in Standing |-> QuantityOf(r, i)]
        OBVIOUS
      <4>2. f \in [{} -> Int]
        BY <2>1, <4>1
      <4>3. SumFunction(f) = 0
        BY <4>2, SumOfNone
      <4> QED
        BY <4>1, <4>3 DEF Brought
    <3> QED
      BY <3>1
  <2> QED
    BY <1>1, <2>2, ItemsTyped DEF ReceivedMatchesReceipts, Brought
<1>7. NothingLeft
  BY <1>1 DEF NothingLeft
<1>8. \A s \in Sessions : GoodsFit(tx[s])
  BY <1>1 DEF GoodsFit, NoTransaction
<1> QED
  BY <1>1, <1>2, <1>3, <1>4, <1>5, <1>6, <1>7, <1>8
     DEF GoodsInv, Stock, Purchases, PurchasesTyped, OrderStatuses

LEMMA GoodsFromLedgers ==
  ASSUME LedgerInv, GoodsInv
  PROVE  GoodsAddUp
<1>1. LedgersTypeOK
  BY DEF LedgerInv, MoneyInv, GoodsInv, Books, ReceiptsInOrder, Stock, StockTyped, Purchases,
         PurchasesTyped, LedgersTypeOK
<1>2. ReversalIsWhole
  BY DEF GoodsInv, Purchases, NothingLeft, ReversalIsWhole, IsActive, BroughtBy
<1> QED
  BY <1>1, <1>2 DEF GoodsInv, Stock, Purchases, GoodsAddUp

(* What is committed of goods, and what every open request of              *)
(* inventory.py and purchasing.py is about to write, fit together.         *)
THEOREM GoodsHold == ServicesSpec => []GoodsInv
<1>1. ServicesInit => GoodsInv
  BY GoodsBegins
<1>2. LedgerInv /\ GoodsInv /\ [ServicesNext]_services => GoodsInv'
  BY GoodsStep
<1> QED
  BY <1>1, <1>2, LedgersHold, PTL DEF ServicesSpec

-----------------------------------------------------------------------------
(* Adjustments *)

(* A request that adjusts does nothing else, and its difference is to the  *)
(* balance it expects to find.                                             *)
Adjusting(x) ==
  \A a \in DOMAIN Adjustment : \A m \in x.moves :
    m.key = <<"adjust", a>> =>
      /\ x.moves = {m} /\ m.place = Adjustment[a].place
      /\ x.expected \in Nat /\ m.quantity = Adjustment[a].to - x.expected

AdjustmentsWait ==
  focus = "purchasing" =>
    \A s \in Sessions : tx[s].do = "stock" => Adjusting(tx[s])

(* The request that s makes, if any.                                       *)
Makes(s) ==
  \E x : tx' = [tx EXCEPT ![s] = x] /\ (x.do = "stock" => Adjusting(x))

LEMMA SumOfOne ==
  ASSUME NEW x, NEW f \in [{x} -> Int]
  PROVE  SumFunction(f) = f[x]
<1>1. IsFiniteSet({x}) /\ {x} \in SUBSET {x} /\ x \in {x}
  BY FS_Singleton
<1>2. SumFunction(Over(f, {x})) = f[x] + SumFunction(Over(f, {x} \ {x}))
  BY <1>1, SumSplit
<1>3. DOMAIN Over(f, {x} \ {x}) = {}
  BY DEF Over
<1>4. SumFunction(Over(f, {x} \ {x})) = 0
  BY <1>3, SumOfNone
<1>5. Over(f, {x}) = f
  BY DEF Over
<1> QED
  BY <1>2, <1>4, <1>5

LEMMA OtherMovesFit ==
  ASSUME NEW x, \A m \in x.moves : Kind(m) # "adjust"
  PROVE  Adjusting(x)
BY DEF Adjusting, Kind

LEMMA AdjustAsks ==
  ASSUME GoodsInv, NEW s \in Sessions, NEW a \in DOMAIN Adjustment, AdjustRead(s, a)
  PROVE  Makes(s)
<1>1. PICK p, seen, m, x :
        /\ p = Adjustment[a].place /\ seen = balance[p].on_hand
        /\ m = Movement(<<"adjust", a>>, p, Adjustment[a].to - seen, 0)
        /\ x = StockRequest({m}, seen, NoRows)
  OBVIOUS
<1>2. seen \in Nat
  BY <1>1, AdjustmentsTyped DEF GoodsInv, Stock, StockTyped
<1>3. /\ m.key = <<"adjust", a>> /\ m.place = p /\ m.quantity = Adjustment[a].to - seen
      /\ x.moves = {m} /\ x.expected = seen
  BY <1>1 DEF Movement, StockRequest
<1>4. Adjusting(x)
  <2>1. ASSUME NEW c \in DOMAIN Adjustment, NEW n \in x.moves, n.key = <<"adjust", c>>
        PROVE  n = m /\ c = a
    BY <2>1, <1>3
  <2> QED
    BY <1>1, <1>2, <1>3, <2>1 DEF Adjusting
<1>5. tx' = [tx EXCEPT ![s] = x]
  BY <1>1 DEF AdjustRead, Starts
<1> QED
  BY <1>4, <1>5 DEF Makes

LEMMA StockAsks ==
  ASSUME GoodsInv, NEW s \in Sessions, StockStep(s)
  PROVE  Makes(s)
<1>1. ASSUME NEW moves, NEW expected, NEW closing, \A m \in moves : Kind(m) # "adjust",
             Starts(s, StockRequest(moves, expected, closing))
      PROVE  Makes(s)
  <2>1. PICK x : x = StockRequest(moves, expected, closing)
    OBVIOUS
  <2>2. Adjusting(x)
    BY <1>1, <2>1, OtherMovesFit DEF StockRequest
  <2>3. tx' = [tx EXCEPT ![s] = x]
    BY <1>1, <2>1 DEF Starts
  <2> QED
    BY <2>2, <2>3 DEF Makes
<1>2. ASSUME NEW t \in DOMAIN Transfer, TransferRead(s, t)
      PROVE  Makes(s)
  <2>1. PICK out, in :
          /\ out = Movement(<<"transfer_out", t>>, Transfer[t].from, -Transfer[t].quantity, 0)
          /\ in = Movement(<<"transfer_in", t>>, Transfer[t].to, Transfer[t].quantity, 0)
    OBVIOUS
  <2>2. \A m \in {out, in} : Kind(m) # "adjust"
    BY <2>1 DEF Movement, Kind
  <2>3. Starts(s, StockRequest({out, in}, AnyBalance, NoRows))
    BY <1>2, <2>1 DEF TransferRead
  <2> QED
    BY <1>1, <2>2, <2>3
<1>3. ASSUME NEW h \in DOMAIN Reservation, ReserveRead(s, h)
      PROVE  Makes(s)
  <2>1. PICK m : m = Movement(<<"reserve", h>>, Reservation[h].place, 0, Reservation[h].quantity)
    OBVIOUS
  <2>2. \A n \in {m} : Kind(n) # "adjust"
    BY <2>1 DEF Movement, Kind
  <2>3. Starts(s, StockRequest({m}, AnyBalance, OneRow(h, "active")))
    BY <1>3, <2>1 DEF ReserveRead
  <2> QED
    BY <1>1, <2>2, <2>3
<1>4. ASSUME NEW h \in DOMAIN Reservation, ReleaseRead(s, h)
      PROVE  Makes(s)
  <2>1. PICK m : m = Movement(<<"release", h>>, Reservation[h].place, 0, -Reservation[h].quantity)
    OBVIOUS
  <2>2. \A n \in {m} : Kind(n) # "adjust"
    BY <2>1 DEF Movement, Kind
  <2>3. Starts(s, StockRequest({m}, AnyBalance, OneRow(h, "released")))
    BY <1>4, <2>1 DEF ReleaseRead
  <2> QED
    BY <1>1, <2>2, <2>3
<1>5. ASSUME NEW m \in movements, ReverseMovementRead(s, m)
      PROVE  Makes(s)
  <2>1. PICK n : n = Opposite(m)
    OBVIOUS
  <2>2. \A k \in {n} : Kind(k) # "adjust"
    BY <2>1 DEF Opposite, Movement, Kind, ReversalKey
  <2>3. Starts(s, StockRequest({n}, AnyBalance, NoRows))
    BY <1>5, <2>1 DEF ReverseMovementRead
  <2> QED
    BY <1>1, <2>2, <2>3
<1>6. CASE StockWrite(s)
  <2>1. PICK x : x = NoTransaction
    OBVIOUS
  <2>2. x.do # "stock" /\ tx' = [tx EXCEPT ![s] = x]
    BY <1>6, <2>1 DEF StockWrite, Commits, NoTransaction
  <2> QED
    BY <2>2 DEF Makes
<1> QED
  BY <1>2, <1>3, <1>4, <1>5, <1>6, AdjustAsks DEF StockStep

LEMMA OrderAsks ==
  ASSUME NEW s \in Sessions, OrderStep(s)
  PROVE  Makes(s)
<1>1. ASSUME NEW x, x.do # "stock", tx' = [tx EXCEPT ![s] = x]
      PROVE  Makes(s)
  BY <1>1 DEF Makes
<1>2. ASSUME NEW o, NEW status, Starts(s, OrderRequest(o, status))
      PROVE  Makes(s)
  <2>1. PICK x : x = OrderRequest(o, status)
    OBVIOUS
  <2>2. x.do # "stock"
    BY <2>1 DEF OrderRequest
  <2> QED
    BY <1>1, <1>2, <2>1, <2>2 DEF Starts
<1>3. ASSUME NEW do, do # "stock", NEW r, NEW seen,
             Starts(s, [do |-> do, locks |-> {}, receipt |-> r, seen |-> seen])
      PROVE  Makes(s)
  <2>1. PICK x : x = [do |-> do, locks |-> {}, receipt |-> r, seen |-> seen]
    OBVIOUS
  <2>2. x.do # "stock"
    BY <1>3, <2>1
  <2> QED
    BY <1>1, <1>3, <2>1, <2>2 DEF Starts
<1>4. ASSUME NEW locks, NEW moves, NEW items, NEW rows, NEW receipts, NEW titles,
             tx' = [tx EXCEPT ![s] =
               [do |-> "commit", locks |-> locks, moves |-> moves, items |-> items,
                order |-> rows, receipt |-> receipts, title |-> titles]]
      PROVE  Makes(s)
  <2>1. PICK x : x = [do |-> "commit", locks |-> locks, moves |-> moves, items |-> items,
                      order |-> rows, receipt |-> receipts, title |-> titles]
    OBVIOUS
  <2>2. x.do # "stock"
    BY <2>1
  <2> QED
    BY <1>1, <1>4, <2>1, <2>2
<1>5. CASE ReceiveWork(s)
  BY <1>5, <1>4 DEF ReceiveWork
<1>6. CASE ReverseReceiptWork(s)
  BY <1>6, <1>4 DEF ReverseReceiptWork
<1>7. CASE OrderWrite(s) \/ CommitReceipt(s) \/ Rollback(s)
  <2>1. PICK x : x = NoTransaction
    OBVIOUS
  <2>2. x.do # "stock" /\ tx' = [tx EXCEPT ![s] = x]
    BY <1>7, <2>1 DEF OrderWrite, CommitReceipt, Rollback, RollsBack, Commits, NoTransaction
  <2> QED
    BY <1>1, <2>2
<1>8. ASSUME NEW o \in Orders, ApproveRead(s, o) \/ CancelRead(s, o)
      PROVE  Makes(s)
  BY <1>2, <1>8 DEF ApproveRead, CancelRead
<1>9. ASSUME NEW r \in Receipts, ReceiveRead(s, r) \/ ReverseReceiptRead(s, r)
      PROVE  Makes(s)
  BY <1>3, <1>9 DEF ReceiveRead, ReverseReceiptRead
<1> QED
  BY <1>5, <1>6, <1>7, <1>8, <1>9 DEF OrderStep

LEMMA MoneyAsks ==
  ASSUME NEW s \in Sessions, MoneyStep(s)
  PROVE  Makes(s)
<1>1. ASSUME NEW p \in Payments, Settle(s, p) \/ ReversePayment(s, p)
      PROVE  Makes(s)
  <2>1. PICK i, n, status : Starts(s, Settling(i, n, p, status))
    BY <1>1 DEF Settle, ReversePayment
  <2>2. PICK x : x = Settling(i, n, p, status)
    OBVIOUS
  <2>3. x.do # "stock"
    BY <2>2 DEF Settling
  <2> QED
    BY <2>1, <2>2, <2>3 DEF Starts, Makes
<1>2. ASSUME NEW t \in Titles, CancelTitle(s, t)
      PROVE  Makes(s)
  <2>1. PICK x : x = [do |-> "money", locks |-> {TitleRow(t)},
                      title |-> OneRow(t, "cancelled"),
                      installment |-> NoRows, payment |-> NoRows]
    OBVIOUS
  <2>2. x.do # "stock"
    BY <2>1
  <2> QED
    BY <1>2, <2>1, <2>2 DEF CancelTitle, Starts, Makes
<1>3. CASE CommitMoney(s)
  <2>1. PICK x : x = NoTransaction
    OBVIOUS
  <2>2. x.do # "stock" /\ tx' = [tx EXCEPT ![s] = x]
    BY <1>3, <2>1 DEF NoTransaction, CommitMoney, Commits
  <2> QED
    BY <2>2 DEF Makes
<1> QED
  BY <1>1, <1>2, <1>3 DEF MoneyStep

LEMMA AdjustmentsWaitStill ==
  ASSUME LedgerInv, GoodsInv, AdjustmentsWait, [ServicesNext]_services
  PROVE  AdjustmentsWait'
<1>1. focus' = focus
  BY DEF ServicesNext, services
<1>2. CASE focus # "purchasing"
  BY <1>1, <1>2 DEF AdjustmentsWait
<1>3. CASE focus = "purchasing" /\ tx' = tx
  BY <1>1, <1>3 DEF AdjustmentsWait, Adjusting
<1>4. ASSUME focus = "purchasing", NEW s \in Sessions, Makes(s)
      PROVE  AdjustmentsWait'
  <2>1. PICK x : tx' = [tx EXCEPT ![s] = x] /\ (x.do = "stock" => Adjusting(x))
    BY <1>4 DEF Makes
  <2>2. ASSUME NEW u \in Sessions
        PROVE  (tx[u].do = "stock" => Adjusting(tx[u]))'
    <3>1. PICK y : y = tx'[u]
      OBVIOUS
    <3>2. y = x \/ y = tx[u]
      BY <2>1, <3>1, <1>4 DEF LedgerInv, MoneyInv, TransactionsFit
    <3>3. y.do = "stock" => Adjusting(y)
      BY <1>4, <2>1, <3>2 DEF AdjustmentsWait
    <3>4. Adjusting(y) => Adjusting(tx[u])'
      BY <3>1 DEF Adjusting
    <3> QED
      BY <3>1, <3>3, <3>4
  <2> QED
    BY <2>2 DEF AdjustmentsWait
<1>5. CASE focus = "purchasing" /\ PurchasingNext
  BY <1>3, <1>4, <1>5, StockAsks, OrderAsks, MoneyAsks DEF PurchasingNext, SetAuthority
<1> QED
  BY <1>2, <1>3, <1>5 DEF ServicesNext, services, ledgers

(* The balance after an accepted adjustment.                               *)
LEMMA AdjustedTo ==
  ASSUME GoodsInv, NEW x, Adjusting(x), AreMoves(x.moves), ExpectedStillThere(x),
         balance' = After(x.moves), NEW a \in DOMAIN Adjustment, NEW m \in x.moves,
         m.key = <<"adjust", a>>
  PROVE  balance'[Adjustment[a].place].on_hand = Adjustment[a].to
<1>1. PICK p : p = Adjustment[a].place
  OBVIOUS
<1>2. p \in Places /\ Adjustment[a].to \in Nat
  BY <1>1, AdjustmentsTyped
<1>3. /\ x.moves = {m} /\ m.place = p /\ x.expected \in Nat
      /\ m.quantity = Adjustment[a].to - x.expected
  BY <1>1 DEF Adjusting
<1>4. balance[p].on_hand = x.expected
  BY <1>3 DEF ExpectedStillThere, AnyBalance, PlacesOf
<1>5. TotalQuantity(MovesAt(x.moves, p)) = m.quantity
  <2>1. MovesAt(x.moves, p) = {m}
    BY <1>3 DEF MovesAt
  <2>2. PICK g : g = [n \in {m} |-> n.quantity]
    OBVIOUS
  <2>3. g \in [{m} -> Int] /\ g[m] = m.quantity
    BY <1>2, <1>3, <2>2
  <2>4. SumFunction(g) = g[m]
    BY <2>3, SumOfOne
  <2> QED
    BY <2>1, <2>2, <2>3, <2>4 DEF TotalQuantity
<1>6. balance'[p].on_hand = balance[p].on_hand + TotalQuantity(MovesAt(x.moves, p))
  BY <1>2, AfterIs
<1> QED
  BY <1>1, <1>2, <1>3, <1>4, <1>5, <1>6

(* An accepted adjustment leaves exactly the quantity that was asked for,  *)
(* whatever moved since the balance was read (adjust_to).                  *)
Adjusted ==
  \A a \in DOMAIN Adjustment :
    (\E m \in movements' \ movements : m.key = <<"adjust", a>>)
      => balance'[Adjustment[a].place].on_hand = Adjustment[a].to

LEMMA StepAdjusts ==
  ASSUME LedgerInv, GoodsInv, AdjustmentsWait, [ServicesNext]_services
  PROVE  Adjusted
<1>1. CASE UNCHANGED movements
  BY <1>1 DEF Adjusted
<1>2. ASSUME NEW s \in Sessions, StockWrite(s), focus = "purchasing"
      PROVE  Adjusted
  <2>1. PICK x : x = tx[s]
    OBVIOUS
  <2>2. /\ x.do = "stock" /\ ExpectedStillThere(x) /\ balance' = After(x.moves)
        /\ movements' = movements \cup x.moves
    BY <1>2, <2>1 DEF StockWrite
  <2>3. Adjusting(x) /\ AreMoves(x.moves)
    BY <1>2, <2>1, <2>2 DEF AdjustmentsWait, GoodsInv, GoodsFit, StockReady
  <2> QED
    BY <2>2, <2>3, AdjustedTo DEF Adjusted
<1>3. ASSUME NEW s \in Sessions, CommitReceipt(s), focus = "purchasing"
      PROVE  Adjusted
  <2>1. PICK x : x = tx[s]
    OBVIOUS
  <2>2. x.do = "commit" /\ movements' = movements \cup x.moves
    BY <1>3, <2>1 DEF CommitReceipt
  <2>3. PICK r \in Receipts : GoodsReady(x, r)
    BY <1>3, <2>1, <2>2 DEF GoodsInv, GoodsFit
  <2>4. \A m \in x.moves : m.key[1] \in {"receipt", "reverse"}
    BY <2>3 DEF GoodsReady, TakesIn, TakesOut, BroughtBy, ReceiptKey, Kind
  <2> QED
    BY <2>2, <2>4 DEF Adjusted
<1>4. CASE focus = "purchasing" /\ PurchasingNext
  <2>1. ASSUME NEW s \in Sessions, OrderStep(s), ~CommitReceipt(s)
        PROVE  UNCHANGED movements
    BY <2>1 DEF OrderStep, ApproveRead, CancelRead, ReceiveRead, ReverseReceiptRead, OrderWrite,
                ReceiveWork, ReverseReceiptWork, Rollback, stockTables
  <2>2. ASSUME NEW s \in Sessions, StockStep(s), ~StockWrite(s)
        PROVE  UNCHANGED movements
    BY <2>2 DEF StockStep, AdjustRead, TransferRead, ReserveRead, ReleaseRead,
                ReverseMovementRead, stockTables
  <2> QED
    BY <1>1, <1>2, <1>3, <1>4, <2>1, <2>2 DEF PurchasingNext, SetAuthority, stockTables
<1> QED
  BY <1>1, <1>4 DEF ServicesNext, services, ledgers, purchaseTables, stockTables

-----------------------------------------------------------------------------
(* What an invoice draft takes of an item *)

LEMMA Quotient ==
  ASSUME NEW a \in Nat, NEW b \in Nat, b > 0
  PROVE  a \div b \in Nat /\ b * (a \div b) <= a /\ a < b * (a \div b) + b
OBVIOUS

LEMMA Product ==
  ASSUME NEW a \in Nat, NEW b \in Nat
  PROVE  a * b \in Nat /\ (a > 0 /\ b > 0 => a * b > 0)
OBVIOUS

LEMMA LessTimes ==
  ASSUME NEW a \in Nat, NEW b \in Nat, NEW c \in Nat, a <= b
  PROVE  a * c <= b * c
OBVIOUS

LEMMA LessByFactor ==
  ASSUME NEW a \in Nat, NEW b \in Nat, NEW c \in Nat, c > 0, a * c <= b * c
  PROVE  a <= b
OBVIOUS

LEMMA HalfUpTyped ==
  ASSUME NEW a \in Nat, NEW b \in Nat, b > 0
  PROVE  /\ HalfUp(a, b) \in Nat
         /\ \A r \in Nat : a <= r * b => HalfUp(a, b) <= r
<1>1. 2 * a + b \in Nat /\ 2 * b \in Nat /\ 2 * b > 0
  OBVIOUS
<1>2. PICK n : n = (2 * a + b) \div (2 * b)
  OBVIOUS
<1>3. n \in Nat /\ (2 * b) * n <= 2 * a + b
  BY <1>1, <1>2, Quotient
<1>4. ASSUME NEW r \in Nat, a <= r * b
      PROVE  n <= r
  <2>1. r * b \in Nat
    BY Product
  <2>2. (2 * b) * n = 2 * (b * n) /\ b * n \in Nat
    BY <1>3
  <2>3. 2 * (b * n) <= 2 * (r * b) + b
    BY <1>3, <1>4, <2>1, <2>2
  <2>4. CASE n >= r + 1
    <3>1. (r + 1) * b <= n * b
      BY <1>3, <2>4, LessTimes
    <3>2. (r + 1) * b = r * b + b /\ n * b = b * n
      BY <1>3
    <3> QED
      BY <2>1, <2>2, <2>3, <3>1, <3>2
  <2> QED
    BY <1>3, <2>4
<1> QED
  BY <1>2, <1>3, <1>4 DEF HalfUp

LEMMA FitsTyped ==
  ASSUME NEW item, item.quantity \in Nat, item.quantity > 0, item.total \in Nat, item.total > 0,
         NEW remaining \in Nat, remaining > 0, NEW up \in BOOLEAN
  PROVE  /\ Fits(item, remaining, up) \in Nat
         /\ Fits(item, remaining, up) * item.total <= remaining * item.quantity
<1>1. PICK q, t : q = item.quantity /\ t = item.total
  OBVIOUS
<1>2. q \in Nat /\ q > 0 /\ t \in Nat /\ t > 0
  BY <1>1
<1>3. PICK a : a = remaining * q
  OBVIOUS
<1>4. a \in Nat /\ a > 0
  BY <1>2, <1>3, Product
<1>5. PICK n : n = a \div t
  OBVIOUS
<1>6. n \in Nat /\ t * n <= a
  BY <1>2, <1>4, <1>5, Quotient
<1>7. n * t = t * n
  BY <1>2, <1>6
<1>8. CASE up /\ n * t = a
  <2>1. n # 0
    BY <1>2, <1>4, <1>8
  <2>2. n - 1 \in Nat /\ (n - 1) * t = n * t - t /\ n * t \in Nat
    BY <1>2, <1>6, <2>1
  <2>3. (n - 1) * t <= a
    BY <1>2, <1>4, <1>8, <2>2
  <2>4. Fits(item, remaining, up) = n - 1
    BY <1>1, <1>3, <1>5, <1>8 DEF Fits
  <2> QED
    BY <1>1, <1>3, <2>2, <2>3, <2>4
<1>9. CASE ~(up /\ n * t = a)
  <2>1. Fits(item, remaining, up) = n
    BY <1>1, <1>3, <1>5, <1>9 DEF Fits
  <2> QED
    BY <1>1, <1>3, <1>6, <1>7, <2>1
<1> QED
  BY <1>8, <1>9

(* What is taken of an item is there, and costs no more than remains.      *)
LEMMA TakeFits ==
  ASSUME NEW item, item.quantity \in Nat, item.total \in Nat, NEW remaining \in Nat,
         NEW available \in Int, available <= item.quantity, NEW up \in BOOLEAN,
         NEW n, n = Take(item, remaining, available, up)
  PROVE  /\ n \in Nat /\ (n > 0 => n <= available)
         /\ LineValue(item, n) \in Nat /\ LineValue(item, n) <= remaining
<1>1. CASE item.total = 0 \/ remaining <= 0 \/ available <= 0
  <2>1. n = 0
    BY <1>1 DEF Take
  <2> QED
    BY <2>1 DEF LineValue
<1>2. CASE item.total > 0 /\ remaining > 0 /\ available > 0
  <2>1. item.quantity > 0
    BY <1>2
  <2>2. PICK fit : fit = Fits(item, remaining, up)
    OBVIOUS
  <2>3. fit \in Nat /\ fit * item.total <= remaining * item.quantity
    BY <1>2, <2>1, <2>2, FitsTyped
  <2>4. n = IF available < fit THEN available ELSE fit
    BY <1>2, <2>2 DEF Take
  <2>5. n \in Nat /\ n <= fit /\ n <= available
    BY <1>2, <2>3, <2>4
  <2>6. n * item.total <= remaining * item.quantity
    <3>1. n * item.total <= fit * item.total
      BY <2>3, <2>5, LessTimes
    <3>2. n * item.total \in Nat /\ fit * item.total \in Nat /\ remaining * item.quantity \in Nat
      BY <2>3, <2>5, Product
    <3> QED
      BY <2>3, <3>1, <3>2
  <2>7. CASE n = 0
    BY <2>5, <2>7 DEF LineValue
  <2>8. CASE n > 0 /\ n = item.quantity
    <3>1. item.total * item.quantity <= remaining * item.quantity
      <4>1. n * item.total = item.total * item.quantity
        BY <2>5, <2>8
      <4> QED
        BY <2>6, <4>1
    <3>2. item.total <= remaining
      BY <2>1, <3>1, LessByFactor
    <3>3. LineValue(item, n) = item.total
      BY <2>8 DEF LineValue
    <3> QED
      BY <2>5, <3>2, <3>3
  <2>9. CASE n > 0 /\ n # item.quantity
    <3>1. PICK a : a = n * item.total
      OBVIOUS
    <3>2. a \in Nat /\ a <= remaining * item.quantity
      BY <2>5, <2>6, <3>1, Product
    <3>3. HalfUp(a, item.quantity) \in Nat /\ HalfUp(a, item.quantity) <= remaining
      BY <2>1, <3>2, HalfUpTyped
    <3>4. LineValue(item, n) = HalfUp(a, item.quantity)
      BY <2>9, <3>1 DEF LineValue
    <3> QED
      BY <2>5, <3>3, <3>4
  <2> QED
    BY <2>5, <2>7, <2>8, <2>9
<1> QED
  BY <1>1, <1>2

-----------------------------------------------------------------------------
(* What remains, item after item *)

Remains(g, items, target, available, up, n) ==
  g = [i \in 0..n |-> IF i = 0 THEN target
         ELSE g[i - 1] - LineValue(items[i], Take(items[i], g[i - 1], available[i], up))]

LEMMA RemainsExists ==
  ASSUME NEW items, NEW target, NEW available, NEW up, NEW k \in Nat
  PROVE  \E g : Remains(g, items, target, available, up, k)
<1> DEFINE Good(n) == \E g : Remains(g, items, target, available, up, n)
           Bad == {n \in Nat : ~Good(n)}
<1>1. CASE Bad = {}
  BY <1>1
<1>2. CASE Bad # {}
  <2>1. PICK n \in Bad : \A m \in Bad : ~(<<m, n>> \in OpToRel(<, Nat))
    BY <1>2, NatLessThanWellFounded, WFMin
  <2>2. \A m \in Bad : ~(m < n)
    BY <2>1 DEF OpToRel
  <2>3. n \in Nat /\ ~Good(n)
    BY <2>1
  <2>4. CASE n = 0
    <3> DEFINE g == [i \in 0..0 |-> target]
    <3>1. Remains(g, items, target, available, up, 0)
      BY DEF Remains
    <3> QED
      BY <2>3, <2>4, <3>1
  <2>5. CASE n # 0
    <3>1. n - 1 \in Nat /\ n - 1 < n
      BY <2>3, <2>5
    <3>2. Good(n - 1)
      <4> HIDE DEF Good
      <4> QED
        BY <3>1, <2>2
    <3>3. PICK g : Remains(g, items, target, available, up, n - 1)
      BY <3>2
    <3>4. \A i \in 0..(n - 1) :
            g[i] = IF i = 0 THEN target
              ELSE g[i - 1] - LineValue(items[i], Take(items[i], g[i - 1], available[i], up))
      BY <3>3, Zenon DEF Remains
    <3>5. PICK last : last = g[n - 1] - LineValue(items[n], Take(items[n], g[n - 1], available[n], up))
      OBVIOUS
    <3> DEFINE h == [i \in 0..n |-> IF i = n THEN last ELSE g[i]]
    <3>6. \A i \in 0..(n - 1) : h[i] = g[i]
      BY <2>3
    <3>7. h[n] = last
      BY <2>3
    <3>8. \A i \in 0..n : i # n => i \in 0..(n - 1)
      BY <2>3
    <3>9. \A i \in 0..n : i # 0 => i - 1 \in 0..(n - 1)
      BY <2>3
    <3>10. DOMAIN h = 0..n /\ h = [i \in 0..n |-> h[i]]
      OBVIOUS
    <3> HIDE DEF h
    <3>11. \A i \in 0..n :
            h[i] = IF i = 0 THEN target
              ELSE h[i - 1] - LineValue(items[i], Take(items[i], h[i - 1], available[i], up))
      <4>1. ASSUME NEW i \in 0..n, i # n
            PROVE  h[i] = IF i = 0 THEN target
              ELSE h[i - 1] - LineValue(items[i], Take(items[i], h[i - 1], available[i], up))
        <5>1. h[i] = g[i] /\ (i # 0 => h[i - 1] = g[i - 1])
          BY <3>6, <3>8, <3>9, <4>1
        <5>2. g[i] = IF i = 0 THEN target
              ELSE g[i - 1] - LineValue(items[i], Take(items[i], g[i - 1], available[i], up))
          BY <3>4, <3>8, <4>1
        <5> QED
          BY <5>1, <5>2
      <4>2. n # 0 /\ n - 1 \in 0..(n - 1)
        BY <2>5, <3>1
      <4>3. h[n - 1] = g[n - 1]
        BY <3>6, <4>2
      <4>4. h[n] = h[n - 1] - LineValue(items[n], Take(items[n], h[n - 1], available[n], up))
        BY <3>5, <3>7, <4>3
      <4> QED
        BY <4>1, <4>2, <4>4
    <3>12. Remains(h, items, target, available, up, n)
      BY <3>10, <3>11, Zenon DEF Remains
    <3> QED
      BY <2>3, <3>12
  <2> QED
    BY <2>4, <2>5
<1> QED
  BY <1>1, <1>2

LEMMA OrganizedIs ==
  ASSUME NEW items, NEW target, NEW available, NEW up, Len(items) \in Nat
  PROVE  \E g : /\ Remains(g, items, target, available, up, Len(items))
                /\ Organized(items, target, available, up)
                     = [i \in 1..Len(items) |-> Take(items[i], g[i - 1], available[i], up)]
<1> DEFINE g == CHOOSE g : Remains(g, items, target, available, up, Len(items))
<1>1. Remains(g, items, target, available, up, Len(items))
  BY RemainsExists
<1>2. Organized(items, target, available, up)
        = [i \in 1..Len(items) |-> Take(items[i], g[i - 1], available[i], up)]
  BY DEF Organized, Remains
<1> QED
  BY <1>1, <1>2

(* Induction up to k, with a set in the place of a predicate.              *)
LEMMA CountingUp ==
  ASSUME NEW k \in Nat, NEW G, 0 \in G, \A n \in 1..k : n - 1 \in G => n \in G
  PROVE  \A n \in 0..k : n \in G
<1> DEFINE Bad == {n \in Nat : n <= k /\ n \notin G}
<1>1. CASE Bad = {}
  BY <1>1
<1>2. CASE Bad # {}
  <2>1. PICK n \in Bad : \A m \in Bad : ~(<<m, n>> \in OpToRel(<, Nat))
    BY <1>2, NatLessThanWellFounded, WFMin
  <2>2. \A m \in Bad : ~(m < n)
    BY <2>1 DEF OpToRel
  <2>3. n \in Nat /\ n <= k /\ n # 0
    BY <2>1
  <2>4. n - 1 \in Nat /\ n - 1 < n /\ n - 1 <= k /\ n \in 1..k
    BY <2>3
  <2>5. n - 1 \in G
    BY <2>2, <2>4
  <2> QED
    BY <2>1, <2>4, <2>5
<1> QED
  BY <1>1, <1>2

(* The items of an order, and what is left of each.                        *)
ItemsTyped2(items) ==
  /\ Len(items) \in Nat /\ DOMAIN items = 1..Len(items)
  /\ \A i \in 1..Len(items) : items[i].quantity \in Nat /\ items[i].total \in Nat

RoomTyped(items, available) ==
  \A i \in 1..Len(items) : available[i] \in Int /\ available[i] <= items[i].quantity

(* _organize never takes more than is left, nor more than the target.      *)
LEMMA OrganizedFits ==
  ASSUME NEW items, ItemsTyped2(items), NEW target \in Nat, NEW available,
         RoomTyped(items, available), NEW up \in BOOLEAN,
         NEW taken, taken = Organized(items, target, available, up)
  PROVE  /\ taken \in [1..Len(items) -> Nat]
         /\ \A i \in 1..Len(items) : taken[i] > 0 => taken[i] <= available[i]
         /\ [i \in 1..Len(items) |-> LineValue(items[i], taken[i])] \in [1..Len(items) -> Nat]
         /\ SumFunction([i \in 1..Len(items) |-> LineValue(items[i], taken[i])]) <= target
<1>1. PICK k : k = Len(items)
  OBVIOUS
<1>2. k \in Nat
  BY <1>1 DEF ItemsTyped2
<1>3. PICK g : /\ Remains(g, items, target, available, up, k)
               /\ taken = [i \in 1..k |-> Take(items[i], g[i - 1], available[i], up)]
  BY <1>1, <1>2, OrganizedIs
<1>4. \A i \in 0..k :
        g[i] = IF i = 0 THEN target
          ELSE g[i - 1] - LineValue(items[i], Take(items[i], g[i - 1], available[i], up))
  BY <1>3, Zenon DEF Remains
<1>5. g[0] = target
  BY <1>2, <1>4
<1>6. \A i \in 1..k : taken[i] = Take(items[i], g[i - 1], available[i], up)
  BY <1>3
<1>7. \A i \in 1..k : g[i] = g[i - 1] - LineValue(items[i], taken[i])
  <2>1. ASSUME NEW i \in 1..k
        PROVE  g[i] = g[i - 1] - LineValue(items[i], taken[i])
    <3>1. i \in 0..k /\ i # 0
      BY <1>2
    <3> QED
      BY <1>4, <1>6, <3>1
  <2> QED
    BY <2>1
<1>8. ASSUME NEW i \in 1..k, g[i - 1] \in Nat
      PROVE  /\ taken[i] \in Nat /\ (taken[i] > 0 => taken[i] <= available[i])
             /\ LineValue(items[i], taken[i]) \in Nat
             /\ LineValue(items[i], taken[i]) <= g[i - 1]
  <2>1. PICK item, n, room, rest :
          item = items[i] /\ n = taken[i] /\ room = available[i] /\ rest = g[i - 1]
    OBVIOUS
  <2>2. /\ item.quantity \in Nat /\ item.total \in Nat /\ room \in Int /\ room <= item.quantity
        /\ rest \in Nat
    BY <1>1, <1>8, <2>1 DEF ItemsTyped2, RoomTyped
  <2>3. n = Take(item, rest, room, up)
    BY <1>6, <2>1
  <2>4. /\ n \in Nat /\ (n > 0 => n <= room)
        /\ LineValue(item, n) \in Nat /\ LineValue(item, n) <= rest
    BY <2>2, <2>3, TakeFits
  <2> QED
    BY <2>1, <2>4
<1>9. \A i \in 0..k : g[i] \in Nat
  <2> DEFINE G == {i \in 0..k : g[i] \in Nat}
  <2>1. 0 \in G
    BY <1>2, <1>5
  <2>2. ASSUME NEW i \in 1..k, i - 1 \in G
        PROVE  i \in G
    <3>1. g[i - 1] \in Nat /\ i \in 0..k
      BY <2>2, <1>2
    <3>2. LineValue(items[i], taken[i]) \in Nat /\ LineValue(items[i], taken[i]) <= g[i - 1]
      BY <3>1, <1>8
    <3>3. g[i] \in Nat
      BY <1>7, <3>1, <3>2
    <3> QED
      BY <3>1, <3>3
  <2>3. \A i \in 0..k : i \in G
    <3> HIDE DEF G
    <3> QED
      BY <1>2, <2>1, <2>2, CountingUp
  <2> QED
    BY <2>3
<1>10. \A i \in 1..k : i - 1 \in 0..k
  BY <1>2
<1>11. /\ taken \in [1..k -> Nat]
       /\ \A i \in 1..k : taken[i] > 0 => taken[i] <= available[i]
       /\ \A i \in 1..k : LineValue(items[i], taken[i]) \in Nat
  <2>1. \A i \in 1..k : g[i - 1] \in Nat
    BY <1>9, <1>10
  <2>2. \A i \in 1..k : /\ taken[i] \in Nat /\ (taken[i] > 0 => taken[i] <= available[i])
                        /\ LineValue(items[i], taken[i]) \in Nat
    BY <2>1, <1>8
  <2> QED
    BY <1>3, <2>2
<1>12. PICK v : v = [i \in 1..k |-> LineValue(items[i], taken[i])]
  OBVIOUS
<1>13. v \in [1..k -> Nat] /\ \A i \in 1..k : g[i] = g[i - 1] - v[i]
  BY <1>7, <1>11, <1>12
<1>14. \A n \in 0..k : SumFunction(Over(v, 1..n)) = target - g[n]
  <2> DEFINE G == {n \in 0..k : SumFunction(Over(v, 1..n)) = target - g[n]}
  <2>1. 0 \in G
    <3>1. DOMAIN Over(v, 1..0) = {}
      BY DEF Over
    <3>2. SumFunction(Over(v, 1..0)) = 0
      BY <3>1, SumOfNone
    <3> QED
      BY <1>2, <1>5, <3>2
  <2>2. ASSUME NEW n \in 1..k, n - 1 \in G
        PROVE  n \in G
    <3>1. n \in Nat /\ n \in 0..k /\ n - 1 \in 0..k /\ n - 1 \in Nat
      BY <1>2
    <3>2. IsFiniteSet(1..k) /\ v \in [1..k -> Int]
      BY <1>2, <1>13, FS_Interval
    <3>3. 1..n \in SUBSET (1..k) /\ n \in 1..n /\ (1..n) \ {n} = 1..(n - 1)
      BY <3>1, <1>2
    <3>4. SumFunction(Over(v, 1..n)) = v[n] + SumFunction(Over(v, 1..(n - 1)))
      <4>1. PICK S, T, U : S = 1..k /\ T = 1..n /\ U = 1..(n - 1)
        OBVIOUS
      <4>2. IsFiniteSet(S) /\ v \in [S -> Int] /\ T \in SUBSET S /\ n \in T /\ T \ {n} = U
        BY <3>2, <3>3, <4>1
      <4>3. SplitAt(v, T, n)
        BY <4>2, SumSplits
      <4> QED
        BY <4>1, <4>2, <4>3 DEF SplitAt
    <3>5. SumFunction(Over(v, 1..(n - 1))) = target - g[n - 1]
      BY <2>2
    <3>6. g[n] \in Nat /\ g[n - 1] \in Nat /\ v[n] \in Nat
      BY <1>9, <1>13, <3>1
    <3>7. SumFunction(Over(v, 1..n)) = target - g[n]
      BY <1>13, <3>4, <3>5, <3>6
    <3> QED
      BY <3>1, <3>7
  <2>3. \A n \in 0..k : n \in G
    <3> HIDE DEF G
    <3> QED
      BY <1>2, <2>1, <2>2, CountingUp
  <2> QED
    BY <2>3
<1>15. SumFunction(v) <= target
  <2>1. Over(v, 1..k) = v
    BY <1>13, OverAll
  <2>2. SumFunction(v) = target - g[k] /\ g[k] \in Nat
    BY <1>2, <1>9, <1>14, <2>1
  <2> QED
    BY <2>2
<1> QED
  BY <1>1, <1>11, <1>12, <1>13, <1>15

-----------------------------------------------------------------------------
(* Two more sums *)

LEMMA SumWithin ==
  ASSUME NEW S, IsFiniteSet(S), NEW f \in [S -> Nat], NEW T \in SUBSET S
  PROVE  /\ SumFunction(Over(f, T)) \in Nat /\ SumFunction(f) \in Nat
         /\ SumFunction(Over(f, T)) <= SumFunction(f)
<1>1. PICK U : U = S \ T
  OBVIOUS
<1>2. IsFiniteSet(T) /\ IsFiniteSet(U) /\ T \cap U = {} /\ T \cup U = S
  BY <1>1, FS_Subset
<1>3. f \in [T \cup U -> Int]
  BY <1>2
<1>4. InTwo(f, T, U)
  BY <1>2, <1>3, SumOfTwo
<1>5. Over(f, T) \in [T -> Nat] /\ Over(f, U) \in [U -> Nat]
  BY <1>1 DEF Over
<1>6. SumFunction(Over(f, T)) \in Nat /\ SumFunction(Over(f, U)) \in Nat
  BY <1>2, <1>5, SumNatural
<1> QED
  BY <1>4, <1>6 DEF InTwo

LEMMA SumAtOne ==
  ASSUME NEW S, IsFiniteSet(S), NEW x \in S, NEW f \in [S -> Int], \A y \in S \ {x} : f[y] = 0
  PROVE  SumFunction(f) = f[x]
<1>1. PICK g : g = [y \in S |-> 0]
  OBVIOUS
<1>2. g \in [S -> {0}] /\ g \in [S -> Int] /\ g[x] = 0 /\ \A y \in S \ {x} : f[y] = g[y]
  BY <1>1
<1>3. SumFunction(g) = 0
  BY <1>2, SumOfZeros
<1>4. SumFunction(f) = SumFunction(g) - g[x] + f[x]
  BY <1>2, SumChange
<1> QED
  BY <1>2, <1>3, <1>4

-----------------------------------------------------------------------------
(* What is allotted *)

DraftRows ==
  [status : {"absent", "draft", "cancelled"}, content : Contents, version : Nat, total : Nat,
   percent : 1..100, target : Nat, allotted : [AllKeys -> Nat]]

AllottedIn(A, k) == SumFunction([e \in A |-> draft[e].allotted[k]])
Alike(d, c) == {e \in OtherDrafts(d) : draft[e].content = c}
LiveOf(o, c) == {e \in LiveDrafts(o) : draft[e].content = c}

NotTwice ==
  \A o \in Sales, c \in Contents, k \in AllKeys : AllottedIn(LiveOf(o, c), k) <= QuantityIn(c, k)

(* An allotment that leaves the others what they have.                     *)
Modest(d, c, allotted) ==
  \A k \in AllKeys : allotted[k] > 0 => allotted[k] + Elsewhere(d, k) <= QuantityIn(c, k)

RoomFor(d, c, allotted) ==
  \A k \in AllKeys : allotted[k] + AllottedIn(Alike(d, c), k) <= QuantityIn(c, k)

Worth(c, allotted) ==
  ValueOf(Sale[c].items, [i \in DOMAIN Sale[c].items |-> allotted[Sale[c].items[i].key]])

LEMMA AllottedTyped ==
  ASSUME DraftsTypeOK, NEW A \in SUBSET Drafts, NEW k \in AllKeys
  PROVE  /\ IsFiniteSet(A) /\ [e \in A |-> draft[e].allotted[k]] \in [A -> Nat]
         /\ AllottedIn(A, k) \in Nat
<1>1. IsFiniteSet(A)
  BY DraftsAreFinite, FS_Subset
<1>2. PICK f : f = [e \in A |-> draft[e].allotted[k]]
  OBVIOUS
<1>3. f \in [A -> Nat]
  BY <1>2 DEF DraftsTypeOK
<1>4. SumFunction(f) \in Nat
  BY <1>1, <1>3, SumNatural
<1> QED
  BY <1>1, <1>2, <1>3, <1>4 DEF AllottedIn

LEMMA AllottedLess ==
  ASSUME DraftsTypeOK, NEW B \in SUBSET Drafts, NEW A \in SUBSET B, NEW k \in AllKeys
  PROVE  AllottedIn(A, k) <= AllottedIn(B, k)
<1>1. PICK f : f = [e \in B |-> draft[e].allotted[k]]
  OBVIOUS
<1>2. IsFiniteSet(B) /\ f \in [B -> Nat]
  BY <1>1, AllottedTyped
<1>3. SumFunction(Over(f, A)) <= SumFunction(f)
  BY <1>2, SumWithin
<1>4. Over(f, A) = [e \in A |-> draft[e].allotted[k]]
  BY <1>1 DEF Over
<1> QED
  BY <1>1, <1>3, <1>4 DEF AllottedIn

LEMMA AllottedMore ==
  ASSUME DraftsTypeOK, NEW A \in SUBSET Drafts, NEW d \in Drafts \ A, NEW k \in AllKeys
  PROVE  AllottedIn(A \cup {d}, k) = AllottedIn(A, k) + draft[d].allotted[k]
<1> DEFINE f == [e \in A |-> draft[e].allotted[k]]
           g == [e \in A \cup {d} |-> draft[e].allotted[k]]
<1>1. IsFiniteSet(A)
  BY AllottedTyped
<1>2. d \notin A
  OBVIOUS
<1>3. f \in [A -> Int] /\ g \in [A \cup {d} -> Int]
  BY DEF DraftsTypeOK
<1>4. \A e \in A : g[e] = f[e]
  OBVIOUS
<1>5. g[d] = draft[d].allotted[k]
  OBVIOUS
<1> HIDE DEF f, g
<1>6. SumFunction(g) = SumFunction(f) + g[d]
  BY <1>1, <1>2, <1>3, <1>4, SumJoin
<1> QED
  BY <1>5, <1>6 DEF f, g, AllottedIn

LEMMA ElsewhereIs ==
  ASSUME NEW d, NEW k
  PROVE  Elsewhere(d, k) = AllottedIn(OtherDrafts(d), k) /\ OtherDrafts(d) \in SUBSET Drafts
BY DEF Elsewhere, AllottedIn, OtherDrafts

LEMMA SequenceOfItems ==
  ASSUME NEW K, NEW items \in Seq([key : K, quantity : Nat, total : Nat])
  PROVE  ItemsTyped2(items) /\ IsFiniteSet(DOMAIN items) /\ \A i \in DOMAIN items : items[i].key \in K
<1>1. Len(items) \in Nat /\ DOMAIN items = 1..Len(items)
  OBVIOUS
<1>2. \A i \in DOMAIN items : items[i] \in [key : K, quantity : Nat, total : Nat]
  <2>1. PICK R : R = [key : K, quantity : Nat, total : Nat]
    OBVIOUS
  <2>2. items \in Seq(R)
    BY <2>1
  <2>3. \A i \in 1..Len(items) : items[i] \in R
    BY <2>2
  <2> QED
    BY <1>1, <2>1, <2>3
<1>3. ItemsTyped2(items)
  BY <1>1, <1>2 DEF ItemsTyped2
<1>4. IsFiniteSet(DOMAIN items)
  BY <1>1, FS_Interval
<1> QED
  BY <1>2, <1>3, <1>4

LEMMA ItemsAre ==
  ASSUME NEW c \in Contents
  PROVE  /\ ItemsTyped2(Sale[c].items) /\ IsFiniteSet(DOMAIN Sale[c].items)
         /\ \A i \in DOMAIN Sale[c].items :
              Sale[c].items[i].key \in Keys(c) /\ Sale[c].items[i].key \in AllKeys
<1>1. Sale[c].items \in Seq([key : Keys(c), quantity : Nat, total : Nat])
  BY OrderItemsTyped
<1>2. Keys(c) \subseteq AllKeys
  BY DEF AllKeys
<1>3. PICK items, K : items = Sale[c].items /\ K = Keys(c)
  OBVIOUS
<1>4. items \in Seq([key : K, quantity : Nat, total : Nat])
  BY <1>1, <1>3
<1>5. ItemsTyped2(items) /\ IsFiniteSet(DOMAIN items) /\ \A i \in DOMAIN items : items[i].key \in K
  BY <1>4, SequenceOfItems
<1> QED
  BY <1>2, <1>3, <1>5

(* A sum that counts one item, or none.                                    *)
CountOf(c, n, k) == [j \in DOMAIN Sale[c].items |-> IF Sale[c].items[j].key = k THEN n[j] ELSE 0]
CountsOne(c, n, k) ==
  /\ k \notin Keys(c) => SumFunction(CountOf(c, n, k)) = 0
  /\ \A i \in DOMAIN Sale[c].items :
       Sale[c].items[i].key = k => SumFunction(CountOf(c, n, k)) = n[i]

LEMMA OneItem ==
  ASSUME NEW c \in Contents, NEW n \in [DOMAIN Sale[c].items -> Nat], NEW k
  PROVE  CountsOne(c, n, k)
<1>0. PICK f : f = CountOf(c, n, k)
  OBVIOUS
<1>1. PICK items : items = Sale[c].items
  OBVIOUS
<1>2. IsFiniteSet(DOMAIN items)
  BY <1>1, ItemsAre
<1>3. CASE k \notin Keys(c)
  <2>1. f \in [DOMAIN items -> {0}]
    BY <1>0, <1>1, <1>3 DEF Keys, CountOf
  <2>2. SumFunction(f) = 0
    BY <1>2, <2>1, SumOfZeros
  <2> QED
    BY <1>0, <1>3, <2>2 DEF Keys, CountsOne
<1>4. ASSUME NEW i \in DOMAIN items, items[i].key = k
      PROVE  SumFunction(f) = n[i]
  <2>1. \A j \in DOMAIN items : items[j].key = items[i].key => j = i
    BY <1>1, OrderItemsTyped
  <2>2. PICK S : S = DOMAIN items
    OBVIOUS
  <2>3. f \in [S -> Int] /\ f[i] = n[i]
    BY <1>0, <1>1, <1>4, <2>2 DEF CountOf
  <2>4. \A j \in S \ {i} : f[j] = 0
    BY <1>0, <1>1, <1>4, <2>1, <2>2 DEF CountOf
  <2>5. IsFiniteSet(S) /\ i \in S
    BY <1>2, <2>2
  <2>6. SumFunction(f) = f[i]
    <3>1. f \in [S -> Int]
      BY <2>3
    <3>2. IsFiniteSet(S)
      BY <2>5
    <3>3. i \in S
      BY <2>5
    <3> QED
      BY <2>4, <3>1, <3>2, <3>3, SumAtOne
  <2> QED
    BY <2>3, <2>6
<1> QED
  BY <1>0, <1>1, <1>3, <1>4 DEF Keys, CountsOne

LEMMA QuantityTyped ==
  ASSUME NEW c \in Contents
  PROVE  /\ \A k : QuantityIn(c, k) \in Nat
         /\ \A i \in DOMAIN Sale[c].items :
              QuantityIn(c, Sale[c].items[i].key) = Sale[c].items[i].quantity
<1>1. PICK n : n = [i \in DOMAIN Sale[c].items |-> Sale[c].items[i].quantity]
  OBVIOUS
<1>2. n \in [DOMAIN Sale[c].items -> Nat]
  BY <1>1, ItemsAre DEF ItemsTyped2
<1>3. ASSUME NEW k
      PROVE  /\ k \notin Keys(c) => QuantityIn(c, k) = 0
             /\ \A i \in DOMAIN Sale[c].items :
                  Sale[c].items[i].key = k => QuantityIn(c, k) = n[i]
  <2>1. CountsOne(c, n, k)
    BY <1>2, OneItem
  <2>2. CountOf(c, n, k) = [j \in DOMAIN Sale[c].items |->
                 IF Sale[c].items[j].key = k THEN Sale[c].items[j].quantity ELSE 0]
    BY <1>1 DEF CountOf
  <2>3. QuantityIn(c, k) = SumFunction(CountOf(c, n, k))
    BY <2>2 DEF QuantityIn
  <2> QED
    BY <2>1, <2>3 DEF CountsOne
<1>4. ASSUME NEW k
      PROVE  QuantityIn(c, k) \in Nat
  <2>1. k \in Keys(c) => \E i \in DOMAIN Sale[c].items : Sale[c].items[i].key = k
    BY DEF Keys
  <2> QED
    BY <1>2, <1>3, <2>1
<1>5. \A i \in DOMAIN Sale[c].items : n[i] = Sale[c].items[i].quantity
  BY <1>1
<1> QED
  BY <1>3, <1>4, <1>5

LEMMA OrganizedDraftFits ==
  ASSUME DraftsTypeOK, NEW d \in Drafts, NEW c \in Contents, NEW target \in Nat,
         NEW up \in BOOLEAN, NEW allotted, allotted = OrganizedDraft(d, c, target, up)
  PROVE  /\ allotted \in [AllKeys -> Nat] /\ Modest(d, c, allotted)
         /\ Worth(c, allotted) <= target
<1>1. PICK items, taken, room :
        /\ items = Sale[c].items /\ room = AvailableIn(d, c)
        /\ taken = Organized(items, target, room, up)
  OBVIOUS
<1>2. /\ ItemsTyped2(items) /\ \A i \in DOMAIN items : items[i].key \in Keys(c)
      /\ \A i \in DOMAIN items : items[i].key \in AllKeys
      /\ Len(items) \in Nat /\ DOMAIN items = 1..Len(items)
  BY <1>1, ItemsAre DEF ItemsTyped2
<1>3. \A k \in AllKeys : Elsewhere(d, k) \in Nat
  BY ElsewhereIs, AllottedTyped
<1>4. \A i \in DOMAIN items : /\ room[i] = items[i].quantity - Elsewhere(d, items[i].key)
                              /\ items[i].quantity \in Nat
  BY <1>1, <1>2 DEF AvailableIn, ItemsTyped2
<1>5. RoomTyped(items, room)
  <2>1. ASSUME NEW i \in 1..Len(items)
        PROVE  room[i] \in Int /\ room[i] <= items[i].quantity
    <3>1. i \in DOMAIN items
      BY <1>2
    <3>2. items[i].key \in AllKeys
      BY <1>2, <3>1
    <3>3. Elsewhere(d, items[i].key) \in Nat
      BY <1>3, <3>2
    <3>4. room[i] = items[i].quantity - Elsewhere(d, items[i].key) /\ items[i].quantity \in Nat
      BY <1>4, <3>1
    <3> QED
      BY <3>3, <3>4
  <2> QED
    BY <2>1 DEF RoomTyped
<1>6. /\ taken \in [1..Len(items) -> Nat]
      /\ \A i \in 1..Len(items) : taken[i] > 0 => taken[i] <= room[i]
      /\ SumFunction([i \in 1..Len(items) |-> LineValue(items[i], taken[i])]) <= target
  BY <1>1, <1>2, <1>5, OrganizedFits
<1>7. \A k : CountsOne(c, taken, k)
  <2>1. taken \in [DOMAIN Sale[c].items -> Nat]
    BY <1>1, <1>2, <1>6
  <2> QED
    BY <2>1, OneItem
<1>8. \A k \in AllKeys : allotted[k] = SumFunction(CountOf(c, taken, k))
  BY <1>1 DEF OrganizedDraft, CountOf
<1>9. DOMAIN allotted = AllKeys /\ allotted = [k \in AllKeys |-> allotted[k]]
  BY DEF OrganizedDraft
<1>10. \A i \in DOMAIN items : allotted[items[i].key] = taken[i]
  <2>1. ASSUME NEW i \in DOMAIN items
        PROVE  allotted[items[i].key] = taken[i]
    <3>1. items[i].key \in AllKeys
      BY <1>2
    <3>2. CountsOne(c, taken, items[i].key)
      BY <1>7
    <3>3. SumFunction(CountOf(c, taken, items[i].key)) = taken[i]
      BY <1>1, <3>2 DEF CountsOne
    <3> QED
      BY <1>8, <3>1, <3>3
  <2> QED
    BY <2>1
<1>11. \A k \in AllKeys : k \notin Keys(c) => allotted[k] = 0
  BY <1>7, <1>8 DEF CountsOne
<1>12. \A k \in Keys(c) : \E i \in DOMAIN items : items[i].key = k
  BY <1>1 DEF Keys
<1>13. allotted \in [AllKeys -> Nat]
  <2>1. ASSUME NEW k \in AllKeys
        PROVE  allotted[k] \in Nat
    <3>1. CASE k \in Keys(c)
      <4>1. PICK i \in DOMAIN items : items[i].key = k
        BY <1>12, <3>1
      <4> QED
        BY <1>2, <1>6, <1>10, <4>1
    <3> QED
      BY <3>1, <1>11
  <2> QED
    BY <1>9, <2>1
<1>14. Modest(d, c, allotted)
  <2>1. ASSUME NEW k \in AllKeys, allotted[k] > 0
        PROVE  allotted[k] + Elsewhere(d, k) <= QuantityIn(c, k)
    <3>1. k \in Keys(c)
      BY <1>11, <2>1
    <3>2. PICK i \in DOMAIN items : items[i].key = k
      BY <1>12, <3>1
    <3>3. allotted[k] = taken[i] /\ taken[i] \in Nat /\ (taken[i] > 0 => taken[i] <= room[i])
      BY <1>2, <1>6, <1>10, <3>2
    <3>4. QuantityIn(c, k) = items[i].quantity
      BY <1>1, <3>2, QuantityTyped
    <3>5. room[i] = items[i].quantity - Elsewhere(d, k) /\ items[i].quantity \in Nat
      BY <1>4, <3>2
    <3>6. Elsewhere(d, k) \in Nat
      BY <1>3
    <3> QED
      BY <2>1, <3>3, <3>4, <3>5, <3>6
  <2> QED
    BY <2>1 DEF Modest
<1>15. Worth(c, allotted) <= target
  <2>1. PICK v : v = [i \in 1..Len(items) |-> LineValue(items[i], taken[i])]
    OBVIOUS
  <2>2. PICK n : n = [i \in DOMAIN items |-> allotted[items[i].key]]
    OBVIOUS
  <2>3. v = [i \in DOMAIN items |-> LineValue(items[i], n[i])]
    BY <1>2, <1>10, <2>1, <2>2
  <2>4. ValueOf(items, n) = SumFunction(v)
    BY <2>3 DEF ValueOf
  <2>5. Worth(c, allotted) = ValueOf(items, n)
    BY <1>1, <2>2 DEF Worth
  <2> QED
    BY <1>6, <2>1, <2>4, <2>5
<1> QED
  BY <1>13, <1>14, <1>15

-----------------------------------------------------------------------------
(* What a draft may hold *)

LEMMA AlikeIsLive ==
  ASSUME DraftsTypeOK, NotTwice, NEW d \in Drafts, NEW c \in Contents, NEW k \in AllKeys
  PROVE  /\ AllottedIn(Alike(d, c), k) \in Nat
         /\ AllottedIn(Alike(d, c), k) <= QuantityIn(c, k)
         /\ AllottedIn(Alike(d, c), k) <= Elsewhere(d, k) /\ Elsewhere(d, k) \in Nat
<1>1. Draft[d] \in Sales
  BY DraftsTyped
<1>2. PICK A, L, O : A = Alike(d, c) /\ L = LiveOf(Draft[d], c) /\ O = OtherDrafts(d)
  OBVIOUS
<1>3. /\ A \in SUBSET L /\ A \in SUBSET O
      /\ A \in SUBSET Drafts /\ L \in SUBSET Drafts /\ O \in SUBSET Drafts
  BY <1>2 DEF Alike, LiveOf, OtherDrafts, LiveDrafts
<1>4. AllottedIn(A, k) \in Nat /\ AllottedIn(L, k) \in Nat /\ AllottedIn(O, k) \in Nat
  BY <1>3, AllottedTyped
<1>5. AllottedIn(A, k) <= AllottedIn(L, k)
  BY <1>3, AllottedLess
<1>6. AllottedIn(A, k) <= AllottedIn(O, k)
  BY <1>3, AllottedLess
<1>7. AllottedIn(L, k) <= QuantityIn(c, k) /\ QuantityIn(c, k) \in Nat
  BY <1>1, <1>2, QuantityTyped DEF NotTwice
<1>8. Elsewhere(d, k) = AllottedIn(O, k)
  BY <1>2, ElsewhereIs
<1> QED
  BY <1>2, <1>4, <1>5, <1>6, <1>7, <1>8

(* Who leaves the others what they have leaves those of one content what   *)
(* they have.                                                              *)
LEMMA ModestHasRoom ==
  ASSUME DraftsTypeOK, NotTwice, NEW d \in Drafts, NEW c \in Contents,
         NEW allotted \in [AllKeys -> Nat], Modest(d, c, allotted)
  PROVE  RoomFor(d, c, allotted)
<1>1. ASSUME NEW k \in AllKeys
      PROVE  allotted[k] + AllottedIn(Alike(d, c), k) <= QuantityIn(c, k)
  <2>1. PICK a, e, q : a = AllottedIn(Alike(d, c), k) /\ e = Elsewhere(d, k) /\ q = QuantityIn(c, k)
    OBVIOUS
  <2>2. a \in Nat /\ a <= q /\ a <= e /\ e \in Nat /\ q \in Nat
    BY <2>1, AlikeIsLive, QuantityTyped
  <2>3. allotted[k] > 0 => allotted[k] + e <= q
    BY <2>1 DEF Modest
  <2>4. allotted[k] \in Nat
    OBVIOUS
  <2> QED
    BY <2>1, <2>2, <2>3, <2>4
<1> QED
  BY <1>1 DEF RoomFor

(* A live draft has room for what it holds.                                *)
LEMMA LiveHasRoom ==
  ASSUME DraftsTypeOK, NotTwice, NEW d \in Drafts, draft[d].status = "draft"
  PROVE  RoomFor(d, draft[d].content, draft[d].allotted)
<1>1. PICK c : c = draft[d].content
  OBVIOUS
<1>2. c \in Contents /\ Draft[d] \in Sales
  BY <1>1, DraftsTyped DEF DraftsTypeOK
<1>3. PICK A : A = Alike(d, c)
  OBVIOUS
<1>4. A \in SUBSET Drafts /\ d \in Drafts \ A /\ LiveOf(Draft[d], c) = A \cup {d}
  BY <1>1, <1>3 DEF Alike, LiveOf, OtherDrafts, LiveDrafts
<1>5. ASSUME NEW k \in AllKeys
      PROVE  draft[d].allotted[k] + AllottedIn(A, k) <= QuantityIn(c, k)
  <2>1. AllottedIn(A \cup {d}, k) = AllottedIn(A, k) + draft[d].allotted[k]
    BY <1>4, AllottedMore
  <2>2. AllottedIn(A \cup {d}, k) <= QuantityIn(c, k)
    BY <1>2, <1>4 DEF NotTwice
  <2>3. AllottedIn(A, k) \in Nat /\ draft[d].allotted[k] \in Nat
    BY <1>4, AllottedTyped DEF DraftsTypeOK
  <2> QED
    BY <2>1, <2>2, <2>3
<1> QED
  BY <1>1, <1>3, <1>5 DEF RoomFor

-----------------------------------------------------------------------------
(* Requests about drafts *)

(* A row that a request is about to write of draft d.                      *)
RowFits(d, row, how) ==
  /\ draft[d].status = "draft" => row.version = draft[d].version + 1
  /\ row.status = "draft" => RoomFor(d, row.content, row.allotted)
  /\ how = "organized" => /\ Modest(d, row.content, row.allotted)
                          /\ Worth(row.content, row.allotted) <= row.target

DraftFits(x) ==
  \E d \in Drafts, row \in DraftRows :
    /\ x.draft = OneRow(d, row) /\ SaleRow(Draft[d]) \in x.locks
    /\ RowFits(d, row, x.how)

SalesOk == DOMAIN sale = Sales /\ \A o \in Sales : sale[o] \in Contents

DraftInv ==
  /\ DraftsTypeOK /\ NotTwice
  /\ focus = "invoices" =>
       /\ SalesOk
       /\ tx = [s \in Sessions |-> tx[s]]
       /\ \A s, t \in Sessions : s # t => tx[s].locks \cap tx[t].locks = {}
       /\ \A s \in Sessions : tx[s].do = "draft" => DraftFits(tx[s])

(* The other documents of an order stay as they are.                       *)
OthersRest(d) ==
  /\ OtherDrafts(d)' = OtherDrafts(d)
  /\ \A e \in OtherDrafts(d) : draft'[e] = draft[e]

LEMMA RoomStays ==
  ASSUME NEW d, OthersRest(d)
  PROVE  /\ \A k : Elsewhere(d, k)' = Elsewhere(d, k)
         /\ \A c, k : AllottedIn(Alike(d, c), k)' = AllottedIn(Alike(d, c), k)
<1>1. PICK O, N : O = OtherDrafts(d) /\ N = draft'
  OBVIOUS
<1>2. OtherDrafts(d)' = O /\ \A e \in O : N[e] = draft[e]
  BY <1>1 DEF OthersRest
<1>3. ASSUME NEW k
      PROVE  Elsewhere(d, k)' = Elsewhere(d, k)
  <2>1. [e \in O |-> N[e].allotted[k]] = [e \in O |-> draft[e].allotted[k]]
    BY <1>2
  <2>2. Elsewhere(d, k) = SumFunction([e \in O |-> draft[e].allotted[k]])
    BY <1>1 DEF Elsewhere
  <2>3. Elsewhere(d, k)' = SumFunction([e \in O |-> N[e].allotted[k]])
    BY <1>1, <1>2 DEF Elsewhere
  <2> QED
    BY <2>1, <2>2, <2>3
<1>4. ASSUME NEW c, NEW k
      PROVE  AllottedIn(Alike(d, c), k)' = AllottedIn(Alike(d, c), k)
  <2>1. PICK A : A = Alike(d, c)
    OBVIOUS
  <2>2. A = {e \in O : draft[e].content = c} /\ Alike(d, c)' = {e \in O : N[e].content = c}
    BY <1>1, <1>2, <2>1 DEF Alike
  <2>3. Alike(d, c)' = A /\ \A e \in A : N[e] = draft[e]
    BY <1>2, <2>2
  <2>4. [e \in A |-> N[e].allotted[k]] = [e \in A |-> draft[e].allotted[k]]
    BY <2>3
  <2>5. AllottedIn(Alike(d, c), k)' = SumFunction([e \in A |-> N[e].allotted[k]])
    BY <1>1, <2>3 DEF AllottedIn
  <2>6. AllottedIn(Alike(d, c), k) = SumFunction([e \in A |-> draft[e].allotted[k]])
    BY <2>1 DEF AllottedIn
  <2> QED
    BY <2>4, <2>5, <2>6
<1> QED
  BY <1>3, <1>4

LEMMA FitsAsBefore ==
  ASSUME NEW d, NEW row, NEW how, OthersRest(d), draft'[d] = draft[d], RowFits(d, row, how)
  PROVE  RowFits(d, row, how)'
<1>1. /\ \A k : Elsewhere(d, k)' = Elsewhere(d, k)
      /\ \A c, k : AllottedIn(Alike(d, c), k)' = AllottedIn(Alike(d, c), k)
  BY RoomStays
<1>2. RoomFor(d, row.content, row.allotted) => RoomFor(d, row.content, row.allotted)'
  BY <1>1 DEF RoomFor
<1>3. Modest(d, row.content, row.allotted) => Modest(d, row.content, row.allotted)'
  BY <1>1 DEF Modest
<1>4. (Worth(row.content, row.allotted) <= row.target)
        => (Worth(row.content, row.allotted) <= row.target)'
  OBVIOUS
<1> QED
  BY <1>2, <1>3, <1>4 DEF RowFits

LEMMA DraftsStand ==
  ASSUME DraftsTypeOK, NotTwice, UNCHANGED draft
  PROVE  DraftsTypeOK' /\ NotTwice' /\ \A d : OthersRest(d)
BY DEF DraftsTypeOK, NotTwice, AllottedIn, LiveOf, LiveDrafts, OthersRest, OtherDrafts

LEMMA DraftFitsStill ==
  ASSUME NEW x, DraftFits(x), UNCHANGED draft
  PROVE  DraftFits(x)'
<1>1. PICK d \in Drafts, row \in DraftRows :
        /\ x.draft = OneRow(d, row) /\ SaleRow(Draft[d]) \in x.locks
        /\ RowFits(d, row, x.how)
  BY DEF DraftFits
<1>2. OthersRest(d)
  BY DEF OthersRest, OtherDrafts
<1>3. PICK how : how = x.how
  OBVIOUS
<1>4. RowFits(d, row, how)
  BY <1>1, <1>3
<1>5. RowFits(d, row, how)'
  BY <1>2, <1>4, FitsAsBefore
<1>6. RowFits(d, row, x.how)'
  BY <1>3, <1>5
<1> QED
  BY <1>1, <1>6 DEF DraftFits

(* A request begins, or ends without a trace, or works under its locks.    *)
LEMMA DraftBegins ==
  ASSUME DraftInv, focus = "invoices", focus' = focus, UNCHANGED draft, SalesOk',
         NEW s \in Sessions, NEW x, tx' = [tx EXCEPT ![s] = x],
         Free(s, x.locks), x.do = "draft" => DraftFits(x)
  PROVE  DraftInv'
<1>1. DraftsTypeOK' /\ NotTwice'
  BY DraftsStand DEF DraftInv
<1>2. tx = [u \in Sessions |-> tx[u]]
  BY DEF DraftInv
<1>3. tx'[s] = x /\ \A u \in Sessions \ {s} : tx'[u] = tx[u]
  BY <1>2
<1>4. tx' = [u \in Sessions |-> tx'[u]]
  BY <1>2
<1>5. ASSUME NEW u \in Sessions, NEW v \in Sessions, u # v
      PROVE  tx'[u].locks \cap tx'[v].locks = {}
  BY <1>3, <1>5 DEF DraftInv, Free
<1>6. ASSUME NEW u \in Sessions, tx'[u].do = "draft"
      PROVE  DraftFits(tx[u])'
  <2>1. PICK y : y = tx'[u]
    OBVIOUS
  <2>2. DraftFits(y)
    BY <1>3, <1>6, <2>1 DEF DraftInv
  <2>3. DraftFits(y)'
    BY <2>2, DraftFitsStill
  <2> QED
    BY <2>1, <2>3
<1> QED
  BY <1>1, <1>4, <1>5, <1>6 DEF DraftInv

(* Who saves a row of a draft, with the order locked.                      *)
LEMMA Saving ==
  ASSUME DraftInv, focus = "invoices", focus' = focus, UNCHANGED <<draft, sale>>,
         NEW s \in Sessions, NEW d \in Drafts, NEW row \in DraftRows, NEW how,
         Free(s, {SaleRow(Draft[d]), DraftRow(d)}), RowFits(d, row, how),
         tx' = [tx EXCEPT ![s] = Saves(s, d, row, how)]
  PROVE  DraftInv'
<1>1. PICK x : x = Saves(s, d, row, how)
  OBVIOUS
<1>2. /\ x.locks = {SaleRow(Draft[d]), DraftRow(d)} /\ x.draft = OneRow(d, row) /\ x.how = how
  BY <1>1 DEF Saves
<1>3. DraftFits(x)
  BY <1>2 DEF DraftFits
<1>4. SalesOk'
  BY DEF DraftInv, SalesOk
<1>5. tx' = [tx EXCEPT ![s] = x] /\ Free(s, x.locks)
  BY <1>1, <1>2
<1> QED
  BY <1>3, <1>4, <1>5, DraftBegins

LEMMA ModestRow ==
  ASSUME DraftInv, NEW d \in Drafts, NEW row \in DraftRows, NEW how,
         Modest(d, row.content, row.allotted),
         draft[d].status = "draft" => row.version = draft[d].version + 1,
         how = "organized" => Worth(row.content, row.allotted) <= row.target
  PROVE  RowFits(d, row, how)
<1>1. PICK c, allotted : c = row.content /\ allotted = row.allotted
  OBVIOUS
<1>2. c \in Contents /\ allotted \in [AllKeys -> Nat] /\ Modest(d, c, allotted)
  BY <1>1 DEF DraftRows
<1>3. RoomFor(d, c, allotted)
  BY <1>2, ModestHasRoom DEF DraftInv
<1> QED
  BY <1>1, <1>3 DEF RowFits

LEMMA TargetTyped ==
  ASSUME NEW total \in Nat, NEW percent \in 1..100
  PROVE  Target(total, percent) \in Nat
<1>1. total * percent \in Nat
  BY Product
<1>2. PICK a : a = total * percent
  OBVIOUS
<1> QED
  BY <1>1, <1>2, HalfUpTyped DEF Target

LEMMA NothingIsModest ==
  ASSUME NEW d, NEW c
  PROVE  NothingAllotted \in [AllKeys -> Nat] /\ Modest(d, c, NothingAllotted)
BY DEF NothingAllotted, Modest

-----------------------------------------------------------------------------
(* Each request *)

LEMMA CreateKeepsDrafts ==
  ASSUME DraftInv, focus = "invoices", focus' = focus, NEW s \in Sessions, NEW d \in Drafts,
         NEW percent \in Percents, NEW organize \in BOOLEAN, NEW up \in BOOLEAN,
         CreateDraft(s, d, percent, organize, up)
  PROVE  DraftInv'
<1>1. PICK c, target, allotted, how :
        /\ c = sale[Draft[d]] /\ target = Target(Sale[c].total, percent)
        /\ allotted = IF organize THEN OrganizedDraft(d, c, target, up) ELSE NothingAllotted
        /\ how = IF organize THEN "organized" ELSE "created"
  OBVIOUS
<1>2. PICK row :
        row = [status |-> "draft", content |-> c, version |-> 1, total |-> Sale[c].total,
               percent |-> percent, target |-> target, allotted |-> allotted]
  OBVIOUS
<1>3. /\ tx' = [tx EXCEPT ![s] = Saves(s, d, row, how)]
      /\ draft[d].status = "absent" /\ Free(s, {SaleRow(Draft[d]), DraftRow(d)})
      /\ UNCHANGED <<draft, sale>>
  BY <1>1, <1>2 DEF CreateDraft, Starts
<1>4. c \in Contents /\ Sale[c].total \in Nat /\ percent \in 1..100
  BY <1>1, DraftsTyped, ContentsTyped DEF DraftInv, SalesOk
<1>5. target \in Nat
  BY <1>1, <1>4, TargetTyped
<1>6. /\ allotted \in [AllKeys -> Nat] /\ Modest(d, c, allotted)
      /\ how = "organized" => Worth(c, allotted) <= target
  <2>1. CASE organize
    <3>1. allotted = OrganizedDraft(d, c, target, up)
      BY <1>1, <2>1
    <3> QED
      BY <1>4, <1>5, <3>1, OrganizedDraftFits DEF DraftInv
  <2>2. CASE ~organize
    BY <1>1, <2>2, NothingIsModest
  <2> QED
    BY <2>1, <2>2
<1>7. row \in DraftRows
  BY <1>2, <1>4, <1>5, <1>6 DEF DraftRows
<1>8. row.content = c /\ row.allotted = allotted /\ row.target = target
  BY <1>2
<1>9. RowFits(d, row, how)
  BY <1>3, <1>6, <1>7, <1>8, ModestRow
<1> QED
  BY <1>3, <1>7, <1>9, Saving

LEMMA ReadKeepsDrafts ==
  ASSUME DraftInv, focus = "invoices", focus' = focus, NEW s \in Sessions, NEW d \in Drafts,
         ReadDraft(s, d)
  PROVE  DraftInv'
<1>1. PICK x : x = [do |-> "edit", locks |-> {}, d |-> d,
                    seen |-> [content |-> draft[d].content, version |-> draft[d].version]]
  OBVIOUS
<1>2. x.do # "draft" /\ Free(s, x.locks)
  BY <1>1 DEF Free
<1>3. tx' = [tx EXCEPT ![s] = x] /\ UNCHANGED <<draft, sale>>
  BY <1>1 DEF ReadDraft, Starts
<1>4. SalesOk'
  BY <1>3 DEF DraftInv, SalesOk
<1> QED
  BY <1>2, <1>3, <1>4, DraftBegins

(* What an edit starts from: the draft as it is, or brought up to date.    *)
StartsFrom(d, row) ==
  /\ row \in DraftRows /\ row.status = draft[d].status /\ row.version = draft[d].version
  /\ row.status = "draft" => RoomFor(d, row.content, row.allotted)

LEMMA AsItIs ==
  ASSUME DraftInv, NEW d \in Drafts
  PROVE  StartsFrom(d, draft[d])
<1>1. draft[d] \in DraftRows
  BY DEF DraftInv, DraftsTypeOK, DraftRows
<1> QED
  BY <1>1, LiveHasRoom DEF DraftInv, StartsFrom

LEMMA BroughtUpToDate ==
  ASSUME DraftInv, focus = "invoices", NEW d \in Drafts
  PROVE  StartsFrom(d, Rebased(d))
<1>1. PICK c, old, base : c = sale[Draft[d]] /\ old = draft[d].allotted /\ base = draft[d]
  OBVIOUS
<1>2. /\ c \in Contents /\ Sale[c].total \in Nat /\ base \in DraftRows
      /\ old \in [AllKeys -> Nat] /\ base.total \in Nat /\ base.percent \in 1..100
  BY <1>1, DraftsTyped, ContentsTyped DEF DraftInv, SalesOk, DraftsTypeOK, DraftRows
<1>3. PICK room : room = [k \in AllKeys |-> IF QuantityIn(c, k) - Elsewhere(d, k) < 0 THEN 0
                                              ELSE QuantityIn(c, k) - Elsewhere(d, k)]
  OBVIOUS
<1>4. PICK total, target, allotted :
        /\ total = IF Sale[c].total > 0 THEN Sale[c].total ELSE base.total
        /\ target = IF Sale[c].total > 0 THEN Target(total, base.percent) ELSE base.target
        /\ allotted = [k \in AllKeys |-> IF old[k] < room[k] THEN old[k] ELSE room[k]]
  OBVIOUS
<1>5. Rebased(d) = [base EXCEPT !.content = c, !.total = total, !.target = target,
                                !.allotted = allotted]
  BY <1>1, <1>3, <1>4 DEF Rebased
<1>6. \A k \in AllKeys : Elsewhere(d, k) \in Nat /\ QuantityIn(c, k) \in Nat
  BY <1>2, ElsewhereIs, AllottedTyped, QuantityTyped DEF DraftInv
<1>7. allotted \in [AllKeys -> Nat] /\ Modest(d, c, allotted)
  <2>1. ASSUME NEW k \in AllKeys
        PROVE  /\ allotted[k] \in Nat
               /\ allotted[k] > 0 => allotted[k] + Elsewhere(d, k) <= QuantityIn(c, k)
    <3>1. PICK q, e : q = QuantityIn(c, k) /\ e = Elsewhere(d, k)
      OBVIOUS
    <3>2. q \in Nat /\ e \in Nat /\ old[k] \in Nat
      BY <1>2, <1>6, <3>1
    <3>3. room[k] = IF q - e < 0 THEN 0 ELSE q - e
      BY <1>3, <3>1
    <3>4. allotted[k] = IF old[k] < room[k] THEN old[k] ELSE room[k]
      BY <1>4
    <3>5. allotted[k] \in Nat /\ (allotted[k] > 0 => allotted[k] + e <= q)
      BY <3>2, <3>3, <3>4
    <3> QED
      BY <3>1, <3>5
  <2>2. allotted \in [AllKeys -> Nat]
    BY <1>4, <2>1
  <2> QED
    BY <2>1, <2>2 DEF Modest
<1>8. total \in Nat
  BY <1>2, <1>4
<1>9. target \in Nat
  BY <1>2, <1>4, <1>8, TargetTyped DEF DraftRows
<1>10. PICK row : row = Rebased(d)
  OBVIOUS
<1>11. /\ row \in DraftRows /\ row.content = c /\ row.allotted = allotted
       /\ row.status = base.status /\ row.version = base.version
  BY <1>2, <1>5, <1>7, <1>8, <1>9, <1>10 DEF DraftRows
<1>12. RoomFor(d, c, allotted)
  BY <1>2, <1>7, ModestHasRoom DEF DraftInv
<1> QED
  BY <1>1, <1>10, <1>11, <1>12 DEF StartsFrom

(* An edit that changed nothing but the version, and what else it says.    *)
LEMMA EditKeepsDrafts ==
  ASSUME DraftInv, focus = "invoices", focus' = focus, NEW s \in Sessions, NEW d \in Drafts,
         MayWork(s, d), NEW row \in DraftRows, NEW how, Edited(s, d, row, how),
         row.status = "draft" => RoomFor(d, row.content, row.allotted),
         how = "organized" => /\ Modest(d, row.content, row.allotted)
                              /\ Worth(row.content, row.allotted) <= row.target
  PROVE  DraftInv'
<1>1. PICK n : n = tx[s].seen.version + 1
  OBVIOUS
<1>2. n = draft[d].version + 1 /\ draft[d].version \in Nat
  BY <1>1 DEF MayWork, ClaimDraft, DraftInv, DraftsTypeOK
<1>3. PICK r : r = [row EXCEPT !.version = n]
  OBVIOUS
<1>4. /\ r \in DraftRows /\ r.version = n /\ r.status = row.status /\ r.content = row.content
      /\ r.allotted = row.allotted /\ r.target = row.target
  BY <1>2, <1>3 DEF DraftRows
<1>5. RowFits(d, r, how)
  BY <1>2, <1>4 DEF RowFits
<1>6. /\ tx' = [tx EXCEPT ![s] = Saves(s, d, r, how)] /\ UNCHANGED <<draft, sale>>
      /\ Free(s, {SaleRow(Draft[d]), DraftRow(d)})
  BY <1>1, <1>3 DEF Edited, MayWork
<1> QED
  BY <1>4, <1>5, <1>6, Saving

LEMMA PatchKeepsDrafts ==
  ASSUME DraftInv, focus = "invoices", focus' = focus, NEW s \in Sessions, NEW d \in Drafts,
         NEW ack \in BOOLEAN, NEW key \in AllKeys, NEW quantity \in Nat,
         PatchDraft(s, d, ack, key, quantity)
  PROVE  DraftInv'
<1>1. PICK row : row = IF tx[s].seen.content # sale[Draft[d]] THEN Rebased(d) ELSE draft[d]
  OBVIOUS
<1>2. StartsFrom(d, row)
  BY <1>1, AsItIs, BroughtUpToDate
<1>3. PICK r : r = [row EXCEPT !.allotted[key] = quantity]
  OBVIOUS
<1>4. /\ MayWork(s, d) /\ Edited(s, d, r, "patched")
      /\ quantity <= QuantityIn(row.content, key) - Elsewhere(d, key)
  BY <1>1, <1>3 DEF PatchDraft
<1>5. /\ row \in DraftRows /\ row.content \in Contents /\ row.allotted \in [AllKeys -> Nat]
  BY <1>2 DEF StartsFrom, DraftRows
<1>6. PICK allotted : allotted = [row.allotted EXCEPT ![key] = quantity]
  OBVIOUS
<1>7. /\ r \in DraftRows /\ r.status = row.status /\ r.content = row.content
      /\ r.allotted = allotted
  BY <1>3, <1>5, <1>6 DEF DraftRows
<1>8. ASSUME r.status = "draft"
      PROVE  RoomFor(d, r.content, r.allotted)
  <2>1. RoomFor(d, row.content, row.allotted)
    BY <1>2, <1>7, <1>8 DEF StartsFrom
  <2>2. ASSUME NEW k \in AllKeys
        PROVE  allotted[k] + AllottedIn(Alike(d, row.content), k) <= QuantityIn(row.content, k)
    <3>1. PICK a, e, q : /\ a = AllottedIn(Alike(d, row.content), k) /\ e = Elsewhere(d, k)
                         /\ q = QuantityIn(row.content, k)
      OBVIOUS
    <3>2. a \in Nat /\ a <= e /\ e \in Nat /\ q \in Nat
      BY <1>5, <3>1, AlikeIsLive, QuantityTyped DEF DraftInv
    <3>3. CASE k = key
      <4>1. allotted[k] = quantity /\ quantity <= q - e
        BY <1>4, <1>5, <1>6, <3>1, <3>3
      <4> QED
        BY <3>1, <3>2, <4>1
    <3>4. CASE k # key
      <4>1. allotted[k] = row.allotted[k]
        BY <1>5, <1>6, <3>4
      <4> QED
        BY <2>1, <4>1 DEF RoomFor
    <3> QED
      BY <3>3, <3>4
  <2> QED
    BY <1>7, <2>2 DEF RoomFor
<1> QED
  BY <1>4, <1>7, <1>8, EditKeepsDrafts

LEMMA PercentKeepsDrafts ==
  ASSUME DraftInv, focus = "invoices", focus' = focus, NEW s \in Sessions, NEW d \in Drafts,
         NEW ack \in BOOLEAN, NEW percent \in Percents, PatchPercent(s, d, ack, percent)
  PROVE  DraftInv'
<1>1. PICK row : row = IF tx[s].seen.content # sale[Draft[d]] THEN Rebased(d) ELSE draft[d]
  OBVIOUS
<1>2. StartsFrom(d, row)
  BY <1>1, AsItIs, BroughtUpToDate
<1>3. PICK target : target = Target(row.total, percent)
  OBVIOUS
<1>4. PICK r : r = [row EXCEPT !.percent = percent, !.target = target]
  OBVIOUS
<1>5. MayWork(s, d) /\ Edited(s, d, r, "patched")
  BY <1>1, <1>3, <1>4 DEF PatchPercent
<1>6. row \in DraftRows /\ row.total \in Nat /\ percent \in 1..100
  BY <1>2, DraftsTyped DEF StartsFrom, DraftRows
<1>7. target \in Nat
  BY <1>3, <1>6, TargetTyped
<1>8. /\ r \in DraftRows /\ r.status = row.status /\ r.content = row.content
      /\ r.allotted = row.allotted
  BY <1>4, <1>6, <1>7 DEF DraftRows
<1>9. r.status = "draft" => RoomFor(d, r.content, r.allotted)
  BY <1>2, <1>8 DEF StartsFrom
<1> QED
  BY <1>5, <1>8, <1>9, EditKeepsDrafts

LEMMA OrganizeKeepsDrafts ==
  ASSUME DraftInv, focus = "invoices", focus' = focus, NEW s \in Sessions, NEW d \in Drafts,
         NEW up \in BOOLEAN, OrganizeDraft(s, d, up)
  PROVE  DraftInv'
<1>1. PICK row, allotted :
        row = draft[d] /\ allotted = OrganizedDraft(d, row.content, row.target, up)
  OBVIOUS
<1>2. PICK r : r = [row EXCEPT !.allotted = allotted]
  OBVIOUS
<1>3. MayWork(s, d) /\ Edited(s, d, r, "organized")
  BY <1>1, <1>2 DEF OrganizeDraft
<1>4. row \in DraftRows /\ row.content \in Contents /\ row.target \in Nat
  BY <1>1, AsItIs DEF StartsFrom, DraftRows
<1>5. PICK c, target : c = row.content /\ target = row.target
  OBVIOUS
<1>6. /\ allotted \in [AllKeys -> Nat] /\ Modest(d, c, allotted) /\ Worth(c, allotted) <= target
  <2>1. c \in Contents /\ target \in Nat /\ allotted = OrganizedDraft(d, c, target, up)
    BY <1>1, <1>4, <1>5
  <2> QED
    BY <2>1, OrganizedDraftFits DEF DraftInv
<1>7. r \in DraftRows /\ r.content = c /\ r.allotted = allotted /\ r.target = target
  BY <1>2, <1>4, <1>5, <1>6 DEF DraftRows
<1>8. RoomFor(d, c, allotted)
  BY <1>4, <1>5, <1>6, ModestHasRoom DEF DraftInv
<1> QED
  BY <1>3, <1>6, <1>7, <1>8, EditKeepsDrafts

LEMMA CancelKeepsDrafts ==
  ASSUME DraftInv, focus = "invoices", focus' = focus, NEW s \in Sessions, NEW d \in Drafts,
         CancelDraft(s, d)
  PROVE  DraftInv'
<1>1. PICK row : row = draft[d]
  OBVIOUS
<1>2. PICK r : r = [row EXCEPT !.status = "cancelled"]
  OBVIOUS
<1>3. MayWork(s, d) /\ Edited(s, d, r, "cancelled")
  BY <1>1, <1>2 DEF CancelDraft
<1>4. row \in DraftRows
  BY <1>1, AsItIs DEF StartsFrom
<1>5. r \in DraftRows /\ r.status = "cancelled"
  BY <1>2, <1>4 DEF DraftRows
<1> QED
  BY <1>3, <1>5, EditKeepsDrafts

-----------------------------------------------------------------------------
(* A request commits *)

(* The row of draft d is written, and no other.                            *)
WritesDraft(d, row) ==
  /\ draft'[d] = row /\ \A e \in Drafts \ {d} : draft'[e] = draft[e]
  /\ draft' = [e \in Drafts |-> draft'[e]]

LEMMA RowWritten ==
  ASSUME DraftsTypeOK, NEW d \in Drafts, NEW row, draft' = Written(draft, OneRow(d, row))
  PROVE  WritesDraft(d, row)
<1>1. DOMAIN draft = Drafts
  BY DEF DraftsTypeOK
<1>2. draft' = [e \in Drafts |-> IF e = d THEN row ELSE draft[e]]
  BY <1>1 DEF Written, OneRow
<1> QED
  BY <1>2 DEF WritesDraft

LEMMA OthersOfOrderRest ==
  ASSUME DraftsTypeOK, NEW d \in Drafts, NEW row, WritesDraft(d, row), NEW e \in Drafts,
         e = d \/ Draft[e] # Draft[d]
  PROVE  OthersRest(e)
<1>1. \A f \in Drafts : f # e /\ Draft[f] = Draft[e] => draft'[f] = draft[f]
  BY DEF WritesDraft
<1> QED
  BY <1>1 DEF OthersRest, OtherDrafts

LEMMA WrittenTyped ==
  ASSUME DraftsTypeOK, NEW d \in Drafts, NEW row \in DraftRows, WritesDraft(d, row)
  PROVE  DraftsTypeOK'
<1>1. \A e \in Drafts : draft[e] \in DraftRows
  BY DEF DraftsTypeOK, DraftRows
<1>2. \A e \in Drafts : draft'[e] \in DraftRows
  BY <1>1 DEF WritesDraft
<1>3. draft' = [e \in Drafts |-> draft'[e]]
  BY DEF WritesDraft
<1>4. draft' \in [Drafts -> DraftRows]
  BY <1>2, <1>3
<1> QED
  BY <1>4 DEF DraftsTypeOK, DraftRows

LEMMA WrittenNotTwice ==
  ASSUME DraftsTypeOK, NotTwice, NEW d \in Drafts, NEW row \in DraftRows, WritesDraft(d, row),
         row.status = "draft" => RoomFor(d, row.content, row.allotted)
  PROVE  NotTwice'
<1>1. PICK N : N = draft'
  OBVIOUS
<1>2. N[d] = row /\ \A e \in Drafts \ {d} : N[e] = draft[e]
  BY <1>1 DEF WritesDraft
<1>3. ASSUME NEW o \in Sales, NEW c \in Contents, NEW k \in AllKeys
      PROVE  AllottedIn(LiveOf(o, c), k)' <= QuantityIn(c, k)
  <2>1. PICK A : A = LiveOf(o, c) \ {d}
    OBVIOUS
  <2>2. /\ A \in SUBSET Drafts /\ A \in SUBSET LiveOf(o, c) /\ LiveOf(o, c) \in SUBSET Drafts
        /\ \A e \in A : N[e] = draft[e]
    BY <1>2, <2>1 DEF LiveOf, LiveDrafts
  <2>3. AllottedIn(A, k) \in Nat
    BY <2>2, AllottedTyped
  <2>4. AllottedIn(A, k) <= QuantityIn(c, k)
    <3>1. AllottedIn(A, k) <= AllottedIn(LiveOf(o, c), k)
      BY <2>2, AllottedLess
    <3>2. AllottedIn(LiveOf(o, c), k) \in Nat
      BY <2>2, AllottedTyped
    <3>3. AllottedIn(LiveOf(o, c), k) <= QuantityIn(c, k) /\ QuantityIn(c, k) \in Nat
      BY QuantityTyped DEF NotTwice
    <3> QED
      BY <2>3, <3>1, <3>2, <3>3
  <2>5. PICK L : L = LiveOf(o, c)'
    OBVIOUS
  <2>6. L = {e \in Drafts : Draft[e] = o /\ N[e].status = "draft" /\ N[e].content = c}
    BY <1>1, <2>5 DEF LiveOf, LiveDrafts
  <2>7. L \ {d} = A
    BY <1>2, <2>1, <2>6 DEF LiveOf, LiveDrafts
  <2>8. AllottedIn(LiveOf(o, c), k)' = SumFunction([e \in L |-> N[e].allotted[k]])
    BY <1>1, <2>5 DEF AllottedIn
  <2>9. CASE d \notin L
    <3>1. L = A
      BY <2>7, <2>9
    <3>2. [e \in L |-> N[e].allotted[k]] = [e \in A |-> draft[e].allotted[k]]
      BY <2>2, <3>1
    <3>3. SumFunction([e \in L |-> N[e].allotted[k]]) = AllottedIn(A, k)
      BY <3>2 DEF AllottedIn
    <3> QED
      BY <2>4, <2>8, <3>3
  <2>10. CASE d \in L
    <3>1. Draft[d] = o /\ row.status = "draft" /\ row.content = c
      BY <1>2, <2>6, <2>10
    <3>2. A = Alike(d, c)
      BY <2>1, <3>1 DEF Alike, OtherDrafts, LiveOf, LiveDrafts
    <3>3. row.allotted[k] + AllottedIn(A, k) <= QuantityIn(c, k)
      BY <3>1, <3>2 DEF RoomFor
    <3>4. L = A \cup {d} /\ d \notin A
      BY <2>1, <2>7, <2>10
    <3>5. PICK f, g : /\ f = [e \in A |-> draft[e].allotted[k]]
                      /\ g = [e \in A \cup {d} |-> N[e].allotted[k]]
      OBVIOUS
    <3>6. IsFiniteSet(A)
      BY <2>2, AllottedTyped
    <3>7. f \in [A -> Int]
      BY <2>2, <3>5 DEF DraftsTypeOK
    <3>8. g[d] = row.allotted[k] /\ row.allotted[k] \in Nat
      BY <1>2, <3>5 DEF DraftRows
    <3>9. \A e \in A : g[e] = f[e]
      BY <2>2, <3>5
    <3>10. g \in [A \cup {d} -> Int]
      <4>1. \A e \in A \cup {d} : g[e] \in Int
        BY <3>7, <3>8, <3>9
      <4> QED
        BY <3>5, <4>1
    <3>11. d \notin A
      BY <3>4
    <3>12. SumFunction(g) = SumFunction(f) + g[d]
      BY <3>6, <3>7, <3>9, <3>10, <3>11, SumJoin
    <3>13. SumFunction(f) = AllottedIn(A, k)
      BY <3>5 DEF AllottedIn
    <3>14. AllottedIn(LiveOf(o, c), k)' = SumFunction(g)
      BY <2>8, <3>4, <3>5
    <3> QED
      BY <2>3, <3>3, <3>8, <3>12, <3>13, <3>14
  <2> QED
    BY <2>9, <2>10
<1> QED
  BY <1>3 DEF NotTwice

(* What the request that commits writes.                                   *)
LEMMA CommitWrites ==
  ASSUME DraftInv, focus = "invoices", NEW s \in Sessions, CommitDraft(s)
  PROVE  \E d \in Drafts, row \in DraftRows :
           /\ tx[s].draft = OneRow(d, row) /\ SaleRow(Draft[d]) \in tx[s].locks
           /\ RowFits(d, row, tx[s].how) /\ WritesDraft(d, row)
<1>1. PICK x : x = tx[s]
  OBVIOUS
<1>2. x.do = "draft" /\ draft' = Written(draft, x.draft)
  BY <1>1 DEF CommitDraft
<1>3. PICK d \in Drafts, row \in DraftRows :
        /\ x.draft = OneRow(d, row) /\ SaleRow(Draft[d]) \in x.locks
        /\ RowFits(d, row, x.how)
  BY <1>1, <1>2 DEF DraftInv, DraftFits
<1>4. WritesDraft(d, row)
  BY <1>2, <1>3, RowWritten DEF DraftInv
<1> QED
  BY <1>1, <1>3, <1>4

LEMMA CommitKeepsDrafts ==
  ASSUME DraftInv, focus = "invoices", focus' = focus, NEW s \in Sessions, CommitDraft(s)
  PROVE  DraftInv'
<1>1. PICK d \in Drafts, row \in DraftRows :
        /\ tx[s].draft = OneRow(d, row) /\ SaleRow(Draft[d]) \in tx[s].locks
        /\ RowFits(d, row, tx[s].how) /\ WritesDraft(d, row)
  BY CommitWrites
<1>2. DraftsTypeOK'
  BY <1>1, WrittenTyped DEF DraftInv
<1>3. NotTwice'
  <2>1. row.status = "draft" => RoomFor(d, row.content, row.allotted)
    BY <1>1 DEF RowFits
  <2> QED
    BY <1>1, <2>1, WrittenNotTwice DEF DraftInv
<1>4. SalesOk'
  BY DEF CommitDraft, DraftInv, SalesOk
<1>5. tx = [u \in Sessions |-> tx[u]] /\ tx' = [tx EXCEPT ![s] = NoTransaction]
  BY DEF DraftInv, CommitDraft, Commits
<1>6. tx'[s] = NoTransaction /\ \A u \in Sessions \ {s} : tx'[u] = tx[u]
  BY <1>5
<1>7. tx' = [u \in Sessions |-> tx'[u]]
  BY <1>5
<1>8. ASSUME NEW u \in Sessions, NEW v \in Sessions, u # v
      PROVE  tx'[u].locks \cap tx'[v].locks = {}
  BY <1>6, <1>8 DEF DraftInv, NoTransaction
<1>9. ASSUME NEW u \in Sessions, tx'[u].do = "draft"
      PROVE  DraftFits(tx[u])'
  <2>1. u # s /\ tx'[u] = tx[u]
    BY <1>6, <1>9 DEF NoTransaction
  <2>2. PICK x : x = tx[u]
    OBVIOUS
  <2>3. PICK e \in Drafts, other \in DraftRows :
          /\ x.draft = OneRow(e, other) /\ SaleRow(Draft[e]) \in x.locks
          /\ RowFits(e, other, x.how)
    BY <1>9, <2>1, <2>2 DEF DraftInv, DraftFits
  <2>4. x.locks \cap tx[s].locks = {}
    BY <2>1, <2>2 DEF DraftInv
  <2>5. Draft[e] # Draft[d]
    BY <1>1, <2>3, <2>4 DEF SaleRow
  <2>6. OthersRest(e) /\ draft'[e] = draft[e]
    BY <1>1, <2>5, OthersOfOrderRest DEF DraftInv, WritesDraft
  <2>7. PICK how : how = x.how
    OBVIOUS
  <2>8. RowFits(e, other, how)
    BY <2>3, <2>7
  <2>9. RowFits(e, other, how)'
    BY <2>6, <2>8, FitsAsBefore
  <2>10. DraftFits(x)'
    BY <2>3, <2>7, <2>9 DEF DraftFits
  <2> QED
    BY <2>1, <2>2, <2>10
<1> QED
  BY <1>2, <1>3, <1>4, <1>7, <1>8, <1>9 DEF DraftInv

-----------------------------------------------------------------------------
(* Every step *)

LEMMA DraftsRestElsewhere ==
  ASSUME DraftInv, focus # "invoices", focus' = focus, UNCHANGED draft
  PROVE  DraftInv'
BY DraftsStand DEF DraftInv

LEMMA InvoicesKeepDrafts ==
  ASSUME DraftInv, focus = "invoices", focus' = focus, InvoicesNext
  PROVE  DraftInv'
<1>1. ASSUME NEW s \in Sessions, DraftStep(s)
      PROVE  DraftInv'
  <2>1. ASSUME NEW d \in Drafts, NEW ack \in BOOLEAN, NEW k \in AllKeys,
               NEW n \in 0..QuantityIn(sale[Draft[d]], k), PatchDraft(s, d, ack, k, n)
        PROVE  DraftInv'
    <3>1. QuantityIn(sale[Draft[d]], k) \in Nat
      BY DraftsTyped, QuantityTyped DEF DraftInv, SalesOk
    <3>2. n \in Nat
      BY <3>1
    <3> QED
      BY <2>1, <3>2, PatchKeepsDrafts
  <2> QED
    BY <1>1, <2>1, CreateKeepsDrafts, ReadKeepsDrafts, OrganizeKeepsDrafts, PercentKeepsDrafts,
       CancelKeepsDrafts, CommitKeepsDrafts DEF DraftStep
<1>2. ASSUME NEW o \in Sales, NEW c \in Contents, Resync(o, c), UNCHANGED draft
      PROVE  DraftInv'
  <2>1. SalesOk'
    BY <1>2 DEF Resync, DraftInv, SalesOk
  <2>2. DraftsTypeOK' /\ NotTwice'
    BY <1>2, DraftsStand DEF DraftInv
  <2>3. tx' = tx
    BY <1>2 DEF Resync
  <2>4. ASSUME NEW u \in Sessions, tx'[u].do = "draft"
        PROVE  DraftFits(tx[u])'
    <3>1. PICK y : y = tx'[u]
      OBVIOUS
    <3>2. DraftFits(y)
      BY <2>3, <2>4, <3>1 DEF DraftInv
    <3>3. DraftFits(y)'
      BY <1>2, <3>2, DraftFitsStill
    <3> QED
      BY <3>1, <3>3
  <2> QED
    BY <2>1, <2>2, <2>3, <2>4 DEF DraftInv
<1>3. ASSUME NEW s \in Sessions, RollsBack(s), UNCHANGED <<sale, draft>>
      PROVE  DraftInv'
  <2>1. PICK x : x = NoTransaction
    OBVIOUS
  <2>2. x.do # "draft" /\ Free(s, x.locks) /\ tx' = [tx EXCEPT ![s] = x]
    BY <1>3, <2>1 DEF RollsBack, NoTransaction, Free
  <2>3. SalesOk'
    BY <1>3 DEF DraftInv, SalesOk
  <2> QED
    BY <1>3, <2>2, <2>3, DraftBegins
<1> QED
  BY <1>1, <1>2, <1>3 DEF InvoicesNext, OrderChanges, GivesUp

LEMMA StepKeepsDrafts ==
  ASSUME DraftInv, [ServicesNext]_services
  PROVE  DraftInv'
<1>1. focus' = focus
  BY DEF ServicesNext, services
<1>2. CASE focus # "invoices"
  <2>1. UNCHANGED draft
    BY <1>2 DEF ServicesNext, services
  <2> QED
    BY <1>1, <1>2, <2>1, DraftsRestElsewhere
<1>3. CASE focus = "invoices" /\ InvoicesNext
  BY <1>1, <1>3, InvoicesKeepDrafts
<1>4. CASE focus = "invoices" /\ UNCHANGED services
  <2>1. UNCHANGED <<draft, sale, tx>>
    BY <1>4 DEF services, ledgers
  <2>2. DraftsTypeOK' /\ NotTwice'
    BY <2>1, DraftsStand DEF DraftInv
  <2>3. ASSUME NEW u \in Sessions, tx'[u].do = "draft"
        PROVE  DraftFits(tx[u])'
    <3>1. PICK y : y = tx'[u]
      OBVIOUS
    <3>2. DraftFits(y)
      BY <1>4, <2>1, <2>3, <3>1 DEF DraftInv
    <3>3. DraftFits(y)'
      BY <2>1, <3>2, DraftFitsStill
    <3> QED
      BY <3>1, <3>3
  <2> QED
    BY <1>1, <2>1, <2>2, <2>3 DEF DraftInv, SalesOk
<1> QED
  BY <1>2, <1>3, <1>4 DEF ServicesNext

LEMMA DraftsBegin ==
  ASSUME ServicesInit
  PROVE  DraftInv
<1>1. DraftsTypeOK
  <2>1. PICK nothing : nothing = NothingAllotted
    OBVIOUS
  <2>2. nothing \in [AllKeys -> Nat]
    BY <2>1, NothingIsModest
  <2>3. \A d \in Drafts : FirstContent[Draft[d]] \in Contents
    BY DraftsTyped, ContentsTyped
  <2>4. draft = [d \in Drafts |->
                  [status |-> "absent", content |-> FirstContent[Draft[d]], version |-> 1,
                   total |-> 0, percent |-> 1, target |-> 0, allotted |-> nothing]]
    BY <2>1 DEF ServicesInit, DraftsInit
  <2> QED
    BY <2>2, <2>3, <2>4 DEF DraftsTypeOK
<1>2. NotTwice
  <2>1. ASSUME NEW o \in Sales, NEW c \in Contents, NEW k \in AllKeys
        PROVE  AllottedIn(LiveOf(o, c), k) <= QuantityIn(c, k)
    <3>1. LiveOf(o, c) = {}
      BY DEF ServicesInit, DraftsInit, LiveOf, LiveDrafts
    <3>2. PICK f : f = [e \in LiveOf(o, c) |-> draft[e].allotted[k]]
      OBVIOUS
    <3>3. DOMAIN f = {}
      BY <3>1, <3>2
    <3>4. SumFunction(f) = 0
      BY <3>3, SumOfNone
    <3> QED
      BY <3>2, <3>4, QuantityTyped DEF AllottedIn
  <2> QED
    BY <2>1 DEF NotTwice
<1>3. SalesOk
  BY ContentsTyped DEF ServicesInit, SalesInit, SalesOk, Sales
<1>4. tx = [s \in Sessions |-> NoTransaction]
  BY DEF ServicesInit, EmptyLedgers
<1> QED
  BY <1>1, <1>2, <1>3, <1>4 DEF DraftInv, NoTransaction

(* The documents of the orders and the requests about them are as the      *)
(* planning of invoices leaves them (invoice_drafts.py).                   *)
THEOREM DraftsHold == ServicesSpec => []DraftInv
<1>1. ServicesInit => DraftInv
  BY DraftsBegin
<1>2. DraftInv /\ [ServicesNext]_services => DraftInv'
  BY StepKeepsDrafts
<1> QED
  BY <1>1, <1>2, PTL DEF ServicesSpec

-----------------------------------------------------------------------------
(* Edits *)

EditSound ==
  \A d \in Drafts :
    (draft[d].status = "draft" /\ draft'[d] # draft[d]) =>
      /\ draft'[d].version = draft[d].version + 1
      /\ (\E s \in Sessions : /\ tx[s].do = "draft" /\ tx[s].how = "organized"
                              /\ d \in DOMAIN tx[s].draft /\ tx'[s] # tx[s])
           => FitsItsTarget(d)'

LEMMA OrganizedFitsStill ==
  ASSUME DraftInv, NEW d \in Drafts, NEW row \in DraftRows, WritesDraft(d, row),
         Modest(d, row.content, row.allotted), Worth(row.content, row.allotted) <= row.target
  PROVE  FitsItsTarget(d)'
<1>1. \A k : Elsewhere(d, k)' = Elsewhere(d, k)
  <2>1. OthersRest(d)
    BY OthersOfOrderRest DEF DraftInv
  <2> QED
    BY <2>1, RoomStays
<1>2. draft'[d] = row
  BY DEF WritesDraft
<1>3. \A k \in AllKeys : row.allotted[k] > 0 =>
         row.allotted[k] + Elsewhere(d, k)' <= QuantityIn(row.content, k)
  BY <1>1 DEF Modest
<1>4. PICK items : items = Sale[row.content].items
  OBVIOUS
<1>5. ValueOf(items, [i \in DOMAIN items |-> row.allotted[items[i].key]]) <= row.target
  BY <1>4 DEF Worth
<1> QED
  BY <1>2, <1>3, <1>4, <1>5 DEF FitsItsTarget

LEMMA StepEditsSoundly ==
  ASSUME DraftInv, [ServicesNext]_services
  PROVE  EditSound
<1>1. CASE UNCHANGED draft
  BY <1>1 DEF EditSound
<1>2. ASSUME NEW s \in Sessions, CommitDraft(s), focus = "invoices"
      PROVE  EditSound
  <2>1. PICK d \in Drafts, row \in DraftRows :
          /\ tx[s].draft = OneRow(d, row) /\ SaleRow(Draft[d]) \in tx[s].locks
          /\ RowFits(d, row, tx[s].how) /\ WritesDraft(d, row)
    BY <1>2, CommitWrites
  <2>2. \A u \in Sessions : tx'[u] # tx[u] => u = s
    BY <1>2 DEF CommitDraft, Commits, DraftInv
  <2>3. ASSUME NEW e \in Drafts, draft[e].status = "draft", draft'[e] # draft[e]
        PROVE  /\ draft'[e].version = draft[e].version + 1
               /\ (\E u \in Sessions : /\ tx[u].do = "draft" /\ tx[u].how = "organized"
                                       /\ e \in DOMAIN tx[u].draft /\ tx'[u] # tx[u])
                    => FitsItsTarget(e)'
    <3>1. e = d
      BY <2>1, <2>3 DEF WritesDraft
    <3>2. draft'[e].version = draft[e].version + 1
      BY <2>1, <2>3, <3>1 DEF WritesDraft, RowFits
    <3>3. ASSUME NEW u \in Sessions, tx[u].how = "organized", tx'[u] # tx[u]
          PROVE  FitsItsTarget(e)'
      <4>1. u = s
        BY <2>2, <3>3
      <4>2. /\ Modest(d, row.content, row.allotted)
            /\ Worth(row.content, row.allotted) <= row.target
        BY <2>1, <3>3, <4>1 DEF RowFits
      <4>3. FitsItsTarget(d)'
        BY <2>1, <4>2, OrganizedFitsStill
      <4> QED
        BY <3>1, <4>3
    <3> QED
      BY <3>2, <3>3
  <2> QED
    BY <2>3 DEF EditSound
<1>3. CASE focus = "invoices" /\ InvoicesNext
  <2>1. ASSUME NEW s \in Sessions, DraftStep(s), ~CommitDraft(s)
        PROVE  UNCHANGED draft
    BY <2>1 DEF DraftStep, CreateDraft, ReadDraft, CancelDraft, OrganizeDraft, PatchPercent,
                PatchDraft, Edited
  <2> QED
    BY <1>1, <1>2, <1>3, <2>1 DEF InvoicesNext, GivesUp, OrderChanges
<1> QED
  BY <1>1, <1>3 DEF ServicesNext, services

-----------------------------------------------------------------------------
(* Theorems *)

(* What an installment says it received is the payments that stand, never  *)
(* more than it is worth, and no money sits on a cancelled title, however  *)
(* payments, reversals, cancellations and reversed receipts overlap        *)
(* (settle, reverse, cancel_title, reverse_receipt).                       *)
THEOREM PaymentsAddUp == ServicesSpec => [](SettledIsPaid /\ CancelledOwesNothing)
<1>1. LedgerInv => SettledIsPaid /\ CancelledOwesNothing
  BY CancelledFromBooks DEF LedgerInv, MoneyInv, Books
<1> QED
  BY <1>1, LedgersHold, PTL

(* Nor does the status of a title ever disagree with its installments      *)
(* (finance.py:194), if each has some and they are worth something: an     *)
(* installment that the rounding left at nothing is never settled.         *)
THEOREM TitlesAlwaysAddUp ==
  ASSUME TitlesArePayable
  PROVE  ServicesSpec => []TitlesAddUp
<1>1. LedgerInv => TitlesAddUp
  BY TitlesFromBooks, CancelledFromBooks DEF LedgerInv, MoneyInv, Books, TitlesAddUp
<1> QED
  BY <1>1, LedgersHold, PTL

(* What is owed, received, returned and asked back of the sales agrees at  *)
(* every commit, an order has one active title at most, no refunds exceed  *)
(* their payment and a local reversal is real (order_finance.py,           *)
(* refunds.py).                                                            *)
THEOREM SaleMoneyAlwaysAddsUp == ServicesSpec => []SaleMoneyAddsUp
<1>1. LedgerInv => SaleMoneyAddsUp
  BY OneFromOrder, MoneyFromBooks, ReversalsAreReal
     DEF LedgerInv, MoneyInv, RefundInv, RefundsStand, SaleMoneyAddsUp
<1> QED
  BY <1>1, LedgersHold, PTL

(* The pages of the orders agree with themselves for their money and for   *)
(* their freight: each order is counted, found and shown in one state      *)
(* (state_provider and filter_provider of both services).                  *)
THEOREM PagesAlwaysAgree ==
  ASSUME TitlesArePayable
  PROVE  ServicesSpec => []PagesAgree
<1>1. LedgerInv => CountsAddUp
  BY CountsFromBooks DEF LedgerInv, MoneyInv
<1>2. ShippingInv => ShippingTypeOK
  BY DEF ShippingInv, ShippingTypeOK, QuoteRows
<1>3. CountsAddUp /\ ShippingTypeOK /\ FoundUnderItsState => PagesAgree
  BY DEF PagesAgree
<1> QED
  BY <1>1, <1>2, <1>3, LedgersHold, ShippingInvHolds, OrdersAreFound, PTL

(* The goods add up: no interleaving of issues, reversals, reservations    *)
(* and receipts promises goods that are not there, a cause counts once,    *)
(* an item received what the receipts that stand brought, and a reversed   *)
(* receipt left no payable and no movement behind (inventory.py,           *)
(* purchasing.py).                                                         *)
THEOREM GoodsAlwaysAddUp == ServicesSpec => []GoodsAddUp
<1>1. LedgerInv /\ GoodsInv => GoodsAddUp
  BY GoodsFromLedgers
<1> QED
  BY <1>1, LedgersHold, GoodsHold, PTL

(* An adjustment that is written leaves the balance at the quantity that   *)
(* was asked for, however the balance moved since it was read (adjust_to:  *)
(* never an increment in disguise).                                        *)
THEOREM AdjustmentsAreAbsolute == ServicesSpec => AdjustmentIsAbsolute
<1>1. ServicesInit => AdjustmentsWait
  BY DEF ServicesInit, EmptyLedgers, AdjustmentsWait, NoTransaction
<1>2. LedgerInv /\ GoodsInv /\ AdjustmentsWait /\ [ServicesNext]_services => AdjustmentsWait'
  BY AdjustmentsWaitStill
<1>3. LedgerInv /\ GoodsInv /\ AdjustmentsWait /\ [ServicesNext]_services => Adjusted
  BY StepAdjusts
<1>4. Adjusted => [\A a \in DOMAIN Adjustment :
                     (\E m \in movements' \ movements : m.key = <<"adjust", a>>)
                       => balance'[Adjustment[a].place].on_hand = Adjustment[a].to]_movements
  BY DEF Adjusted
<1> QED
  BY <1>1, <1>2, <1>3, <1>4, LedgersHold, GoodsHold, PTL DEF ServicesSpec, AdjustmentIsAbsolute

(* Whoever edits, organises, reviews or cancels, and however the order     *)
(* changes and changes back, the live drafts made from one content of an   *)
(* order never allot more of an item than that content has                 *)
(* (invoice_drafts.py: _claim, _rebase, _organize under the order's lock). *)
THEOREM DraftsNeverAllotTwice == ServicesSpec => []NeverAllottedTwice
<1>1. DraftInv => NeverAllottedTwice
  BY DEF DraftInv, NotTwice, NeverAllottedTwice, AllottedIn, LiveOf
<1> QED
  BY <1>1, DraftsHold, PTL

(* No edit of a live draft is lost: its version moves by one, written only *)
(* by who saw the version before; and an organised one comes out within    *)
(* its target and within what the others left (_claim, _organize).         *)
THEOREM DraftEditsAreSound == ServicesSpec => EditsAreSound
<1>1. DraftInv /\ [ServicesNext]_services => EditSound
  BY StepEditsSoundly
<1>2. EditSound =>
        [\A d \in Drafts :
           (draft[d].status = "draft" /\ draft'[d] # draft[d]) =>
             /\ draft'[d].version = draft[d].version + 1
             /\ (\E s \in Sessions : /\ tx[s].do = "draft" /\ tx[s].how = "organized"
                                     /\ d \in DOMAIN tx[s].draft /\ tx'[s] # tx[s])
                  => FitsItsTarget(d)']_draft
  BY DEF EditSound
<1> QED
  BY <1>1, <1>2, DraftsHold, PTL DEF ServicesSpec, EditsAreSound

===============================================================================
