---------------------------- MODULE MCErpServices ----------------------------
(* Instances of ErpServices for TLC. *)
EXTENDS ErpServices, TLC

CONSTANTS s1, s2, shelf, store, noplace, o1, bolts, nuts, r1, r2,
          l1, l2, n1, n2, n3, n4, y1, y2, y3, y4, a1, t1, h1,
          v1, t2, t3, f1, f2, f3, x1, x2, x3

MCSessions == {s1, s2}
MCSymmetry == Permutations(MCSessions)

(* Purchasing *)
MCItem == bolts :> [order |-> o1, quantity |-> 2]
       @@ nuts  :> [order |-> o1, quantity |-> 1]
MCReceipt ==
  r1 :> [order |-> o1, payable |-> TRUE,
         lines |-> <<[item |-> bolts, quantity |-> 1, place |-> shelf]>>]
  @@
  r2 :> [order |-> o1, payable |-> FALSE,
         lines |-> <<[item |-> bolts, quantity |-> 1, place |-> shelf],
                     [item |-> nuts, quantity |-> 1, place |-> noplace]>>]
(* One receipt with two lines of the same item. *)
MCSplitReceipt ==
  r1 :> [order |-> o1, payable |-> FALSE,
         lines |-> <<[item |-> bolts, quantity |-> 1, place |-> shelf],
                     [item |-> bolts, quantity |-> 1, place |-> shelf]>>]
MCAdjustment == a1 :> [place |-> shelf, to |-> 1]
MCTransfer == t1 :> [from |-> shelf, to |-> store, quantity |-> 1]
MCReservation == h1 :> [place |-> shelf, quantity |-> 1]

(* The payable of r1 in two installments; two titles of the sale v1. *)
MCInstallment == n1 :> [title |-> r1, amount |-> 1]
              @@ n2 :> [title |-> r1, amount |-> 2]
              @@ n3 :> [title |-> t2, amount |-> 2]
              @@ n4 :> [title |-> t3, amount |-> 2]
MCPayment == y1 :> [installment |-> n1, amount |-> 1]
          @@ y2 :> [installment |-> n2, amount |-> 1]
          @@ y3 :> [installment |-> n3, amount |-> 2]
          @@ y4 :> [installment |-> n3, amount |-> 1]
MCOrderTitles == v1 :> <<t2, t3>>
MCRefund == f1 :> [payment |-> y3, amount |-> 2]
         @@ f2 :> [payment |-> y3, amount |-> 1]
         @@ f3 :> [payment |-> y3, amount |-> 1]

(* The sale: two contents, and a cancellation of it. *)
MCSale ==
  "a" :> [kind |-> "order", complete |-> TRUE, customer |-> TRUE, total |-> 10,
          items |-> <<[key |-> "i", quantity |-> 2, total |-> 7],
                      [key |-> "j", quantity |-> 1, total |-> 3]>>]
  @@
  "b" :> [kind |-> "order", complete |-> TRUE, customer |-> TRUE, total |-> 4,
          items |-> <<[key |-> "i", quantity |-> 1, total |-> 4]>>]
  @@
  "c" :> [kind |-> "cancelled", complete |-> TRUE, customer |-> FALSE, total |-> 0,
          items |-> <<>>]
MCFirstContent == v1 :> "a"
MCQuote == 1 :> v1 @@ 2 :> v1
MCOption == x1 :> 1 @@ x2 :> 1 @@ x3 :> 2
MCBudget == [purchasing |-> 6, money |-> 7, shipping |-> 3, invoices |-> 4,
             access |-> 4]
MCDraft == 1 :> v1 @@ 2 :> v1

(* Receipts alone, and nothing of the others. *)
MCGoodsBudget == [purchasing |-> 4, money |-> 0, shipping |-> 0, invoices |-> 0,
                  access |-> 0]
None == [x \in {} |-> {}]

===============================================================================
