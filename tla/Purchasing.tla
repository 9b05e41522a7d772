------------------------------ MODULE Purchasing ------------------------------
(***************************************************************************)
(* Purchase orders and their receipts (app/erp/services/purchasing.py).    *)
(* A receipt, and its reversal, changes the items of the order, the stock  *)
(* and the account payable in one transaction.  The order itself is read   *)
(* without a lock when the request starts and written when it ends.        *)
(***************************************************************************)
EXTENDS Inventory, Finance, Sequences

CONSTANTS
  Item,         (* order items: [order, quantity] *)
  Receipt,      (* receipt requests by idempotency key:
                   [order, lines, payable], lines at least one of
                   [item, quantity, place], place NoPlace when the item has
                   no product; payable says that a title is asked for *)
  NoPlace

Items == DOMAIN Item
Receipts == DOMAIN Receipt
Orders == {Item[i].order : i \in Items}

ASSUME ReceiptsAreFinite == IsFiniteSet(Receipts)
ASSUME ItemsTyped == \A i \in Items : Item[i].quantity \in Nat \ {0}
ASSUME ReceiptsTyped ==
  \A r \in Receipts :
    /\ Receipt[r].order \in Orders
    /\ Receipt[r].payable \in BOOLEAN
    /\ Receipt[r].payable => r \in Titles
    /\ Receipt[r].lines \in Seq([item : Items, quantity : Nat \ {0},
                                 place : Places \cup {NoPlace}]) \ {<<>>}
    /\ \A n \in DOMAIN Receipt[r].lines :
         Item[Receipt[r].lines[n].item].order = Receipt[r].order
ASSUME NoPlaceIsNoBalance == NoPlace \notin Places

VARIABLES
  order,        (* erp_purchase_orders: the status *)
  received,     (* erp_purchase_order_items: received_quantity *)
  receipt       (* erp_purchase_receipts: none, received or reversed *)

orderTables == <<order, received, receipt>>
ledgers == <<tx, commits, authority, balance, movements, reservation, title,
             installment, payment, order, received, receipt>>

EmptyLedgers ==
  /\ InventoryInit
  /\ FinanceInit
  /\ order = [o \in Orders |-> "draft"]
  /\ received = [i \in Items |-> 0]
  /\ receipt = [r \in Receipts |-> "none"]
  /\ tx = [s \in Sessions |-> NoTransaction]

PurchasingInit == EmptyLedgers /\ commits = 0

ItemsOf(o) == {i \in Items : Item[i].order = o}

-----------------------------------------------------------------------------
(* approve, cancel: a status read, a status written *)

OrderRow(o) == <<"order", o>>

OrderRequest(o, status) ==
  [do |-> "order", locks |-> {}, order |-> OneRow(o, status)]

ApproveRead(s, o) ==
  /\ order[o] = "draft"
  /\ Starts(s, OrderRequest(o, "approved"))
  /\ UNCHANGED <<stockTables, moneyTables, orderTables>>

CancelRead(s, o) ==
  /\ order[o] \notin {"received", "cancelled"}
  /\ \A i \in ItemsOf(o) : received[i] = 0
  /\ Starts(s, OrderRequest(o, "cancelled"))
  /\ UNCHANGED <<stockTables, moneyTables, orderTables>>

OrderWrite(s) ==
  /\ tx[s].do = "order"
  /\ order' = Written(order, tx[s].order)
  /\ Commits(s)
  /\ UNCHANGED <<stockTables, moneyTables, received, receipt>>

-----------------------------------------------------------------------------
(* receive *)

Lines(r) == Receipt[r].lines
LinesOf(r, i) == {n \in DOMAIN Lines(r) : Lines(r)[n].item = i}
ItemsIn(r) == {Lines(r)[n].item : n \in DOMAIN Lines(r)}
QuantityOf(r, i) == SumFunction([n \in LinesOf(r, i) |-> Lines(r)[n].quantity])

ReceiptKey(r, i) == <<"receipt", r, i>>

(* receive_stock, line by line: the causal key of a line is its item, so   *)
(* a second line of an item finds its cause already applied.               *)
ReceiptMoves(r) ==
  {Movement(ReceiptKey(r, Lines(r)[n].item), Lines(r)[n].place,
            Lines(r)[n].quantity, 0) :
     n \in {k \in DOMAIN Lines(r) :
              /\ Lines(r)[k].place # NoPlace
              /\ \A j \in LinesOf(r, Lines(r)[k].item) : k <= j}}

ItemRows(r) == {<<"item", i>> : i \in ItemsIn(r)}
ReceiptRow(r) == <<"receipt", r>>

ReceiveRead(s, r) ==
  /\ receipt[r] = "none"
  /\ order[Receipt[r].order] \in {"approved", "partially_received"}
  /\ Starts(s, [do |-> "receive", locks |-> {}, receipt |-> r,
                seen |-> order[Receipt[r].order]])
  /\ UNCHANGED <<stockTables, moneyTables, orderTables>>

(* A status that does not change is not written again (the session sends   *)
(* changed columns only).                                                  *)
StatusChange(o, seen, status) ==
  IF status = seen THEN NoRows ELSE OneRow(o, status)

ReceivedStatus(o, quantities) ==
  IF \E i \in ItemsOf(o) : quantities[i] < Item[i].quantity
    THEN "partially_received" ELSE "received"

WithinOrdered(r) ==
  \A i \in ItemsIn(r) : received[i] + QuantityOf(r, i) <= Item[i].quantity

(* The lines and the check for what is still pending; the rows they touch  *)
(* stay locked until the commit.                                           *)
ReceiveWork(s) ==
  LET r     == tx[s].receipt
      o     == Receipt[r].order
      moves == IF authority = "erp" THEN ReceiptMoves(r) ELSE {}
      items == [i \in ItemsIn(r) |-> received[i] + QuantityOf(r, i)]
      locks == ItemRows(r) \cup BalanceRows(moves)
      status == ReceivedStatus(o, Written(received, items))
  IN /\ tx[s].do = "receive"
     /\ Free(s, locks)
     /\ receipt[r] = "none"
     /\ WithinOrdered(r)
     /\ MovesAccepted(moves)
     /\ tx' = [tx EXCEPT ![s] =
          [do |-> "commit", locks |-> locks, moves |-> moves, items |-> items,
           order |-> StatusChange(o, tx[s].seen, status),
           receipt |-> OneRow(r, "received"),
           title |-> IF Receipt[r].payable THEN OneRow(r, "open") ELSE NoRows]]
     /\ UNCHANGED <<commits, stockTables, moneyTables, orderTables>>

-----------------------------------------------------------------------------
(* reverse_receipt *)

ReverseReceiptRead(s, r) ==
  /\ receipt[r] = "received"
  /\ Starts(s, [do |-> "reverse_receipt", locks |-> {}, receipt |-> r,
                seen |-> order[Receipt[r].order]])
  /\ UNCHANGED <<stockTables, moneyTables, orderTables>>

(* Mutant: the receipt is only read.                                       *)
ClaimReversalUnchecked(r) == TRUE

(* The conditional UPDATE of reversed_at.                                  *)
ClaimReversal(r) == receipt[r] = "received"

HasPayable(r) == r \in Titles /\ title[r] \notin {"absent", "cancelled"}

(* cancel_title of the receipt's payable, refused when it has money.       *)
PayableCanGo(r) == HasPayable(r) => ~HasMoney(r)
PayableGone(r) == IF HasPayable(r) THEN OneRow(r, "cancelled") ELSE NoRows

(* reverse_movement for each movement of the receipt that is still there,  *)
(* whoever owns the balance now.                                           *)
ReceiptReversals(r) ==
  {Opposite(m) : m \in {n \in movements :
      /\ \E i \in ItemsIn(r) : n.key = ReceiptKey(r, i)
      /\ ~Known(ReversalKey(n.key))}}

ReversedStatus(o, quantities) ==
  IF \A i \in ItemsOf(o) : quantities[i] = 0
    THEN "approved" ELSE ReceivedStatus(o, quantities)

ReverseReceiptWork(s) ==
  LET r      == tx[s].receipt
      o      == Receipt[r].order
      moves  == ReceiptReversals(r)
      items  == [i \in ItemsIn(r) |-> received[i] - QuantityOf(r, i)]
      locks  == {ReceiptRow(r)} \cup ItemRows(r) \cup BalanceRows(moves)
                  \cup (IF HasPayable(r) THEN {TitleRow(r)} ELSE {})
      status == ReversedStatus(o, Written(received, items))
  IN /\ tx[s].do = "reverse_receipt"
     /\ Free(s, locks)
     /\ ClaimReversal(r)
     /\ PayableCanGo(r)
     /\ \A i \in ItemsIn(r) : items[i] >= 0
     /\ MovesAccepted(moves)
     /\ tx' = [tx EXCEPT ![s] =
          [do |-> "commit", locks |-> locks, moves |-> moves, items |-> items,
           order |-> StatusChange(o, tx[s].seen, status),
           receipt |-> OneRow(r, "reversed"), title |-> PayableGone(r)]]
     /\ UNCHANGED <<commits, stockTables, moneyTables, orderTables>>

-----------------------------------------------------------------------------
(* The commit of both: all the ledgers at once *)

CommitReceipt(s) ==
  /\ tx[s].do = "commit"
  /\ order' = Written(order, tx[s].order)
  /\ received' = Written(received, tx[s].items)
  /\ receipt' = Written(receipt, tx[s].receipt)
  /\ title' = Written(title, tx[s].title)
  /\ balance' = After(tx[s].moves)
  /\ movements' = movements \cup tx[s].moves
  /\ Commits(s)
  /\ UNCHANGED <<authority, reservation, installment, payment>>

Rollback(s) ==
  /\ RollsBack(s)
  /\ UNCHANGED <<stockTables, moneyTables, orderTables>>

OrderStep(s) ==
  \/ \E o \in Orders : ApproveRead(s, o) \/ CancelRead(s, o)
  \/ \E r \in Receipts : ReceiveRead(s, r) \/ ReverseReceiptRead(s, r)
  \/ OrderWrite(s) \/ ReceiveWork(s) \/ ReverseReceiptWork(s)
  \/ CommitReceipt(s) \/ Rollback(s)

PurchasingNext ==
  \/ \E s \in Sessions :
       \/ OrderStep(s)
       \/ StockStep(s) /\ UNCHANGED <<moneyTables, orderTables>>
       \/ MoneyStep(s) /\ UNCHANGED <<stockTables, orderTables>>
  \/ SetAuthority /\ UNCHANGED <<moneyTables, orderTables>>

PurchasingSpec == PurchasingInit /\ [][PurchasingNext]_ledgers

-----------------------------------------------------------------------------
(* Properties *)

OrderStatuses ==
  {"draft", "approved", "partially_received", "received", "cancelled"}

LedgersTypeOK ==
  /\ authority \in {"mercos", "erp"}
  /\ balance \in [Places -> [on_hand : Nat, reserved : Nat]]
  /\ reservation \in [DOMAIN Reservation -> {"none", "active", "released"}]
  /\ title \in [Titles ->
       {"absent", "open", "partially_settled", "settled", "cancelled"}]
  /\ installment \in [Installments ->
       [settled : Nat, status : {"open", "partial", "settled"}]]
  /\ payment \in [Payments -> {"none", "paid", "reversed"}]
  /\ order \in [Orders -> OrderStatuses]
  /\ received \in [Items -> Nat]
  /\ receipt \in [Receipts -> {"none", "received", "reversed"}]

Standing == {r \in Receipts : receipt[r] = "received"}

(* What an order item says it received is what the receipts that stand     *)
(* brought, and never more than was ordered, however receipts and their    *)
(* reversals overlap (the conditional UPDATEs of receive and               *)
(* reverse_receipt).                                                       *)
ReceivedMatchesReceipts ==
  \A i \in Items :
    /\ received[i] <= Item[i].quantity
    /\ received[i] = SumFunction([r \in Standing |-> QuantityOf(r, i)])

(* A reversed receipt left nothing behind: its payable is cancelled and    *)
(* every movement it made has its opposite, even if a payment, an issue or *)
(* a second reversal raced with it (reverse_receipt: all or nothing).      *)
ReversalIsWhole ==
  \A r \in Receipts :
    receipt[r] = "reversed" =>
      /\ r \in Titles => title[r] \in {"absent", "cancelled"}
      /\ \A m \in movements :
           (\E i \in ItemsIn(r) : m.key = ReceiptKey(r, i))
             => Known(ReversalKey(m.key))

(* The goods add up: stock, reservations, orders and receipts agree at     *)
(* every commit (inventory.py, purchasing.py).                             *)
GoodsAddUp ==
  /\ LedgersTypeOK
  /\ ReservationsCovered /\ EveryCauseCountsOnce
  /\ ReceivedMatchesReceipts /\ ReversalIsWhole

(* When the ERP owns the balance, the goods a receipt declares enter the   *)
(* stock (purchasing.py:3-6).                                              *)
StockMatchesReceipts ==
  \A r \in Receipts : \A i \in ItemsIn(r) : \A m \in movements :
    m.key = ReceiptKey(r, i) => m.quantity = QuantityOf(r, i)

===============================================================================
