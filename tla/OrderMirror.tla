----------------------------- MODULE OrderMirror -----------------------------
(***************************************************************************)
(* The BI's tables of orders: what the synchronisation stores of an order  *)
(* the origin sent (src/app/sync.py), with the header columns it derives   *)
(* from the lines, and the observations of shopping carts it leaves behind *)
(* (src/app/services/b2b_carts.py).  A nullable column or an absent field  *)
(* is a set of at most one element.                                        *)
(***************************************************************************)
EXTENDS Integers, Sequences, FiniteSetsExt, Functions

CONSTANTS
  BookOrders,   (* the orders of the origin *)
  Versions,     (* what the origin may send of each order, one content after another *)
  FirstDay,     (* model bounds: the days this instance lives through *)
  LastDay

ASSUME MirrorConstants ==
  /\ FirstDay \in Nat /\ LastDay \in Nat /\ FirstDay <= LastDay
  /\ DOMAIN Versions = BookOrders /\ IsFiniteSet(BookOrders)
(* A nullable column, and what the origin sends of a line and of an order. *)
Column(S) == \A x, y \in S : x = y
Amount(S) == Column(S) /\ S \subseteq Int
SentLine(item) ==
  /\ Column(item.good) /\ Amount(item.list) /\ Amount(item.net)
  /\ {item.quantity, item.subtotal, item.discount} \subseteq Int
  /\ item.excluded \in BOOLEAN
SentOrder(p) ==
  /\ {p.total, p.updated, p.discount} \subseteq Int
  /\ Amount(p.net) /\ Amount(p.gross) /\ Amount(p.discountValue)
  /\ Amount(p.issued) /\ Amount(p.created)
  /\ Column(p.buyer) /\ Column(p.seller) /\ Column(p.kind) /\ Column(p.b2b)
  /\ DOMAIN p.items = 1..Len(p.items) /\ Len(p.items) \in Nat
  /\ \A i \in DOMAIN p.items : SentLine(p.items[i])

ASSUME VersionsTyped ==
  \A o \in BookOrders : \A v \in DOMAIN Versions[o] : SentOrder(Versions[o][v])

VARIABLES
  book,         (* the orders table and the lines of each order: order -> row *)
  observed,     (* the b2b_cart_observations table *)
  today         (* the day it is *)

mirrorTables == <<book, observed, today>>

CANCELLED_ORDER_STATUSES == {"0", "5", "cancelled", "cancelado"}
QUOTE_ORDER_STATUSES == {"1", "orcamento", "budget", "quote"}
VALID_SALE_STATUSES == {"2", "pedido", "order"}

Coalesce(S, T) == IF S # {} THEN S ELSE T
The(S) == CHOOSE x \in S : TRUE
ValueOr(S, default) == IF S # {} THEN The(S) ELSE default
MaxOf2(a, b) == IF a > b THEN a ELSE b

(* The fields of two rows side by side.                                    *)
Joined(r, s) == [x \in DOMAIN r \cup DOMAIN s |-> IF x \in DOMAIN r THEN r[x] ELSE s[x]]

(* SQL's SUM of an expression over a set of rows, with 0 for no row.       *)
SumOver(S, value(_)) == SumFunction([x \in S |-> value(x)])

-----------------------------------------------------------------------------
(* The lines of a payload that are not marked as excluded.                 *)
Kept(items) == {i \in DOMAIN items : ~items[i].excluded}

PricesComplete(items) ==
  /\ Kept(items) # {}
  /\ \A i \in Kept(items) : items[i].list # {} /\ items[i].net # {}

DerivedDiscount(items) ==
  SumOver({i \in Kept(items) : items[i].list # {} /\ items[i].net # {}},
          LAMBDA i : MaxOf2((The(items[i].list) - The(items[i].net)) * items[i].quantity, 0))

NetTotal(p) == Coalesce(p.net, {p.total})

DiscountValue(p) ==
  Coalesce(p.discountValue,
           IF PricesComplete(p.items) THEN {DerivedDiscount(p.items)} ELSE {})

GrossTotal(p) ==
  Coalesce(p.gross,
           IF PricesComplete(p.items)
           THEN {The(NetTotal(p)) + DerivedDiscount(p.items)} ELSE {})

(* The row of one line: its price is the net one, else the list one.       *)
LineOf(item) ==
  LET unit == ValueOr(Coalesce(item.net, item.list), 0)
  IN [good |-> item.good, quantity |-> item.quantity, list |-> item.list,
      unit |-> unit, discount |-> item.discount, excluded |-> item.excluded,
      total |-> IF item.subtotal # 0 THEN item.subtotal ELSE item.quantity * unit]

(* The row of an order.  The type and the creation date keep what they     *)
(* were when the payload does not bring them.                              *)
RowOf(p, kind, created) ==
  [buyer |-> p.buyer, seller |-> p.seller, status |-> p.status, total |-> p.total,
   day |-> ValueOr(Coalesce(p.issued, p.created), p.updated),
   discount |-> p.discount,
   net |-> NetTotal(p), discountValue |-> DiscountValue(p), gross |-> GrossTotal(p),
   itemCount |-> Cardinality(Kept(p.items)),
   skuCount |-> Cardinality(UNION {p.items[i].good : i \in Kept(p.items)}),
   kind |-> Coalesce(p.kind, kind), created |-> Coalesce(p.created, created),
   updated |-> p.updated, b2b |-> p.b2b,
   items |-> [i \in DOMAIN p.items |-> LineOf(p.items[i])]]

-----------------------------------------------------------------------------
(* What distinguishes one observation of a cart from another.              *)
Fingerprint(o, row) ==
  [order |-> o, b2b |-> row.b2b, status |-> row.status, total |-> row.total,
   updated |-> row.updated]

(* An order that is no cart is observed only once it has been one; what    *)
(* was observed before is not observed again.                              *)
observe_cart(o, row) ==
  IF row.b2b # {} \/ \E seen \in observed : seen.order = o
  THEN observed \cup {Fingerprint(o, row)} ELSE observed

MirrorInit == book = << >> /\ observed = {} /\ today = FirstDay

(* The synchronisation stores what it was sent of one order.               *)
StoreOrder(o, p) ==
  /\ p.updated <= today
  /\ LET known == o \in DOMAIN book
         row == RowOf(p, IF known THEN book[o].kind ELSE {},
                         IF known THEN book[o].created ELSE {})
     IN /\ book' = [x \in DOMAIN book \cup {o} |-> IF x = o THEN row ELSE book[x]]
        /\ observed' = observe_cart(o, row)
  /\ UNCHANGED today

DayPasses ==
  /\ today < LastDay
  /\ today' = today + 1
  /\ UNCHANGED <<book, observed>>

-----------------------------------------------------------------------------
MirrorTypeOK ==
  /\ DOMAIN book \subseteq BookOrders
  /\ today \in FirstDay..LastDay
  /\ \A seen \in observed : seen.order \in DOMAIN book

(* The history of a cart ends with what the order is now: whatever became  *)
(* of it -- even that it is no cart any more -- was observed               *)
(* (b2b_carts.py:42-83).                                                   *)
HistoryIsCurrent ==
  \A o \in DOMAIN book :
    (book[o].b2b # {} \/ \E seen \in observed : seen.order = o)
      => Fingerprint(o, book[o]) \in observed

===============================================================================
