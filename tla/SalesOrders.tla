----------------------------- MODULE SalesOrders -----------------------------
(***************************************************************************)
(* The mirrored sales orders as the local services see them: an order has  *)
(* a content, whose hash is its fingerprint, and the synchronisation       *)
(* replaces it whole (order and items in one transaction, holding the      *)
(* order's row).  Which local actions a content allows is said once        *)
(* (app/erp/services/order_rules.py).                                      *)
(***************************************************************************)
EXTENDS Transactions, Sequences

CONSTANTS
  Sale,          (* contents by fingerprint: [kind, complete, customer, total,
                    items], the items a sequence of [key, quantity, total] *)
  FirstContent   (* what each order holds at first *)

Contents == DOMAIN Sale
Sales == DOMAIN FirstContent

ASSUME ContentsTyped ==
  /\ \A c \in Contents : /\ Sale[c].kind \in {"order", "quote", "cancelled"}
                         /\ {Sale[c].complete, Sale[c].customer} \subseteq BOOLEAN
                         /\ Sale[c].total \in Nat
  /\ \A o \in Sales : FirstContent[o] \in Contents

VARIABLE sale    (* erp_sales_orders: the content of each order *)

SalesInit == sale = FirstContent

SaleRow(o) == <<"sale", o>>

(* A synchronised page brings another content; fingerprints may come back. *)
Resync(o, c) ==
  /\ c # sale[o]
  /\ commits < MaxCommits
  /\ \A t \in Sessions : SaleRow(o) \notin tx[t].locks
  /\ sale' = [sale EXCEPT ![o] = c]
  /\ commits' = commits + 1
  /\ UNCHANGED tx

-----------------------------------------------------------------------------
(* order_rules: what refuses an action                                     *)

Violates(c, reason) ==
  CASE reason = "cancelled"  -> Sale[c].kind = "cancelled"
    [] reason = "incomplete" -> ~Sale[c].complete
    [] reason = "total"      -> Sale[c].total = 0
    [] reason = "customer"   -> ~Sale[c].customer

ReasonsOf ==
  [shipping   |-> <<"cancelled", "incomplete">>,
   invoice    |-> <<"cancelled", "incomplete", "total">>,
   receivable |-> <<"cancelled", "customer">>]

Allowed(c, action) ==
  \A i \in DOMAIN ReasonsOf[action] : ~Violates(c, ReasonsOf[action][i])

===============================================================================
