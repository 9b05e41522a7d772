------------------------------ MODULE Inventory ------------------------------
(***************************************************************************)
(* The local stock ledger (app/erp/services/inventory.py): an immutable    *)
(* table of movements, one per cause, and balances that only a conditional *)
(* UPDATE changes.  A request first reads without locks, then writes.      *)
(***************************************************************************)
EXTENDS Transactions

CONSTANTS
  Places,         (* balances: one product in one warehouse *)
  Adjustment,     (* requests by idempotency key: [place, to] *)
  Transfer,       (* requests by idempotency key: [from, to, quantity] *)
  Reservation     (* requests by idempotency key: [place, quantity] *)

ASSUME ReservationsAreFinite == IsFiniteSet(DOMAIN Reservation)
ASSUME AdjustmentsTyped ==
  \A a \in DOMAIN Adjustment : Adjustment[a] \in [place : Places, to : Nat]
ASSUME TransfersTyped ==
  \A t \in DOMAIN Transfer :
    /\ Transfer[t] \in [from : Places, to : Places, quantity : Nat \ {0}]
    /\ Transfer[t].from # Transfer[t].to
ASSUME ReservationsTyped ==
  \A r \in DOMAIN Reservation :
    Reservation[r] \in [place : Places, quantity : Nat \ {0}]

VARIABLES
  authority,      (* erp_inventory_authority: who owns the official balance *)
  balance,        (* erp_inventory_balances *)
  movements,      (* erp_inventory_movements *)
  reservation     (* erp_inventory_reservations *)

stockTables == <<authority, balance, movements, reservation>>

InventoryInit ==
  /\ authority = "mercos"
  /\ balance = [p \in Places |-> [on_hand |-> 0, reserved |-> 0]]
  /\ movements = {}
  /\ reservation = [r \in DOMAIN Reservation |-> "none"]

-----------------------------------------------------------------------------
(* apply_movement *)

Movement(key, p, quantity, reserved) ==
  [key |-> key, place |-> p, quantity |-> quantity, reserved |-> reserved]

(* The first part of a causal key is the kind of the movement.             *)
Kind(m) == m.key[1]
REVERSIBLE_KINDS == {"receipt", "adjust"}
ReversalKey(key) == <<"reverse", key>>

Known(key) == \E m \in movements : m.key = key

TotalQuantity(moves) == SumFunction([m \in moves |-> m.quantity])
TotalReserved(moves) == SumFunction([m \in moves |-> m.reserved])
MovesAt(moves, p) == {m \in moves : m.place = p}

After(moves) ==
  [p \in Places |->
     [on_hand  |-> balance[p].on_hand + TotalQuantity(MovesAt(moves, p)),
      reserved |-> balance[p].reserved + TotalReserved(MovesAt(moves, p))]]

PlacesOf(moves) == {m.place : m \in moves}

(* Mutant: the UPDATE has no condition.                                    *)
BalancesUnchecked(moves) == TRUE

(* The condition of the UPDATE for each balance the moves touch.           *)
BalancesAllow(moves) ==
  \A p \in PlacesOf(moves) :
    LET b == After(moves)[p]
    IN b.on_hand >= 0 /\ b.reserved >= 0 /\ b.reserved <= b.on_hand

(* The unique causal key.                                                  *)
NoCauseRepeats(moves) == \A m \in moves : ~Known(m.key)

MovesAccepted(moves) == NoCauseRepeats(moves) /\ BalancesAllow(moves)

BalanceRows(moves) == {<<"balance", p>> : p \in PlacesOf(moves)}

-----------------------------------------------------------------------------
(* The requests: what each reads, and the moves it decides on *)

AnyBalance == -1

StockRequest(moves, expected, closing) ==
  [do |-> "stock", locks |-> {}, moves |-> moves, expected |-> expected,
   reservation |-> closing]

RequireErpAuthority == authority = "erp"

(* adjust_to: the difference to a balance read without a lock.             *)
AdjustRead(s, a) ==
  LET p    == Adjustment[a].place
      seen == balance[p].on_hand
      key  == <<"adjust", a>>
  IN /\ RequireErpAuthority
     /\ ~Known(key)
     /\ Starts(s, StockRequest(
                    {Movement(key, p, Adjustment[a].to - seen, 0)}, seen, NoRows))
     /\ UNCHANGED stockTables

TransferRead(s, t) ==
  LET out == Movement(<<"transfer_out", t>>, Transfer[t].from,
                      -Transfer[t].quantity, 0)
      in  == Movement(<<"transfer_in", t>>, Transfer[t].to,
                      Transfer[t].quantity, 0)
  IN /\ RequireErpAuthority
     /\ ~Known(out.key)
     /\ Starts(s, StockRequest({out, in}, AnyBalance, NoRows))
     /\ UNCHANGED stockTables

ReserveRead(s, r) ==
  /\ RequireErpAuthority
  /\ reservation[r] = "none"
  /\ Starts(s, StockRequest({Movement(<<"reserve", r>>, Reservation[r].place, 0,
                                      Reservation[r].quantity)},
                            AnyBalance, OneRow(r, "active")))
  /\ UNCHANGED stockTables

(* release needs no authority.                                             *)
ReleaseRead(s, r) ==
  /\ reservation[r] = "active"
  /\ Starts(s, StockRequest({Movement(<<"release", r>>, Reservation[r].place, 0,
                                      -Reservation[r].quantity)},
                            AnyBalance, OneRow(r, "released")))
  /\ UNCHANGED stockTables

Opposite(m) ==
  Movement(ReversalKey(m.key), m.place, -m.quantity, -m.reserved)

(* reverse_movement, asked for a movement by a person.                     *)
ReverseMovementRead(s, m) ==
  /\ RequireErpAuthority
  /\ Kind(m) \in REVERSIBLE_KINDS
  /\ ~Known(ReversalKey(m.key))
  /\ Starts(s, StockRequest({Opposite(m)}, AnyBalance, NoRows))
  /\ UNCHANGED stockTables

(* Mutant: an adjustment is an increment in disguise.                      *)
ExpectedAnything(request) == TRUE

ExpectedStillThere(request) ==
  request.expected # AnyBalance =>
    \A p \in PlacesOf(request.moves) : balance[p].on_hand = request.expected

(* The conditional UPDATE, the insertion of the movement and the commit.   *)
(* A request that is not accepted is answered 409 and rolls back.          *)
StockWrite(s) ==
  /\ tx[s].do = "stock"
  /\ Free(s, BalanceRows(tx[s].moves))
  /\ MovesAccepted(tx[s].moves)
  /\ ExpectedStillThere(tx[s])
  /\ balance' = After(tx[s].moves)
  /\ movements' = movements \cup tx[s].moves
  /\ reservation' = Written(reservation, tx[s].reservation)
  /\ Commits(s)
  /\ UNCHANGED authority

(* set_authority: the cutover to the ERP, or back.                         *)
SetAuthority ==
  /\ commits < MaxCommits
  /\ commits' = commits + 1
  /\ authority' = IF authority = "erp" THEN "mercos" ELSE "erp"
  /\ UNCHANGED <<tx, balance, movements, reservation>>

StockStep(s) ==
  \/ \E a \in DOMAIN Adjustment : AdjustRead(s, a)
  \/ \E t \in DOMAIN Transfer : TransferRead(s, t)
  \/ \E r \in DOMAIN Reservation : ReserveRead(s, r) \/ ReleaseRead(s, r)
  \/ \E m \in movements : ReverseMovementRead(s, m)
  \/ StockWrite(s)

-----------------------------------------------------------------------------
(* Properties *)

ActiveAt(p) ==
  {r \in DOMAIN Reservation : reservation[r] = "active" /\ Reservation[r].place = p}

(* No interleaving of issues, reversals and reservations promises goods    *)
(* that are not there, and what a balance reserves is what the active      *)
(* reservations hold: releasing one twice at the same time frees it once   *)
(* (inventory.py:3-6, the condition of apply_movement, release).           *)
ReservationsCovered ==
  \A p \in Places :
    /\ balance[p].reserved <= balance[p].on_hand
    /\ balance[p].reserved =
         SumFunction([r \in ActiveAt(p) |-> Reservation[r].quantity])

(* A balance is what its movements add up to: a cause that arrives twice,  *)
(* even at the same time, counts once (inventory.py:5-6, the unique        *)
(* causal key).                                                            *)
EveryCauseCountsOnce ==
  \A p \in Places :
    /\ balance[p].on_hand = TotalQuantity(MovesAt(movements, p))
    /\ balance[p].reserved = TotalReserved(MovesAt(movements, p))

(* An accepted adjustment leaves exactly the quantity that was asked for,  *)
(* whatever moved since the balance was read (adjust_to: never an          *)
(* increment in disguise).                                                 *)
AdjustmentIsAbsolute ==
  [][\A a \in DOMAIN Adjustment :
       (\E m \in movements' \ movements : m.key = <<"adjust", a>>)
         => balance'[Adjustment[a].place].on_hand = Adjustment[a].to]_movements

===============================================================================
