----------------------------- MODULE Transactions -----------------------------
(***************************************************************************)
(* What the local ledgers take from PostgreSQL: a request handler runs one *)
(* transaction (app/erp/db.py, app/erp/routers/idem.py), READ COMMITTED;   *)
(* the rows it wrote or read FOR UPDATE are locked until it ends, and what *)
(* it wrote is seen by the others only then, all of it or nothing: a row   *)
(* it inserts needs no lock.                                               *)
(***************************************************************************)
EXTENDS Integers, FiniteSets, Functions

CONSTANTS
  Sessions,     (* request handlers that may run at the same time *)
  MaxCommits    (* model bound: transactions that may commit *)

ASSUME CommitBound == MaxCommits \in Nat

VARIABLES
  tx,           (* what each handler's transaction read and will write *)
  commits       (* bounded number of transactions that committed *)

NoTransaction == [do |-> "none", locks |-> {}]

IsIdle(s) == tx[s] = NoTransaction

(* Nobody else's transaction has a lock on one of the rows.                *)
Free(s, rows) == \A t \in Sessions \ {s} : tx[t].locks \cap rows = {}

Starts(s, transaction) ==
  /\ IsIdle(s)
  /\ commits < MaxCommits
  /\ tx' = [tx EXCEPT ![s] = transaction]
  /\ UNCHANGED commits

Commits(s) ==
  /\ tx' = [tx EXCEPT ![s] = NoTransaction]
  /\ commits' = commits + 1

(* A refusal, a lost connection or a deadlock: nothing was written.        *)
RollsBack(s) ==
  /\ ~IsIdle(s)
  /\ tx' = [tx EXCEPT ![s] = NoTransaction]
  /\ UNCHANGED commits

(* A table after the rows of g were written to it.                         *)
Written(f, g) == [x \in DOMAIN f |-> IF x \in DOMAIN g THEN g[x] ELSE f[x]]

(* The table of one written row, and of none.                              *)
OneRow(x, value) == [y \in {x} |-> value]
NoRows == [y \in {} |-> {}]

===============================================================================
