------------------------------ MODULE JobBoard ------------------------------
(***************************************************************************)
(* What the persisted job queue (app/erp/queue.py) promises to those who   *)
(* ask for work: per kind of job (kind, resource and mode) at most one is  *)
(* active; asking again changes nothing; an active job waits or runs, may  *)
(* return to the line, and ends.  JobQueue implements it; the inbox of the *)
(* webhooks (Inbox) is composed with it.                                   *)
(***************************************************************************)

CONSTANT Keys        (* what makes two jobs equivalent *)

VARIABLE board       (* the active job of each key, if any *)

BoardInit == board = [k \in Keys |-> "none"]

BoardTypeOK == board \in [Keys -> {"none", "waiting", "running"}]

(* enqueue, once for each key of S, in one transaction.                    *)
Ask(S) ==
  board' = [k \in Keys |-> IF k \in S /\ board[k] = "none" THEN "waiting"
                                                           ELSE board[k]]

(* claim_next                                                              *)
Start(k) ==
  /\ board[k] = "waiting"
  /\ board' = [board EXCEPT ![k] = "running"]

(* finish with status queued, or release_expired, which releases several.  *)
GoBack(S) ==
  /\ \A k \in S : board[k] = "running"
  /\ board' = [k \in Keys |-> IF k \in S THEN "waiting" ELSE board[k]]

(* finish and cancel                                                       *)
End(k) ==
  /\ board[k] # "none"
  /\ board' = [board EXCEPT ![k] = "none"]

BoardNext ==
  \/ \E S \in SUBSET Keys : Ask(S) \/ GoBack(S)
  \/ \E k \in Keys : Start(k) \/ End(k)

BoardSpec == BoardInit /\ [][BoardNext]_board

===============================================================================
