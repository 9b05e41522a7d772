----------------------------- MODULE MCDeployment -----------------------------
(***************************************************************************)
(* The documented deployment (render.yaml, docker-compose): the outbox and *)
(* the inbox of the ERP, and the jobs of the BI in the threads of its one  *)
(* web process; and its instances for TLC.  The parts share no row, so     *)
(* which of them moves is chosen at first (focus) and their state spaces   *)
(* add up instead of multiplying.                                          *)
(***************************************************************************)
EXTENDS Outbox, Inbox, RetailJobs, TLC

CONSTANT Parts   (* the parts of the deployment an instance is about *)

ASSUME PartsTyped == Parts \subseteq {"outbox", "inbox", "retail"}

VARIABLE focus   (* which part of the deployment this behaviour is about *)

deployment == <<focus, vars, inboxVars, retailVars>>

DeploymentInit == focus \in Parts /\ Init /\ InboxInit /\ RetailInit

OutboxMoves(A) == focus = "outbox" /\ A /\ UNCHANGED <<focus, inboxVars, retailVars>>
InboxMoves(A) == focus = "inbox" /\ A /\ UNCHANGED <<focus, vars, retailVars>>
RetailMoves(A) == focus = "retail" /\ A /\ UNCHANGED <<focus, vars, inboxVars>>

DeploymentNext == OutboxMoves(Next) \/ InboxMoves(InboxNext) \/ RetailMoves(RetailNext)

(* The scheduler runs the workers again and again and time passes; the web *)
(* process runs its threads, and the page that shows a job asks for its    *)
(* status.  Fairness is asked of each part as a whole, not of each member. *)
DeploymentFairness ==
  /\ \A w \in Workers : WF_deployment(OutboxMoves(Dispatch(w)))
  /\ WF_deployment(OutboxMoves(\E o \in Ops : LeaseExpires(o) \/ BecomesDue(o)))
  /\ WF_deployment(InboxMoves(\E w \in InboxWorkers : EmptyInbox(w)))
  /\ WF_deployment(RetailMoves(RetailWork))
  /\ WF_deployment(RetailMoves(RetailAnswers))

DeploymentSpec ==
  DeploymentInit /\ [][DeploymentNext]_deployment /\ DeploymentFairness

-----------------------------------------------------------------------------
(* Instances *)

CONSTANTS o1, o2, t1, orders, customers

(* Two cancellations of one order, asked for under two keys. *)
MCKind == o1 :> "cancel" @@ o2 :> "cancel"
(* A single update. *)
MCOneUpdate == o1 :> "update"

MCTarget == [o \in Ops |-> t1]

(* A batch of two resources, an event that raises each time, a body that   *)
(* is no JSON and an event outside the catalogue.                          *)
MCEvent ==
  "sold"  :> [keys |-> {orders, customers}, hasId |-> FALSE, body |-> "good"] @@
  "torn"  :> [keys |-> {orders}, hasId |-> TRUE, body |-> "poison"] @@
  "noise" :> [keys |-> {}, hasId |-> TRUE, body |-> "invalid"] @@
  "other" :> [keys |-> {}, hasId |-> FALSE, body |-> "good"]

===============================================================================
