------------------------------- MODULE Inbox -------------------------------
(***************************************************************************)
(* The durable inbox of the Mercos webhooks (app/erp/inbox.py), the        *)
(* request handler that fills it (app/erp/routers/webhooks.py) and the     *)
(* worker that empties it between two jobs (app/erp/workers.py).           *)
(*                                                                         *)
(* A row is read without a lock and written back by its key, so each of    *)
(* receive, process and record_failure is two steps here, and two workers  *)
(* may have the same row in hand.  A transaction writes the row and the    *)
(* jobs together or not at all.  The signature and the size of the body    *)
(* are checked before any of this; what a body lists is the set of keys of *)
(* its catalogued events (none: an event outside the catalogue).           *)
(***************************************************************************)
EXTENDS JobBoard, Integers

CONSTANTS
  Event,          (* the webhooks by name: [keys, hasId, body]; the body is
                     "good", "invalid" (not JSON) or "poison" (raises) *)
  InboxRows,      (* ids of rows *)
  Receivers,       (* request handlers *)
  InboxWorkers,   (* worker processes *)
  InboxAttempts,    (* MAX_ATTEMPTS *)
  MaxDeliveries,  (* model bound: deliveries *)
  MaxFaults       (* model bound: database failures and crashes *)

Events == DOMAIN Event
NoEvent == "no event"

ASSUME EventsTyped ==
  /\ \A e \in Events :
       Event[e] \in [keys : SUBSET Keys, hasId : BOOLEAN,
                     body : {"good", "invalid", "poison"}]
  /\ NoEvent \notin Events
ASSUME RowsAreNumbers == InboxRows \subseteq Nat \ {0}
ASSUME InboxBounds ==
  InboxAttempts \in Nat \ {0} /\ MaxDeliveries \in Nat /\ MaxFaults \in Nat

VARIABLES
  inbox,         (* erp_webhook_inbox *)
  receiving,     (* what each handler has in hand: the event and what the
                    look-up of its key found *)
  handling,      (* what each worker has in hand: the row and what it read *)
  deliveries,    (* bounded number of deliveries *)
  acknowledged,  (* the webhooks whose sender got a 200 *)
  faults         (* bounded number of failures *)

inboxVars ==
  <<board, inbox, receiving, handling, deliveries, acknowledged, faults>>

Pending == {"received", "retry"}
Ended == {"processed", "ignored", "failed"}
NoRequest == [event |-> NoEvent, found |-> FALSE]
NoRow == [row |-> 0, stage |-> "none", attempts |-> 0]

InboxInit ==
  /\ BoardInit
  /\ inbox = [r \in InboxRows |-> [event |-> NoEvent, status |-> "absent",
                                   attempts |-> 0, recent |-> FALSE]]
  /\ receiving = [h \in Receivers |-> NoRequest]
  /\ handling = [w \in InboxWorkers |-> NoRow]
  /\ deliveries = 0
  /\ acknowledged = {}
  /\ faults = 0

RowsOf(e) == {r \in InboxRows : inbox[r].event = e}

-----------------------------------------------------------------------------
(* receive, and the handler around it                                      *)

(* With a delivery id every stored delivery counts, without one only those *)
(* of the last minutes.                                                    *)
IsDuplicate(e) == \E r \in RowsOf(e) : Event[e].hasId \/ inbox[r].recent

(* A webhook arrives, again if its sender saw no 200, and is looked up.    *)
Deliver(h, e) ==
  /\ receiving[h] = NoRequest
  /\ deliveries < MaxDeliveries
  /\ deliveries' = deliveries + 1
  /\ receiving' = [receiving EXCEPT ![h] =
       [event |-> e, found |-> IsDuplicate(e)]]
  /\ UNCHANGED <<board, inbox, handling, acknowledged, faults>>

NextRow == {r \in InboxRows : /\ inbox[r].status = "absent"
                              /\ \A q \in InboxRows :
                                   q < r => inbox[q].status # "absent"}

(* The row is inserted, unless the look-up found one, and committed; only  *)
(* then the handler answers 200.                                           *)
StoreAndReply(h) ==
  LET e == receiving[h].event IN
    /\ receiving[h] # NoRequest
    /\ \/ receiving[h].found /\ UNCHANGED inbox
       \/ /\ ~receiving[h].found
          /\ \E r \in NextRow : inbox' = [inbox EXCEPT ![r] =
               [event |-> e, status |-> "received", attempts |-> 0,
                recent |-> TRUE]]
    /\ acknowledged' = acknowledged \cup {e}
    /\ receiving' = [receiving EXCEPT ![h] = NoRequest]
    /\ UNCHANGED <<board, handling, deliveries, faults>>

(* Mutant: the answer is 200 although the commit failed.                   *)
SwallowStoreFailure(h) ==
  /\ receiving[h] # NoRequest
  /\ faults < MaxFaults
  /\ faults' = faults + 1
  /\ acknowledged' = acknowledged \cup {receiving[h].event}
  /\ receiving' = [receiving EXCEPT ![h] = NoRequest]
  /\ UNCHANGED <<board, inbox, handling, deliveries>>

(* The commit fails: 503, and the sender may deliver again.                *)
StoreFails(h) ==
  /\ receiving[h] # NoRequest
  /\ faults < MaxFaults
  /\ faults' = faults + 1
  /\ receiving' = [receiving EXCEPT ![h] = NoRequest]
  /\ UNCHANGED <<board, inbox, handling, deliveries, acknowledged>>

(* The de-duplication window of a row without a delivery id ends.          *)
WindowPasses(r) ==
  /\ inbox[r].recent
  /\ inbox' = [inbox EXCEPT ![r].recent = FALSE]
  /\ UNCHANGED <<board, receiving, handling, deliveries, acknowledged, faults>>

-----------------------------------------------------------------------------
(* process                                                                 *)

IsPending(r) == inbox[r].status \in Pending

(* process reads a row of the list that pending_ids gave some time ago.    *)
TakeRow(w, r) ==
  /\ handling[w] = NoRow
  /\ IsPending(r)
  /\ handling' = [handling EXCEPT ![w] =
       [row |-> r, stage |-> "processing", attempts |-> inbox[r].attempts]]
  /\ UNCHANGED <<board, inbox, receiving, deliveries, acknowledged, faults>>

BodyOf(w) == Event[inbox[handling[w].row].event]

OutcomeOf(event) ==
  CASE event.body = "invalid" -> "failed"
    [] event.body = "good" /\ event.keys # {} -> "processed"
    [] event.body = "good" /\ event.keys = {} -> "ignored"

(* What the events of a body ask for.                                      *)
ResourcesOf(event) == IF event.body = "good" THEN event.keys ELSE {}

(* One transaction enqueues what the event asks for and closes the row.    *)
ProcessCommits(w) ==
  LET r == handling[w].row IN
    /\ handling[w].stage = "processing"
    /\ BodyOf(w).body # "poison"
    /\ Ask(ResourcesOf(BodyOf(w)))
    /\ inbox' = [inbox EXCEPT ![r].status = OutcomeOf(BodyOf(w)),
                              ![r].attempts = handling[w].attempts + 1]
    /\ handling' = [handling EXCEPT ![w] = NoRow]
    /\ UNCHANGED <<receiving, deliveries, acknowledged, faults>>

(* Mutant: the jobs are committed before the row is.                       *)
HalfRaises(w) ==
  /\ handling[w].stage = "processing"
  /\ BodyOf(w).body = "poison" \/ faults < MaxFaults
  /\ faults' = IF BodyOf(w).body = "poison" THEN faults ELSE faults + 1
  /\ Ask(BodyOf(w).keys)
  /\ handling' = [handling EXCEPT ![w].stage = "raised"]
  /\ UNCHANGED <<inbox, receiving, deliveries, acknowledged>>

(* It raises, always or for once: nothing is written.                      *)
ProcessRaises(w) ==
  /\ handling[w].stage = "processing"
  /\ BodyOf(w).body = "poison" \/ faults < MaxFaults
  /\ faults' = IF BodyOf(w).body = "poison" THEN faults ELSE faults + 1
  /\ handling' = [handling EXCEPT ![w].stage = "raised"]
  /\ UNCHANGED <<board, inbox, receiving, deliveries, acknowledged>>

(* record_failure, in a transaction of its own, whatever the status is     *)
(* now.                                                                    *)
RecordRead(w) ==
  /\ handling[w].stage = "raised"
  /\ handling' = [handling EXCEPT ![w].stage = "recording",
       ![w].attempts = inbox[handling[w].row].attempts]
  /\ UNCHANGED <<board, inbox, receiving, deliveries, acknowledged, faults>>

StatusAfter(attempts) == IF attempts >= InboxAttempts THEN "failed" ELSE "retry"

(* Mutant: the attempt is not counted.                                     *)
RecordUncounted(w) ==
  /\ handling[w].stage = "recording"
  /\ inbox' = [inbox EXCEPT ![handling[w].row].status = StatusAfter(handling[w].attempts)]
  /\ handling' = [handling EXCEPT ![w] = NoRow]
  /\ UNCHANGED <<board, receiving, deliveries, acknowledged, faults>>

RecordWrite(w) ==
  LET r == handling[w].row
      n == handling[w].attempts + 1
  IN /\ handling[w].stage = "recording"
     /\ inbox' = [inbox EXCEPT ![r].attempts = n, ![r].status = StatusAfter(n)]
     /\ handling' = [handling EXCEPT ![w] = NoRow]
     /\ UNCHANGED <<board, receiving, deliveries, acknowledged, faults>>

(* A worker dies: its transaction is rolled back and nothing recorded.     *)
WorkerDies(w) ==
  /\ handling[w] # NoRow
  /\ faults < MaxFaults
  /\ faults' = faults + 1
  /\ handling' = [handling EXCEPT ![w] = NoRow]
  /\ UNCHANGED <<board, inbox, receiving, deliveries, acknowledged>>

-----------------------------------------------------------------------------
EmptyInbox(w) ==
  \/ \E r \in InboxRows : TakeRow(w, r)
  \/ ProcessCommits(w) \/ ProcessRaises(w) \/ RecordRead(w) \/ RecordWrite(w)

(* What becomes of the jobs: they start, return to the line, and end.      *)
BoardMoves ==
  /\ \E k \in Keys : Start(k) \/ GoBack({k}) \/ End(k)
  /\ UNCHANGED <<inbox, receiving, handling, deliveries, acknowledged, faults>>

InboxNext ==
  \/ \E h \in Receivers :
       (\E e \in Events : Deliver(h, e)) \/ StoreAndReply(h) \/ StoreFails(h)
  \/ \E r \in InboxRows : WindowPasses(r)
  \/ \E w \in InboxWorkers : EmptyInbox(w) \/ WorkerDies(w)
  \/ BoardMoves

(* Every turn of the worker's loop begins with the inbox.                  *)
InboxFairness == \A w \in InboxWorkers : WF_inboxVars(EmptyInbox(w))

InboxSpec == InboxInit /\ [][InboxNext]_inboxVars /\ InboxFairness

-----------------------------------------------------------------------------
(* Properties *)

(* Each row, request and worker keeps its shape.                           *)
InboxTypeOK ==
  /\ BoardTypeOK
  /\ inbox \in [InboxRows ->
       [event : Events \cup {NoEvent}, status : {"absent"} \cup Pending \cup Ended,
        attempts : Nat, recent : BOOLEAN]]
  /\ receiving \in [Receivers -> [event : Events \cup {NoEvent}, found : BOOLEAN]]
  /\ handling \in [InboxWorkers ->
       [row : InboxRows \cup {0}, attempts : Nat,
        stage : {"none", "processing", "raised", "recording"}]]
  /\ acknowledged \subseteq Events

(* A sender that got a 200 has its event in the inbox, whatever deliveries *)
(* overlapped and whichever commit failed (inbox.py:5 and webhooks.py:64). *)
AcknowledgedIsStored == \A e \in acknowledged : RowsOf(e) # {}

(* The row and the jobs it asks for are committed together: an event is    *)
(* processed only with an active job for every resource it named, and an   *)
(* attempt that failed asked for nothing (process, in one transaction).    *)
ProcessedWithItsJobs ==
  [][\A r \in InboxRows :
       LET named == Event[inbox[r].event].keys IN
         /\ (inbox[r].status # "processed" /\ inbox'[r].status = "processed")
              => \A k \in named : board'[k] # "none"
         /\ (\E w \in InboxWorkers : /\ handling[w].row = r
                                     /\ handling[w].stage = "processing"
                                     /\ handling'[w].stage = "raised")
              => board' = board]_inboxVars

(* Every event in the inbox comes to an end and stays there, although a    *)
(* poisonous one raises each time, workers die and two of them overwrite   *)
(* each other's count (record_failure: no message is retried for ever).    *)
EveryEventEnds ==
  \A r \in InboxRows :
    (inbox[r].status # "absent") ~> [](inbox[r].status \in Ended)

===============================================================================
