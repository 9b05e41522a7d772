------------------------------- MODULE Outbox -------------------------------
(***************************************************************************)
(* The outbox of external writes (app/erp/outbox.py): an operator's        *)
(* intention is stored as a row, a worker claims the row, marks it, calls  *)
(* the Mercos adaptor outside any transaction, and stores the outcome in   *)
(* another transaction.  Stale leases are recovered, unknown results are   *)
(* reconciled by a person, conflicts are resolved by a person, and the     *)
(* mirror of the origin confirms what succeeded.                           *)
(*                                                                         *)
(* Every database transaction that reads a row without a lock and writes   *)
(* it back by primary key is two steps here, a read and a write: that is   *)
(* what READ COMMITTED allows.  The claim is one step: its UPDATE takes    *)
(* the row lock and holds it until the mark is committed.                  *)
(***************************************************************************)
EXTENDS Integers, FiniteSets

CONSTANTS
  Ops,          (* operations: one per (operator, kind, idempotency key) *)
  Targets,      (* records of the origin the operations act on *)
  Workers,      (* dispatcher processes *)
  Handlers,     (* concurrent API requests that submit or reconcile *)
  Resolvers,    (* concurrent API requests that resolve a conflict *)
  KindOf,       (* the kind of each operation *)
  TargetOf,     (* the record each operation acts on *)
  MaxAttempts,  (* model bound: claims of one operation *)
  MaxCrashes,   (* model bound: worker crashes *)
  MaxToggles    (* model bound: changes of the capability flag *)

Kinds == {"create", "update", "cancel", "bill"}

ASSUME KindType   == KindOf \in [Ops -> Kinds]
ASSUME TargetType == TargetOf \in [Ops -> Targets]
ASSUME BoundsType ==
  MaxAttempts \in Nat /\ MaxCrashes \in Nat /\ MaxToggles \in Nat

VARIABLES
  row,        (* erp_integration_operations, one row per operation *)
  conflicts,  (* erp_conflicts still open, each <<operation, attempt>> *)
  mirror,     (* the local mirror of each record *)
  remote,     (* the record as Mercos has it *)
  enabled,    (* the write capability of the operations *)
  worker,     (* what each dispatcher holds in memory *)
  session,    (* the API transactions in progress *)
  executed,   (* history: how often Mercos executed each operation *)
  crashes,    (* bounded number of crashes *)
  toggles     (* bounded number of capability changes *)

vars == <<row, conflicts, mirror, remote, enabled, worker, session,
          executed, crashes, toggles>>

-----------------------------------------------------------------------------
(* Values *)

Statuses == {"absent", "queued", "processing", "waiting_rate_limit",
             "succeeded", "failed", "unknown", "conflict"}

TRANSITIONS ==
  [s \in Statuses |->
     CASE s = "queued"             -> {"processing"}
       [] s = "processing"         -> {"succeeded", "failed", "unknown",
                                       "waiting_rate_limit", "conflict", "queued"}
       [] s = "waiting_rate_limit" -> {"queued", "processing"}
       [] s = "conflict"           -> {"queued", "failed"}
       [] s = "unknown"            -> {"succeeded", "failed"}
       [] OTHER                    -> {}]

Outcomes == {"success", "rejected", "rate_limited", "unknown"}

Errors == {"none", "capability_disabled", "already_cancelled", "conflict",
           "rejected", "rate_limited", "unknown", "crash_after_dispatch",
           "reconciled_created", "confirmed_not_created",
           "conflict_external_wins"}

(* The field an operation intends to change: its original value, the value *)
(* of the operation that changed it last, or somebody else's edit.         *)
Values == Ops \cup {"original", "external"}
Records == [val : Values, cancelled : BOOLEAN]
Fresh == [val |-> "original", cancelled |-> FALSE]

Rows == [status : Statuses, token : Nat, expired : BOOLEAN,
         dispatched : BOOLEAN, due : BOOLEAN, attempts : Nat,
         base : Records, error : Errors, confirmed : BOOLEAN]

Absent == [status |-> "absent", token |-> 0, expired |-> FALSE,
           dispatched |-> FALSE, due |-> TRUE, attempts |-> 0,
           base |-> Fresh, error |-> "none", confirmed |-> FALSE]

(* A worker is idle, about to call Mercos, holding an outcome to store,    *)
(* inside the transaction that stores it, or inside recover_stale.         *)
WorkerPcs == {"idle", "call", "persist", "flush", "recover"}
WorkerStates ==
  [pc : WorkerPcs, op : Ops \cup {"none"}, token : Nat, outcome : Outcomes,
   stale : SUBSET (Ops \X BOOLEAN)]
Idle == [pc |-> "idle", op |-> "none", token |-> 0, outcome |-> "unknown",
         stale |-> {}]

NoSession == [do |-> "none"]
SubmitSessions == [do : {"submit"}, op : Ops, seen : Records]
ReconcileSessions == [do : {"reconcile"}, op : Ops,
                      created : BOOLEAN]
ResolveSessions == [do : {"resolve"}, row : Ops \X Nat, open : BOOLEAN,
                    local : BOOLEAN, seen : Records]
Sessions == {NoSession} \cup SubmitSessions \cup ReconcileSessions
              \cup ResolveSessions

ASSUME NoneIsNoOp == /\ "none" \notin Ops
                     /\ Ops \cap {"original", "external"} = {}

Init ==
  /\ row = [o \in Ops |-> Absent]
  /\ conflicts = {}
  /\ mirror = [t \in Targets |-> Fresh]
  /\ remote = [t \in Targets |-> Fresh]
  /\ enabled = TRUE
  /\ worker = [w \in Workers |-> Idle]
  /\ session = [h \in Handlers \cup Resolvers |-> NoSession]
  /\ executed = [o \in Ops |-> 0]
  /\ crashes = 0
  /\ toggles = 0

-----------------------------------------------------------------------------
(* submit: an operator's request *)

(* Another operation of the same kind on the same order that is pending or *)
(* not yet confirmed by the mirror.                                        *)
InFlight(o) ==
  \E p \in Ops \ {o} :
    /\ KindOf[p] = KindOf[o]
    /\ TargetOf[p] = TargetOf[o]
    /\ row[p].status \in {"queued", "processing", "waiting_rate_limit",
                          "unknown", "succeeded"}
    /\ ~row[p].confirmed

(* Mutant: the operation in flight is forgotten.                           *)
SubmitWithoutInFlight(o) ==
  /\ enabled
  /\ KindOf[o] \in {"cancel", "bill"} => ~mirror[TargetOf[o]].cancelled

SubmitAllowed(o) ==
  /\ enabled
  /\ KindOf[o] \in {"cancel", "bill"} =>
       /\ ~mirror[TargetOf[o]].cancelled
       /\ ~InFlight(o)

(* The checks and the reads of submit.  A refused request changes nothing. *)
SubmitRead(h, o) ==
  /\ session[h] = NoSession
  /\ row[o].status = "absent"
  /\ SubmitAllowed(o)
  /\ session' = [session EXCEPT ![h] =
       [do |-> "submit", op |-> o, seen |-> mirror[TargetOf[o]]]]
  /\ UNCHANGED <<row, conflicts, mirror, remote, enabled, worker, executed,
                 crashes, toggles>>

(* The insert, or, when the same key was inserted meanwhile, the existing  *)
(* operation is returned (unique index on operator, kind and key).         *)
SubmitInsert(h) ==
  /\ session[h].do = "submit"
  /\ LET o == session[h].op IN
       row' = IF row[o].status = "absent"
                THEN [row EXCEPT ![o] = [Absent EXCEPT !.status = "queued",
                                                       !.base = session[h].seen]]
                ELSE row
  /\ session' = [session EXCEPT ![h] = NoSession]
  /\ UNCHANGED <<conflicts, mirror, remote, enabled, worker, executed,
                 crashes, toggles>>

-----------------------------------------------------------------------------
(* dispatch_operation: the worker *)

Claimable(o) ==
  /\ row[o].status \in {"queued", "waiting_rate_limit"}
  /\ row[o].due

(* The row as _claim leaves it: attempts numbers the lease token.          *)
Claimed(o) ==
  [row[o] EXCEPT !.status = "processing", !.token = row[o].attempts + 1,
                 !.expired = FALSE, !.attempts = row[o].attempts + 1]

(* Fields changed on both sides since the base the operator saw.           *)
Conflicting(o) ==
  /\ KindOf[o] = "update"
  /\ mirror[TargetOf[o]] # row[o].base
  /\ mirror[TargetOf[o]].val # row[o].base.val

AlreadyCancelled(o) ==
  KindOf[o] = "cancel" /\ mirror[TargetOf[o]].cancelled

MayClaim(w, o) ==
  /\ worker[w].pc = "idle"
  /\ Claimable(o)
  /\ row[o].attempts < MaxAttempts

(* The claim ends without a call: the row is closed in the same            *)
(* transaction.                                                            *)
PrepareRefused(w, o) ==
  /\ MayClaim(w, o)
  /\ ~enabled \/ AlreadyCancelled(o)
  /\ row' = [row EXCEPT ![o] =
       [Claimed(o) EXCEPT
          !.status = "failed", !.token = 0,
          !.error = IF enabled THEN "already_cancelled"
                               ELSE "capability_disabled"]]
  /\ UNCHANGED <<conflicts, mirror, remote, enabled, worker, session,
                 executed, crashes, toggles>>

PrepareConflict(w, o) ==
  /\ MayClaim(w, o)
  /\ enabled /\ ~AlreadyCancelled(o) /\ Conflicting(o)
  /\ row' = [row EXCEPT ![o] =
       [Claimed(o) EXCEPT !.status = "conflict", !.token = 0,
                          !.error = "conflict"]]
  /\ conflicts' = conflicts \cup {<<o, row[o].attempts + 1>>}
  /\ UNCHANGED <<mirror, remote, enabled, worker, session, executed,
                 crashes, toggles>>

(* dispatch_started_at is committed before the call.                       *)
PrepareSend(w, o) ==
  /\ MayClaim(w, o)
  /\ enabled /\ ~AlreadyCancelled(o) /\ ~Conflicting(o)
  /\ row' = [row EXCEPT ![o] = [Claimed(o) EXCEPT !.dispatched = TRUE]]
  /\ worker' = [worker EXCEPT ![w] =
       [Idle EXCEPT !.pc = "call", !.op = o,
                    !.token = row[o].attempts + 1]]
  /\ UNCHANGED <<conflicts, mirror, remote, enabled, session, executed,
                 crashes, toggles>>

(* The record after Mercos executed operation o.                           *)
Effect(o) ==
  CASE KindOf[o] = "update" -> [remote[TargetOf[o]] EXCEPT !.val = o]
    [] KindOf[o] = "cancel" -> [remote[TargetOf[o]] EXCEPT !.cancelled = TRUE]
    [] OTHER                -> remote[TargetOf[o]]

(* The single HTTP attempt.  Only an unknown outcome leaves it open        *)
(* whether Mercos executed the operation.                                  *)
Call(w, outcome, does) ==
  /\ worker[w].pc = "call"
  /\ (outcome = "success") => does
  /\ (outcome \in {"rejected", "rate_limited"}) => ~does
  /\ worker' = [worker EXCEPT ![w] =
       [@ EXCEPT !.pc = "persist", !.outcome = outcome]]
  /\ LET o == worker[w].op IN
       IF does
         THEN /\ executed' = [executed EXCEPT ![o] = @ + 1]
              /\ remote' = [remote EXCEPT ![TargetOf[o]] = Effect(o)]
         ELSE UNCHANGED <<executed, remote>>
  /\ UNCHANGED <<row, conflicts, mirror, enabled, session, crashes, toggles>>

(* Mutant: a timeout is taken for a refusal.                               *)
StatusOfTimeoutAsFailure(outcome) ==
  CASE outcome = "success"      -> "succeeded"
    [] outcome = "rate_limited" -> "waiting_rate_limit"
    [] OTHER                    -> "failed"

StatusOf(outcome) ==
  CASE outcome = "success"      -> "succeeded"
    [] outcome = "rejected"     -> "failed"
    [] outcome = "rate_limited" -> "waiting_rate_limit"
    [] OTHER                    -> "unknown"

(* _persist_outcome reads the row under its token ...                      *)
PersistRead(w) ==
  /\ worker[w].pc = "persist"
  /\ LET o == worker[w].op IN
       IF /\ row[o].token = worker[w].token
          /\ StatusOf(worker[w].outcome) \in TRANSITIONS[row[o].status]
         THEN worker' = [worker EXCEPT ![w].pc = "flush"]
         ELSE worker' = [worker EXCEPT ![w] = Idle]
  /\ UNCHANGED <<row, conflicts, mirror, remote, enabled, session, executed,
                 crashes, toggles>>

(* Mutant: the error column keeps the outcome of a success.                *)
StoredErrorNotCleared(o, out) ==
  [row[o] EXCEPT
     !.status = StatusOf(out), !.token = 0, !.expired = FALSE, !.error = out,
     !.dispatched = IF out = "rate_limited" THEN FALSE ELSE @,
     !.due = IF out = "rate_limited" THEN FALSE ELSE @]

Stored(o, out) ==
  [row[o] EXCEPT
     !.status = StatusOf(out), !.token = 0, !.expired = FALSE,
     !.error = IF out = "success" THEN "none" ELSE out,
     !.dispatched = IF out = "rate_limited" THEN FALSE ELSE @,
     !.due = IF out = "rate_limited" THEN FALSE ELSE @]

(* ... and writes it by primary key.                                       *)
PersistFlush(w) ==
  /\ worker[w].pc = "flush"
  /\ row' = [row EXCEPT ![worker[w].op] =
                Stored(worker[w].op, worker[w].outcome)]
  /\ worker' = [worker EXCEPT ![w] = Idle]
  /\ UNCHANGED <<conflicts, mirror, remote, enabled, session, executed,
                 crashes, toggles>>

(* Three failed tries leave the row as it was; the model takes their net   *)
(* effect.                                                                 *)
PersistGiveUp(w) ==
  /\ worker[w].pc \in {"persist", "flush"}
  /\ worker' = [worker EXCEPT ![w] = Idle]
  /\ UNCHANGED <<row, conflicts, mirror, remote, enabled, session, executed,
                 crashes, toggles>>

(* The process dies: what it held in memory is gone.                       *)
Crash(w) ==
  /\ worker[w].pc # "idle"
  /\ crashes < MaxCrashes
  /\ crashes' = crashes + 1
  /\ worker' = [worker EXCEPT ![w] = Idle]
  /\ UNCHANGED <<row, conflicts, mirror, remote, enabled, session, executed,
                 toggles>>

-----------------------------------------------------------------------------
(* recover_stale *)

(* Mutant: an operation marked as sent is never looked at again.           *)
StaleUnsentOnly ==
  {o \in Ops : /\ row[o].status = "processing" /\ row[o].expired
               /\ ~row[o].dispatched}

Stale == {o \in Ops : row[o].status = "processing" /\ row[o].expired}

RecoverRead(w) ==
  /\ worker[w].pc = "idle"
  /\ Stale # {}
  /\ worker' = [worker EXCEPT ![w] =
       [Idle EXCEPT !.pc = "recover",
                    !.stale = {<<o, row[o].dispatched>> : o \in Stale}]]
  /\ UNCHANGED <<row, conflicts, mirror, remote, enabled, session, executed,
                 crashes, toggles>>

(* Mutant: recovery re-queues whatever was sent.                           *)
RecoveredRequeued(o, sent) ==
  [row[o] EXCEPT !.token = 0, !.expired = FALSE, !.status = "queued"]

Recovered(o, sent) ==
  [row[o] EXCEPT !.token = 0, !.expired = FALSE,
                 !.status = IF sent THEN "unknown" ELSE "queued",
                 !.error = IF sent THEN "crash_after_dispatch" ELSE @]

RecoverFlush(w) ==
  /\ worker[w].pc = "recover"
  /\ row' = [o \in Ops |->
       IF <<o, TRUE>> \in worker[w].stale THEN Recovered(o, TRUE)
       ELSE IF <<o, FALSE>> \in worker[w].stale THEN Recovered(o, FALSE)
       ELSE row[o]]
  /\ worker' = [worker EXCEPT ![w] = Idle]
  /\ UNCHANGED <<conflicts, mirror, remote, enabled, session, executed,
                 crashes, toggles>>

-----------------------------------------------------------------------------
(* reconcile and resolve_conflict: a person decides *)

ReconcileRead(h, o, created) ==
  /\ session[h] = NoSession
  /\ row[o].status = "unknown"
  /\ session' = [session EXCEPT ![h] =
       [do |-> "reconcile", op |-> o, created |-> created]]
  /\ UNCHANGED <<row, conflicts, mirror, remote, enabled, worker, executed,
                 crashes, toggles>>

ReconcileWrite(h) ==
  /\ session[h].do = "reconcile"
  /\ row' = [row EXCEPT ![session[h].op] =
       IF session[h].created
         THEN [@ EXCEPT !.status = "succeeded", !.error = "reconciled_created"]
         ELSE [@ EXCEPT !.status = "failed", !.error = "confirmed_not_created"]]
  /\ session' = [session EXCEPT ![h] = NoSession]
  /\ UNCHANGED <<conflicts, mirror, remote, enabled, worker, executed,
                 crashes, toggles>>

ResolveRead(r, c, local) ==
  /\ session[r] = NoSession
  /\ c \in conflicts
  /\ session' = [session EXCEPT ![r] =
       [do |-> "resolve", row |-> c, open |-> row[c[1]].status = "conflict",
        local |-> local, seen |-> mirror[TargetOf[c[1]]]]]
  /\ UNCHANGED <<row, conflicts, mirror, remote, enabled, worker, executed,
                 crashes, toggles>>

Resolved(o, s) ==
  IF s.local
    THEN [row[o] EXCEPT !.base = s.seen, !.error = "none", !.due = TRUE,
                        !.status = "queued"]
    ELSE [row[o] EXCEPT !.status = "failed",
                        !.error = "conflict_external_wins"]

ResolveWrite(r) ==
  /\ session[r].do = "resolve"
  /\ LET o == session[r].row[1] IN
       row' = IF session[r].open
                THEN [row EXCEPT ![o] = Resolved(o, session[r])]
                ELSE row
  /\ conflicts' = conflicts \ {session[r].row}
  /\ session' = [session EXCEPT ![r] = NoSession]
  /\ UNCHANGED <<mirror, remote, enabled, worker, executed, crashes, toggles>>

-----------------------------------------------------------------------------
(* The surroundings: time, the origin, the mirror, the capability flag *)

LeaseExpires(o) ==
  /\ row[o].status = "processing" /\ ~row[o].expired
  /\ row' = [row EXCEPT ![o].expired = TRUE]
  /\ UNCHANGED <<conflicts, mirror, remote, enabled, worker, session,
                 executed, crashes, toggles>>

BecomesDue(o) ==
  /\ ~row[o].due
  /\ row' = [row EXCEPT ![o].due = TRUE]
  /\ UNCHANGED <<conflicts, mirror, remote, enabled, worker, session,
                 executed, crashes, toggles>>

(* Somebody edits the record in Mercos itself.                             *)
ExternalEdit(t) ==
  /\ remote[t].val = "original"
  /\ remote' = [remote EXCEPT ![t].val = "external"]
  /\ UNCHANGED <<row, conflicts, mirror, enabled, worker, session, executed,
                 crashes, toggles>>

(* Mutant: any change of the record confirms a cancellation.               *)
ConfirmableByAnyChange(o, t) ==
  TargetOf[o] = t /\ row[o].status = "succeeded"

(* process_row persists a changed record and _confirm_operations confirms  *)
(* what succeeded on it; a cancellation only when the mirror shows it.     *)
Confirmable(o, t) ==
  /\ TargetOf[o] = t
  /\ row[o].status = "succeeded"
  /\ KindOf[o] = "cancel" => remote[t].cancelled

MirrorSync(t) ==
  /\ mirror[t] # remote[t]
  /\ mirror' = [mirror EXCEPT ![t] = remote[t]]
  /\ row' = [o \in Ops |->
       IF Confirmable(o, t) THEN [row[o] EXCEPT !.confirmed = TRUE]
                            ELSE row[o]]
  /\ UNCHANGED <<conflicts, remote, enabled, worker, session, executed,
                 crashes, toggles>>

ToggleCapability ==
  /\ toggles < MaxToggles
  /\ toggles' = toggles + 1
  /\ enabled' = ~enabled
  /\ UNCHANGED <<row, conflicts, mirror, remote, worker, session, executed,
                 crashes>>

-----------------------------------------------------------------------------
Dispatch(w) ==
  \/ \E o \in Ops : \/ PrepareRefused(w, o)
                    \/ PrepareConflict(w, o)
                    \/ PrepareSend(w, o)
  \/ \E outcome \in Outcomes, does \in BOOLEAN : Call(w, outcome, does)
  \/ PersistRead(w)
  \/ PersistFlush(w)
  \/ RecoverRead(w)
  \/ RecoverFlush(w)

Operate(h) ==
  \/ \E o \in Ops : SubmitRead(h, o)
  \/ SubmitInsert(h)
  \/ \E o \in Ops, created \in BOOLEAN : ReconcileRead(h, o, created)
  \/ ReconcileWrite(h)

Resolve(r) ==
  \/ \E c \in conflicts, local \in BOOLEAN : ResolveRead(r, c, local)
  \/ ResolveWrite(r)

Next ==
  \/ \E w \in Workers : Dispatch(w) \/ PersistGiveUp(w) \/ Crash(w)
  \/ \E h \in Handlers : Operate(h)
  \/ \E r \in Resolvers : Resolve(r)
  \/ \E o \in Ops : LeaseExpires(o) \/ BecomesDue(o)
  \/ \E t \in Targets : ExternalEdit(t) \/ MirrorSync(t)
  \/ ToggleCapability

(* The scheduler runs the worker again and again, and time passes.         *)
Fairness ==
  /\ \A w \in Workers : WF_vars(Dispatch(w))
  /\ \A o \in Ops : WF_vars(LeaseExpires(o)) /\ WF_vars(BecomesDue(o))

Spec == Init /\ [][Next]_vars
FairSpec == Spec /\ Fairness

-----------------------------------------------------------------------------
(* Properties *)

(* Each row, session and worker record has the shape the code gives it.    *)
TypeOK ==
  /\ row \in [Ops -> Rows]
  /\ conflicts \subseteq Ops \X Nat
  /\ mirror \in [Targets -> Records]
  /\ remote \in [Targets -> Records]
  /\ enabled \in BOOLEAN
  /\ worker \in [Workers -> WorkerStates]
  /\ session \in [Handlers \cup Resolvers -> Sessions]
  /\ executed \in [Ops -> Nat]
  /\ crashes \in Nat
  /\ toggles \in Nat

(* No blind repeat (outbox.py:1-7): whatever crashes, expires or is        *)
(* recovered, Mercos executes one operation at most once.                  *)
AtMostOnce == \A o \in Ops : executed[o] <= 1

(* A result the worker recorded is true (outbox.py:548-562): a success     *)
(* that no person asserted was executed, and a failure that no person      *)
(* asserted was not.                                                       *)
ResultsAreKnown ==
  \A o \in Ops :
    /\ (row[o].status = "succeeded" /\ row[o].error = "none")
         => executed[o] = 1
    /\ (row[o].status = "failed" /\ row[o].error # "confirmed_not_created")
         => executed[o] = 0

(* Only cancellations that took effect at the origin are confirmed         *)
(* (rows.py:67-68): an accepted answer is not enough.                      *)
ConfirmedCancelIsReal ==
  \A o \in Ops :
    (KindOf[o] = "cancel" /\ row[o].confirmed) => remote[TargetOf[o]].cancelled

(* An order has one cancellation (or one billing) in flight at most        *)
(* (outbox.py:285-300).                                                    *)
Open(o) ==
  /\ row[o].status \in {"queued", "processing", "waiting_rate_limit",
                        "unknown", "succeeded"}
  /\ ~row[o].confirmed
OneInFlight ==
  \A o, p \in Ops :
    (/\ o # p /\ KindOf[o] = KindOf[p] /\ KindOf[o] \in {"cancel", "bill"}
     /\ TargetOf[o] = TargetOf[p] /\ Open(o))
       => ~Open(p)

(* A submitted operation does not hang: it ends or waits for a person,     *)
(* unless it used up the model's claims (due_operation_ids, recover_stale). *)
Decided == {"succeeded", "failed", "unknown", "conflict"}
OutOfClaims(o) ==
  /\ row[o].attempts = MaxAttempts
  /\ row[o].status \in {"queued", "waiting_rate_limit"}
EventuallyDecided ==
  \A o \in Ops :
    (row[o].status # "absent") ~> (row[o].status \in Decided \/ OutOfClaims(o))

(* The outbox keeps the promise of WriteContract.                          *)
PhaseOf(status) ==
  CASE status = "absent"    -> "none"
    [] status = "succeeded" -> "done"
    [] status = "failed"    -> "refused"
    [] status = "unknown"   -> "uncertain"
    [] OTHER                -> "open"
Promise == INSTANCE WriteContract WITH
             phase <- [o \in Ops |-> PhaseOf(row[o].status)],
             effect <- executed
KeepsThePromise == Promise!ContractSpec

=============================================================================
