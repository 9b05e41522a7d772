--------------------------- MODULE DeploymentProofs ---------------------------
(***************************************************************************)
(* Proofs about the parts of the ERP's deployment that MCDeployment runs:  *)
(* Outbox, the writes to Mercos; Inbox, the webhooks from it; and the      *)
(* analysis jobs of RetailJobs.                                            *)
(*                                                                         *)
(* Outbox: for any number of operations, records, crashes, expired leases  *)
(* and changes of the capability.  What holds of one operation (at most    *)
(* one execution, true results) needs that conflicts are resolved one      *)
(* request at a time.  What relates two transactions of the same row, or   *)
(* two rows, needs that dispatchers and requests do not overlap            *)
(* (OneAtATime): the code reads without a lock and writes back by primary  *)
(* key.                                                                    *)
(*                                                                         *)
(* Inbox: for any number of webhooks, deliveries, handlers, workers and    *)
(* failures.                                                               *)
(*                                                                         *)
(* RetailJobs: for any catalogue, lots, threads, overlapping requests,     *)
(* failures and restarts.                                                  *)
(***************************************************************************)
EXTENDS Outbox, Inbox, RetailJobs, FiniteSetTheorems, TLAPS

-----------------------------------------------------------------------------
(* The outbox                                                              *)

(* A worker that works on an operation knows which.                        *)
BusyWorker ==
  \A w \in Workers :
    worker[w].pc \in {"call", "persist", "flush"} => worker[w].op \in Ops

(* Worker w is between its claim of o and the end of its work on o.        *)
Holds(w, o) == worker[w].pc \in {"call", "persist", "flush"} /\ worker[w].op = o

(* Nobody can make Mercos execute o without a new claim.                   *)
Quiet(o) == \A w \in Workers : ~Holds(w, o)

(* Until its claim, an operation was not executed and nobody holds it.     *)
UnclaimedIsUntouched ==
  \A o \in Ops :
    row[o].status \in {"absent", "queued", "waiting_rate_limit", "conflict"}
      => executed[o] = 0 /\ Quiet(o)

OneHolder ==
  \A v, w \in Workers, o \in Ops : Holds(v, o) /\ Holds(w, o) => v = w

(* What a worker that holds an operation knows is true.                    *)
HolderKnows ==
  \A w \in Workers, o \in Ops : Holds(w, o) =>
    /\ worker[w].pc = "call" => executed[o] = 0
    /\ (worker[w].pc # "call" /\ worker[w].outcome \in {"rejected", "rate_limited"})
         => executed[o] = 0
    /\ (worker[w].pc # "call" /\ worker[w].outcome = "success")
         => executed[o] = 1

(* A row in processing is marked as sent, so recovery never re-queues it.  *)
MarkedBeforeCall ==
  /\ \A o \in Ops : row[o].status = "processing" => row[o].dispatched
  /\ \A w \in Workers, o \in Ops : <<o, FALSE>> \notin worker[w].stale

(* The one resolver that saw an open conflict may still re-queue it.       *)
ResolverMayRequeue ==
  \A r \in Handlers \cup Resolvers :
    (session[r].do = "resolve") =>
      /\ r \in Resolvers
      /\ session[r].open =>
           LET o == session[r].row[1] IN
             /\ row[o].status \in {"conflict", "unknown", "succeeded", "failed"}
             /\ executed[o] = 0
             /\ Quiet(o)

(* Results the worker recorded, with nobody left who could change them.    *)
ResultsAreSettled ==
  \A o \in Ops :
    /\ (row[o].status = "succeeded" /\ row[o].error = "none")
         => executed[o] = 1
    /\ (row[o].status = "failed" /\ row[o].error # "confirmed_not_created")
         => executed[o] = 0 /\ Quiet(o)

Core == /\ BusyWorker
        /\ AtMostOnce
        /\ UnclaimedIsUntouched
        /\ OneHolder
        /\ HolderKnows
        /\ MarkedBeforeCall
        /\ ResolverMayRequeue
        /\ ResultsAreSettled

IInv == TypeOK /\ Core

-----------------------------------------------------------------------------
(* A session that is doing something has the shape of what it does.        *)
LEMMA SessionShape ==
  ASSUME NEW s \in Sessions
  PROVE  /\ s.do = "submit" => s \in SubmitSessions
         /\ s.do = "reconcile" => s \in ReconcileSessions
         /\ s.do = "resolve" => s \in ResolveSessions
  BY DEF Sessions, NoSession, SubmitSessions, ReconcileSessions,
         ResolveSessions

LEMMA IdleIsAWorkerState == Idle \in WorkerStates
  BY DEF Idle, WorkerStates, WorkerPcs, Outcomes

(* Assigning a value of its type to a column gives a row again.            *)
LEMMA ColumnAssignment ==
  ASSUME NEW r \in Rows
  PROVE  /\ \A v \in Statuses : [r EXCEPT !.status = v] \in Rows
         /\ \A v \in Nat : [r EXCEPT !.token = v] \in Rows
         /\ \A v \in Nat : [r EXCEPT !.attempts = v] \in Rows
         /\ \A v \in BOOLEAN : [r EXCEPT !.expired = v] \in Rows
         /\ \A v \in BOOLEAN : [r EXCEPT !.dispatched = v] \in Rows
         /\ \A v \in BOOLEAN : [r EXCEPT !.due = v] \in Rows
         /\ \A v \in BOOLEAN : [r EXCEPT !.confirmed = v] \in Rows
         /\ \A v \in Records : [r EXCEPT !.base = v] \in Rows
         /\ \A v \in Errors : [r EXCEPT !.error = v] \in Rows
  BY DEF Rows

LEMMA StatusAndError ==
  ASSUME NEW r \in Rows, NEW v \in Statuses, NEW e \in Errors
  PROVE  [r EXCEPT !.status = v, !.error = e] \in Rows
<1>1. [r EXCEPT !.status = v] \in Rows
  BY ColumnAssignment
<1>2. QED
  BY <1>1, ColumnAssignment

LEMMA ClaimedIsARow ==
  ASSUME TypeOK, NEW o \in Ops
  PROVE  Claimed(o) \in Rows
<1> DEFINE n  == row[o].attempts + 1
           r1 == [row[o] EXCEPT !.status = "processing"]
           r2 == [r1 EXCEPT !.token = n]
           r3 == [r2 EXCEPT !.expired = FALSE]
<1>1. row[o] \in Rows
  BY DEF TypeOK
<1>2. n \in Nat
  BY <1>1 DEF Rows
<1>3. r1 \in Rows
  BY <1>1, ColumnAssignment DEF Statuses
<1>4. r2 \in Rows
  BY <1>2, <1>3, ColumnAssignment
<1>5. r3 \in Rows
  BY <1>4, ColumnAssignment
<1>6. [r3 EXCEPT !.attempts = n] \in Rows
  BY <1>2, <1>5, ColumnAssignment
<1>7. QED
  BY <1>6 DEF Claimed

LEMMA ClosedClaim ==
  ASSUME TypeOK, NEW o \in Ops, NEW v \in Statuses, NEW e \in Errors
  PROVE  [Claimed(o) EXCEPT !.status = v, !.token = 0, !.error = e] \in Rows
<1>1. [Claimed(o) EXCEPT !.status = v] \in Rows
  BY ClaimedIsARow, ColumnAssignment
<1>2. [[Claimed(o) EXCEPT !.status = v] EXCEPT !.token = 0] \in Rows
  BY <1>1, ColumnAssignment
<1>3. QED
  BY <1>2, ColumnAssignment

LEMMA RecoveredIsARow ==
  ASSUME TypeOK, NEW o \in Ops, NEW sent \in BOOLEAN
  PROVE  Recovered(o, sent) \in Rows
<1> DEFINE v  == IF sent THEN "unknown" ELSE "queued"
           r1 == [row[o] EXCEPT !.token = 0]
           r2 == [r1 EXCEPT !.expired = FALSE]
           e  == IF sent THEN "crash_after_dispatch" ELSE row[o].error
<1>1. row[o] \in Rows /\ e \in Errors /\ v \in Statuses
  BY DEF TypeOK, Rows, Errors, Statuses
<1>2. r1 \in Rows
  BY <1>1, ColumnAssignment
<1>3. r2 \in Rows
  BY <1>2, ColumnAssignment
<1>4. [r2 EXCEPT !.status = v, !.error = e] \in Rows
  BY <1>1, <1>3, StatusAndError
<1>5. QED
  BY <1>4 DEF Recovered

(* The row as PersistFlush leaves it, by outcome.                          *)
LEMMA StoredIsARow ==
  ASSUME TypeOK, NEW o \in Ops, NEW out \in Outcomes
  PROVE  Stored(o, out) \in Rows
<1> DEFINE r1 == [row[o] EXCEPT !.status = StatusOf(out)]
           r2 == [r1 EXCEPT !.token = 0]
           r3 == [r2 EXCEPT !.expired = FALSE]
           e  == IF out = "success" THEN "none" ELSE out
           r4 == [r3 EXCEPT !.error = e]
           d  == IF out = "rate_limited" THEN FALSE ELSE row[o].dispatched
           r5 == [r4 EXCEPT !.dispatched = d]
           q  == IF out = "rate_limited" THEN FALSE ELSE row[o].due
<1>1. /\ row[o] \in Rows /\ e \in Errors /\ StatusOf(out) \in Statuses
      /\ d \in BOOLEAN /\ q \in BOOLEAN
  BY DEF TypeOK, Rows, Errors, Statuses, StatusOf, Outcomes
<1>2. r1 \in Rows
  BY <1>1, ColumnAssignment
<1>3. r2 \in Rows
  BY <1>2, ColumnAssignment
<1>4. r3 \in Rows
  BY <1>3, ColumnAssignment
<1>5. r4 \in Rows
  BY <1>1, <1>4, ColumnAssignment
<1>6. r5 \in Rows
  BY <1>1, <1>5, ColumnAssignment
<1>7. [r5 EXCEPT !.due = q] \in Rows
  BY <1>1, <1>6, ColumnAssignment
<1>8. QED
  BY <1>7 DEF Stored

(* The rows, sessions and worker records keep their shape.                 *)
LEMMA TypeOKInductive ==
  ASSUME TypeOK, BusyWorker, [Next]_vars
  PROVE  TypeOK'
<1> USE DEF TypeOK, BusyWorker
<1>1. ASSUME NEW h \in Handlers, NEW o \in Ops, SubmitRead(h, o)
      PROVE  TypeOK'
  BY <1>1, TargetType DEF SubmitRead, Sessions, SubmitSessions
<1>2. ASSUME NEW h \in Handlers, SubmitInsert(h)
      PROVE  TypeOK'
  <2>1. session[h] \in SubmitSessions
    BY <1>2, SessionShape DEF SubmitInsert
  <2>2. [Absent EXCEPT !.status = "queued", !.base = session[h].seen] \in Rows
    BY <2>1 DEF Absent, Rows, Statuses, Errors, Fresh, Records, Values,
                SubmitSessions
  <2>3. row' \in [Ops -> Rows]
    BY <1>2, <2>1, <2>2 DEF SubmitInsert, SubmitSessions
  <2>4. QED
    BY <1>2, <2>3 DEF SubmitInsert, Sessions
<1>3. ASSUME NEW h \in Handlers, NEW o \in Ops, NEW created \in BOOLEAN,
             ReconcileRead(h, o, created)
      PROVE  TypeOK'
  BY <1>3 DEF ReconcileRead, Sessions, ReconcileSessions
<1>4. ASSUME NEW h \in Handlers, ReconcileWrite(h)
      PROVE  TypeOK'
  <2>1. session[h] \in ReconcileSessions
    BY <1>4, SessionShape DEF ReconcileWrite
  <2>2. \A o \in Ops :
          /\ [row[o] EXCEPT !.status = "succeeded",
                            !.error = "reconciled_created"] \in Rows
          /\ [row[o] EXCEPT !.status = "failed",
                            !.error = "confirmed_not_created"] \in Rows
    BY StatusAndError DEF Statuses, Errors
  <2>3. row' \in [Ops -> Rows]
    BY <1>4, <2>1, <2>2 DEF ReconcileWrite, ReconcileSessions
  <2>4. QED
    BY <1>4, <2>3 DEF ReconcileWrite, Sessions
<1>5. ASSUME NEW r \in Resolvers, NEW c \in conflicts, NEW local \in BOOLEAN,
             ResolveRead(r, c, local)
      PROVE  TypeOK'
  <2>1. [do |-> "resolve", row |-> c, open |-> row[c[1]].status = "conflict",
         local |-> local, seen |-> mirror[TargetOf[c[1]]]] \in ResolveSessions
    BY <1>5, TargetType DEF ResolveSessions
  <2>2. QED
    BY <1>5, <2>1 DEF ResolveRead, Sessions
<1>6. ASSUME NEW r \in Resolvers, ResolveWrite(r)
      PROVE  TypeOK'
  <2>1. session[r] \in ResolveSessions
    BY <1>6, SessionShape DEF ResolveWrite
  <2> DEFINE o  == session[r].row[1]
             r1 == [row[o] EXCEPT !.base = session[r].seen]
             r2 == [r1 EXCEPT !.error = "none"]
             r3 == [r2 EXCEPT !.due = TRUE]
  <2>2. o \in Ops /\ row[o] \in Rows /\ session[r].seen \in Records
    BY <2>1 DEF ResolveSessions
  <2>3. r1 \in Rows
    BY <2>2, ColumnAssignment
  <2>4. r2 \in Rows
    BY <2>3, ColumnAssignment DEF Errors
  <2>5. r3 \in Rows
    BY <2>4, ColumnAssignment
  <2>6. [r3 EXCEPT !.status = "queued"] \in Rows
    BY <2>5, ColumnAssignment DEF Statuses
  <2>7. [row[o] EXCEPT !.status = "failed",
                       !.error = "conflict_external_wins"] \in Rows
    BY <2>2, StatusAndError DEF Statuses, Errors
  <2>8. Resolved(o, session[r]) \in Rows
    BY <2>6, <2>7 DEF Resolved
  <2>9. row' \in [Ops -> Rows]
    BY <1>6, <2>2, <2>8 DEF ResolveWrite
  <2>10. QED
    BY <1>6, <2>9 DEF ResolveWrite, Sessions
<1>7. ASSUME NEW w \in Workers, NEW o \in Ops, PrepareRefused(w, o)
      PROVE  TypeOK'
  <2>1. \A e \in Errors :
          [Claimed(o) EXCEPT !.status = "failed", !.token = 0, !.error = e]
             \in Rows
    BY ClosedClaim DEF Statuses
  <2>2. QED
    BY <1>7, <2>1 DEF PrepareRefused, Errors
<1>8. ASSUME NEW w \in Workers, NEW o \in Ops, PrepareConflict(w, o)
      PROVE  TypeOK'
  <2>1. <<o, row[o].attempts + 1>> \in Ops \X Nat
    BY DEF Rows
  <2>2. [Claimed(o) EXCEPT !.status = "conflict", !.token = 0,
                           !.error = "conflict"] \in Rows
    BY ClosedClaim DEF Statuses, Errors
  <2>3. QED
    BY <1>8, <2>1, <2>2 DEF PrepareConflict
<1>9. ASSUME NEW w \in Workers, NEW o \in Ops, PrepareSend(w, o)
      PROVE  TypeOK'
  <2>1. row' \in [Ops -> Rows]
    BY <1>9, ClaimedIsARow, ColumnAssignment DEF PrepareSend
  <2>2. row[o].attempts + 1 \in Nat
    BY DEF Rows
  <2>3. [Idle EXCEPT !.pc = "call", !.op = o, !.token = row[o].attempts + 1]
           \in WorkerStates
    BY <2>2, IdleIsAWorkerState DEF WorkerStates, WorkerPcs
  <2>4. QED
    BY <1>9, <2>1, <2>3 DEF PrepareSend
<1>10. ASSUME NEW w \in Workers, NEW outcome \in Outcomes,
              NEW does \in BOOLEAN, Call(w, outcome, does)
       PROVE  TypeOK'
  <2>1. worker[w].op \in Ops
    BY <1>10, BusyWorker DEF Call
  <2> DEFINE s1 == [worker[w] EXCEPT !.pc = "persist"]
  <2>2. s1 \in WorkerStates
    BY DEF WorkerStates, WorkerPcs
  <2>3. [s1 EXCEPT !.outcome = outcome] \in WorkerStates
    BY <2>2 DEF WorkerStates
  <2>4. worker' \in [Workers -> WorkerStates]
    BY <1>10, <2>3 DEF Call
  <2>5. Effect(worker[w].op) \in Records
    <3> DEFINE o == worker[w].op
    <3>1. remote[TargetOf[o]] \in Records
      BY <2>1, TargetType
    <3>2. CASE KindOf[o] = "update"
      BY <2>1, <3>1, <3>2 DEF Effect, Records, Values
    <3>3. CASE KindOf[o] = "cancel"
      BY <3>1, <3>3 DEF Effect, Records
    <3>4. CASE KindOf[o] \notin {"update", "cancel"}
      BY <3>1, <3>4 DEF Effect
    <3>5. QED
      BY <3>2, <3>3, <3>4
  <2>6. executed' \in [Ops -> Nat] /\ remote' \in [Targets -> Records]
    BY <1>10, <2>1, <2>5 DEF Call
  <2>7. QED
    BY <1>10, <2>4, <2>6 DEF Call
<1>11. ASSUME NEW w \in Workers, PersistRead(w)
       PROVE  TypeOK'
  BY <1>11, IdleIsAWorkerState DEF PersistRead, WorkerStates, WorkerPcs
<1>12. ASSUME NEW w \in Workers, PersistFlush(w)
       PROVE  TypeOK'
  <2>1. worker[w].op \in Ops /\ worker[w].outcome \in Outcomes
    BY <1>12, BusyWorker DEF PersistFlush, WorkerStates
  <2>2. Stored(worker[w].op, worker[w].outcome) \in Rows
    BY <2>1, StoredIsARow
  <2>3. QED
    BY <1>12, <2>1, <2>2, IdleIsAWorkerState DEF PersistFlush
<1>13. ASSUME NEW w \in Workers, PersistGiveUp(w) \/ Crash(w)
       PROVE  TypeOK'
  BY <1>13, IdleIsAWorkerState DEF PersistGiveUp, Crash
<1>14. ASSUME NEW w \in Workers, RecoverRead(w)
       PROVE  TypeOK'
  <2>1. {<<o, row[o].dispatched>> : o \in Stale} \in SUBSET (Ops \X BOOLEAN)
    BY DEF Stale, Rows
  <2>2. QED
    BY <1>14, <2>1, IdleIsAWorkerState DEF RecoverRead, WorkerStates, WorkerPcs
<1>15. ASSUME NEW w \in Workers, RecoverFlush(w)
       PROVE  TypeOK'
  <2>1. \A o \in Ops, sent \in BOOLEAN : Recovered(o, sent) \in Rows
    BY RecoveredIsARow
  <2>2. row' \in [Ops -> Rows]
    BY <1>15, <2>1 DEF RecoverFlush
  <2>3. QED
    BY <1>15, <2>2, IdleIsAWorkerState DEF RecoverFlush
<1>16. ASSUME NEW o \in Ops, LeaseExpires(o) \/ BecomesDue(o)
       PROVE  TypeOK'
  <2>1. /\ [row[o] EXCEPT !.expired = TRUE] \in Rows
        /\ [row[o] EXCEPT !.due = TRUE] \in Rows
    BY ColumnAssignment
  <2>2. QED
    BY <1>16, <2>1 DEF LeaseExpires, BecomesDue
<1>17. ASSUME NEW t \in Targets, ExternalEdit(t)
       PROVE  TypeOK'
  BY <1>17 DEF ExternalEdit, Records, Values
<1>18. ASSUME NEW t \in Targets, MirrorSync(t)
       PROVE  TypeOK'
  <2>1. \A o \in Ops : [row[o] EXCEPT !.confirmed = TRUE] \in Rows
    BY ColumnAssignment
  <2>2. QED
    BY <1>18, <2>1 DEF MirrorSync
<1>19. ASSUME ToggleCapability
       PROVE  TypeOK'
  BY <1>19 DEF ToggleCapability
<1>20. CASE UNCHANGED vars
  BY <1>20 DEF vars
<1>21. QED
  BY <1>1, <1>2, <1>3, <1>4, <1>5, <1>6, <1>7, <1>8, <1>9, <1>10, <1>11,
     <1>12, <1>13, <1>14, <1>15, <1>16, <1>17, <1>18, <1>19, <1>20
     DEF Next, Dispatch, Operate, Resolve

-----------------------------------------------------------------------------
(* Steps that leave the status, the mark and the error of every row, the   *)
(* workers and the executions alone, and start no resolution.              *)
LEMMA CalmStep ==
  ASSUME Core,
         worker' = worker, executed' = executed,
         \A o \in Ops : /\ row'[o].status = row[o].status
                        /\ row'[o].dispatched = row[o].dispatched
                        /\ row'[o].error = row[o].error,
         \A h \in Handlers \cup Resolvers :
           session'[h].do = "resolve" => session'[h] = session[h],
         \A h \in Handlers \cup Resolvers :
           session[h].do = "resolve" /\ session[h].open
             => session[h].row[1] \in Ops
  PROVE  Core'
<1> USE DEF Core
<1>1. \A w, o : Holds(w, o)' <=> Holds(w, o)
  BY DEF Holds
<1>2. \A o : Quiet(o)' <=> Quiet(o)
  BY <1>1 DEF Quiet
<1>3. BusyWorker' /\ AtMostOnce'
  BY DEF BusyWorker, AtMostOnce
<1>4. UnclaimedIsUntouched'
  BY <1>2 DEF UnclaimedIsUntouched
<1>5. OneHolder'
  BY <1>1 DEF OneHolder
<1>6. HolderKnows'
  BY <1>1 DEF HolderKnows
<1>7. MarkedBeforeCall'
  BY DEF MarkedBeforeCall
<1>8. ResolverMayRequeue'
  BY <1>2 DEF ResolverMayRequeue
<1>9. ResultsAreSettled'
  BY <1>2 DEF ResultsAreSettled
<1>10. QED
  BY <1>3, <1>4, <1>5, <1>6, <1>7, <1>8, <1>9

LEMMA ResolveTarget ==
  ASSUME TypeOK
  PROVE  \A h \in Handlers \cup Resolvers :
           session[h].do = "resolve" =>
             session[h].row[1] \in Ops /\ session[h].open \in BOOLEAN
<1> SUFFICES ASSUME NEW h \in Handlers \cup Resolvers,
                    session[h].do = "resolve"
             PROVE  session[h].row[1] \in Ops /\ session[h].open \in BOOLEAN
  OBVIOUS
<1>1. session[h] \in ResolveSessions
  BY SessionShape DEF TypeOK
<1>2. QED
  BY <1>1 DEF ResolveSessions

(* A worker that goes idle holds nothing any more.                         *)
LEMMA Released ==
  ASSUME TypeOK, NEW w \in Workers, worker' = [worker EXCEPT ![w] = Idle]
  PROVE  /\ \A v \in Workers : \A o : Holds(v, o)' <=> Holds(v, o) /\ v # w
         /\ \A o : Quiet(o) => Quiet(o)'
         /\ \A v \in Workers : v # w => worker'[v] = worker[v]
         /\ worker'[w].stale = {}
<1>1. /\ \A v \in Workers : v # w => worker'[v] = worker[v]
      /\ worker'[w] = Idle
  BY DEF TypeOK
<1>2. \A v \in Workers : \A o : Holds(v, o)' <=> Holds(v, o) /\ v # w
  BY <1>1 DEF Holds, Idle
<1>3. QED
  BY <1>1, <1>2 DEF Quiet, Idle

(* A worker gives up, dies or loses its token: no row changes.             *)
LEMMA ReleasingStep ==
  ASSUME TypeOK, Core, NEW w \in Workers,
         worker' = [worker EXCEPT ![w] = Idle],
         UNCHANGED <<row, session, executed>>
  PROVE  Core'
<1> USE DEF Core
<1>1. /\ \A v \in Workers : \A o : Holds(v, o)' <=> Holds(v, o) /\ v # w
      /\ \A o : Quiet(o) => Quiet(o)'
      /\ \A v \in Workers : v # w => worker'[v] = worker[v]
      /\ worker'[w].stale = {}
  BY Released
<1>2. BusyWorker'
  BY DEF BusyWorker, TypeOK, Idle
<1>3. AtMostOnce' /\ UnclaimedIsUntouched' /\ ResultsAreSettled'
  BY <1>1 DEF AtMostOnce, UnclaimedIsUntouched, ResultsAreSettled
<1>4. OneHolder'
  BY <1>1 DEF OneHolder
<1>5. HolderKnows'
  BY <1>1 DEF HolderKnows
<1>6. MarkedBeforeCall'
  BY <1>1 DEF MarkedBeforeCall
<1>7. ResolverMayRequeue'
  BY <1>1 DEF ResolverMayRequeue
<1>8. QED
  BY <1>2, <1>3, <1>4, <1>5, <1>6, <1>7

(* One row changes and no worker does: what the new row must satisfy.      *)
LEMMA RowStep ==
  ASSUME TypeOK, Core, NEW o \in Ops,
         worker' = worker, executed' = executed,
         \A p \in Ops \ {o} : row'[p] = row[p],
         row'[o].status \in {"absent", "queued", "waiting_rate_limit", "conflict"}
           => executed[o] = 0 /\ Quiet(o),
         row'[o].status # "processing",
         (row'[o].status = "succeeded" /\ row'[o].error = "none")
           => executed[o] = 1,
         (row'[o].status = "failed" /\ row'[o].error # "confirmed_not_created")
           => executed[o] = 0 /\ Quiet(o),
         \A h \in Handlers \cup Resolvers :
           session'[h].do = "resolve" => session'[h] = session[h],
         \A h \in Handlers \cup Resolvers :
           (/\ session'[h].do = "resolve" /\ session[h].open
            /\ session[h].row[1] = o)
             => row'[o].status \in {"conflict", "unknown", "succeeded", "failed"}
  PROVE  Core'
<1> USE DEF Core
<1>1. \A w, p : Holds(w, p)' <=> Holds(w, p)
  BY DEF Holds
<1>2. \A p : Quiet(p)' <=> Quiet(p)
  BY <1>1 DEF Quiet
<1>3. BusyWorker' /\ AtMostOnce'
  BY DEF BusyWorker, AtMostOnce
<1>4. UnclaimedIsUntouched'
  BY <1>2 DEF UnclaimedIsUntouched
<1>5. OneHolder' /\ HolderKnows'
  BY <1>1 DEF OneHolder, HolderKnows
<1>6. MarkedBeforeCall'
  BY DEF MarkedBeforeCall
<1>7. ResolverMayRequeue'
  <2>1. \A h \in Handlers \cup Resolvers :
          session[h].do = "resolve" => session[h].row[1] \in Ops
    BY ResolveTarget
  <2>2. QED
    BY <1>2, <2>1 DEF ResolverMayRequeue
<1>8. ResultsAreSettled'
  BY <1>2 DEF ResultsAreSettled
<1>9. QED
  BY <1>3, <1>4, <1>5, <1>6, <1>7, <1>8

-----------------------------------------------------------------------------
(* At most one request resolves a conflict at a time.                      *)
OneResolver == \A r, s \in Resolvers : r = s

LEMMA CallStep ==
  ASSUME TypeOK, Core, NEW w \in Workers, NEW outcome \in Outcomes,
         NEW does \in BOOLEAN, Call(w, outcome, does)
  PROVE  Core'
<1> DEFINE o == worker[w].op
<1> USE DEF Core
<1>1. /\ worker[w].pc = "call" /\ o \in Ops
      /\ Holds(w, o)
      /\ executed[o] = 0
  BY DEF Call, BusyWorker, Holds, HolderKnows
<1>2. /\ \A v \in Workers : v # w => worker'[v] = worker[v]
      /\ worker'[w].pc = "persist" /\ worker'[w].op = o
      /\ worker'[w].outcome = outcome
      /\ worker'[w].stale = worker[w].stale
  BY DEF Call, TypeOK, WorkerStates
<1>3. /\ row' = row /\ session' = session
      /\ \A p \in Ops : p # o => executed'[p] = executed[p]
      /\ executed'[o] = IF does THEN 1 ELSE 0
  BY <1>1 DEF Call, TypeOK
<1>4. /\ \A v \in Workers : \A p : Holds(v, p)' <=> Holds(v, p)
      /\ \A p : Quiet(p)' <=> Quiet(p)
  BY <1>1, <1>2 DEF Holds, Quiet
<1>5. ~Quiet(o)
  BY <1>1 DEF Quiet
<1>6. BusyWorker'
  BY <1>1, <1>2 DEF BusyWorker
<1>7. AtMostOnce'
  BY <1>1, <1>3 DEF AtMostOnce
<1>8. UnclaimedIsUntouched'
  BY <1>3, <1>4, <1>5 DEF UnclaimedIsUntouched
<1>9. OneHolder'
  BY <1>4 DEF OneHolder
<1>10. HolderKnows'
  <2> SUFFICES ASSUME NEW v \in Workers, NEW p \in Ops, Holds(v, p)'
               PROVE  /\ worker'[v].pc = "call" => executed'[p] = 0
                      /\ (worker'[v].pc # "call"
                          /\ worker'[v].outcome \in {"rejected", "rate_limited"})
                            => executed'[p] = 0
                      /\ (worker'[v].pc # "call"
                          /\ worker'[v].outcome = "success")
                            => executed'[p] = 1
    BY DEF HolderKnows
  <2>1. CASE v = w
    <3>1. p = o
      BY <1>1, <1>4, <2>1 DEF Holds
    <3>2. QED
      BY <1>2, <1>3, <2>1, <3>1 DEF Call
  <2>2. CASE v # w
    <3>1. Holds(v, p) /\ p # o
      BY <1>1, <1>4, <2>2 DEF OneHolder
    <3>2. QED
      BY <1>2, <1>3, <2>2, <3>1 DEF HolderKnows
  <2>3. QED
    BY <2>1, <2>2
<1>11. MarkedBeforeCall'
  BY <1>2, <1>3 DEF MarkedBeforeCall
<1>12. ResolverMayRequeue'
  BY <1>3, <1>4, <1>5, ResolveTarget DEF ResolverMayRequeue
<1>13. ResultsAreSettled'
  BY <1>1, <1>3, <1>4, <1>5 DEF ResultsAreSettled
<1>14. QED
  BY <1>6, <1>7, <1>8, <1>9, <1>10, <1>11, <1>12, <1>13

LEMMA ClaimStep ==
  ASSUME TypeOK, Core, NEW w \in Workers, NEW o \in Ops, PrepareSend(w, o)
  PROVE  Core'
<1> USE DEF Core
<1>1. /\ executed[o] = 0 /\ Quiet(o)
      /\ row[o].status \in {"queued", "waiting_rate_limit"}
      /\ worker[w].pc = "idle"
  BY DEF PrepareSend, MayClaim, Claimable, UnclaimedIsUntouched
<1>2. /\ \A v \in Workers : v # w => worker'[v] = worker[v]
      /\ worker'[w].pc = "call" /\ worker'[w].op = o
      /\ worker'[w].stale = {}
  BY DEF PrepareSend, TypeOK, Idle
<1>3. /\ session' = session /\ executed' = executed
      /\ \A p \in Ops : p # o => row'[p] = row[p]
      /\ row'[o].status = "processing" /\ row'[o].dispatched
  <2>1. Claimed(o).status = "processing" /\ Claimed(o) \in Rows
    BY ClaimedIsARow DEF Claimed, TypeOK, Rows
  <2>2. QED
    BY <2>1 DEF PrepareSend, TypeOK, Rows
<1>4. /\ \A v \in Workers : \A p : Holds(v, p)' <=> Holds(v, p) \/ (v = w /\ p = o)
      /\ \A p \in Ops : p # o => (Quiet(p)' <=> Quiet(p))
  BY <1>1, <1>2 DEF Holds, Quiet
<1>5. BusyWorker'
  BY <1>2 DEF BusyWorker
<1>6. AtMostOnce'
  BY <1>3 DEF AtMostOnce
<1>7. UnclaimedIsUntouched'
  BY <1>3, <1>4 DEF UnclaimedIsUntouched
<1>8. OneHolder'
  BY <1>1, <1>4 DEF OneHolder, Quiet
<1>9. HolderKnows'
  BY <1>1, <1>2, <1>3, <1>4 DEF HolderKnows, Quiet, Holds
<1>10. MarkedBeforeCall'
  BY <1>2, <1>3 DEF MarkedBeforeCall
<1>11. ResolverMayRequeue'
  BY <1>1, <1>3, <1>4, ResolveTarget DEF ResolverMayRequeue
<1>12. ResultsAreSettled'
  BY <1>3, <1>4 DEF ResultsAreSettled
<1>13. QED
  BY <1>5, <1>6, <1>7, <1>8, <1>9, <1>10, <1>11, <1>12

LEMMA FlushStep ==
  ASSUME TypeOK, Core, NEW w \in Workers, PersistFlush(w),
         NEW o \in Ops, o = worker[w].op
  PROVE  Core'
<1> DEFINE out == worker[w].outcome
<1> USE DEF Core
<1>1. /\ worker[w].pc = "flush" /\ out \in Outcomes
      /\ Holds(w, o)
  BY DEF PersistFlush, BusyWorker, Holds, TypeOK, WorkerStates
<1>2. /\ out \in {"rejected", "rate_limited"} => executed[o] = 0
      /\ out = "success" => executed[o] = 1
  BY <1>1 DEF HolderKnows
<1>3. /\ \A v \in Workers : \A p : Holds(v, p)' <=> Holds(v, p) /\ v # w
      /\ \A p : Quiet(p) => Quiet(p)'
      /\ \A v \in Workers : v # w => worker'[v] = worker[v]
      /\ worker'[w].stale = {}
  BY Released DEF PersistFlush
<1>4. Quiet(o)'
  BY <1>1, <1>3 DEF OneHolder, Quiet
<1>5. ~Quiet(o)
  BY <1>1 DEF Quiet
<1>6. /\ session' = session /\ executed' = executed
      /\ \A p \in Ops : p # o => row'[p] = row[p]
      /\ row'[o] = Stored(o, out)
  BY <1>1 DEF PersistFlush, TypeOK
<1>7. /\ Stored(o, out).status = StatusOf(out)
      /\ Stored(o, out).error = IF out = "success" THEN "none" ELSE out
  BY <1>1 DEF Stored, TypeOK, Rows
<1>8. /\ row'[o].status \in {"succeeded", "failed", "waiting_rate_limit", "unknown"}
      /\ row'[o].status = "succeeded" => executed[o] = 1
      /\ row'[o].status \in {"failed", "waiting_rate_limit"} => executed[o] = 0
  BY <1>1, <1>2, <1>6, <1>7 DEF StatusOf, Outcomes
<1>9. BusyWorker'
  BY <1>3 DEF BusyWorker, PersistFlush, TypeOK, Idle
<1>10. AtMostOnce'
  BY <1>6 DEF AtMostOnce
<1>11. UnclaimedIsUntouched'
  BY <1>3, <1>4, <1>6, <1>8 DEF UnclaimedIsUntouched
<1>12. OneHolder'
  BY <1>3 DEF OneHolder
<1>13. HolderKnows'
  BY <1>3, <1>6 DEF HolderKnows
<1>14. MarkedBeforeCall'
  BY <1>3, <1>6, <1>8 DEF MarkedBeforeCall
<1>15. ResolverMayRequeue'
  BY <1>3, <1>5, <1>6, ResolveTarget DEF ResolverMayRequeue
<1>16. ResultsAreSettled'
  BY <1>3, <1>4, <1>6, <1>8 DEF ResultsAreSettled
<1>17. QED
  BY <1>9, <1>10, <1>11, <1>12, <1>13, <1>14, <1>15, <1>16

(* Recovery re-queues nothing: every stale row it read was marked as sent. *)
LEMMA RecoverStep ==
  ASSUME TypeOK, Core, NEW w \in Workers, RecoverFlush(w)
  PROVE  Core'
<1> USE DEF Core
<1>1. /\ \A v \in Workers : \A p : Holds(v, p)' <=> Holds(v, p) /\ v # w
      /\ \A p : Quiet(p) => Quiet(p)'
      /\ \A v \in Workers : v # w => worker'[v] = worker[v]
      /\ worker'[w].stale = {}
  BY Released DEF RecoverFlush
<1>2. session' = session /\ executed' = executed
  BY DEF RecoverFlush
<1>3. \A o \in Ops : row'[o] = row[o] \/ row'[o].status = "unknown"
  BY DEF RecoverFlush, MarkedBeforeCall, Recovered, TypeOK, Rows
<1>4. BusyWorker'
  BY <1>1 DEF BusyWorker, RecoverFlush, TypeOK, Idle
<1>5. AtMostOnce'
  BY <1>2 DEF AtMostOnce
<1>6. UnclaimedIsUntouched'
  BY <1>1, <1>2, <1>3 DEF UnclaimedIsUntouched
<1>7. OneHolder'
  BY <1>1 DEF OneHolder
<1>8. HolderKnows'
  BY <1>1, <1>2 DEF HolderKnows
<1>9. MarkedBeforeCall'
  BY <1>1, <1>3 DEF MarkedBeforeCall
<1>10. ResolverMayRequeue'
  BY <1>1, <1>2, <1>3, ResolveTarget DEF ResolverMayRequeue
<1>11. ResultsAreSettled'
  BY <1>1, <1>2, <1>3 DEF ResultsAreSettled
<1>12. QED
  BY <1>4, <1>5, <1>6, <1>7, <1>8, <1>9, <1>10, <1>11

LEMMA PersistReadStep ==
  ASSUME TypeOK, Core, NEW w \in Workers, PersistRead(w)
  PROVE  Core'
<1> USE DEF Core
<1>1. CASE worker' = [worker EXCEPT ![w] = Idle]
  BY <1>1, ReleasingStep DEF PersistRead
<1>2. CASE worker' = [worker EXCEPT ![w].pc = "flush"]
  <2>1. /\ worker[w].pc = "persist"
        /\ \A v \in Workers : /\ worker'[v].op = worker[v].op
                              /\ worker'[v].outcome = worker[v].outcome
                              /\ worker'[v].stale = worker[v].stale
                              /\ v # w => worker'[v] = worker[v]
        /\ worker'[w].pc = "flush"
        /\ UNCHANGED <<row, session, executed>>
    BY <1>2 DEF PersistRead, TypeOK, WorkerStates
  <2>2. /\ \A v \in Workers : \A p : Holds(v, p)' <=> Holds(v, p)
        /\ \A p : Quiet(p)' <=> Quiet(p)
    BY <2>1 DEF Holds, Quiet
  <2>3. BusyWorker' /\ AtMostOnce'
    BY <2>1 DEF BusyWorker, AtMostOnce
  <2>4. UnclaimedIsUntouched' /\ ResultsAreSettled'
    BY <2>1, <2>2 DEF UnclaimedIsUntouched, ResultsAreSettled
  <2>5. OneHolder'
    BY <2>2 DEF OneHolder
  <2>6. HolderKnows'
    BY <2>1, <2>2 DEF HolderKnows
  <2>7. MarkedBeforeCall'
    BY <2>1 DEF MarkedBeforeCall
  <2>8. ResolverMayRequeue'
    BY <2>1, <2>2, ResolveTarget DEF ResolverMayRequeue
  <2>9. QED
    BY <2>3, <2>4, <2>5, <2>6, <2>7, <2>8
<1>3. QED
  BY <1>1, <1>2 DEF PersistRead

(* What recovery reads was all marked as sent before the call.             *)
LEMMA RecoverReadStep ==
  ASSUME TypeOK, Core, NEW w \in Workers, RecoverRead(w)
  PROVE  Core'
<1> USE DEF Core
<1>1. /\ worker[w].pc = "idle" /\ worker'[w].pc = "recover"
      /\ worker'[w].stale = {<<o, row[o].dispatched>> : o \in Stale}
      /\ \A v \in Workers : v # w => worker'[v] = worker[v]
      /\ UNCHANGED <<row, session, executed>>
  BY DEF RecoverRead, TypeOK, Idle
<1>2. /\ \A v \in Workers : \A p : Holds(v, p)' <=> Holds(v, p)
      /\ \A p : Quiet(p)' <=> Quiet(p)
  BY <1>1 DEF Holds, Quiet
<1>3. BusyWorker' /\ AtMostOnce'
  BY <1>1 DEF BusyWorker, AtMostOnce
<1>4. UnclaimedIsUntouched' /\ ResultsAreSettled'
  BY <1>1, <1>2 DEF UnclaimedIsUntouched, ResultsAreSettled
<1>5. OneHolder'
  BY <1>2 DEF OneHolder
<1>6. HolderKnows'
  BY <1>1, <1>2 DEF HolderKnows, Holds
<1>7. MarkedBeforeCall'
  <2>1. \A o \in Stale : row[o].dispatched
    BY DEF Stale, MarkedBeforeCall
  <2>2. \A o \in Ops : <<o, FALSE>> \notin worker'[w].stale
    BY <1>1, <2>1
  <2>3. QED
    BY <1>1, <2>2 DEF MarkedBeforeCall
<1>8. ResolverMayRequeue'
  BY <1>1, <1>2, ResolveTarget DEF ResolverMayRequeue
<1>9. QED
  BY <1>3, <1>4, <1>5, <1>6, <1>7, <1>8

(* An operation is inserted before anybody could claim it.                 *)
LEMMA InsertStep ==
  ASSUME TypeOK, Core, NEW h \in Handlers, SubmitInsert(h)
  PROVE  Core'
<1> DEFINE new == [Absent EXCEPT !.status = "queued", !.base = session[h].seen]
<1>1. session[h].op \in Ops
  <2>1. session[h] \in SubmitSessions
    BY SessionShape DEF SubmitInsert, TypeOK
  <2>2. QED
    BY <2>1 DEF SubmitSessions
<1>2. PICK o \in Ops : o = session[h].op
  BY <1>1
<1>3. /\ worker' = worker /\ executed' = executed
      /\ \A k \in Handlers \cup Resolvers :
           session'[k].do = "resolve" => session'[k] = session[k]
      /\ \A k \in Handlers \cup Resolvers :
           session[k].do = "resolve" /\ session[k].open
             => session[k].row[1] \in Ops
  BY ResolveTarget DEF SubmitInsert, TypeOK, NoSession
<1>4. CASE row[o].status # "absent"
  <2>1. row' = row
    BY <1>2, <1>4 DEF SubmitInsert
  <2>2. QED
    BY <1>3, <2>1, CalmStep
<1>5. CASE row[o].status = "absent"
  <2>1. /\ \A p \in Ops \ {o} : row'[p] = row[p]
        /\ row'[o] = new /\ new.status = "queued"
    BY <1>2, <1>5 DEF SubmitInsert, TypeOK, Absent
  <2>2. executed[o] = 0 /\ Quiet(o)
    BY <1>5 DEF Core, UnclaimedIsUntouched
  <2>3. \A k \in Handlers \cup Resolvers :
          ~(session'[k].do = "resolve" /\ session[k].open
              /\ session[k].row[1] = o)
    BY <1>3, <1>5 DEF Core, ResolverMayRequeue
  <2>4. QED
    BY <1>3, <2>1, <2>2, <2>3, RowStep
<1>6. QED
  BY <1>4, <1>5

(* A claim that ends without a call closes a row nobody sent.              *)
LEMMA ClosedClaimStep ==
  ASSUME TypeOK, Core, NEW w \in Workers, NEW o \in Ops,
         PrepareRefused(w, o) \/ PrepareConflict(w, o)
  PROVE  Core'
<1>1. executed[o] = 0 /\ Quiet(o)
  BY DEF Core, UnclaimedIsUntouched, PrepareRefused, PrepareConflict,
         MayClaim, Claimable
<1>2. Claimed(o) \in Rows
  BY ClaimedIsARow
<1>3. \/ /\ row'[o].status = "failed"
         /\ row'[o].error # "confirmed_not_created"
      \/ row'[o].status = "conflict"
  <2>1. \A v, e : LET r == [Claimed(o) EXCEPT !.status = v, !.token = 0,
                                              !.error = e]
                  IN  r.status = v /\ r.error = e
    BY <1>2 DEF Rows
  <2>2. CASE PrepareRefused(w, o)
    <3>1. row'[o].status = "failed"
      BY <2>1, <2>2 DEF PrepareRefused, TypeOK
    <3>2. row'[o].error \in {"already_cancelled", "capability_disabled"}
      BY <2>1, <2>2 DEF PrepareRefused, TypeOK
    <3>3. QED
      BY <3>1, <3>2
  <2>3. CASE PrepareConflict(w, o)
    BY <2>1, <2>3 DEF PrepareConflict, TypeOK
  <2>4. QED
    BY <2>2, <2>3
<1>4. /\ worker' = worker /\ executed' = executed /\ session' = session
      /\ \A p \in Ops \ {o} : row'[p] = row[p]
  BY DEF PrepareRefused, PrepareConflict, TypeOK
<1>5. QED
  BY <1>1, <1>3, <1>4, RowStep

(* A person decides an unknown result: the decision is not the worker's.   *)
LEMMA ReconcileStep ==
  ASSUME TypeOK, Core, NEW h \in Handlers, ReconcileWrite(h)
  PROVE  Core'
<1>1. session[h].op \in Ops
  <2>1. session[h] \in ReconcileSessions
    BY SessionShape DEF ReconcileWrite, TypeOK
  <2>2. QED
    BY <2>1 DEF ReconcileSessions
<1>2. PICK o \in Ops : o = session[h].op
  BY <1>1
<1>3. /\ worker' = worker /\ executed' = executed
      /\ \A k \in Handlers \cup Resolvers :
           session'[k].do = "resolve" => session'[k] = session[k]
      /\ \A p \in Ops \ {o} : row'[p] = row[p]
  BY <1>2 DEF ReconcileWrite, TypeOK, NoSession
<1>4. \/ row'[o].status = "succeeded" /\ row'[o].error = "reconciled_created"
      \/ row'[o].status = "failed" /\ row'[o].error = "confirmed_not_created"
  BY <1>2 DEF ReconcileWrite, TypeOK, Rows
<1>5. QED
  BY <1>3, <1>4, RowStep

(* A request that saw an open conflict may re-queue it: it was not sent.   *)
LEMMA ResolveReadStep ==
  ASSUME TypeOK, Core, NEW r \in Resolvers, NEW c \in conflicts,
         NEW local \in BOOLEAN, ResolveRead(r, c, local)
  PROVE  Core'
<1> USE DEF Core
<1>1. UNCHANGED <<row, worker, executed>>
  BY DEF ResolveRead
<1>2. /\ \A w, o : Holds(w, o)' <=> Holds(w, o)
      /\ \A o : Quiet(o)' <=> Quiet(o)
  BY <1>1 DEF Holds, Quiet
<1>3. BusyWorker' /\ AtMostOnce' /\ MarkedBeforeCall'
  BY <1>1 DEF BusyWorker, AtMostOnce, MarkedBeforeCall
<1>4. UnclaimedIsUntouched' /\ ResultsAreSettled'
  BY <1>1, <1>2 DEF UnclaimedIsUntouched, ResultsAreSettled
<1>5. OneHolder' /\ HolderKnows'
  BY <1>1, <1>2 DEF OneHolder, HolderKnows
<1>6. ResolverMayRequeue'
  <2>1. c[1] \in Ops
    BY DEF TypeOK
  <2>2. /\ session'[r].row = c
        /\ session'[r].open = (row[c[1]].status = "conflict")
        /\ \A h \in Handlers \cup Resolvers : h # r => session'[h] = session[h]
    BY DEF ResolveRead, TypeOK
  <2>3. row[c[1]].status = "conflict" => executed[c[1]] = 0 /\ Quiet(c[1])
    BY <2>1 DEF UnclaimedIsUntouched
  <2>4. QED
    BY <1>1, <1>2, <2>1, <2>2, <2>3, ResolveTarget DEF ResolverMayRequeue
<1>7. QED
  BY <1>3, <1>4, <1>5, <1>6

(* The decision on a conflict; no other request holds one to decide.       *)
LEMMA ResolveWriteStep ==
  ASSUME TypeOK, Core, OneResolver, NEW r \in Resolvers, ResolveWrite(r)
  PROVE  Core'
<1>1. session[r] \in ResolveSessions
  BY SessionShape DEF ResolveWrite, TypeOK
<1>2. PICK o \in Ops : o = session[r].row[1]
  BY <1>1 DEF ResolveSessions
<1>3. worker' = worker /\ executed' = executed
  BY DEF ResolveWrite
<1>4. \A h \in Handlers \cup Resolvers : session'[h].do # "resolve"
  BY DEF ResolveWrite, TypeOK, NoSession, Core, ResolverMayRequeue, OneResolver
<1>5. CASE ~session[r].open
  <2>1. row' = row
    BY <1>5 DEF ResolveWrite
  <2>2. QED
    BY <1>3, <1>4, <2>1, ResolveTarget, CalmStep
<1>6. CASE session[r].open
  <2>1. executed[o] = 0 /\ Quiet(o)
    BY <1>2, <1>6 DEF Core, ResolverMayRequeue, ResolveWrite
  <2>2. \A p \in Ops \ {o} : row'[p] = row[p]
    BY <1>2, <1>6 DEF ResolveWrite, TypeOK
  <2>3. row'[o] = Resolved(o, session[r])
    BY <1>2, <1>6 DEF ResolveWrite, TypeOK
  <2>4. \/ row'[o].status = "queued"
        \/ /\ row'[o].status = "failed"
           /\ row'[o].error = "conflict_external_wins"
    BY <2>3 DEF Resolved, TypeOK, Rows
  <2>5. QED
    BY <1>3, <1>4, <2>1, <2>2, <2>4, RowStep
<1>7. QED
  BY <1>1, <1>5, <1>6 DEF ResolveSessions

-----------------------------------------------------------------------------
LEMMA InitEstablishes ==
  ASSUME Init
  PROVE  IInv
<1> USE DEF Init
<1>1. TypeOK
  <2>1. Absent \in Rows /\ Fresh \in Records
    BY DEF Absent, Rows, Statuses, Errors, Fresh, Records, Values
  <2>2. NoSession \in Sessions
    BY DEF Sessions
  <2>3. QED
    BY <2>1, <2>2, IdleIsAWorkerState DEF TypeOK
<1>2. \A w \in Workers, o \in Ops : ~Holds(w, o)
  BY DEF Holds, Idle
<1>3. \A o \in Ops : row[o].status = "absent" /\ executed[o] = 0 /\ Quiet(o)
  BY <1>2 DEF Absent, Quiet
<1>4. BusyWorker /\ AtMostOnce
  BY DEF BusyWorker, Idle, AtMostOnce
<1>5. UnclaimedIsUntouched /\ ResultsAreSettled
  BY <1>3 DEF UnclaimedIsUntouched, ResultsAreSettled
<1>6. OneHolder /\ HolderKnows
  BY <1>2 DEF OneHolder, HolderKnows
<1>7. MarkedBeforeCall
  BY <1>3 DEF MarkedBeforeCall, Idle
<1>8. ResolverMayRequeue
  BY DEF ResolverMayRequeue, NoSession
<1>9. QED
  BY <1>1, <1>4, <1>5, <1>6, <1>7, <1>8 DEF IInv, Core

LEMMA IInvInductive ==
  ASSUME OneResolver, IInv, [Next]_vars
  PROVE  IInv'
<1> USE DEF IInv
<1>1. TypeOK'
  BY TypeOKInductive DEF Core
<1>2. \A h \in Handlers \cup Resolvers :
        session[h].do = "resolve" /\ session[h].open => session[h].row[1] \in Ops
  BY ResolveTarget
<1>3. ASSUME NEW h \in Handlers,
             \/ \E o \in Ops : SubmitRead(h, o)
             \/ \E o \in Ops, created \in BOOLEAN : ReconcileRead(h, o, created)
      PROVE  Core'
  <2>1. /\ UNCHANGED <<row, worker, executed>>
        /\ \A k \in Handlers \cup Resolvers :
             session'[k].do = "resolve" => session'[k] = session[k]
    BY <1>3 DEF SubmitRead, ReconcileRead, TypeOK
  <2>2. QED
    BY <1>2, <2>1, CalmStep
<1>4. ASSUME NEW o \in Ops, LeaseExpires(o) \/ BecomesDue(o)
      PROVE  Core'
  <2>1. /\ UNCHANGED <<session, worker, executed>>
        /\ \A p \in Ops : /\ row'[p].status = row[p].status
                          /\ row'[p].dispatched = row[p].dispatched
                          /\ row'[p].error = row[p].error
    BY <1>4 DEF LeaseExpires, BecomesDue, TypeOK, Rows
  <2>2. QED
    BY <1>2, <2>1, CalmStep
<1>5. ASSUME NEW t \in Targets, MirrorSync(t)
      PROVE  Core'
  <2>1. /\ UNCHANGED <<session, worker, executed>>
        /\ \A p \in Ops : /\ row'[p].status = row[p].status
                          /\ row'[p].dispatched = row[p].dispatched
                          /\ row'[p].error = row[p].error
    BY <1>5 DEF MirrorSync, TypeOK, Rows
  <2>2. QED
    BY <1>2, <2>1, CalmStep
<1>6. ASSUME UNCHANGED <<row, worker, session, executed>>
      PROVE  Core'
  BY <1>2, <1>6, CalmStep
<1>7. ASSUME NEW w \in Workers, Dispatch(w) \/ PersistGiveUp(w) \/ Crash(w)
      PROVE  Core'
  <2>1. ASSUME PersistGiveUp(w) \/ Crash(w)
        PROVE  Core'
    BY <2>1, ReleasingStep DEF PersistGiveUp, Crash
  <2>2. ASSUME NEW o \in Ops,
               PrepareRefused(w, o) \/ PrepareConflict(w, o) \/ PrepareSend(w, o)
        PROVE  Core'
    BY <2>2, ClosedClaimStep, ClaimStep
  <2>3. ASSUME PersistFlush(w)
        PROVE  Core'
    <3>1. worker[w].op \in Ops
      BY <2>3 DEF Core, BusyWorker, PersistFlush
    <3>2. QED
      BY <2>3, <3>1, FlushStep
  <2>4. QED
    BY <1>7, <2>1, <2>2, <2>3, CallStep, PersistReadStep, RecoverReadStep,
       RecoverStep DEF Dispatch
<1>8. ASSUME NEW h \in Handlers, Operate(h)
      PROVE  Core'
  BY <1>3, <1>8, InsertStep, ReconcileStep DEF Operate
<1>9. ASSUME NEW r \in Resolvers, Resolve(r)
      PROVE  Core'
  BY <1>9, ResolveReadStep, ResolveWriteStep DEF Resolve
<1>10. ASSUME ToggleCapability \/ (\E t \in Targets : ExternalEdit(t))
       PROVE  Core'
  BY <1>6, <1>10 DEF ToggleCapability, ExternalEdit
<1>11. CASE UNCHANGED vars
  BY <1>1, <1>6, <1>11 DEF vars
<1>12. QED
  BY <1>1, <1>4, <1>5, <1>7, <1>8, <1>9, <1>10, <1>11 DEF Next

LEMMA WorkersKnowTheirWork == Spec => [](TypeOK /\ BusyWorker)
<1>1. Init => TypeOK /\ BusyWorker
  BY InitEstablishes DEF IInv, Core
<1>2. TypeOK /\ BusyWorker /\ [Next]_vars => BusyWorker'
  <2> SUFFICES ASSUME TypeOK, BusyWorker, [Next]_vars
               PROVE  BusyWorker'
    OBVIOUS
  <2>1. ASSUME worker' = worker
        PROVE  BusyWorker'
    BY <2>1 DEF BusyWorker
  <2>2. ASSUME NEW w \in Workers, worker' = [worker EXCEPT ![w] = Idle]
        PROVE  BusyWorker'
    BY <2>2 DEF BusyWorker, TypeOK, Idle
  <2>3. ASSUME NEW w \in Workers, NEW o \in Ops, PrepareSend(w, o)
        PROVE  BusyWorker'
    BY <2>3 DEF BusyWorker, TypeOK, Idle, PrepareSend
  <2>4. ASSUME NEW w \in Workers, NEW outcome \in Outcomes,
               NEW does \in BOOLEAN, Call(w, outcome, does)
        PROVE  BusyWorker'
    BY <2>4 DEF BusyWorker, TypeOK, WorkerStates, Call
  <2>5. ASSUME NEW w \in Workers, PersistRead(w)
        PROVE  BusyWorker'
    <3>1. worker[w].op \in Ops
      BY <2>5 DEF PersistRead, BusyWorker
    <3>2. CASE worker' = [worker EXCEPT ![w].pc = "flush"]
      BY <3>1, <3>2 DEF BusyWorker, TypeOK, WorkerStates
    <3>3. QED
      BY <2>2, <2>5, <3>2 DEF PersistRead
  <2>6. ASSUME NEW w \in Workers, RecoverRead(w)
        PROVE  BusyWorker'
    BY <2>6 DEF BusyWorker, TypeOK, Idle, RecoverRead
  <2>7. ASSUME NEW w \in Workers, Dispatch(w) \/ PersistGiveUp(w) \/ Crash(w)
        PROVE  BusyWorker'
    BY <2>1, <2>2, <2>3, <2>4, <2>5, <2>6, <2>7
       DEF Dispatch, PrepareRefused, PrepareConflict, PersistFlush,
           RecoverFlush, PersistGiveUp, Crash
  <2>8. QED
    BY <2>1, <2>7
       DEF Next, Operate, SubmitRead, SubmitInsert, ReconcileRead,
           ReconcileWrite, Resolve, ResolveRead, ResolveWrite, LeaseExpires,
           BecomesDue, ExternalEdit, MirrorSync, ToggleCapability, vars
<1>3. QED
  BY <1>1, <1>2, TypeOKInductive, PTL DEF Spec

(* The shape of the rows, workers and requests, whatever the number of     *)
(* requests that resolve conflicts (models/core.py:245-296).               *)
THEOREM TypeCorrect == Spec => []TypeOK
BY WorkersKnowTheirWork, PTL

LEMMA IInvHolds == ASSUME OneResolver PROVE Spec => []IInv
<1>1. Init => IInv
  BY InitEstablishes
<1>2. IInv /\ [Next]_vars => IInv'
  BY IInvInductive
<1>3. QED
  BY <1>1, <1>2, PTL DEF Spec

(* No blind repeat (outbox.py:1-7): Mercos executes an operation at most   *)
(* once, for any number of workers, crashes and lease expirations, as long *)
(* as conflicts are resolved one request at a time.                        *)
THEOREM NoBlindRepeat == ASSUME OneResolver PROVE Spec => []AtMostOnce
<1>1. IInv => AtMostOnce
  BY DEF IInv, Core
<1>2. QED
  BY <1>1, IInvHolds, PTL

(* What the worker records as succeeded was executed, and what it records  *)
(* as failed was not (outbox.py:548-562), under the same assumption.       *)
THEOREM RecordedResultsAreTrue ==
  ASSUME OneResolver PROVE Spec => []ResultsAreKnown
<1>1. IInv => ResultsAreKnown
  BY DEF IInv, Core, ResultsAreSettled, ResultsAreKnown
<1>2. QED
  BY <1>1, IInvHolds, PTL

-----------------------------------------------------------------------------
(* Confirmations                                                           *)

LEMMA ConfirmationUntouched ==
  ASSUME TypeOK, NEW o \in Ops
  PROVE  /\ Claimed(o).confirmed = row[o].confirmed
         /\ \A out \in Outcomes : Stored(o, out).confirmed = row[o].confirmed
         /\ \A sent \in BOOLEAN : Recovered(o, sent).confirmed = row[o].confirmed
BY DEF TypeOK, Rows, Claimed, Stored, Recovered

(* The confirmation of a row is written by the mirror, and by its insert.  *)
LEMMA ConfirmationMoves ==
  ASSUME TypeOK, BusyWorker, [Next]_vars, NEW o \in Ops
  PROVE  \/ row'[o].confirmed = row[o].confirmed
         \/ row[o].status = "absent" /\ row'[o].confirmed = FALSE
         \/ /\ row'[o].confirmed = TRUE
            /\ \E t \in Targets : MirrorSync(t) /\ Confirmable(o, t)
<1>1. row[o] \in Rows
  BY DEF TypeOK
<1>2. ASSUME NEW w \in Workers, NEW p \in Ops,
             PrepareRefused(w, p) \/ PrepareConflict(w, p) \/ PrepareSend(w, p)
      PROVE  row'[o].confirmed = row[o].confirmed
  <2>1. Claimed(p) \in Rows /\ Claimed(p).confirmed = row[p].confirmed
    BY ClaimedIsARow, ConfirmationUntouched
  <2>2. o # p => row'[o] = row[o]
    BY <1>2 DEF PrepareRefused, PrepareConflict, PrepareSend, TypeOK
  <2>3. row'[p].confirmed = Claimed(p).confirmed
    BY <1>2, <2>1
       DEF PrepareRefused, PrepareConflict, PrepareSend, TypeOK, Rows
  <2> QED
    BY <2>1, <2>2, <2>3
<1>3. ASSUME NEW w \in Workers, PersistFlush(w) \/ RecoverFlush(w)
      PROVE  row'[o].confirmed = row[o].confirmed
  <2>1. worker[w].outcome \in Outcomes
    BY DEF TypeOK, WorkerStates
  <2>2. \/ row'[o] = row[o]
        \/ \E out \in Outcomes : row'[o] = Stored(o, out)
        \/ \E sent \in BOOLEAN : row'[o] = Recovered(o, sent)
    BY <1>3, <2>1 DEF PersistFlush, RecoverFlush, TypeOK
  <2> QED
    BY <2>2, ConfirmationUntouched
<1>4. ASSUME NEW h \in Handlers, SubmitInsert(h)
      PROVE  \/ row'[o] = row[o]
             \/ row[o].status = "absent" /\ row'[o].confirmed = FALSE
  <2>1. [Absent EXCEPT !.status = "queued", !.base = session[h].seen].confirmed
          = FALSE
    BY DEF Absent
  <2> QED
    BY <1>4, <2>1 DEF SubmitInsert, TypeOK
<1>5. ASSUME NEW h \in Handlers, ReconcileWrite(h)
      PROVE  row'[o].confirmed = row[o].confirmed
  BY <1>1, <1>5 DEF ReconcileWrite, TypeOK, Rows
<1>6. ASSUME NEW r \in Resolvers, ResolveWrite(r)
      PROVE  row'[o].confirmed = row[o].confirmed
  BY <1>1, <1>6 DEF ResolveWrite, Resolved, TypeOK, Rows
<1>7. ASSUME NEW p \in Ops, LeaseExpires(p) \/ BecomesDue(p)
      PROVE  row'[o].confirmed = row[o].confirmed
  BY <1>1, <1>7 DEF LeaseExpires, BecomesDue, TypeOK, Rows
<1>8. ASSUME NEW t \in Targets, MirrorSync(t)
      PROVE  \/ row'[o] = row[o]
             \/ row'[o].confirmed = TRUE /\ Confirmable(o, t)
  BY <1>1, <1>8 DEF MirrorSync, Rows
<1> QED
  BY <1>2, <1>3, <1>4, <1>5, <1>6, <1>7, <1>8
     DEF Next, Dispatch, Call, PersistRead, RecoverRead, PersistGiveUp, Crash,
         Operate, SubmitRead, ReconcileRead, Resolve, ResolveRead,
         ExternalEdit, ToggleCapability, vars

(* A confirmation of a cancellation is written when the mirror shows it,   *)
(* and Mercos takes no cancellation back.                                  *)
LEMMA ConfirmationStep ==
  ASSUME TypeOK, BusyWorker, ConfirmedCancelIsReal, [Next]_vars
  PROVE  ConfirmedCancelIsReal'
<1>1. \A t \in Targets : remote[t].cancelled => remote'[t].cancelled
  <2>1. ASSUME NEW w \in Workers, NEW outcome \in Outcomes,
               NEW does \in BOOLEAN, Call(w, outcome, does)
        PROVE  \A t \in Targets : remote[t].cancelled => remote'[t].cancelled
    <3> DEFINE o == worker[w].op
    <3>1. o \in Ops /\ TargetOf[o] \in Targets
      BY <2>1, TargetType DEF Call, BusyWorker
    <3>2. remote[TargetOf[o]].cancelled => Effect(o).cancelled
      BY <3>1 DEF TypeOK, Records, Effect
    <3> QED
      BY <2>1, <3>1, <3>2 DEF Call, TypeOK
  <2>2. ASSUME NEW t \in Targets, ExternalEdit(t)
        PROVE  \A u \in Targets : remote[u].cancelled => remote'[u].cancelled
    BY <2>2 DEF ExternalEdit, TypeOK, Records
  <2> QED
    BY <2>1, <2>2
       DEF Next, Dispatch, PrepareRefused, PrepareConflict, PrepareSend,
           PersistRead, PersistFlush, RecoverRead, RecoverFlush, PersistGiveUp,
           Crash, Operate, SubmitRead, SubmitInsert, ReconcileRead,
           ReconcileWrite, Resolve, ResolveRead, ResolveWrite, LeaseExpires,
           BecomesDue, MirrorSync, ToggleCapability, vars
<1>2. ASSUME NEW o \in Ops, row'[o].confirmed
      PROVE  \/ row[o].confirmed
             \/ KindOf[o] = "cancel" => remote[TargetOf[o]].cancelled
  BY <1>2, ConfirmationMoves DEF Confirmable
<1> QED
  BY <1>1, <1>2, TargetType DEF ConfirmedCancelIsReal

(* Only cancellations that took effect at the origin are confirmed         *)
(* (rows.py:67-68), whatever crashes, races or is recovered.               *)
THEOREM ConfirmationsAreReal == Spec => []ConfirmedCancelIsReal
<1>1. Init => ConfirmedCancelIsReal
  BY DEF Init, ConfirmedCancelIsReal, Absent
<1>2. (TypeOK /\ BusyWorker) /\ ConfirmedCancelIsReal /\ [Next]_vars
        => ConfirmedCancelIsReal'
  BY ConfirmationStep
<1> QED
  BY <1>1, <1>2, WorkersKnowTheirWork, PTL DEF Spec

-----------------------------------------------------------------------------
(* One at a time                                                           *)

(* The documented deployment: one dispatcher, and requests that do not     *)
(* overlap.                                                                *)
OneAtATime == /\ \A v, w \in Workers : v = w
              /\ \A h, k \in Handlers : h = k
              /\ OneResolver

(* What a process read of a row is still so when it writes the row.        *)
WorkerReadIsCurrent ==
  \A w \in Workers, o \in Ops :
    (Holds(w, o) \/ <<o, TRUE>> \in worker[w].stale)
      => row[o].status = "processing"
SessionReadIsCurrent ==
  \A h \in Handlers \cup Resolvers :
    /\ session[h].do = "submit" => h \in Handlers
    /\ session[h].do = "reconcile" =>
         h \in Handlers /\ row[session[h].op].status = "unknown"
    /\ (session[h].do = "resolve" /\ session[h].open) =>
         row[session[h].row[1]].status = "conflict"
ReadsAreCurrent == WorkerReadIsCurrent /\ SessionReadIsCurrent

(* Who takes part in a step that changes the status of a row.              *)
LEMMA SessionTarget ==
  ASSUME TypeOK, NEW h \in Handlers \cup Resolvers
  PROVE  /\ session[h].do \in {"submit", "reconcile"} => session[h].op \in Ops
         /\ session[h].do = "resolve" =>
              session[h].row[1] \in Ops /\ session[h].open \in BOOLEAN
<1>1. session[h] \in Sessions
  BY DEF TypeOK
<1>2. session[h].do = "submit" => session[h].op \in Ops
  BY <1>1, SessionShape DEF SubmitSessions
<1>3. session[h].do = "reconcile" => session[h].op \in Ops
  BY <1>1, SessionShape DEF ReconcileSessions
<1> QED
  BY <1>2, <1>3, ResolveTarget

(* Who moves a row, between which statuses.  Only recovery moves several   *)
(* rows in one step.                                                       *)
RowMoves(o, from, to) ==
  /\ row[o].status \in from /\ row'[o].status \in to
  /\ \A p \in Ops \ {o} : row'[p] = row[p]

InsertMoves(o) ==
  (\E h \in Handlers : SubmitInsert(h)) /\ RowMoves(o, {"absent"}, {"queued"})
ClaimMoves(o) ==
  /\ \E w \in Workers :
       \/ PrepareRefused(w, o) /\ row'[o].status = "failed"
       \/ PrepareConflict(w, o) /\ row'[o].status = "conflict"
       \/ PrepareSend(w, o) /\ row'[o].status = "processing"
  /\ RowMoves(o, {"queued", "waiting_rate_limit"},
                 {"failed", "conflict", "processing"})
FlushMoves(o) ==
  \E w \in Workers :
    /\ PersistFlush(w) /\ Holds(w, o)
    /\ row'[o].status = StatusOf(worker[w].outcome)
    /\ RowMoves(o, Statuses,
                {"succeeded", "failed", "waiting_rate_limit", "unknown"})
RecoverMoves(o) ==
  \E w \in Workers : /\ RecoverFlush(w) /\ <<o, TRUE>> \in worker[w].stale
                     /\ row'[o].status = "unknown"
ReconcileMoves(o) ==
  \E h \in Handlers :
    /\ ReconcileWrite(h) /\ session[h].op = o
    /\ RowMoves(o, Statuses, {"succeeded", "failed"})
ResolveMoves(o) ==
  \E r \in Resolvers :
    /\ ResolveWrite(r) /\ session[r].row[1] = o /\ session[r].open
    /\ RowMoves(o, Statuses, {"queued", "failed"})

LEMMA WhoMovesARow ==
  ASSUME TypeOK, BusyWorker, MarkedBeforeCall, [Next]_vars, NEW o \in Ops,
         row'[o].status # row[o].status
  PROVE  \/ InsertMoves(o) \/ ClaimMoves(o) \/ FlushMoves(o)
         \/ RecoverMoves(o) \/ ReconcileMoves(o) \/ ResolveMoves(o)
<1>1. \A p \in Ops : row[p] \in Rows /\ row[p].status \in Statuses
  BY DEF TypeOK, Rows
<1>2. ASSUME NEW h \in Handlers, SubmitInsert(h) PROVE InsertMoves(o)
  <2>1. [Absent EXCEPT !.status = "queued", !.base = session[h].seen].status
          = "queued"
    BY DEF Absent
  <2>2. session[h].op \in Ops
    BY <1>2, SessionTarget DEF SubmitInsert
  <2>3. PICK p \in Ops : p = session[h].op
    BY <2>2
  <2>4. row[p].status = "absent"
    BY <1>2, <2>3 DEF SubmitInsert
  <2>5. /\ \A q \in Ops \ {p} : row'[q] = row[q]
        /\ row'[p].status = "queued"
    BY <1>2, <2>1, <2>3, <2>4 DEF SubmitInsert, TypeOK
  <2>6. o = p
    BY <2>5
  <2> QED
    BY <1>2, <2>4, <2>5, <2>6 DEF InsertMoves, RowMoves
<1>3. ASSUME NEW w \in Workers, NEW p \in Ops,
             PrepareRefused(w, p) \/ PrepareConflict(w, p) \/ PrepareSend(w, p)
      PROVE  ClaimMoves(o)
  <2>1. /\ row[p].status \in {"queued", "waiting_rate_limit"}
        /\ \A q \in Ops \ {p} : row'[q] = row[q]
    BY <1>3 DEF PrepareRefused, PrepareConflict, PrepareSend, MayClaim,
                Claimable, TypeOK
  <2>2. o = p
    BY <2>1
  <2>3. Claimed(p) \in Rows /\ Claimed(p).status = "processing"
    BY <1>1, ClaimedIsARow DEF Claimed, Rows
  <2>4. /\ PrepareRefused(w, p) => row'[p].status = "failed"
        /\ PrepareConflict(w, p) => row'[p].status = "conflict"
        /\ PrepareSend(w, p) => row'[p].status = "processing"
    BY <2>3 DEF PrepareRefused, PrepareConflict, PrepareSend, TypeOK, Rows
  <2> QED
    BY <1>3, <2>1, <2>2, <2>4 DEF ClaimMoves, RowMoves
<1>4. ASSUME NEW w \in Workers, PersistFlush(w) PROVE FlushMoves(o)
  <2>1. worker[w].op \in Ops /\ worker[w].outcome \in Outcomes
    BY <1>4 DEF PersistFlush, BusyWorker, TypeOK, WorkerStates
  <2>2. /\ \A p \in Ops \ {worker[w].op} : row'[p] = row[p]
        /\ row'[worker[w].op] = Stored(worker[w].op, worker[w].outcome)
    BY <1>4, <2>1 DEF PersistFlush, TypeOK
  <2>3. o = worker[w].op
    BY <2>2
  <2>4. row'[o].status = StatusOf(worker[w].outcome)
    BY <1>1, <2>2, <2>3 DEF Stored, Rows
  <2>5. StatusOf(worker[w].outcome)
          \in {"succeeded", "failed", "waiting_rate_limit", "unknown"}
    BY <2>1 DEF StatusOf, Outcomes
  <2>6. Holds(w, o)
    BY <1>4, <2>3 DEF Holds, PersistFlush
  <2> QED
    BY <1>1, <1>4, <2>2, <2>3, <2>4, <2>5, <2>6 DEF FlushMoves, RowMoves
<1>5. ASSUME NEW w \in Workers, RecoverFlush(w) PROVE RecoverMoves(o)
  <2>1. <<o, FALSE>> \notin worker[w].stale
    BY DEF MarkedBeforeCall
  <2>2. <<o, TRUE>> \in worker[w].stale /\ row'[o] = Recovered(o, TRUE)
    BY <1>5, <2>1 DEF RecoverFlush
  <2>3. row'[o].status = "unknown"
    BY <1>1, <2>2 DEF Recovered, Rows
  <2> QED
    BY <1>5, <2>2, <2>3 DEF RecoverMoves
<1>6. ASSUME NEW h \in Handlers, ReconcileWrite(h) PROVE ReconcileMoves(o)
  <2>1. session[h].op \in Ops
    BY <1>6, SessionTarget DEF ReconcileWrite
  <2>2. \A p \in Ops \ {session[h].op} : row'[p] = row[p]
    BY <1>6, <2>1 DEF ReconcileWrite, TypeOK
  <2>3. o = session[h].op
    BY <2>2
  <2>4. row'[o].status \in {"succeeded", "failed"}
    BY <1>1, <1>6, <2>3 DEF ReconcileWrite, TypeOK, Rows
  <2> QED
    BY <1>1, <1>6, <2>2, <2>3, <2>4 DEF ReconcileMoves, RowMoves
<1>7. ASSUME NEW r \in Resolvers, ResolveWrite(r) PROVE ResolveMoves(o)
  <2>1. session[r].row[1] \in Ops /\ session[r].open
    BY <1>7, SessionTarget DEF ResolveWrite
  <2>2. \A p \in Ops \ {session[r].row[1]} : row'[p] = row[p]
    BY <1>7, <2>1 DEF ResolveWrite, TypeOK
  <2>3. o = session[r].row[1]
    BY <2>2
  <2>4. row'[o] = Resolved(o, session[r])
    BY <1>7, <2>1, <2>3 DEF ResolveWrite, TypeOK
  <2>5. row'[o].status \in {"queued", "failed"}
    BY <1>1, <2>4 DEF Resolved, Rows
  <2> QED
    BY <1>1, <1>7, <2>1, <2>2, <2>3, <2>5 DEF ResolveMoves, RowMoves
<1>8. ASSUME \A p \in Ops : row'[p].status = row[p].status PROVE FALSE
  BY <1>8
<1>9. ASSUME NEW t \in Targets, MirrorSync(t) PROVE FALSE
  <2>1. \A p \in Ops : row'[p].status = row[p].status
    BY <1>1, <1>9 DEF MirrorSync, Rows
  <2> QED
    BY <2>1
<1>10. ASSUME NEW p \in Ops, LeaseExpires(p) \/ BecomesDue(p) PROVE FALSE
  <2>1. \A q \in Ops : row'[q].status = row[q].status
    BY <1>1, <1>10 DEF LeaseExpires, BecomesDue, TypeOK, Rows
  <2> QED
    BY <2>1
<1> QED
  BY <1>2, <1>3, <1>4, <1>5, <1>6, <1>7, <1>8, <1>9, <1>10
     DEF Next, Dispatch, Call, PersistRead, RecoverRead, PersistGiveUp, Crash,
         Operate, SubmitRead, ReconcileRead, Resolve, ResolveRead,
         ExternalEdit, ToggleCapability, vars

(* With current reads, each of them starts from the status it means.       *)
LEMMA MovesStartWhereTheyMean ==
  ASSUME TypeOK, ReadsAreCurrent, NEW o \in Ops
  PROVE  /\ FlushMoves(o) => row[o].status = "processing"
         /\ RecoverMoves(o) => row[o].status = "processing"
         /\ ReconcileMoves(o) => row[o].status = "unknown"
         /\ ResolveMoves(o) => row[o].status = "conflict"
<1>1. FlushMoves(o) => row[o].status = "processing"
  BY DEF FlushMoves, ReadsAreCurrent, WorkerReadIsCurrent
<1>2. RecoverMoves(o) => row[o].status = "processing"
  BY DEF RecoverMoves, ReadsAreCurrent, WorkerReadIsCurrent
<1>3. ReconcileMoves(o) => row[o].status = "unknown"
  BY DEF ReconcileMoves, ReconcileWrite, ReadsAreCurrent, SessionReadIsCurrent
<1>4. ResolveMoves(o) => row[o].status = "conflict"
  BY DEF ResolveMoves, ResolveWrite, ReadsAreCurrent, SessionReadIsCurrent
<1> QED
  BY <1>1, <1>2, <1>3, <1>4

LEMMA WorkerReadsStand ==
  ASSUME IInv, OneAtATime, ReadsAreCurrent, [Next]_vars
  PROVE  WorkerReadIsCurrent'
<1> USE DEF IInv, Core
<1>1. ASSUME NEW w \in Workers, worker' = [worker EXCEPT ![w] = Idle]
      PROVE  WorkerReadIsCurrent'
  <2>1. \A v \in Workers : worker'[v] = Idle
    BY <1>1 DEF OneAtATime, TypeOK
  <2> QED
    BY <2>1 DEF WorkerReadIsCurrent, Holds, Idle
<1>2. ASSUME worker' = worker
      PROVE  WorkerReadIsCurrent'
  <2> SUFFICES ASSUME NEW w \in Workers, NEW o \in Ops,
                      Holds(w, o) \/ <<o, TRUE>> \in worker[w].stale,
                      row'[o].status # "processing"
               PROVE  FALSE
    BY <1>2 DEF WorkerReadIsCurrent, Holds
  <2>1. row[o].status = "processing"
    BY DEF ReadsAreCurrent, WorkerReadIsCurrent
  <2>2. ~InsertMoves(o) /\ ~ClaimMoves(o)
    BY <2>1 DEF InsertMoves, ClaimMoves, RowMoves
  <2>3. ~ReconcileMoves(o) /\ ~ResolveMoves(o)
    BY <2>1, MovesStartWhereTheyMean
  <2>4. ~FlushMoves(o)
    BY <1>2 DEF FlushMoves, PersistFlush, TypeOK, Idle
  <2>5. ASSUME NEW v \in Workers, RecoverFlush(v) PROVE FALSE
    <3>1. worker[v].pc = "recover" /\ worker[v] = Idle
      BY <1>2, <2>5 DEF RecoverFlush, TypeOK
    <3> QED
      BY <3>1 DEF Idle
  <2> QED
    BY <2>1, <2>2, <2>3, <2>4, <2>5, WhoMovesARow DEF RecoverMoves
<1>3. ASSUME NEW w \in Workers, NEW p \in Ops, PrepareSend(w, p)
      PROVE  WorkerReadIsCurrent'
  <2>1. \A v \in Workers : v = w
    BY DEF OneAtATime
  <2>2. worker'[w].op = p /\ worker'[w].stale = {}
    BY <1>3 DEF PrepareSend, TypeOK, Idle
  <2>3. Claimed(p) \in Rows /\ Claimed(p).status = "processing"
    BY ClaimedIsARow DEF Claimed, TypeOK, Rows
  <2>4. row'[p].status = "processing"
    BY <1>3, <2>3 DEF PrepareSend, TypeOK, Rows
  <2> QED
    BY <2>1, <2>2, <2>4 DEF WorkerReadIsCurrent, Holds
<1>4. ASSUME NEW w \in Workers, worker[w].pc \in {"call", "persist"},
             worker'[w].op = worker[w].op, worker'[w].stale = worker[w].stale,
             row' = row
      PROVE  WorkerReadIsCurrent'
  BY <1>4 DEF WorkerReadIsCurrent, Holds, ReadsAreCurrent, OneAtATime
<1>5. ASSUME NEW w \in Workers, NEW outcome \in Outcomes,
             NEW does \in BOOLEAN, Call(w, outcome, does)
      PROVE  WorkerReadIsCurrent'
  <2>1. worker'[w].op = worker[w].op /\ worker'[w].stale = worker[w].stale
    BY <1>5 DEF Call, TypeOK, WorkerStates
  <2> QED
    BY <1>4, <1>5, <2>1 DEF Call
<1>6. ASSUME NEW w \in Workers, PersistRead(w)
      PROVE  WorkerReadIsCurrent'
  <2>1. CASE worker' = [worker EXCEPT ![w].pc = "flush"]
    <3>1. worker'[w].op = worker[w].op /\ worker'[w].stale = worker[w].stale
      BY <2>1 DEF TypeOK, WorkerStates
    <3> QED
      BY <1>4, <1>6, <3>1 DEF PersistRead
  <2> QED
    BY <1>1, <1>6, <2>1 DEF PersistRead
<1>7. ASSUME NEW w \in Workers, RecoverRead(w)
      PROVE  WorkerReadIsCurrent'
  <2>1. /\ worker'[w].pc = "recover" /\ row' = row
        /\ worker'[w].stale = {<<o, row[o].dispatched>> : o \in Stale}
    BY <1>7 DEF RecoverRead, TypeOK, Idle
  <2> QED
    BY <2>1 DEF WorkerReadIsCurrent, Holds, Stale, OneAtATime
<1> QED
  BY <1>1, <1>2, <1>3, <1>5, <1>6, <1>7
     DEF Next, Dispatch, PrepareRefused, PrepareConflict, PersistFlush,
         RecoverFlush, PersistGiveUp, Crash, Operate, SubmitRead, SubmitInsert,
         ReconcileRead, ReconcileWrite, Resolve, ResolveRead, ResolveWrite,
         LeaseExpires, BecomesDue, ExternalEdit, MirrorSync, ToggleCapability,
         vars

LEMMA SessionReadsStand ==
  ASSUME IInv, OneAtATime, ReadsAreCurrent, [Next]_vars
  PROVE  SessionReadIsCurrent'
<1> USE DEF IInv, Core, ReadsAreCurrent
<1>1. \A h \in Handlers \cup Resolvers :
        /\ session[h].do = "reconcile" => session[h].op \in Ops
        /\ session[h].do = "resolve" => session[h].row[1] \in Ops
  BY SessionTarget
<1>2. ASSUME \A h \in Handlers \cup Resolvers :
               session'[h].do # "none" => session'[h] = session[h],
             \A h \in Handlers \cup Resolvers, o \in Ops :
               (/\ session'[h].do # "none"
                /\ \/ session[h].do = "reconcile" /\ session[h].op = o
                   \/ session[h].do = "resolve" /\ session[h].row[1] = o
                      /\ session[h].open)
                 => row'[o].status = row[o].status
      PROVE  SessionReadIsCurrent'
  BY <1>1, <1>2 DEF SessionReadIsCurrent
<1>3. ASSUME session' = session PROVE SessionReadIsCurrent'
  <2>1. ASSUME NEW o \in Ops, row[o].status \in {"unknown", "conflict"}
        PROVE  row'[o].status = row[o].status
    <3>1. /\ ~InsertMoves(o) /\ ~ClaimMoves(o)
          /\ ~FlushMoves(o) /\ ~RecoverMoves(o)
      BY <2>1, MovesStartWhereTheyMean DEF InsertMoves, ClaimMoves, RowMoves
    <3>2. ASSUME NEW h \in Handlers, ReconcileWrite(h) PROVE FALSE
      <4>1. session[h].do = "reconcile" /\ session[h] = NoSession
        BY <1>3, <3>2 DEF ReconcileWrite, TypeOK
      <4> QED
        BY <4>1 DEF NoSession
    <3>3. ~ResolveMoves(o)
      BY <1>3 DEF ResolveMoves, ResolveWrite, TypeOK, NoSession
    <3> QED
      BY <2>1, <3>1, <3>2, <3>3, WhoMovesARow DEF ReconcileMoves
  <2> QED
    BY <1>2, <1>3, <2>1 DEF SessionReadIsCurrent
<1>4. ASSUME NEW h \in Handlers, NEW o \in Ops, SubmitRead(h, o)
      PROVE  SessionReadIsCurrent'
  BY <1>4 DEF SubmitRead, SessionReadIsCurrent, TypeOK
<1>5. ASSUME NEW h \in Handlers, NEW o \in Ops, NEW created \in BOOLEAN,
             ReconcileRead(h, o, created)
      PROVE  SessionReadIsCurrent'
  BY <1>5 DEF ReconcileRead, SessionReadIsCurrent, TypeOK
<1>6. ASSUME NEW r \in Resolvers, NEW c \in conflicts, NEW local \in BOOLEAN,
             ResolveRead(r, c, local)
      PROVE  SessionReadIsCurrent'
  BY <1>6 DEF ResolveRead, SessionReadIsCurrent, TypeOK
<1>7. ASSUME NEW h \in Handlers, SubmitInsert(h)
      PROVE  SessionReadIsCurrent'
  <2>1. \A k \in Handlers \cup Resolvers :
          session'[k].do # "none" => session'[k] = session[k]
    BY <1>7 DEF SubmitInsert, TypeOK, NoSession
  <2>2. \A o \in Ops : row[o].status # "absent" => row'[o] = row[o]
    BY <1>7, SessionTarget DEF SubmitInsert, TypeOK
  <2> QED
    BY <1>2, <2>1, <2>2 DEF SessionReadIsCurrent
<1>8. ASSUME NEW h \in Handlers, ReconcileWrite(h)
      PROVE  SessionReadIsCurrent'
  <2>1. /\ \A k \in Handlers \cup Resolvers : k # h => session'[k] = session[k]
        /\ session'[h].do = "none"
    BY <1>8 DEF ReconcileWrite, TypeOK, NoSession
  <2>2. \A k \in Handlers \cup Resolvers :
          session[k].do = "reconcile" => k = h
    BY <1>8 DEF SessionReadIsCurrent, OneAtATime
  <2>3. /\ session[h].op \in Ops /\ row[session[h].op].status = "unknown"
        /\ \A p \in Ops \ {session[h].op} : row'[p] = row[p]
    BY <1>1, <1>8 DEF ReconcileWrite, SessionReadIsCurrent, TypeOK
  <2> QED
    BY <1>2, <2>1, <2>2, <2>3 DEF SessionReadIsCurrent
<1>9. ASSUME NEW r \in Resolvers, ResolveWrite(r)
      PROVE  SessionReadIsCurrent'
  <2>1. /\ \A k \in Handlers \cup Resolvers : k # r => session'[k] = session[k]
        /\ session'[r].do = "none"
    BY <1>9 DEF ResolveWrite, TypeOK, NoSession
  <2>2. \A k \in Handlers \cup Resolvers :
          session[k].do = "resolve" => k = r
    BY <1>9 DEF ResolverMayRequeue, OneAtATime, OneResolver
  <2>3. /\ session[r].row[1] \in Ops
        /\ session[r].open => row[session[r].row[1]].status = "conflict"
        /\ \A p \in Ops \ {session[r].row[1]} : row'[p] = row[p]
        /\ ~session[r].open => row' = row
    BY <1>1, <1>9 DEF ResolveWrite, SessionReadIsCurrent, TypeOK
  <2> QED
    BY <1>2, <2>1, <2>2, <2>3 DEF SessionReadIsCurrent
<1> QED
  BY <1>3, <1>4, <1>5, <1>6, <1>7, <1>8, <1>9
     DEF Next, Dispatch, PrepareRefused, PrepareConflict, PrepareSend, Call,
         PersistRead, PersistFlush, RecoverRead, RecoverFlush, PersistGiveUp,
         Crash, Operate, Resolve, LeaseExpires, BecomesDue, ExternalEdit,
         MirrorSync, ToggleCapability, vars

LEMMA ReadsStayCurrent ==
  ASSUME OneAtATime PROVE Spec => [](IInv /\ ReadsAreCurrent)
<1>1. Init => ReadsAreCurrent
  <2> SUFFICES ASSUME Init PROVE ReadsAreCurrent
    OBVIOUS
  <2>1. WorkerReadIsCurrent
    BY DEF Init, WorkerReadIsCurrent, Holds, Idle
  <2>2. SessionReadIsCurrent
    BY DEF Init, SessionReadIsCurrent, NoSession
  <2> QED
    BY <2>1, <2>2 DEF ReadsAreCurrent
<1>2. IInv /\ ReadsAreCurrent /\ [Next]_vars => ReadsAreCurrent'
  BY WorkerReadsStand, SessionReadsStand DEF ReadsAreCurrent
<1>3. Spec => []IInv
  BY IInvHolds DEF OneAtATime
<1> QED
  BY <1>1, <1>2, <1>3, PTL DEF Spec

-----------------------------------------------------------------------------
(* One cancellation or billing in flight                                   *)

Exclusive == {"cancel", "bill"}
Rival(o, p) == /\ p # o /\ KindOf[p] = KindOf[o] /\ TargetOf[p] = TargetOf[o]

(* Only an update can meet a conflict, so nothing else comes back from one. *)
OnlyUpdatesConflict ==
  \A o \in Ops : row[o].status = "conflict" => KindOf[o] = "update"

(* A request about to insert still sees no rival in flight.                *)
NoRivalAtInsert ==
  \A h \in Handlers : \A o, p \in Ops :
    (/\ session[h].do = "submit" /\ session[h].op = o
     /\ KindOf[o] \in Exclusive /\ Rival(o, p))
      => ~Open(p)

FlightInv == OneInFlight /\ OnlyUpdatesConflict /\ NoRivalAtInsert

(* A cancellation or a billing enters flight by its insert only.           *)
LEMMA FlightBegins ==
  ASSUME IInv, ReadsAreCurrent, OnlyUpdatesConflict, [Next]_vars,
         NEW o \in Ops, KindOf[o] \in Exclusive, Open(o)', ~Open(o)
  PROVE  \E h \in Handlers : SubmitInsert(h) /\ row'[o] # row[o]
<1> USE DEF IInv, Core
<1>1. CASE row'[o].status # row[o].status
  <2>1. row'[o].status \in {"queued", "processing", "waiting_rate_limit",
                            "unknown", "succeeded"}
    BY DEF Open
  <2>2. ~row'[o].confirmed
    BY DEF Open
  <2>3. ~ResolveMoves(o)
    BY MovesStartWhereTheyMean DEF OnlyUpdatesConflict, Exclusive
  <2>4. CASE InsertMoves(o)
    BY <1>1, <2>4 DEF InsertMoves
  <2>5. CASE ClaimMoves(o) \/ FlushMoves(o) \/ RecoverMoves(o) \/ ReconcileMoves(o)
    <3>1. row[o].status \in {"queued", "processing", "waiting_rate_limit", "unknown"}
      BY <2>5, MovesStartWhereTheyMean DEF ClaimMoves, RowMoves
    <3>2. row[o].confirmed
      BY <3>1 DEF Open
    <3> QED
      BY <2>2, <3>1, <3>2, ConfirmationMoves
  <2> QED
    BY <1>1, <2>3, <2>4, <2>5, WhoMovesARow
<1>2. CASE row'[o].status = row[o].status
  BY <1>2, ConfirmationMoves DEF Open
<1> QED
  BY <1>1, <1>2

LEMMA FlightStep ==
  ASSUME OneAtATime, IInv, ReadsAreCurrent, FlightInv, [Next]_vars
  PROVE  FlightInv'
<1> USE DEF FlightInv
<1>1. ASSUME NEW o \in Ops, KindOf[o] \in Exclusive, Open(o)', ~Open(o)
      PROVE  /\ \A p \in Ops : Rival(o, p) => ~Open(p)
             /\ \A p \in Ops : Open(p)' /\ p # o => Open(p)
             /\ \A h \in Handlers : session'[h].do # "submit"
  <2>1. PICK h \in Handlers : SubmitInsert(h) /\ row'[o] # row[o]
    BY <1>1, FlightBegins
  <2>2. session[h].do = "submit" /\ session[h].op \in Ops
    BY <2>1, SessionTarget DEF SubmitInsert, IInv
  <2>3. /\ session[h].op = o /\ \A p \in Ops : p # o => row'[p] = row[p]
        /\ session'[h].do = "none"
    BY <2>1, <2>2 DEF SubmitInsert, IInv, TypeOK, NoSession
  <2>4. \A p \in Ops : Rival(o, p) => ~Open(p)
    BY <1>1, <2>2, <2>3 DEF NoRivalAtInsert
  <2>5. \A p \in Ops : Open(p)' /\ p # o => Open(p)
    BY <2>3 DEF Open
  <2>6. \A k \in Handlers : k = h
    BY DEF OneAtATime
  <2> QED
    BY <2>3, <2>4, <2>5, <2>6
<1>2. OneInFlight'
  <2> SUFFICES ASSUME NEW o \in Ops, NEW p \in Ops, Rival(o, p),
                      KindOf[o] \in Exclusive, Open(o)', Open(p)'
               PROVE  FALSE
    BY DEF OneInFlight, Rival, Exclusive
  <2>1. Rival(p, o) /\ KindOf[p] \in Exclusive
    BY DEF Rival
  <2>2. ~(Open(o) /\ Open(p))
    BY DEF OneInFlight, Rival, Exclusive
  <2>3. CASE ~Open(o)
    BY <1>1, <2>3 DEF Rival
  <2>4. CASE ~Open(p)
    BY <1>1, <2>1, <2>4 DEF Rival
  <2> QED
    BY <2>2, <2>3, <2>4
<1>3. OnlyUpdatesConflict'
  <2> SUFFICES ASSUME NEW o \in Ops, row'[o].status = "conflict",
                      row[o].status # "conflict"
               PROVE  KindOf[o] = "update"
    BY DEF OnlyUpdatesConflict
  <2>1. ClaimMoves(o)
    BY WhoMovesARow
       DEF IInv, Core, InsertMoves, FlushMoves, RecoverMoves, ReconcileMoves,
           ResolveMoves, RowMoves
  <2> QED
    BY <2>1 DEF ClaimMoves, PrepareConflict, Conflicting
<1>4. NoRivalAtInsert'
  <2> SUFFICES ASSUME NEW h \in Handlers, NEW o \in Ops, NEW p \in Ops,
                      session'[h].do = "submit", session'[h].op = o,
                      KindOf[o] \in Exclusive, Rival(o, p), Open(p)'
               PROVE  FALSE
    BY DEF NoRivalAtInsert, Rival
  <2>1. Open(p)
    BY <1>1 DEF Rival
  <2>2. CASE session'[h] = session[h]
    BY <2>1, <2>2 DEF NoRivalAtInsert
  <2>3. CASE session'[h] # session[h]
    <3>1. ASSUME NEW k \in Handlers, SubmitInsert(k) \/ ReconcileWrite(k)
          PROVE  FALSE
      BY <2>3, <3>1 DEF SubmitInsert, ReconcileWrite, NoSession, IInv, TypeOK
    <3>2. ASSUME NEW k \in Handlers, NEW q \in Ops, NEW created \in BOOLEAN,
                 ReconcileRead(k, q, created)
          PROVE  FALSE
      BY <2>3, <3>2 DEF ReconcileRead, IInv, TypeOK
    <3>3. ASSUME NEW r \in Resolvers, Resolve(r)
          PROVE  FALSE
      BY <2>3, <3>3 DEF Resolve, ResolveRead, ResolveWrite, NoSession, IInv, TypeOK
    <3>4. PICK k \in Handlers, q \in Ops : SubmitRead(k, q)
      BY <2>3, <3>1, <3>2, <3>3
         DEF Next, Dispatch, PrepareRefused, PrepareConflict, PrepareSend,
             Call, PersistRead, PersistFlush, RecoverRead, RecoverFlush,
             PersistGiveUp, Crash, Operate, LeaseExpires, BecomesDue,
             ExternalEdit, MirrorSync, ToggleCapability, vars
    <3>5. q = o
      BY <2>3, <3>4 DEF SubmitRead, IInv, TypeOK
    <3>6. ~InFlight(o)
      BY <3>4, <3>5 DEF SubmitRead, SubmitAllowed, Exclusive
    <3> QED
      BY <2>1, <3>6 DEF InFlight, Open, Rival
  <2> QED
    BY <2>2, <2>3
<1> QED
  BY <1>2, <1>3, <1>4

(* An order has one cancellation, or one billing, in flight at most        *)
(* (outbox.py:285-300), for any number of operations and any crashes, when *)
(* requests do not overlap: the check and the insert are two transactions. *)
THEOREM OneCancellationInFlight ==
  ASSUME OneAtATime PROVE Spec => []OneInFlight
<1>1. Init => FlightInv
  <2> SUFFICES ASSUME Init PROVE FlightInv
    OBVIOUS
  <2>1. \A o \in Ops : row[o].status = "absent"
    BY DEF Init, Absent
  <2>2. \A h \in Handlers : session[h].do = "none"
    BY DEF Init, NoSession
  <2> QED
    BY <2>1, <2>2 DEF FlightInv, OneInFlight, OnlyUpdatesConflict,
                      NoRivalAtInsert, Open
<1>2. (IInv /\ ReadsAreCurrent) /\ FlightInv /\ [Next]_vars => FlightInv'
  BY FlightStep
<1>3. FlightInv => OneInFlight
  BY DEF FlightInv
<1> QED
  BY <1>1, <1>2, <1>3, ReadsStayCurrent, PTL DEF Spec

-----------------------------------------------------------------------------
(* The refinement of WriteContract                                         *)

Phases == [o \in Ops |-> PhaseOf(row[o].status)]

(* A step that moves one row is a move of the contract.                    *)
LEMMA OneRowOnTheContract ==
  ASSUME NEW o \in Ops, NEW from, NEW to,
         PhaseOf(row[o].status) = from, PhaseOf(row'[o].status) = to,
         \A p \in Ops \ {o} : row'[p] = row[p], executed' = executed
  PROVE  Promise!Move(o, from, to)
<1>1. Phases' = [Phases EXCEPT ![o] = to]
  BY DEF Phases
<1> QED
  BY <1>1 DEF Promise!Move, Phases

LEMMA CallOnTheContract ==
  ASSUME IInv, ReadsAreCurrent, NEW w \in Workers, NEW outcome \in Outcomes,
         NEW does \in BOOLEAN, Call(w, outcome, does)
  PROVE  [Promise!ContractNext]_(Promise!contractVars)
<1>1. PICK o \in Ops : o = worker[w].op
  BY DEF Call, IInv, Core, BusyWorker
<1>2. Holds(w, o) /\ worker[w].pc = "call"
  BY <1>1 DEF Call, Holds
<1>3. row[o].status = "processing" /\ executed[o] = 0
  BY <1>2 DEF ReadsAreCurrent, WorkerReadIsCurrent, IInv, Core, HolderKnows
<1>4. row' = row
  BY DEF Call
<1>5. CASE does
  <2>1. executed' = [executed EXCEPT ![o] = 1]
    BY <1>1, <1>3, <1>5 DEF Call, IInv, TypeOK
  <2>2. Promise!Execute(o)
    BY <1>3, <1>4, <2>1 DEF Promise!Execute, PhaseOf
  <2> QED
    BY <2>2 DEF Promise!ContractNext
<1>6. CASE ~does
  BY <1>4, <1>6 DEF Call, Promise!contractVars
<1> QED
  BY <1>5, <1>6

LEMMA RecoverOnTheContract ==
  ASSUME IInv, ReadsAreCurrent, NEW w \in Workers, RecoverFlush(w)
  PROVE  [Promise!ContractNext]_(Promise!contractVars)
<1> DEFINE S == {o \in Ops : <<o, TRUE>> \in worker[w].stale}
<1>1. \A o \in S : PhaseOf(row[o].status) = "open"
  BY DEF ReadsAreCurrent, WorkerReadIsCurrent, PhaseOf
<1>2. ASSUME NEW o \in Ops
      PROVE  PhaseOf(row'[o].status) =
               IF o \in S THEN "uncertain" ELSE PhaseOf(row[o].status)
  <2>1. <<o, FALSE>> \notin worker[w].stale
    BY DEF IInv, Core, MarkedBeforeCall
  <2>2. CASE o \in S
    <3>1. row'[o].status = "unknown"
      BY <2>2 DEF RecoverFlush, Recovered, IInv, TypeOK, Rows
    <3> QED
      BY <2>2, <3>1 DEF PhaseOf
  <2>3. CASE o \notin S
    BY <2>1, <2>3 DEF RecoverFlush
  <2> QED
    BY <2>2, <2>3
<1>3. executed' = executed
  BY DEF RecoverFlush
<1>4. Promise!Doubt(S)
  BY <1>1, <1>2, <1>3 DEF Promise!Doubt
<1>5. S \in SUBSET Ops
  OBVIOUS
<1> QED
  BY <1>4, <1>5 DEF Promise!ContractNext

LEMMA MoveOnTheContract ==
  ASSUME IInv, ReadsAreCurrent, [Next]_vars, executed' = executed,
         NEW o \in Ops, PhaseOf(row'[o].status) # PhaseOf(row[o].status),
         ~RecoverMoves(o)
  PROVE  Promise!ContractNext
<1> USE DEF IInv, Core
<1>1. CASE InsertMoves(o)
  <2>1. Promise!Register(o)
    BY <1>1, OneRowOnTheContract
       DEF InsertMoves, RowMoves, PhaseOf, Promise!Register
  <2> QED
    BY <2>1 DEF Promise!ContractNext
<1>2. CASE ClaimMoves(o)
  <2>1. row[o].status \in {"queued", "waiting_rate_limit"}
        /\ row'[o].status \in {"failed", "conflict", "processing"}
        /\ \A p \in Ops \ {o} : row'[p] = row[p]
    BY <1>2 DEF ClaimMoves, RowMoves
  <2>2. PhaseOf(row[o].status) = "open" /\ PhaseOf(row'[o].status) = "refused"
    BY <2>1 DEF PhaseOf
  <2>3. executed[o] = 0
    BY <2>1 DEF UnclaimedIsUntouched
  <2>4. Promise!Refuse(o)
    BY <2>1, <2>2, <2>3, OneRowOnTheContract DEF Promise!Refuse
  <2> QED
    BY <2>4 DEF Promise!ContractNext
<1>3. CASE FlushMoves(o)
  <2>1. PICK w \in Workers :
          /\ PersistFlush(w) /\ Holds(w, o)
          /\ row'[o].status = StatusOf(worker[w].outcome)
          /\ \A p \in Ops \ {o} : row'[p] = row[p]
    BY <1>3 DEF FlushMoves, RowMoves
  <2>2. PhaseOf(row[o].status) = "open"
    BY <1>3, MovesStartWhereTheyMean DEF PhaseOf
  <2>3. worker[w].outcome \in Outcomes /\ worker[w].pc = "flush"
    BY <2>1 DEF TypeOK, WorkerStates, PersistFlush
  <2>4. CASE worker[w].outcome = "success"
    <3>1. executed[o] = 1
      BY <2>1, <2>3, <2>4 DEF HolderKnows
    <3>2. PhaseOf(row'[o].status) = "done"
      BY <2>1, <2>4 DEF StatusOf, PhaseOf
    <3>3. Promise!Succeed(o)
      BY <2>1, <2>2, <3>1, <3>2, OneRowOnTheContract DEF Promise!Succeed
    <3> QED
      BY <3>3 DEF Promise!ContractNext
  <2>5. CASE worker[w].outcome = "rejected"
    <3>1. executed[o] = 0
      BY <2>1, <2>3, <2>5 DEF HolderKnows
    <3>2. PhaseOf(row'[o].status) = "refused"
      BY <2>1, <2>5 DEF StatusOf, PhaseOf
    <3>3. Promise!Refuse(o)
      BY <2>1, <2>2, <3>1, <3>2, OneRowOnTheContract DEF Promise!Refuse
    <3> QED
      BY <3>3 DEF Promise!ContractNext
  <2>6. CASE worker[w].outcome = "unknown"
    <3>1. PhaseOf(row'[o].status) = "uncertain"
      BY <2>1, <2>6 DEF StatusOf, PhaseOf
    <3>2. \A p \in Ops : PhaseOf(row'[p].status) =
            IF p \in {o} THEN "uncertain" ELSE PhaseOf(row[p].status)
      BY <2>1, <3>1
    <3>3. Promise!Doubt({o})
      BY <2>2, <3>2 DEF Promise!Doubt
    <3> QED
      BY <3>3 DEF Promise!ContractNext
  <2>7. worker[w].outcome # "rate_limited"
    BY <2>1, <2>2 DEF StatusOf, PhaseOf
  <2> QED
    BY <2>3, <2>4, <2>5, <2>6, <2>7 DEF Outcomes
<1>4. CASE ReconcileMoves(o)
  <2>1. row[o].status = "unknown" /\ row'[o].status \in {"succeeded", "failed"}
        /\ \A p \in Ops \ {o} : row'[p] = row[p]
    BY <1>4, MovesStartWhereTheyMean DEF ReconcileMoves, RowMoves
  <2>2. PhaseOf(row[o].status) = "uncertain"
        /\ PhaseOf(row'[o].status) \in {"done", "refused"}
    BY <2>1 DEF PhaseOf
  <2>3. Promise!Decide(o)
    BY <2>1, <2>2, OneRowOnTheContract DEF Promise!Decide
  <2> QED
    BY <2>3 DEF Promise!ContractNext
<1>5. CASE ResolveMoves(o)
  <2>1. row[o].status = "conflict" /\ row'[o].status \in {"queued", "failed"}
        /\ \A p \in Ops \ {o} : row'[p] = row[p]
    BY <1>5, MovesStartWhereTheyMean DEF ResolveMoves, RowMoves
  <2>2. PhaseOf(row[o].status) = "open" /\ PhaseOf(row'[o].status) = "refused"
    BY <2>1 DEF PhaseOf
  <2>3. executed[o] = 0
    BY <2>1 DEF UnclaimedIsUntouched
  <2>4. Promise!Refuse(o)
    BY <2>1, <2>2, <2>3, OneRowOnTheContract DEF Promise!Refuse
  <2> QED
    BY <2>4 DEF Promise!ContractNext
<1> QED
  BY <1>1, <1>2, <1>3, <1>4, <1>5, WhoMovesARow

LEMMA StepOnTheContract ==
  ASSUME IInv, ReadsAreCurrent, [Next]_vars
  PROVE  [Promise!ContractNext]_(Promise!contractVars)
<1>1. ASSUME NEW w \in Workers, RecoverFlush(w)
      PROVE  [Promise!ContractNext]_(Promise!contractVars)
  BY <1>1, RecoverOnTheContract
<1>2. ASSUME NEW w \in Workers, NEW outcome \in Outcomes,
             NEW does \in BOOLEAN, Call(w, outcome, does)
      PROVE  [Promise!ContractNext]_(Promise!contractVars)
  BY <1>2, CallOnTheContract
<1>3. ASSUME ~ \E w \in Workers : RecoverFlush(w), executed' = executed
      PROVE  [Promise!ContractNext]_(Promise!contractVars)
  <2>1. \A o \in Ops : ~RecoverMoves(o)
    BY <1>3 DEF RecoverMoves
  <2>2. CASE \A o \in Ops : PhaseOf(row'[o].status) = PhaseOf(row[o].status)
    BY <1>3, <2>2 DEF Promise!contractVars
  <2>3. CASE \E o \in Ops : PhaseOf(row'[o].status) # PhaseOf(row[o].status)
    BY <1>3, <2>1, <2>3, MoveOnTheContract
  <2> QED
    BY <2>2, <2>3
<1> QED
  BY <1>1, <1>2, <1>3
     DEF Next, Dispatch, PrepareRefused, PrepareConflict, PrepareSend,
         PersistRead, PersistFlush, RecoverRead, PersistGiveUp, Crash, Operate,
         SubmitRead, SubmitInsert, ReconcileRead, ReconcileWrite, Resolve,
         ResolveRead, ResolveWrite, LeaseExpires, BecomesDue, ExternalEdit,
         MirrorSync, ToggleCapability, vars

(* The outbox keeps the promise of WriteContract (outbox.py:1-7): an       *)
(* intention takes effect at most once, a stated result is true, and one   *)
(* that cannot be known is declared uncertain and left to a person, for    *)
(* any number of operations, crashes and expired leases, when there is one *)
(* dispatcher and requests do not overlap.                                 *)
THEOREM OutboxKeepsThePromise ==
  ASSUME OneAtATime PROVE Spec => KeepsThePromise
<1>1. Init => Promise!ContractInit
  BY DEF Init, Promise!ContractInit, Absent, PhaseOf
<1>2. (IInv /\ ReadsAreCurrent) /\ [Next]_vars
        => [Promise!ContractNext]_(Promise!contractVars)
  BY StepOnTheContract
<1> QED
  BY <1>1, <1>2, ReadsStayCurrent, PTL
     DEF Spec, KeepsThePromise, Promise!ContractSpec


-----------------------------------------------------------------------------
(* The inbox                                                               *)

InboxRecords ==
  [event : Events \cup {NoEvent}, status : {"absent"} \cup Pending \cup Ended,
   attempts : Nat, recent : BOOLEAN]
Requests == [event : Events \cup {NoEvent}, found : BOOLEAN]
Hands == [row : InboxRows \cup {0}, attempts : Nat,
          stage : {"none", "processing", "raised", "recording"}]

(* A stored row names the event it was stored for, an absent one none.     *)
RowsNameEvents ==
  \A r \in InboxRows : inbox[r].status # "absent" <=> inbox[r].event \in Events

(* A handler at work has an event, and what its look-up found is there.    *)
RequestsNameEvents ==
  \A h \in Receivers :
    /\ receiving[h] = NoRequest \/ receiving[h].event \in Events
    /\ receiving[h].found => RowsOf(receiving[h].event) # {}

(* A worker at work has a stored row in hand.                              *)
HandsHoldRows ==
  \A w \in InboxWorkers :
    handling[w].stage # "none" =>
      /\ handling[w].row \in InboxRows
      /\ inbox[handling[w].row].status # "absent"

InboxInv == /\ InboxTypeOK
            /\ RowsNameEvents
            /\ RequestsNameEvents
            /\ HandsHoldRows
            /\ AcknowledgedIsStored

-----------------------------------------------------------------------------
(* The board stays a board, whatever is asked for or becomes of a job.     *)
LEMMA BoardStays ==
  ASSUME BoardTypeOK,
         \/ \E S \in SUBSET Keys : Ask(S) \/ GoBack(S)
         \/ \E k \in Keys : Start(k) \/ End(k)
  PROVE  BoardTypeOK'
BY DEF BoardTypeOK, Ask, GoBack, Start, End

(* Writing the status and the attempts of a stored row keeps its event.    *)
RowSet(r, n, s) == [inbox EXCEPT ![r].attempts = n, ![r].status = s]

LEMMA RowWritten ==
  ASSUME InboxInv, NEW r \in InboxRows, inbox[r].status # "absent",
         NEW n \in Nat, NEW s \in Pending \cup Ended,
         inbox' = RowSet(r, n, s)
  PROVE  /\ inbox' \in [InboxRows -> InboxRecords]
         /\ \A q \in InboxRows : /\ inbox'[q].event = inbox[q].event
                                 /\ q # r => inbox'[q] = inbox[q]
         /\ inbox'[r].status = s
<1>1. inbox \in [InboxRows -> InboxRecords]
  BY DEF InboxInv, InboxTypeOK, InboxRecords
<1>2. /\ inbox'[r].event = inbox[r].event /\ inbox'[r].status = s
      /\ inbox'[r].attempts = n /\ inbox'[r].recent = inbox[r].recent
      /\ inbox'[r] = [inbox[r] EXCEPT !.attempts = n, !.status = s]
  BY <1>1 DEF InboxRecords, RowSet
<1>3. inbox'[r] \in InboxRecords
  BY <1>1, <1>2 DEF InboxRecords
<1>4. \A q \in InboxRows : q # r => inbox'[q] = inbox[q]
  BY <1>1 DEF RowSet
<1>5. inbox' = [q \in InboxRows |-> inbox'[q]]
  BY <1>1 DEF RowSet
<1> QED
  BY <1>1, <1>2, <1>3, <1>4, <1>5

(* A step that keeps the events and the existence of every row, adds no    *)
(* acknowledgement and gives nobody anything new in hand.                  *)
LEMMA EventsKept ==
  ASSUME InboxInv, InboxTypeOK',
         \A r \in InboxRows :
           /\ inbox'[r].event = inbox[r].event
           /\ inbox'[r].status # "absent" <=> inbox[r].status # "absent",
         \A h \in Receivers : receiving'[h] \in {receiving[h], NoRequest},
         acknowledged' = acknowledged,
         \A w \in InboxWorkers :
           \/ handling'[w] = NoRow
           \/ handling'[w].row = handling[w].row /\ handling[w].stage # "none"
           \/ handling'[w] = handling[w]
  PROVE  InboxInv'
<1> USE DEF InboxInv
<1>1. RowsNameEvents'
  BY DEF RowsNameEvents
<1>2. \A e : RowsOf(e)' = RowsOf(e)
  BY DEF RowsOf
<1>3. RequestsNameEvents'
  <2> SUFFICES ASSUME NEW h \in Receivers
               PROVE  /\ receiving'[h] = NoRequest \/ receiving'[h].event \in Events
                      /\ receiving'[h].found =>
                           \E r \in InboxRows : inbox'[r].event = receiving'[h].event
    BY DEF RequestsNameEvents, RowsOf
  <2>1. CASE receiving'[h] = NoRequest
    BY <2>1 DEF NoRequest
  <2>2. CASE receiving'[h] = receiving[h]
    BY <2>2 DEF RequestsNameEvents, RowsOf
  <2> QED
    BY <2>1, <2>2
<1>4. HandsHoldRows'
  BY DEF HandsHoldRows, NoRow
<1>5. AcknowledgedIsStored'
  BY <1>2 DEF AcknowledgedIsStored
<1> QED
  BY <1>1, <1>3, <1>4, <1>5

LEMMA DeliverKeeps ==
  ASSUME InboxInv, NEW h \in Receivers, NEW e \in Events, Deliver(h, e)
  PROVE  InboxInv'
<1> USE DEF InboxInv
<1>1. /\ UNCHANGED <<board, inbox, handling, acknowledged>>
      /\ \A k \in Receivers : k # h => receiving'[k] = receiving[k]
      /\ receiving'[h] = [event |-> e, found |-> IsDuplicate(e)]
      /\ receiving' \in [Receivers -> Requests]
  BY DEF Deliver, InboxTypeOK, Requests, IsDuplicate
<1>2. InboxTypeOK'
  BY <1>1 DEF InboxTypeOK, BoardTypeOK, Requests
<1>3. IsDuplicate(e) => RowsOf(e) # {}
  BY DEF IsDuplicate
<1>4. RequestsNameEvents'
  BY <1>1, <1>3 DEF RequestsNameEvents, RowsOf
<1>5. RowsNameEvents' /\ HandsHoldRows' /\ AcknowledgedIsStored'
  BY <1>1 DEF RowsNameEvents, HandsHoldRows, AcknowledgedIsStored, RowsOf
<1> QED
  BY <1>2, <1>4, <1>5

(* The handler answers 200 only after a row with the event is there.       *)
LEMMA StoreKeeps ==
  ASSUME InboxInv, NEW h \in Receivers, StoreAndReply(h)
  PROVE  InboxInv'
<1> USE DEF InboxInv
<1>1. PICK e \in Events : e = receiving[h].event
  BY DEF RequestsNameEvents, StoreAndReply
<1>2. /\ UNCHANGED <<board, handling>>
      /\ acknowledged' = acknowledged \cup {e}
      /\ receiving' = [receiving EXCEPT ![h] = NoRequest]
      /\ NoRequest \in Requests
  BY <1>1 DEF StoreAndReply, Requests, NoRequest
<1>3. /\ \A k \in Receivers : receiving'[k] \in {receiving[k], NoRequest}
      /\ receiving' \in [Receivers -> Requests]
  BY <1>2 DEF InboxTypeOK, Requests
<1>4. /\ \A r \in InboxRows : inbox'[r] = inbox[r] \/ inbox[r].status = "absent"
      /\ \A r \in InboxRows : inbox[r].status = "absent" =>
           \/ inbox'[r] = inbox[r]
           \/ inbox'[r].event = e /\ inbox'[r].status = "received"
      /\ inbox' \in [InboxRows -> InboxRecords]
      /\ \E r \in InboxRows : inbox'[r].event = e
  <2>1. CASE receiving[h].found /\ UNCHANGED inbox
    BY <1>1, <2>1 DEF RequestsNameEvents, RowsOf, InboxTypeOK, InboxRecords
  <2>2. CASE ~receiving[h].found
    <3>1. PICK r \in NextRow : inbox' = [inbox EXCEPT ![r] =
             [event |-> e, status |-> "received", attempts |-> 0, recent |-> TRUE]]
      BY <1>1, <2>2 DEF StoreAndReply
    <3>2. r \in InboxRows /\ inbox[r].status = "absent"
      BY <3>1 DEF NextRow
    <3>3. [event |-> e, status |-> "received", attempts |-> 0, recent |-> TRUE]
             \in InboxRecords
      BY DEF InboxRecords, Pending
    <3> QED
      BY <3>1, <3>2, <3>3 DEF InboxTypeOK, InboxRecords
  <2> QED
    BY <2>1, <2>2 DEF StoreAndReply
<1>5. InboxTypeOK'
  BY <1>2, <1>3, <1>4 DEF InboxTypeOK, BoardTypeOK, Requests, InboxRecords
<1>6. \A f \in Events : RowsOf(f) # {} \/ f = e => RowsOf(f)' # {}
  BY <1>4 DEF RowsOf, RowsNameEvents
<1>7. RowsNameEvents'
  BY <1>4 DEF RowsNameEvents
<1>8. RequestsNameEvents'
  <2> SUFFICES ASSUME NEW k \in Receivers
               PROVE  /\ receiving'[k] = NoRequest \/ receiving'[k].event \in Events
                      /\ receiving'[k].found =>
                           \E r \in InboxRows : inbox'[r].event = receiving'[k].event
    BY DEF RequestsNameEvents, RowsOf
  <2>1. CASE receiving'[k] = NoRequest
    BY <2>1 DEF NoRequest
  <2>2. CASE receiving'[k] = receiving[k] /\ receiving[k] # NoRequest
    <3>1. PICK f \in Events : f = receiving[k].event
      BY <2>2 DEF RequestsNameEvents
    <3>2. receiving[k].found => RowsOf(f) # {}
      BY <3>1 DEF RequestsNameEvents
    <3> QED
      BY <1>6, <2>2, <3>1, <3>2 DEF RowsOf
  <2> QED
    BY <1>3, <2>1, <2>2
<1>9. HandsHoldRows'
  BY <1>2, <1>4 DEF HandsHoldRows
<1>10. AcknowledgedIsStored'
  BY <1>2, <1>6 DEF AcknowledgedIsStored, InboxTypeOK
<1> QED
  BY <1>5, <1>7, <1>8, <1>9, <1>10

(* A row written by a worker that then goes idle.                          *)
LEMMA WorkerWrites ==
  ASSUME InboxInv, BoardTypeOK', NEW w \in InboxWorkers,
         handling[w].stage # "none", NEW n \in Nat, NEW s \in Pending \cup Ended,
         inbox' = RowSet(handling[w].row, n, s),
         handling' = [handling EXCEPT ![w] = NoRow],
         UNCHANGED <<receiving, acknowledged>>
  PROVE  InboxInv'
<1>1. PICK r \in InboxRows : r = handling[w].row /\ inbox[r].status # "absent"
  BY DEF InboxInv, HandsHoldRows
<1>2. /\ inbox' \in [InboxRows -> InboxRecords]
      /\ \A q \in InboxRows : /\ inbox'[q].event = inbox[q].event
                              /\ q # r => inbox'[q] = inbox[q]
      /\ inbox'[r].status = s
  BY <1>1, RowWritten
<1>3. NoRow \in Hands
  BY DEF NoRow, Hands
<1>4. InboxTypeOK'
  BY <1>2, <1>3 DEF InboxInv, InboxTypeOK, InboxRecords, Hands
<1>5. s # "absent"
  BY DEF Pending, Ended
<1> QED
  BY <1>1, <1>2, <1>4, <1>5, EventsKept DEF InboxInv, InboxTypeOK

(* What closes a row is one of the ends, and it is "processed" only for a  *)
(* good body that asks for something.                                      *)
LEMMA OutcomeEnds ==
  ASSUME NEW e \in Events, Event[e].body # "poison"
  PROVE  /\ OutcomeOf(Event[e]) \in Ended
         /\ OutcomeOf(Event[e]) = "processed" => ResourcesOf(Event[e]) = Event[e].keys
         /\ ResourcesOf(Event[e]) \in SUBSET Keys
<1>1. /\ Event[e].body \in {"good", "invalid"}
      /\ Event[e].keys \in SUBSET Keys
  BY EventsTyped
<1> QED
  BY <1>1 DEF OutcomeOf, ResourcesOf, Ended

LEMMA InboxInductive ==
  ASSUME InboxInv, [InboxNext]_inboxVars
  PROVE  InboxInv'
<1> USE DEF InboxInv
<1>1. ASSUME NEW h \in Receivers, NEW e \in Events, Deliver(h, e)
      PROVE  InboxInv'
  BY <1>1, DeliverKeeps
<1>2. ASSUME NEW h \in Receivers, StoreAndReply(h) PROVE InboxInv'
  BY <1>2, StoreKeeps
<1>3. ASSUME NEW h \in Receivers, StoreFails(h) PROVE InboxInv'
  <2>1. InboxTypeOK'
    BY <1>3 DEF StoreFails, InboxTypeOK, BoardTypeOK, NoRequest
  <2> QED
    BY <1>3, <2>1, EventsKept DEF StoreFails, InboxTypeOK
<1>4. ASSUME NEW r \in InboxRows, WindowPasses(r) PROVE InboxInv'
  <2>0. inbox \in [InboxRows -> InboxRecords]
        /\ inbox' = [inbox EXCEPT ![r].recent = FALSE]
    BY <1>4 DEF WindowPasses, InboxTypeOK, InboxRecords
  <2>1. /\ inbox' \in [InboxRows -> InboxRecords]
        /\ \A q \in InboxRows : /\ inbox'[q].event = inbox[q].event
                                /\ inbox'[q].status = inbox[q].status
    BY <2>0 DEF InboxRecords
  <2>2. InboxTypeOK'
    BY <1>4, <2>1 DEF WindowPasses, InboxTypeOK, BoardTypeOK, InboxRecords
  <2> QED
    BY <1>4, <2>1, <2>2, EventsKept DEF WindowPasses
<1>5. ASSUME NEW w \in InboxWorkers, NEW r \in InboxRows, TakeRow(w, r)
      PROVE  InboxInv'
  <2>1. /\ UNCHANGED <<board, inbox, receiving, acknowledged>>
        /\ handling' = [handling EXCEPT ![w] = [row |-> r, stage |-> "processing",
                                                attempts |-> inbox[r].attempts]]
        /\ inbox[r].status # "absent"
    BY <1>5 DEF TakeRow, IsPending, Pending
  <2>2. InboxTypeOK'
    BY <2>1 DEF InboxTypeOK, BoardTypeOK
  <2>3. HandsHoldRows'
    BY <2>1 DEF HandsHoldRows, InboxTypeOK
  <2>4. RowsNameEvents' /\ RequestsNameEvents' /\ AcknowledgedIsStored'
    BY <2>1 DEF RowsNameEvents, RequestsNameEvents, AcknowledgedIsStored, RowsOf
  <2> QED
    BY <2>2, <2>3, <2>4
<1>6. ASSUME NEW w \in InboxWorkers, ProcessCommits(w) PROVE InboxInv'
  <2>1. PICK r \in InboxRows : r = handling[w].row /\ inbox[r].status # "absent"
    BY <1>6 DEF ProcessCommits, HandsHoldRows
  <2>2. PICK e \in Events : e = inbox[r].event
    BY <2>1 DEF RowsNameEvents
  <2>3. BodyOf(w) = Event[e]
    BY <2>1, <2>2 DEF BodyOf
  <2>4. OutcomeOf(Event[e]) \in Ended /\ ResourcesOf(Event[e]) \in SUBSET Keys
    BY <1>6, <2>3, OutcomeEnds DEF ProcessCommits
  <2>5. BoardTypeOK'
    BY <1>6, <2>3, <2>4, BoardStays DEF ProcessCommits, InboxTypeOK
  <2>6. handling[w].attempts + 1 \in Nat
    BY DEF InboxTypeOK
  <2>7. inbox' = RowSet(handling[w].row, handling[w].attempts + 1, OutcomeOf(Event[e]))
    BY <1>6, <2>1, <2>3 DEF ProcessCommits, InboxTypeOK, InboxRecords, RowSet
  <2> QED
    BY <1>6, <2>4, <2>5, <2>6, <2>7, WorkerWrites DEF ProcessCommits
<1>7. ASSUME NEW w \in InboxWorkers, ProcessRaises(w) \/ RecordRead(w)
      PROVE  InboxInv'
  <2>1. inbox[handling[w].row].attempts \in Nat /\ handling[w].stage # "none"
    BY <1>7 DEF ProcessRaises, RecordRead, HandsHoldRows, InboxTypeOK
  <2>2. /\ UNCHANGED <<board, inbox, receiving, acknowledged>>
        /\ \A v \in InboxWorkers : v # w => handling'[v] = handling[v]
        /\ handling'[w].row = handling[w].row
        /\ handling' \in [InboxWorkers -> Hands]
    BY <1>7, <2>1 DEF ProcessRaises, RecordRead, InboxTypeOK, Hands
  <2>3. InboxTypeOK'
    BY <2>2 DEF InboxTypeOK, BoardTypeOK, Hands
  <2> QED
    BY <2>1, <2>2, <2>3, EventsKept DEF InboxTypeOK
<1>8. ASSUME NEW w \in InboxWorkers, RecordWrite(w) PROVE InboxInv'
  <2>1. handling[w].attempts + 1 \in Nat
    BY DEF InboxTypeOK
  <2>2. StatusAfter(handling[w].attempts + 1) \in Pending \cup Ended
    BY DEF StatusAfter, Pending, Ended
  <2>3. BoardTypeOK'
    BY <1>8 DEF RecordWrite, InboxTypeOK, BoardTypeOK
  <2> QED
    BY <1>8, <2>1, <2>2, <2>3, WorkerWrites DEF RecordWrite, RowSet
<1>9. ASSUME NEW w \in InboxWorkers, WorkerDies(w) PROVE InboxInv'
  <2>1. InboxTypeOK'
    BY <1>9 DEF WorkerDies, InboxTypeOK, BoardTypeOK, NoRow
  <2> QED
    BY <1>9, <2>1, EventsKept DEF WorkerDies, InboxTypeOK
<1>10. ASSUME BoardMoves PROVE InboxInv'
  <2>1. BoardTypeOK'
    BY <1>10, BoardStays DEF BoardMoves, InboxTypeOK
  <2>2. InboxTypeOK'
    BY <1>10, <2>1 DEF BoardMoves, InboxTypeOK
  <2> QED
    BY <1>10, <2>2, EventsKept DEF BoardMoves
<1>11. CASE UNCHANGED inboxVars
  <2>1. InboxTypeOK'
    BY <1>11 DEF inboxVars, InboxTypeOK, BoardTypeOK
  <2> QED
    BY <1>11, <2>1, EventsKept DEF inboxVars
<1> QED
  BY <1>1, <1>2, <1>3, <1>4, <1>5, <1>6, <1>7, <1>8, <1>9, <1>10, <1>11
     DEF InboxNext, EmptyInbox

LEMMA InboxInvHolds == InboxSpec => []InboxInv
<1>1. InboxInit => InboxInv
  <2> SUFFICES ASSUME InboxInit PROVE InboxInv
    OBVIOUS
  <2>1. InboxTypeOK
    BY DEF InboxInit, BoardInit, InboxTypeOK, BoardTypeOK, NoRequest, NoRow
  <2>2. RowsNameEvents /\ HandsHoldRows /\ AcknowledgedIsStored
    BY EventsTyped DEF InboxInit, RowsNameEvents, HandsHoldRows,
                       AcknowledgedIsStored, NoRow
  <2>3. RequestsNameEvents
    BY DEF InboxInit, RequestsNameEvents, NoRequest
  <2> QED
    BY <2>1, <2>2, <2>3 DEF InboxInv
<1> QED
  BY <1>1, InboxInductive, PTL DEF InboxSpec

(* The rows, requests and workers keep their shape (inbox.py).             *)
THEOREM InboxTypeCorrect == InboxSpec => []InboxTypeOK
<1>1. InboxInv => InboxTypeOK
  BY DEF InboxInv
<1> QED
  BY <1>1, InboxInvHolds, PTL

(* A sender that got a 200 has its event in the inbox, whatever deliveries *)
(* overlapped and whichever commit failed (inbox.py:5 and webhooks.py:64). *)
THEOREM AcknowledgedEventsAreStored == InboxSpec => []AcknowledgedIsStored
<1>1. InboxInv => AcknowledgedIsStored
  BY DEF InboxInv
<1> QED
  BY <1>1, InboxInvHolds, PTL

-----------------------------------------------------------------------------
(* The row and its jobs                                                    *)

NamedJobs(r) == Event[inbox[r].event].keys

(* Only the transaction that closes a row makes it processed.              *)
LEMMA ProcessedByItsCommit ==
  ASSUME InboxInv, [InboxNext]_inboxVars, NEW r \in InboxRows,
         inbox[r].status # "processed", inbox'[r].status = "processed"
  PROVE  \E w \in InboxWorkers : ProcessCommits(w) /\ handling[w].row = r
<1> USE DEF InboxInv
<1>1. inbox \in [InboxRows -> InboxRecords]
  BY DEF InboxTypeOK, InboxRecords
<1>2. ASSUME NEW w \in InboxWorkers, ProcessCommits(w)
      PROVE  handling[w].row = r
  <2>1. handling[w].row \in InboxRows
    BY <1>2 DEF ProcessCommits, HandsHoldRows
  <2> QED
    BY <1>1, <1>2, <2>1 DEF ProcessCommits
<1>3. ASSUME NEW w \in InboxWorkers, RecordWrite(w) PROVE FALSE
  <2>1. handling[w].row \in InboxRows
    BY <1>3 DEF RecordWrite, HandsHoldRows
  <2>2. PICK n \in Nat : n = handling[w].attempts + 1
    BY DEF InboxTypeOK
  <2>3. StatusAfter(n) \in {"failed", "retry"}
    BY DEF StatusAfter
  <2>4. inbox' = [inbox EXCEPT ![handling[w].row].attempts = n,
                               ![handling[w].row].status = StatusAfter(n)]
    BY <1>3, <2>2 DEF RecordWrite
  <2> QED
    BY <1>1, <2>1, <2>3, <2>4 DEF InboxRecords
<1>4. ASSUME NEW h \in Receivers, StoreAndReply(h) PROVE FALSE
  BY <1>1, <1>4 DEF StoreAndReply, NextRow
<1>5. ASSUME NEW q \in InboxRows, WindowPasses(q) PROVE FALSE
  BY <1>1, <1>5 DEF WindowPasses, InboxRecords
<1> QED
  BY <1>2, <1>3, <1>4, <1>5
     DEF InboxNext, EmptyInbox, Deliver, StoreFails, TakeRow, ProcessRaises,
         RecordRead, WorkerDies, BoardMoves, inboxVars

LEMMA JobsComeWithTheRow ==
  ASSUME InboxInv, [InboxNext]_inboxVars, NEW r \in InboxRows,
         inbox[r].status # "processed", inbox'[r].status = "processed"
  PROVE  \A k \in NamedJobs(r) : board'[k] # "none"
<1> USE DEF InboxInv
<1>1. PICK w \in InboxWorkers : ProcessCommits(w) /\ handling[w].row = r
  BY ProcessedByItsCommit
<1>2. PICK e \in Events : e = inbox[r].event
  BY <1>1 DEF ProcessCommits, HandsHoldRows, RowsNameEvents
<1>3. BodyOf(w) = Event[e] /\ Event[e].body # "poison"
  BY <1>1, <1>2 DEF BodyOf, ProcessCommits
<1>4. OutcomeOf(Event[e]) = "processed"
  BY <1>1, <1>3 DEF ProcessCommits, InboxTypeOK
<1>5. ResourcesOf(Event[e]) = Event[e].keys /\ Event[e].keys \subseteq Keys
  BY <1>3, <1>4, OutcomeEnds
<1>6. Ask(Event[e].keys)
  BY <1>1, <1>3, <1>5 DEF ProcessCommits
<1> QED
  BY <1>2, <1>5, <1>6 DEF Ask, NamedJobs

LEMMA FailedAttemptsAskForNothing ==
  ASSUME InboxInv, [InboxNext]_inboxVars, NEW w \in InboxWorkers,
         handling[w].stage = "processing", handling'[w].stage = "raised"
  PROVE  board' = board
<1> USE DEF InboxInv
<1>1. ASSUME NEW v \in InboxWorkers, ProcessCommits(v) PROVE FALSE
  BY <1>1 DEF ProcessCommits, NoRow, InboxTypeOK
<1>2. ASSUME BoardMoves PROVE FALSE
  BY <1>2 DEF BoardMoves
<1> QED
  BY <1>1, <1>2
     DEF InboxNext, Deliver, StoreAndReply, StoreFails, WindowPasses,
         EmptyInbox, TakeRow, ProcessRaises, RecordRead, RecordWrite,
         WorkerDies, inboxVars

(* The row and the jobs it asks for are committed together (process, in    *)
(* one transaction): an event is processed only with an active job for     *)
(* every resource it named, and an attempt that raised asked for nothing.  *)
THEOREM EventsComeWithTheirJobs == InboxSpec => ProcessedWithItsJobs
<1>1. InboxInv /\ [InboxNext]_inboxVars
        => [\A r \in InboxRows :
              LET named == Event[inbox[r].event].keys IN
                /\ (inbox[r].status # "processed" /\ inbox'[r].status = "processed")
                     => \A k \in named : board'[k] # "none"
                /\ (\E w \in InboxWorkers : /\ handling[w].row = r
                                            /\ handling[w].stage = "processing"
                                            /\ handling'[w].stage = "raised")
                     => board' = board]_inboxVars
  BY JobsComeWithTheRow, FailedAttemptsAskForNothing DEF NamedJobs
<1> QED
  BY <1>1, InboxInvHolds, PTL DEF InboxSpec, ProcessedWithItsJobs


-----------------------------------------------------------------------------
(* The analysis jobs                                                       *)

LotStatuses == ActiveLot \cup Resumable \cup {"absent", "completed", "cancelled"}

IsLot(r) ==
  /\ r = [status |-> r.status, mode |-> r.mode, ids |-> r.ids, cursor |-> r.cursor,
          processed |-> r.processed, failed |-> r.failed, stale |-> r.stale,
          lost |-> r.lost, calledOff |-> r.calledOff]
  /\ r.status \in LotStatuses /\ r.calledOff \in BOOLEAN
  /\ Len(r.ids) \in Nat
  /\ r.cursor \in Nat /\ r.processed \in Nat /\ r.failed \in Nat /\ r.lost \in Nat

(* The tables are functions of the jobs and of the threads of each.        *)
TablesShaped ==
  /\ lot = [j \in RetailJobIds |-> lot[j]]
  /\ runner = [j \in RetailJobIds |-> runner[j]]
  /\ pool = [j \in RetailJobIds |-> pool[j]]
  /\ \A j \in RetailJobIds : pool[j] = [t \in PoolThreads |-> pool[j][t]]

(* What a thread read under the lock is what the row still says.           *)
LockedReadsHold(j) ==
  \A t \in PoolThreads :
    /\ pool[j][t].do = "claiming" =>
         pool[j][t].cursor = lot[j].cursor /\ lot[j].cursor < Len(lot[j].ids)
    /\ pool[j][t].do = "recording" =>
         /\ pool[j][t].processed = lot[j].processed
         /\ pool[j][t].failed = lot[j].failed

AllClaimed(j) == lot[j].calledOff \/ lot[j].cursor = Len(lot[j].ids)

(* Where the worker of a job is, against what its threads and its row say. *)
RunnerAgrees(j) ==
  /\ \A t \in PoolThreads : pool[j][t] # NoThread => runner[j].pc = "pool"
  /\ runner[j].pc = "pool" =>
       \A t \in PoolThreads : pool[j][t] = NoThread => AllClaimed(j)
  /\ runner[j].pc = "closing" => AllClaimed(j)
  /\ lot[j].status = "completed" =>
       AllClaimed(j) /\ runner[j].pc \in {"none", "entered", "chaining", "inserting"}
  /\ lot[j].status = "absent" =>
       lot[j] = NoLot /\ runner[j].pc \in {"none", "entered"}

JobOK(j) ==
  /\ IsLot(lot[j])
  /\ lot[j].cursor = lot[j].processed + lot[j].failed + lot[j].lost + Cardinality(InHand(j))
  /\ lot[j].cursor <= Len(lot[j].ids)
  /\ lot[j].status = "cancelled" => lot[j].calledOff
  /\ LockedReadsHold(j)
  /\ RunnerAgrees(j)

Locks(j, t) == pool[j][t].do \in {"claiming", "recording"}

(* _job_db_lock is held by one thread.                                     *)
OneLocks ==
  \A j, k \in RetailJobIds : \A t, u \in PoolThreads :
    Locks(j, t) /\ Locks(k, u) => j = k /\ t = u

LotsInv == TablesShaped /\ OneLocks /\ \A j \in RetailJobIds : JobOK(j)

(* What a caller or a worker decided to insert is a list of products.      *)
PlansTyped ==
  /\ caller = [c \in Callers |-> caller[c]]
  /\ \A c \in Callers : caller[c].do = "insert" => Len(caller[c].ids) \in Nat
  /\ \A j \in RetailJobIds :
       runner[j].pc = "inserting" => Len(runner[j].ids) \in Nat

RetailInv == LotsInv /\ PlansTyped

-----------------------------------------------------------------------------
(* A row written field by field.                                           *)
LotRow(s, mode, ids, cursor, processed, failed, stale, lost, c) ==
  [status |-> s, mode |-> mode, ids |-> ids, cursor |-> cursor,
   processed |-> processed, failed |-> failed, stale |-> stale, lost |-> lost,
   calledOff |-> c]

LEMMA LotOf ==
  ASSUME NEW s \in LotStatuses, NEW mode, NEW ids, Len(ids) \in Nat,
         NEW cursor \in Nat, NEW processed \in Nat, NEW failed \in Nat,
         NEW lost \in Nat, NEW b, NEW c \in BOOLEAN
  PROVE  IsLot(LotRow(s, mode, ids, cursor, processed, failed, b, lost, c))
<1> DEFINE r == LotRow(s, mode, ids, cursor, processed, failed, b, lost, c)
<1>1. /\ r.status = s /\ r.mode = mode /\ r.ids = ids /\ r.cursor = cursor
      /\ r.processed = processed /\ r.failed = failed /\ r.stale = b
      /\ r.lost = lost /\ r.calledOff = c
  BY DEF LotRow
<1>2. r = [status |-> r.status, mode |-> r.mode, ids |-> r.ids, cursor |-> r.cursor,
           processed |-> r.processed, failed |-> r.failed, stale |-> r.stale,
           lost |-> r.lost, calledOff |-> r.calledOff]
  BY DEF LotRow
<1> HIDE DEF r
<1>3. IsLot(r)
  BY <1>1, <1>2 DEF IsLot
<1> QED
  BY <1>3 DEF r

LEMMA InHandFinite ==
  ASSUME NEW j
  PROVE  IsFiniteSet(InHand(j)) /\ Cardinality(InHand(j)) \in Nat
<1>1. InHand(j) \subseteq PoolThreads
  BY DEF InHand
<1> QED
  BY <1>1, RetailBounds, FS_Subset, FS_CardinalityType

(* Nothing is in hand where no thread is at work.                          *)
LEMMA NothingInHand ==
  ASSUME NEW j, \A t \in PoolThreads : pool[j][t].do \in {"none", "ready", "claiming"}
  PROVE  InHand(j) = {} /\ Cardinality(InHand(j)) = 0
<1>1. InHand(j) = {}
  BY DEF InHand
<1> QED
  BY <1>1, FS_EmptySet

(* A job whose row, threads and worker stay as they are stays sound.       *)
LEMMA JobStays ==
  ASSUME NEW j, JobOK(j), lot'[j] = lot[j], pool'[j] = pool[j],
         runner'[j] = runner[j]
  PROVE  JobOK(j)'
<1>1. InHand(j)' = InHand(j)
  BY DEF InHand
<1> QED
  BY <1>1 DEF JobOK, LockedReadsHold, RunnerAgrees, AllClaimed

(* A worker stays where it is, or leaves its chain.                        *)
Rests(j) ==
  \/ runner'[j] = runner[j]
  \/ runner[j].pc = "chaining" /\ runner'[j].pc \in {"none", "inserting"}

(* A row of which only the status changes, not to completed and not to      *)
(* absent, stays sound; a cancellation leaves its mark.                    *)
LotSet(r, s, b, c) == [r EXCEPT !.status = s, !.stale = b, !.calledOff = c]

LEMMA RowRestated ==
  ASSUME NEW j, JobOK(j), pool'[j] = pool[j], Rests(j),
         NEW s \in LotStatuses, NEW b, NEW c \in BOOLEAN,
         lot'[j] = LotSet(lot[j], s, b, c),
         lot[j].calledOff => c, s = "cancelled" => c,
         s = "completed" => lot[j].status = "completed",
         s = "absent" => lot'[j] = lot[j]
  PROVE  JobOK(j)'
<1>1. InHand(j)' = InHand(j)
  BY DEF InHand
<1>2. IsLot(lot[j])
  BY DEF JobOK
<1>3. lot'[j] = [status |-> s, mode |-> lot[j].mode, ids |-> lot[j].ids,
                 cursor |-> lot[j].cursor, processed |-> lot[j].processed,
                 failed |-> lot[j].failed, stale |-> b, lost |-> lot[j].lost,
                 calledOff |-> c]
  BY <1>2 DEF IsLot, LotSet
<1>4. /\ IsLot(lot'[j]) /\ lot'[j].status = s /\ lot'[j].calledOff = c
      /\ lot'[j].ids = lot[j].ids /\ lot'[j].cursor = lot[j].cursor
      /\ lot'[j].processed = lot[j].processed /\ lot'[j].failed = lot[j].failed
      /\ lot'[j].lost = lot[j].lost
  BY <1>2, <1>3 DEF IsLot
<1>5. AllClaimed(j) => AllClaimed(j)'
  BY <1>4 DEF AllClaimed
<1>6. LockedReadsHold(j)'
  BY <1>4 DEF JobOK, LockedReadsHold
<1>7. RunnerAgrees(j)'
  BY <1>4, <1>5 DEF JobOK, RunnerAgrees, Rests
<1> QED
  BY <1>1, <1>4, <1>6, <1>7 DEF JobOK

(* A worker that goes on without its pool stays sound with its row.        *)
LEMMA WorkerMoves ==
  ASSUME NEW j, JobOK(j), lot'[j] = lot[j], pool'[j] = pool[j],
         runner'[j].pc # "pool",
         runner[j].pc = "pool" => PoolEnded(j),
         runner'[j].pc = "closing" => AllClaimed(j),
         lot[j].status = "completed" =>
           runner'[j].pc \in {"none", "entered", "chaining", "inserting"},
         lot[j].status = "absent" => runner'[j].pc \in {"none", "entered"}
  PROVE  JobOK(j)'
<1>1. InHand(j)' = InHand(j)
  BY DEF InHand
<1>2. AllClaimed(j)' <=> AllClaimed(j)
  BY DEF AllClaimed
<1>3. \A t \in PoolThreads : pool[j][t] = NoThread
  BY DEF JobOK, RunnerAgrees, PoolEnded
<1>4. RunnerAgrees(j)'
  BY <1>2, <1>3 DEF JobOK, RunnerAgrees
<1> QED
  BY <1>1, <1>4 DEF JobOK, LockedReadsHold

-----------------------------------------------------------------------------
(* What has no lock goes on not having it.                                 *)
LEMMA LocksStay ==
  ASSUME OneLocks,
         \A j \in RetailJobIds : \A t \in PoolThreads : Locks(j, t)' => Locks(j, t)
  PROVE  OneLocks'
BY DEF OneLocks

(* What reclaiming may do to one row.                                      *)
Restated(r, q, s, b) ==
  /\ q = [r EXCEPT !.status = s, !.stale = b]
  /\ s = r.status \/ (s = "interrupted" /\ r.status \in ActiveLot)

LEMMA ReclaimedRow ==
  ASSUME NEW rows, NEW j \in RetailJobIds, IsLot(rows[j])
  PROVE  \E s \in LotStatuses : \E b : Restated(rows[j], Reclaimed(rows)[j], s, b)
<1> DEFINE r == rows[j]
           q == Reclaimed(rows)[j]
<1>1. r.status \in LotStatuses /\ "interrupted" \in LotStatuses
  BY DEF IsLot, LotStatuses, Resumable
<1>2. CASE r.status \in ActiveLot /\ ~HasRunner(j) /\ r.stale
  <2>1. q = [r EXCEPT !.status = "interrupted"]
    BY <1>2 DEF Reclaimed
  <2>2. q = [r EXCEPT !.status = "interrupted", !.stale = r.stale]
    BY <2>1 DEF IsLot
  <2>3. Restated(r, q, "interrupted", r.stale)
    BY <1>2, <2>2 DEF Restated
  <2> QED
    BY <1>1, <2>3, Zenon
<1>3. CASE r.status \in ActiveLot /\ HasRunner(j)
  <2>1. q = [r EXCEPT !.stale = FALSE]
    BY <1>3 DEF Reclaimed
  <2>2. q = [r EXCEPT !.status = r.status, !.stale = FALSE]
    BY <2>1 DEF IsLot
  <2>3. Restated(r, q, r.status, FALSE)
    BY <2>2 DEF Restated
  <2> QED
    BY <1>1, <2>3, Zenon
<1>4. CASE /\ ~(r.status \in ActiveLot /\ ~HasRunner(j) /\ r.stale)
           /\ ~(r.status \in ActiveLot /\ HasRunner(j))
  <2>1. q = r
    BY <1>4 DEF Reclaimed
  <2>2. q = [r EXCEPT !.status = r.status, !.stale = r.stale]
    BY <2>1 DEF IsLot
  <2>3. Restated(r, q, r.status, r.stale)
    BY <2>2 DEF Restated
  <2> QED
    BY <1>1, <2>3, Zenon
<1> QED
  BY <1>2, <1>3, <1>4

(* Reclaiming rows of jobs that are sound leaves them sound.               *)
LEMMA ReclaimKeeps ==
  ASSUME NEW j \in RetailJobIds, JobOK(j), lot'[j] = Reclaimed(lot)[j],
         pool'[j] = pool[j], Rests(j)
  PROVE  JobOK(j)'
<1>1. IsLot(lot[j])
  BY DEF JobOK
<1>2. PICK s \in LotStatuses : \E b : Restated(lot[j], lot'[j], s, b)
  BY <1>1, ReclaimedRow
<1>3. PICK b : Restated(lot[j], lot'[j], s, b)
  BY <1>2
<1>4. lot'[j] = [lot[j] EXCEPT !.status = s, !.stale = b]
  BY <1>3 DEF Restated
<1>5. PICK c \in BOOLEAN : c = lot[j].calledOff
  BY <1>1 DEF IsLot
<1>6. lot'[j] = LotSet(lot[j], s, b, c)
  BY <1>4, <1>1, <1>5 DEF IsLot, LotSet
<1>7. s = "cancelled" => c
  BY <1>3, <1>5 DEF Restated, JobOK, ActiveLot
<1>8. s = "completed" => lot[j].status = "completed"
  BY <1>3 DEF Restated
<1>9. s = "absent" => lot[j].status = "absent"
  BY <1>3 DEF Restated
<1>10. s = "absent" => lot'[j] = lot[j]
  BY <1>9 DEF Reclaimed, ActiveLot
<1> QED
  BY <1>5, <1>6, <1>7, <1>8, <1>10, RowRestated
-----------------------------------------------------------------------------
LEMMA LotsAtFirst == ASSUME RetailInit PROVE LotsInv
<1>1. TablesShaped
  BY DEF RetailInit, TablesShaped
<1>2. ASSUME NEW j \in RetailJobIds
      PROVE  /\ lot[j] = NoLot /\ runner[j].pc = "none"
             /\ \A t \in PoolThreads : pool[j][t] = NoThread
  BY <1>2 DEF RetailInit, NoRunner, At
<1>3. OneLocks
  BY <1>2 DEF OneLocks, Locks, NoThread
<1>4. ASSUME NEW j \in RetailJobIds
      PROVE  JobOK(j)
  <2>1. \A t \in PoolThreads : pool[j][t].do = "none"
    BY <1>2, <1>4 DEF NoThread
  <2>2. Cardinality(InHand(j)) = 0
    BY <2>1, NothingInHand
  <2>3. IsLot(lot[j]) /\ Len(lot[j].ids) = 0
      <3>1. Len(<<>>) = 0
      OBVIOUS
    <3>2. "absent" \in LotStatuses
      BY DEF LotStatuses
    <3>3. IsLot(LotRow("absent", "batch", <<>>, 0, 0, 0, FALSE, 0, FALSE))
      BY <3>1, <3>2, LotOf
    <3>4. lot[j] = LotRow("absent", "batch", <<>>, 0, 0, 0, FALSE, 0, FALSE)
      BY <1>2, <1>4 DEF NoLot, LotRow
    <3>5. Len(lot[j].ids) = 0
      BY <1>2, <1>4, <3>1 DEF NoLot
    <3> QED
      BY <3>3, <3>4, <3>5
  <2> QED
    BY <1>2, <1>4, <2>1, <2>2, <2>3
       DEF JobOK, LockedReadsHold, RunnerAgrees, NoLot
<1> QED
  BY <1>1, <1>3, <1>4 DEF LotsInv

(* A step that leaves the threads alone.                                   *)
LEMMA RowsMove ==
  ASSUME LotsInv, UNCHANGED pool,
         lot' = [j \in RetailJobIds |-> lot'[j]],
         runner' = [j \in RetailJobIds |-> runner'[j]],
         \A j \in RetailJobIds : JobOK(j)'
  PROVE  LotsInv'
<1>1. TablesShaped'
  BY DEF LotsInv, TablesShaped
<1>2. OneLocks'
  BY DEF LotsInv, OneLocks, Locks
<1> QED
  BY <1>1, <1>2 DEF LotsInv

LEMMA WorkersStand ==
  ASSUME LotsInv, UNCHANGED runner
  PROVE  runner' = [j \in RetailJobIds |-> runner'[j]]
BY DEF LotsInv, TablesShaped

LEMMA ReclaimingKeeps ==
  ASSUME LotsInv, lot' = Reclaimed(lot), UNCHANGED <<pool, runner>>
  PROVE  LotsInv'
<1>1. lot' = [j \in RetailJobIds |-> lot'[j]]
  BY DEF Reclaimed
<1>2. \A j \in RetailJobIds : JobOK(j)'
  BY ReclaimKeeps DEF LotsInv, Rests
<1> QED
  BY <1>1, <1>2, RowsMove, WorkersStand

(* One row is restated, the others stay.                                   *)
LEMMA OneRowRestated ==
  ASSUME LotsInv, UNCHANGED <<pool, runner>>, NEW j \in RetailJobIds,
         lot' = [lot EXCEPT ![j] = lot'[j]], JobOK(j)'
  PROVE  LotsInv'
<1>1. \A k \in RetailJobIds : k # j => lot'[k] = lot[k]
  BY DEF LotsInv, TablesShaped
<1>2. \A k \in RetailJobIds : JobOK(k)'
  BY <1>1, JobStays DEF LotsInv
<1>3. lot' = [k \in RetailJobIds |-> lot'[k]]
  BY DEF LotsInv, TablesShaped
<1> QED
  BY <1>2, <1>3, RowsMove, WorkersStand

(* A row takes the place of an absent one.                                 *)
LEMMA JobInserted ==
  ASSUME LotsInv, NEW j \in RetailJobIds, lot[j].status = "absent",
         NEW mode, NEW ids, Len(ids) \in Nat,
         pool'[j] = pool[j], runner'[j] = runner[j],
         lot' = [lot EXCEPT ![j] = Inserted(mode, ids)]
  PROVE  JobOK(j)'
<1>1. /\ JobOK(j) /\ lot[j] = NoLot
      /\ runner[j].pc \in {"none", "entered"}
      /\ \A t \in PoolThreads : pool[j][t] = NoThread
  BY DEF LotsInv, JobOK, RunnerAgrees
<1>2. lot'[j] = [status |-> "queued", mode |-> mode, ids |-> ids, cursor |-> 0,
                 processed |-> 0, failed |-> 0, stale |-> FALSE, lost |-> 0,
                 calledOff |-> FALSE]
  BY DEF LotsInv, TablesShaped, Inserted, NoLot
<1>3. InHand(j)' = InHand(j)
  BY DEF InHand
<1>4. Cardinality(InHand(j)) = 0
  BY <1>1, NothingInHand DEF NoThread
<1>5. IsLot(lot'[j])
  <2>1. "queued" \in LotStatuses
    BY DEF LotStatuses, ActiveLot
  <2>2. IsLot(LotRow("queued", mode, ids, 0, 0, 0, FALSE, 0, FALSE))
    BY <2>1, LotOf
  <2> QED
    BY <1>2, <2>2 DEF LotRow
<1>6. LockedReadsHold(j)'
  BY <1>1 DEF LockedReadsHold, NoThread
<1>7. RunnerAgrees(j)'
  BY <1>1, <1>2 DEF RunnerAgrees
<1> QED
  BY <1>2, <1>3, <1>4, <1>5, <1>6, <1>7 DEF JobOK

(* What is decided on is a list, whatever is pending.                      *)
LEMMA FirstPendingIsList ==
  ASSUME NEW n \in Nat
  PROVE  Len(FirstPending(n)) \in Nat
<1> DEFINE pending == Cardinality(PendingProducts)
           m == IF pending < n THEN pending ELSE n
           e(i) == CHOOSE p \in PendingProducts :
                     Cardinality({q \in PendingProducts : q <= p}) = i
<1>1. pending \in Nat
  BY RetailBounds, FS_Subset, FS_CardinalityType DEF PendingProducts
<1>2. m \in Nat
  BY <1>1
<1>3. FirstPending(n) = [i \in 1..m |-> e(i)]
  BY DEF FirstPending
<1> HIDE DEF m, e
<1>4. [i \in 1..m |-> e(i)] \in Seq({e(i) : i \in 1..m})
  BY <1>2
<1>5. PICK S : S = {e(i) : i \in 1..m}
  OBVIOUS
<1>6. PICK s \in Seq(S) : s = FirstPending(n)
  BY <1>3, <1>4, <1>5
<1>7. Len(s) \in Nat
  BY <1>6
<1> QED
  BY <1>6, <1>7

LEMMA CallKeeps ==
  ASSUME LotsInv, PlansTyped, NEW c \in Callers, CallWrites(c)
  PROVE  LotsInv'
<1>1. PICK j \in RetailJobIds : Carries(caller[c], j)
  BY DEF CallWrites
<1>2. UNCHANGED <<pool, runner>>
  BY DEF CallWrites
<1>3. IsLot(lot[j]) /\ JobOK(j)
  BY DEF LotsInv, JobOK
<1>4. CASE caller[c].do = "resume"
  <2>1. lot' = [lot EXCEPT ![j] = Touched(@, "queued")]
    BY <1>1, <1>4 DEF Carries
  <2>2. lot'[j] = [lot[j] EXCEPT !.status = "queued", !.stale = FALSE]
    BY <2>1 DEF Touched, LotsInv, TablesShaped
  <2>3. lot' = [lot EXCEPT ![j] = lot'[j]]
    BY <2>1 DEF LotsInv, TablesShaped
  <2>4. PICK b \in BOOLEAN : b = lot[j].calledOff
    BY <1>3 DEF IsLot
  <2>5. PICK old : lot'[j] = LotSet(lot[j], "queued", old, b)
    <3>1. lot'[j] = LotSet(lot[j], "queued", FALSE, b)
      BY <1>3, <2>2, <2>4 DEF IsLot, LotSet
    <3> QED
      BY <3>1
  <2>6. "queued" \in LotStatuses
    BY DEF LotStatuses, ActiveLot
  <2>7. pool'[j] = pool[j] /\ Rests(j) /\ (lot[j].calledOff => b)
    BY <1>2, <2>4 DEF Rests
  <2>8. JobOK(j)'
    BY <1>3, <2>5, <2>6, <2>7, RowRestated
  <2> QED
    BY <1>2, <2>3, <2>8, OneRowRestated
<1>5. CASE caller[c].do = "insert"
  <2>1. j \in NewLot /\ lot' = [lot EXCEPT ![j] = Inserted(caller[c].mode, caller[c].ids)]
    BY <1>1, <1>5 DEF Carries
  <2>2. Len(caller[c].ids) \in Nat
    BY <1>5 DEF PlansTyped
  <2>3. JobOK(j)'
    BY <1>2, <1>3, <2>1, <2>2, JobInserted DEF NewLot
  <2>4. lot' = [lot EXCEPT ![j] = lot'[j]]
    BY <2>1 DEF LotsInv, TablesShaped
  <2> QED
    BY <1>2, <2>3, <2>4, OneRowRestated
<1> QED
  BY <1>1, <1>4, <1>5 DEF Carries
LEMMA CancelKeeps ==
  ASSUME LotsInv, NEW c \in Callers, CancelLotWrite(c)
  PROVE  LotsInv'
<1> DEFINE i == caller[c].job
           called == [lot EXCEPT ![i].calledOff = TRUE]
           rows == [called EXCEPT ![i] = Touched(@, "cancelled")]
<1>1. UNCHANGED <<pool, runner>> /\ lot' = Reclaimed(rows)
  BY DEF CancelLotWrite
<1>2. lot' = [j \in RetailJobIds |-> lot'[j]]
  BY <1>1 DEF Reclaimed
<1>3. ASSUME NEW j \in RetailJobIds
      PROVE  JobOK(j)'
  <2>1. JobOK(j) /\ IsLot(lot[j]) /\ lot = [k \in RetailJobIds |-> lot[k]]
    BY DEF LotsInv, JobOK, TablesShaped
  <2>2. CASE j = i
    <3>1. rows[j] = [lot[j] EXCEPT !.calledOff = TRUE, !.status = "cancelled",
                                   !.stale = FALSE]
      BY <2>1, <2>2 DEF Touched
    <3>2. rows[j] = [lot[j] EXCEPT !.status = "cancelled", !.stale = FALSE,
                                   !.calledOff = TRUE]
      BY <2>1, <3>1 DEF IsLot
    <3> HIDE DEF rows
    <3>3. rows[j].status = "cancelled"
      BY <2>1, <3>2 DEF IsLot
    <3>4. lot'[j] = rows[j]
      BY <1>1, <3>3 DEF Reclaimed, ActiveLot
    <3>5. "cancelled" \in LotStatuses
      BY DEF LotStatuses
    <3>6. PICK old, b \in BOOLEAN : b /\ lot'[j] = LotSet(lot[j], "cancelled", old, b)
      BY <3>2, <3>4 DEF LotSet
    <3>7. pool'[j] = pool[j] /\ Rests(j)
      BY <1>1 DEF Rests
    <3> QED
      BY <2>1, <3>5, <3>6, <3>7, RowRestated
  <2>3. CASE j # i
    <3>1. rows[j] = lot[j]
      BY <2>1, <2>3
    <3> HIDE DEF rows
    <3>2. lot'[j] = Reclaimed(lot)[j]
      BY <1>1, <3>1 DEF Reclaimed
    <3> QED
      BY <1>1, <2>1, <3>2, ReclaimKeeps DEF Rests
  <2> QED
    BY <2>2, <2>3
<1> QED
  BY <1>1, <1>2, <1>3, RowsMove, WorkersStand

LEMMA AgingKeeps ==
  ASSUME LotsInv, NEW j \in RetailJobIds, LotAges(j)
  PROVE  LotsInv'
<1>1. JobOK(j) /\ IsLot(lot[j]) /\ lot = [k \in RetailJobIds |-> lot[k]]
  BY DEF LotsInv, JobOK, TablesShaped
<1>2. UNCHANGED <<pool, runner>> /\ lot' = [lot EXCEPT ![j].stale = TRUE]
  BY DEF LotAges
<1>3. lot'[j] = [lot[j] EXCEPT !.stale = TRUE]
  BY <1>1, <1>2
<1>4. PICK b \in BOOLEAN : b = lot[j].calledOff
  BY <1>1 DEF IsLot
<1>5. PICK s \in LotStatuses : s = lot[j].status
  BY <1>1 DEF IsLot
<1>6. PICK old : lot'[j] = LotSet(lot[j], s, old, b)
  <2>1. lot'[j] = LotSet(lot[j], s, TRUE, b)
    BY <1>1, <1>3, <1>4, <1>5 DEF IsLot, LotSet
  <2> QED
    BY <2>1
<1>7. s \notin {"absent"}
  BY <1>5 DEF LotAges, ActiveLot
<1>8. s = "cancelled" => b
  BY <1>1, <1>4, <1>5 DEF JobOK
<1>9. /\ pool'[j] = pool[j] /\ Rests(j)
      /\ lot[j].calledOff => b
      /\ s = "completed" => lot[j].status = "completed"
      /\ s = "absent" => lot'[j] = lot[j]
  BY <1>2, <1>4, <1>5, <1>7 DEF Rests
<1>11. JobOK(j)'
  BY <1>1, <1>6, <1>8, <1>9, RowRestated
<1>10. lot' = [lot EXCEPT ![j] = lot'[j]]
  BY <1>1, <1>2, <1>3
<1> QED
  BY <1>2, <1>10, <1>11, OneRowRestated

(* The worker of one job moves and touches no row.                         *)
LEMMA OneWorkerMoves ==
  ASSUME LotsInv, NEW j \in RetailJobIds, UNCHANGED <<lot, pool>>, NEW pc, NEW ids,
         runner' = [runner EXCEPT ![j] = At(pc, ids)],
         pc # "pool", runner[j].pc = "pool" => PoolEnded(j),
         pc = "closing" => AllClaimed(j),
         lot[j].status = "completed" => pc \in {"none", "entered", "chaining", "inserting"},
         lot[j].status = "absent" => pc \in {"none", "entered"}
  PROVE  LotsInv'
<1>1. runner = [k \in RetailJobIds |-> runner[k]]
  BY DEF LotsInv, TablesShaped
<1>2. runner'[j].pc = pc
  BY <1>1 DEF At
<1>3. \A k \in RetailJobIds : k # j => runner'[k] = runner[k]
  BY <1>1
<1>4. JobOK(j)'
  BY <1>2, WorkerMoves DEF LotsInv
<1>5. \A k \in RetailJobIds : JobOK(k)'
  BY <1>3, <1>4, JobStays DEF LotsInv
<1>6. runner' = [k \in RetailJobIds |-> runner'[k]]
  BY <1>1
<1>7. lot' = [k \in RetailJobIds |-> lot'[k]]
  BY DEF LotsInv, TablesShaped
<1> QED
  BY <1>5, <1>6, <1>7, RowsMove

LEMMA EnteringKeeps ==
  ASSUME LotsInv, NEW j \in RetailJobIds, WorkerEnters(j)
  PROVE  LotsInv'
<1>1. CASE HasRunner(j)
  <2>1. UNCHANGED <<lot, pool, runner>>
    BY <1>1 DEF WorkerEnters
  <2>2. \A k \in RetailJobIds : JobOK(k)'
    BY <2>1, JobStays DEF LotsInv
  <2>3. lot' = [k \in RetailJobIds |-> lot'[k]]
    BY <2>1 DEF LotsInv, TablesShaped
  <2> QED
    BY <2>1, <2>2, <2>3, RowsMove, WorkersStand
<1>2. CASE ~HasRunner(j)
  <2>1. UNCHANGED <<lot, pool>> /\ runner' = [runner EXCEPT ![j] = At("entered", <<>>)]
    BY <1>2 DEF WorkerEnters, GoesTo
  <2>2. runner[j].pc # "pool"
    BY <1>2 DEF HasRunner, NoRunner, At
  <2>3. PICK pc \in {"entered"} : runner' = [runner EXCEPT ![j] = At(pc, <<>>)]
    BY <2>1
  <2> QED
    BY <2>1, <2>2, <2>3, OneWorkerMoves
<1> QED
  BY <1>1, <1>2

LEMMA ReadingKeeps ==
  ASSUME LotsInv, NEW j \in RetailJobIds, WorkerReads(j)
  PROVE  LotsInv'
<1>1. UNCHANGED <<lot, pool>> /\ runner[j].pc = "entered"
  BY DEF WorkerReads
<1>2. CASE lot[j].status \in {"running", "queued"} \cup Resumable
  <2>1. PICK pc \in {"refreshing", "starting"} :
          runner' = [runner EXCEPT ![j] = At(pc, <<>>)]
    BY <1>2 DEF WorkerReads, GoesTo, Resumable
  <2> QED
    BY <1>1, <1>2, <2>1, OneWorkerMoves DEF Resumable
<1>3. CASE lot[j].status \notin {"running", "queued"} \cup Resumable
  <2>1. PICK pc \in {"none"} : runner' = [runner EXCEPT ![j] = At(pc, <<>>)]
    BY <1>3 DEF WorkerReads, Leaves, NoRunner
  <2> QED
    BY <1>1, <2>1, OneWorkerMoves
<1> QED
  BY <1>2, <1>3

LEMMA EndKeeps ==
  ASSUME LotsInv, NEW j \in RetailJobIds, WorkerSeesEnd(j)
  PROVE  LotsInv'
<1>1. UNCHANGED <<lot, pool>> /\ runner[j].pc = "pool" /\ PoolEnded(j)
  BY DEF WorkerSeesEnd
<1>2. AllClaimed(j)
  BY <1>1, RetailBounds DEF LotsInv, JobOK, RunnerAgrees, PoolEnded
<1>3. lot[j].status \notin {"completed", "absent"}
  BY <1>1 DEF LotsInv, JobOK, RunnerAgrees
<1>4. PICK pc \in {"none", "closing"} : runner' = [runner EXCEPT ![j] = At(pc, <<>>)]
  BY DEF WorkerSeesEnd, Leaves, GoesTo, NoRunner
<1> QED
  BY <1>1, <1>2, <1>3, <1>4, OneWorkerMoves
(* The row is written as completed by the worker whose pool has ended.     *)
LEMMA ClosingKeeps ==
  ASSUME LotsInv, NEW j \in RetailJobIds, WorkerCloses(j)
  PROVE  LotsInv'
<1>1. /\ JobOK(j) /\ IsLot(lot[j]) /\ lot = [k \in RetailJobIds |-> lot[k]]
      /\ runner = [k \in RetailJobIds |-> runner[k]]
  BY DEF LotsInv, JobOK, TablesShaped
<1>2. /\ runner[j].pc = "closing" /\ pool' = pool
      /\ lot' = [lot EXCEPT ![j] = Touched(@, "completed")]
  BY DEF WorkerCloses
<1>3. PICK pc \in {"none", "chaining"} : runner' = [runner EXCEPT ![j] = At(pc, <<>>)]
  BY DEF WorkerCloses, Leaves, GoesTo, NoRunner
<1>4. runner'[j].pc \in {"none", "chaining"}
  BY <1>1, <1>3 DEF At
<1>5. lot'[j] = [lot[j] EXCEPT !.status = "completed", !.stale = FALSE]
  BY <1>1, <1>2 DEF Touched
<1>6. lot'[j] = LotRow("completed", lot[j].mode, lot[j].ids, lot[j].cursor,
                       lot[j].processed, lot[j].failed, FALSE, lot[j].lost,
                       lot[j].calledOff)
  BY <1>1, <1>5 DEF IsLot, LotRow
<1>7. IsLot(lot'[j])
  <2>1. "completed" \in LotStatuses
    BY DEF LotStatuses
  <2>2. IsLot(LotRow("completed", lot[j].mode, lot[j].ids, lot[j].cursor,
                     lot[j].processed, lot[j].failed, FALSE, lot[j].lost,
                     lot[j].calledOff))
    <3>1. /\ Len(lot[j].ids) \in Nat /\ lot[j].cursor \in Nat
          /\ lot[j].processed \in Nat /\ lot[j].failed \in Nat
          /\ lot[j].lost \in Nat /\ lot[j].calledOff \in BOOLEAN
      BY <1>1 DEF IsLot
    <3> QED
      BY <2>1, <3>1, LotOf
  <2> QED
    BY <1>6, <2>2
<1>8. /\ lot'[j].status = "completed" /\ lot'[j].calledOff = lot[j].calledOff
      /\ lot'[j].ids = lot[j].ids /\ lot'[j].cursor = lot[j].cursor
      /\ lot'[j].processed = lot[j].processed /\ lot'[j].failed = lot[j].failed
      /\ lot'[j].lost = lot[j].lost
  BY <1>6 DEF LotRow
<1>9. AllClaimed(j) /\ AllClaimed(j)'
  BY <1>1, <1>2, <1>8 DEF JobOK, RunnerAgrees, AllClaimed
<1>10. \A t \in PoolThreads : pool'[j][t] = NoThread
  BY <1>1, <1>2 DEF JobOK, RunnerAgrees
<1>11. RunnerAgrees(j)'
  BY <1>4, <1>8, <1>9, <1>10 DEF RunnerAgrees
<1>12. LockedReadsHold(j)'
  BY <1>10 DEF LockedReadsHold, NoThread
<1>13. InHand(j)' = InHand(j)
  BY <1>2 DEF InHand
<1>14. JobOK(j)'
  BY <1>1, <1>7, <1>8, <1>11, <1>12, <1>13 DEF JobOK
<1>15. \A k \in RetailJobIds : JobOK(k)'
  <2>1. \A k \in RetailJobIds : k # j => lot'[k] = lot[k] /\ runner'[k] = runner[k]
    BY <1>1, <1>2, <1>3
  <2> QED
    BY <1>2, <1>14, <2>1, JobStays DEF LotsInv
<1>16. /\ lot' = [k \in RetailJobIds |-> lot'[k]]
       /\ runner' = [k \in RetailJobIds |-> runner'[k]]
  BY <1>1, <1>2, <1>3
<1> QED
  BY <1>2, <1>15, <1>16, RowsMove

(* A worker that chains reclaims, and leaves or remembers what to insert.  *)
LEMMA ChainingKeeps ==
  ASSUME LotsInv, NEW j \in RetailJobIds, WorkerChains(j)
  PROVE  LotsInv'
<1>1. /\ runner[j].pc = "chaining" /\ pool' = pool
      /\ lot' = lot \/ lot' = Reclaimed(lot)
  BY DEF WorkerChains
<1>2. PICK pc \in {"none", "inserting"} :
        \E ids : runner' = [runner EXCEPT ![j] = At(pc, ids)]
  BY DEF WorkerChains, Leaves, NoRunner
<1>3. PICK ids : runner' = [runner EXCEPT ![j] = At(pc, ids)]
  BY <1>2
<1>4. /\ runner = [k \in RetailJobIds |-> runner[k]]
      /\ lot = [k \in RetailJobIds |-> lot[k]]
  BY DEF LotsInv, TablesShaped
<1>5. ASSUME NEW k \in RetailJobIds
      PROVE  JobOK(k)'
  <2>1. pool'[k] = pool[k] /\ Rests(k) /\ JobOK(k)
    BY <1>1, <1>3, <1>4 DEF Rests, At, LotsInv
  <2>2. CASE lot' = Reclaimed(lot)
    BY <2>1, <2>2, ReclaimKeeps
  <2>3. CASE lot' = lot
    <3>1. CASE runner'[k] = runner[k]
      BY <2>1, <2>3, <3>1, JobStays
    <3>2. CASE runner[k].pc = "chaining" /\ runner'[k].pc \in {"none", "inserting"}
      <4>1. lot[k].status # "absent"
        BY <2>1, <3>2 DEF JobOK, RunnerAgrees
      <4> QED
        BY <2>1, <2>3, <3>2, <4>1, WorkerMoves
    <3> QED
      BY <2>1, <3>1, <3>2 DEF Rests
  <2> QED
    BY <1>1, <2>2, <2>3
<1>6. /\ lot' = [k \in RetailJobIds |-> lot'[k]]
      /\ runner' = [k \in RetailJobIds |-> runner'[k]]
  BY <1>1, <1>3, <1>4 DEF Reclaimed
<1> QED
  BY <1>1, <1>5, <1>6, RowsMove

LEMMA InsertingKeeps ==
  ASSUME LotsInv, PlansTyped, NEW j \in RetailJobIds, WorkerInserts(j)
  PROVE  LotsInv'
<1>1. /\ runner[j].pc = "inserting" /\ pool' = pool
      /\ runner' = [runner EXCEPT ![j] = At("none", <<>>)]
      /\ Len(runner[j].ids) \in Nat
  BY DEF WorkerInserts, Leaves, NoRunner, PlansTyped
<1>2. PICK i \in NewLot : lot' = [lot EXCEPT ![i] = Inserted("all", runner[j].ids)]
  BY DEF WorkerInserts
<1>3. i \in RetailJobIds /\ lot[i].status = "absent"
  BY DEF NewLot
<1>4. /\ runner = [k \in RetailJobIds |-> runner[k]]
      /\ lot = [k \in RetailJobIds |-> lot[k]]
      /\ \A k \in RetailJobIds : JobOK(k)
  BY DEF LotsInv, TablesShaped
<1>5. i # j /\ lot[j].status # "absent"
  BY <1>1, <1>3, <1>4 DEF JobOK, RunnerAgrees
<1>6. JobOK(i)'
  <2>1. pool'[i] = pool[i] /\ runner'[i] = runner[i]
    BY <1>1, <1>3, <1>4, <1>5
  <2> QED
    BY <1>1, <1>2, <1>3, <2>1, JobInserted
<1>7. JobOK(j)'
  <2>1. lot'[j] = lot[j] /\ runner'[j].pc = "none"
    BY <1>1, <1>2, <1>4, <1>5 DEF At
  <2> QED
    BY <1>1, <1>4, <2>1, WorkerMoves
<1>8. ASSUME NEW k \in RetailJobIds, k # i, k # j
      PROVE  JobOK(k)'
  <2>1. lot'[k] = lot[k] /\ runner'[k] = runner[k] /\ pool'[k] = pool[k]
    BY <1>1, <1>2, <1>4, <1>8
  <2> QED
    BY <1>4, <2>1, JobStays
<1>9. /\ lot' = [k \in RetailJobIds |-> lot'[k]]
      /\ runner' = [k \in RetailJobIds |-> runner'[k]]
  BY <1>1, <1>2, <1>4
<1> QED
  BY <1>1, <1>6, <1>7, <1>8, <1>9, RowsMove
-----------------------------------------------------------------------------
(* The tables after a step that changes the threads of one job.            *)
LEMMA ShapesStay ==
  ASSUME TablesShaped,
         lot' = [k \in RetailJobIds |-> lot'[k]],
         runner' = [k \in RetailJobIds |-> runner'[k]],
         NEW j \in RetailJobIds, pool' = [pool EXCEPT ![j] = pool'[j]],
         pool'[j] = [t \in PoolThreads |-> pool'[j][t]]
  PROVE  TablesShaped'
<1>1. pool' = [k \in RetailJobIds |-> pool'[k]]
  BY DEF TablesShaped
<1>2. \A k \in RetailJobIds : k # j => pool'[k] = pool[k]
  BY DEF TablesShaped
<1>3. \A k \in RetailJobIds : pool'[k] = [t \in PoolThreads |-> pool'[k][t]]
  BY <1>2 DEF TablesShaped
<1> QED
  BY <1>1, <1>3 DEF TablesShaped

(* The pool starts: all its threads are ready.                             *)
LEMMA StartingKeeps ==
  ASSUME LotsInv, NEW j \in RetailJobIds, WorkerStarts(j)
  PROVE  LotsInv'
<1>1. /\ TablesShaped /\ JobOK(j) /\ IsLot(lot[j])
      /\ lot = [k \in RetailJobIds |-> lot[k]]
      /\ runner = [k \in RetailJobIds |-> runner[k]]
      /\ pool = [k \in RetailJobIds |-> pool[k]]
  BY DEF LotsInv, JobOK, TablesShaped
<1>2. /\ runner[j].pc \in {"starting", "refreshing"}
      /\ runner' = [runner EXCEPT ![j] = At("pool", <<>>)]
      /\ pool' = [pool EXCEPT ![j] = [t \in PoolThreads |-> [do |-> "ready"]]]
  BY DEF WorkerStarts, GoesTo
<1>3. PICK s : /\ s \in {"running", lot[j].status}
               /\ lot' = [lot EXCEPT ![j] = Touched(@, s)]
  BY DEF WorkerStarts
<1>4. lot[j].status \notin {"completed", "absent"}
  BY <1>1, <1>2 DEF JobOK, RunnerAgrees
<1>5. s \in LotStatuses /\ s \notin {"completed", "absent"}
  BY <1>1, <1>3, <1>4 DEF IsLot, LotStatuses, ActiveLot
<1>6. lot'[j] = LotRow(s, lot[j].mode, lot[j].ids, lot[j].cursor,
                       lot[j].processed, lot[j].failed, FALSE, lot[j].lost,
                       lot[j].calledOff)
  <2>1. lot'[j] = [lot[j] EXCEPT !.status = s, !.stale = FALSE]
    BY <1>1, <1>3 DEF Touched
  <2> QED
    BY <1>1, <2>1 DEF IsLot, LotRow
<1>7. IsLot(lot'[j])
  <2>1. /\ Len(lot[j].ids) \in Nat /\ lot[j].cursor \in Nat
        /\ lot[j].processed \in Nat /\ lot[j].failed \in Nat
        /\ lot[j].lost \in Nat /\ lot[j].calledOff \in BOOLEAN
    BY <1>1 DEF IsLot
  <2>2. IsLot(LotRow(s, lot[j].mode, lot[j].ids, lot[j].cursor,
                     lot[j].processed, lot[j].failed, FALSE, lot[j].lost,
                     lot[j].calledOff))
    BY <1>5, <2>1, LotOf
  <2> QED
    BY <1>6, <2>2
<1>8. /\ lot'[j].status = s /\ lot'[j].calledOff = lot[j].calledOff
      /\ lot'[j].ids = lot[j].ids /\ lot'[j].cursor = lot[j].cursor
      /\ lot'[j].processed = lot[j].processed /\ lot'[j].failed = lot[j].failed
      /\ lot'[j].lost = lot[j].lost
  BY <1>6 DEF LotRow
<1>9. /\ pool'[j] = [t \in PoolThreads |-> [do |-> "ready"]]
      /\ \A t \in PoolThreads : pool'[j][t] = [do |-> "ready"]
      /\ runner'[j].pc = "pool"
  BY <1>1, <1>2 DEF At
<1>10. \A t \in PoolThreads : pool'[j][t].do = "ready" /\ pool'[j][t] # NoThread
  BY <1>9 DEF NoThread
<1>11. InHand(j) = {} /\ InHand(j)' = {}
  <2>1. \A t \in PoolThreads : pool[j][t] = NoThread
    BY <1>1, <1>2 DEF JobOK, RunnerAgrees
  <2> QED
    BY <1>10, <2>1 DEF InHand, NoThread
<1>12. LockedReadsHold(j)'
  BY <1>10 DEF LockedReadsHold
<1>13. RunnerAgrees(j)'
  BY <1>5, <1>8, <1>9, <1>10 DEF RunnerAgrees
<1>14. s = "cancelled" => lot[j].calledOff
  BY <1>1, <1>3 DEF JobOK
<1>15. JobOK(j)'
  BY <1>1, <1>7, <1>8, <1>11, <1>12, <1>13, <1>14 DEF JobOK
<1>16. ASSUME NEW k \in RetailJobIds, k # j
       PROVE  /\ pool'[k] = pool[k]
              /\ JobOK(k)'
  <2>1. lot'[k] = lot[k] /\ runner'[k] = runner[k] /\ pool'[k] = pool[k]
    BY <1>1, <1>2, <1>3, <1>16
  <2> QED
    BY <2>1, <1>16, JobStays DEF LotsInv
<1>17. TablesShaped'
  <2>1. /\ lot' = [k \in RetailJobIds |-> lot'[k]]
        /\ runner' = [k \in RetailJobIds |-> runner'[k]]
        /\ pool' = [pool EXCEPT ![j] = pool'[j]]
    BY <1>1, <1>2, <1>3
  <2>2. pool'[j] = [t \in PoolThreads |-> pool'[j][t]]
    BY <1>9
  <2> QED
    BY <1>1, <2>1, <2>2, ShapesStay
<1>18. OneLocks'
  <2>1. ASSUME NEW k \in RetailJobIds, NEW t \in PoolThreads, Locks(k, t)'
        PROVE  Locks(k, t)
    BY <2>1, <1>10, <1>16 DEF Locks
  <2> QED
    BY <2>1, LocksStay DEF LotsInv
<1> QED
  BY <1>15, <1>16, <1>17, <1>18 DEF LotsInv

(* The process dies: what was in hand is lost, and nobody is left.         *)
LEMMA RestartKeeps ==
  ASSUME LotsInv, ProcessRestarts
  PROVE  LotsInv'
<1>1. /\ runner' = [j \in RetailJobIds |-> NoRunner]
      /\ pool' = [j \in RetailJobIds |-> [t \in PoolThreads |-> NoThread]]
      /\ lot' = [j \in RetailJobIds |-> [lot[j] EXCEPT !.lost = @ + Cardinality(InHand(j))]]
  BY DEF ProcessRestarts
<1>2. ASSUME NEW j \in RetailJobIds
      PROVE  JobOK(j)'
  <2>1. JobOK(j) /\ IsLot(lot[j]) /\ Cardinality(InHand(j)) \in Nat
    BY InHandFinite DEF LotsInv, JobOK
  <2>2. PICK n \in Nat : n = Cardinality(InHand(j))
    BY <2>1
  <2>3. lot'[j] = LotRow(lot[j].status, lot[j].mode, lot[j].ids, lot[j].cursor,
                         lot[j].processed, lot[j].failed, lot[j].stale,
                         lot[j].lost + n, lot[j].calledOff)
    <3>1. lot'[j] = [lot[j] EXCEPT !.lost = lot[j].lost + n]
      BY <1>1, <2>1, <2>2 DEF IsLot
    <3> QED
      BY <2>1, <3>1 DEF IsLot, LotRow
  <2>4. /\ Len(lot[j].ids) \in Nat /\ lot[j].cursor \in Nat
        /\ lot[j].processed \in Nat /\ lot[j].failed \in Nat
        /\ lot[j].lost + n \in Nat /\ lot[j].calledOff \in BOOLEAN
        /\ lot[j].status \in LotStatuses /\ lot[j].lost \in Nat
    BY <2>1, <2>2 DEF IsLot
  <2>5. IsLot(lot'[j])
    <3>1. IsLot(LotRow(lot[j].status, lot[j].mode, lot[j].ids, lot[j].cursor,
                       lot[j].processed, lot[j].failed, lot[j].stale,
                       lot[j].lost + n, lot[j].calledOff))
      BY <2>4, LotOf
    <3> QED
      BY <2>3, <3>1
  <2>6. /\ lot'[j].status = lot[j].status /\ lot'[j].calledOff = lot[j].calledOff
        /\ lot'[j].ids = lot[j].ids /\ lot'[j].cursor = lot[j].cursor
        /\ lot'[j].processed = lot[j].processed /\ lot'[j].failed = lot[j].failed
        /\ lot'[j].lost = lot[j].lost + n
    BY <2>3 DEF LotRow
  <2>7. runner'[j].pc = "none" /\ \A t \in PoolThreads : pool'[j][t] = NoThread
    BY <1>1 DEF NoRunner, At
  <2>8. Cardinality(InHand(j)') = 0
    <3>1. InHand(j)' = {}
      BY <2>7 DEF InHand, NoThread
    <3> QED
      BY <3>1, FS_EmptySet
  <2>9. LockedReadsHold(j)'
    BY <2>7 DEF LockedReadsHold, NoThread
  <2>10. RunnerAgrees(j)'
    <3>1. lot[j].status = "completed" => AllClaimed(j)'
      BY <2>1, <2>6 DEF JobOK, RunnerAgrees, AllClaimed
    <3>2. lot[j].status = "absent" => lot'[j] = NoLot
      <4>1. ASSUME lot[j].status = "absent"
            PROVE  lot'[j] = NoLot
        <5>1. lot[j] = NoLot /\ runner[j].pc \in {"none", "entered"}
          BY <2>1, <4>1 DEF JobOK, RunnerAgrees
        <5>2. \A t \in PoolThreads : pool[j][t] = NoThread
          BY <2>1, <5>1 DEF JobOK, RunnerAgrees
        <5>3. n = 0
          BY <2>2, <5>2, NothingInHand DEF NoThread
        <5> QED
          BY <2>3, <5>1, <5>3 DEF NoLot, LotRow
      <4> QED
        BY <4>1
    <3> QED
      BY <2>6, <2>7, <3>1, <3>2 DEF RunnerAgrees
  <2>11. /\ lot'[j].cursor = lot'[j].processed + lot'[j].failed + lot'[j].lost + 0
         /\ lot'[j].cursor <= Len(lot'[j].ids)
         /\ lot'[j].status = "cancelled" => lot'[j].calledOff
    <3>1. /\ lot[j].cursor = lot[j].processed + lot[j].failed + lot[j].lost + n
          /\ lot[j].cursor <= Len(lot[j].ids)
          /\ lot[j].status = "cancelled" => lot[j].calledOff
      BY <2>1, <2>2 DEF JobOK
    <3>2. lot[j].cursor = lot[j].processed + lot[j].failed + (lot[j].lost + n) + 0
      BY <2>4, <3>1
    <3> QED
      BY <2>6, <3>1, <3>2
  <2> QED
    BY <2>5, <2>8, <2>9, <2>10, <2>11 DEF JobOK
<1>3. TablesShaped'
  BY <1>1 DEF TablesShaped
<1>4. OneLocks'
  BY <1>1 DEF OneLocks, Locks, NoThread
<1> QED
  BY <1>2, <1>3, <1>4 DEF LotsInv
-----------------------------------------------------------------------------
(* One thread of a job goes on; the others stay.                           *)
ThreadWent(j, t, state) ==
  /\ pool'[j][t] = state
  /\ \A u \in PoolThreads : u # t => pool'[j][u] = pool[j][u]
  /\ \A k \in RetailJobIds : k # j => pool'[k] = pool[k]
  /\ pool' = [pool EXCEPT ![j] = pool'[j]]
  /\ pool'[j] = [u \in PoolThreads |-> pool'[j][u]]

LEMMA ThreadGoesOn ==
  ASSUME LotsInv, NEW j \in RetailJobIds, NEW t \in PoolThreads, NEW state,
         Thread(j, t, state)
  PROVE  ThreadWent(j, t, state)
<1>1. /\ pool = [k \in RetailJobIds |-> pool[k]]
      /\ pool[j] = [u \in PoolThreads |-> pool[j][u]]
  BY DEF LotsInv, TablesShaped
<1>2. /\ pool' = [pool EXCEPT ![j] = pool'[j]]
      /\ pool'[j] = [pool[j] EXCEPT ![t] = state]
      /\ \A k \in RetailJobIds : k # j => pool'[k] = pool[k]
  BY <1>1 DEF Thread
<1> QED
  BY <1>1, <1>2 DEF ThreadWent

LEMMA ThreadKeeps ==
  ASSUME LotsInv, NEW j \in RetailJobIds, NEW t \in PoolThreads, NEW state,
         Thread(j, t, state), runner' = runner, lot' = [lot EXCEPT ![j] = lot'[j]],
         Locks(j, t)' => Locks(j, t) \/ LockIsFree(j), JobOK(j)'
  PROVE  LotsInv'
<1>1. /\ pool'[j][t] = state
      /\ \A u \in PoolThreads : u # t => pool'[j][u] = pool[j][u]
      /\ \A k \in RetailJobIds : k # j => pool'[k] = pool[k]
      /\ pool' = [pool EXCEPT ![j] = pool'[j]]
      /\ pool'[j] = [u \in PoolThreads |-> pool'[j][u]]
  <2>1. ThreadWent(j, t, state)
    BY ThreadGoesOn
  <2> QED
    BY <2>1 DEF ThreadWent
<1>2. /\ TablesShaped /\ lot = [k \in RetailJobIds |-> lot[k]]
      /\ runner = [k \in RetailJobIds |-> runner[k]]
  BY DEF LotsInv, TablesShaped
<1>3. /\ lot' = [k \in RetailJobIds |-> lot'[k]]
      /\ runner' = [k \in RetailJobIds |-> runner'[k]]
      /\ \A k \in RetailJobIds : k # j => lot'[k] = lot[k]
  BY <1>2
<1>4. TablesShaped'
  BY <1>1, <1>2, <1>3, ShapesStay
<1>5. \A k \in RetailJobIds : JobOK(k)'
  BY <1>1, <1>3, JobStays DEF LotsInv
<1>6. OneLocks'
  <2>1. CASE Locks(j, t)' => Locks(j, t)
    <3>1. ASSUME NEW k \in RetailJobIds, NEW u \in PoolThreads, Locks(k, u)'
          PROVE  Locks(k, u)
      BY <1>1, <2>1, <3>1 DEF Locks
    <3> QED
      BY <3>1, LocksStay DEF LotsInv
  <2>2. CASE LockIsFree(j)
    <3>1. ASSUME NEW k \in RetailJobIds, NEW u \in PoolThreads, Locks(k, u)'
          PROVE  k = j /\ u = t
      BY <1>1, <2>2, <3>1 DEF Locks, LockIsFree
    <3> QED
      BY <3>1 DEF OneLocks
  <2> QED
    BY <2>1, <2>2
<1> QED
  BY <1>4, <1>5, <1>6 DEF LotsInv

InHands == {"analyzing", "analyzed", "recording"}

(* What is in hand after a thread has gone on.                             *)
LEMMA HandsChange ==
  ASSUME LotsInv, NEW j \in RetailJobIds, NEW t \in PoolThreads, NEW state,
         Thread(j, t, state)
  PROVE  /\ state.do \in InHands /\ pool[j][t].do \in InHands =>
              InHand(j)' = InHand(j)
         /\ state.do \notin InHands /\ pool[j][t].do \notin InHands =>
              InHand(j)' = InHand(j)
         /\ state.do \in InHands /\ pool[j][t].do \notin InHands =>
              Cardinality(InHand(j)') = Cardinality(InHand(j)) + 1
         /\ state.do \notin InHands /\ pool[j][t].do \in InHands =>
              Cardinality(InHand(j)') = Cardinality(InHand(j)) - 1
<1>1. /\ pool'[j][t] = state
      /\ \A u \in PoolThreads : u # t => pool'[j][u] = pool[j][u]
  <2>1. ThreadWent(j, t, state)
    BY ThreadGoesOn
  <2> QED
    BY <2>1 DEF ThreadWent
<1>2. \A u \in PoolThreads : u # t => (u \in InHand(j)' <=> u \in InHand(j))
  BY <1>1 DEF InHand
<1>3. /\ t \in InHand(j)' <=> state.do \in InHands
      /\ t \in InHand(j) <=> pool[j][t].do \in InHands
  BY <1>1 DEF InHand, InHands
<1>4. InHand(j) \subseteq PoolThreads /\ InHand(j)' \subseteq PoolThreads
  BY DEF InHand
<1>5. IsFiniteSet(InHand(j))
  BY InHandFinite
<1>6. CASE t \in InHand(j)' <=> t \in InHand(j)
  <2>1. InHand(j)' = InHand(j)
    BY <1>2, <1>4, <1>6
  <2> QED
    BY <2>1, <1>3, <1>6
<1>7. CASE t \in InHand(j)' /\ t \notin InHand(j)
  <2>1. InHand(j)' = InHand(j) \cup {t}
    BY <1>2, <1>4, <1>7
  <2>2. Cardinality(InHand(j)') = Cardinality(InHand(j)) + 1
    BY <1>5, <1>7, <2>1, FS_AddElement
  <2> QED
    BY <1>3, <1>7, <2>2
<1>8. CASE t \notin InHand(j)' /\ t \in InHand(j)
  <2>1. InHand(j)' = InHand(j) \ {t}
    BY <1>2, <1>4, <1>8
  <2>2. Cardinality(InHand(j)') = Cardinality(InHand(j)) - 1
    BY <1>5, <1>8, <2>1, FS_RemoveElement
  <2> QED
    BY <1>3, <1>8, <2>2
<1> QED
  BY <1>6, <1>7, <1>8

(* The worker of a thread at work is at its pool, and its lot is not over. *)
LEMMA AtWork ==
  ASSUME NEW j, JobOK(j), NEW t \in PoolThreads, pool[j][t] # NoThread
  PROVE  runner[j].pc = "pool" /\ lot[j].status \notin {"completed", "absent"}
BY DEF JobOK, RunnerAgrees

LEMMA RunnerStillAgrees ==
  ASSUME LotsInv, NEW j \in RetailJobIds, NEW t \in PoolThreads, NEW state,
         Thread(j, t, state), runner' = runner, pool[j][t] # NoThread,
         state = NoThread => AllClaimed(j)', AllClaimed(j) => AllClaimed(j)',
         lot'[j].status \notin {"completed", "absent"}
  PROVE  RunnerAgrees(j)'
<1>1. /\ pool'[j][t] = state
      /\ \A u \in PoolThreads : u # t => pool'[j][u] = pool[j][u]
  <2>1. ThreadWent(j, t, state)
    BY ThreadGoesOn
  <2> QED
    BY <2>1 DEF ThreadWent
<1>2. JobOK(j) /\ runner[j].pc = "pool"
  BY AtWork DEF LotsInv
<1>3. \A u \in PoolThreads : pool'[j][u] = NoThread => AllClaimed(j)'
  BY <1>1, <1>2 DEF JobOK, RunnerAgrees
<1> QED
  BY <1>2, <1>3 DEF RunnerAgrees

(* A thread that writes no row: what it has read is current.               *)
LEMMA RowlessThread ==
  ASSUME LotsInv, NEW j \in RetailJobIds, NEW t \in PoolThreads, NEW state,
         Thread(j, t, state), runner' = runner, lot' = lot,
         pool[j][t] # NoThread,
         state.do \in InHands <=> pool[j][t].do \in InHands,
         state = NoThread => AllClaimed(j),
         state.do = "claiming" =>
           state.cursor = lot[j].cursor /\ lot[j].cursor < Len(lot[j].ids),
         state.do = "recording" =>
           state.processed = lot[j].processed /\ state.failed = lot[j].failed,
         state.do \in {"claiming", "recording"} => LockIsFree(j)
  PROVE  LotsInv'
<1>1. /\ pool'[j][t] = state
      /\ \A u \in PoolThreads : u # t => pool'[j][u] = pool[j][u]
  <2>1. ThreadWent(j, t, state)
    BY ThreadGoesOn
  <2> QED
    BY <2>1 DEF ThreadWent
<1>2. JobOK(j)
  BY DEF LotsInv
<1>3. InHand(j)' = InHand(j)
  BY HandsChange
<1>4. AllClaimed(j)' <=> AllClaimed(j)
  BY DEF AllClaimed
<1>5. lot'[j].status \notin {"completed", "absent"}
  BY <1>2, AtWork
<1>6. RunnerAgrees(j)'
  BY <1>4, <1>5, RunnerStillAgrees
<1>7. LockedReadsHold(j)'
  BY <1>1, <1>2 DEF JobOK, LockedReadsHold
<1>8. JobOK(j)'
  BY <1>2, <1>3, <1>6, <1>7 DEF JobOK
<1>9. lot' = [lot EXCEPT ![j] = lot'[j]]
  BY DEF LotsInv, TablesShaped
<1>10. Locks(j, t)' => LockIsFree(j)
  BY <1>1 DEF Locks
<1> QED
  BY <1>8, <1>9, <1>10, ThreadKeeps
LEMMA StoppingKeeps ==
  ASSUME LotsInv, NEW j \in RetailJobIds, NEW t \in PoolThreads, ThreadStops(j, t)
  PROVE  LotsInv'
<1>1. /\ Thread(j, t, NoThread) /\ lot' = lot /\ runner' = runner
      /\ pool[j][t].do = "ready" /\ lot[j].status = "cancelled"
  BY DEF ThreadStops
<1>2. AllClaimed(j)
  BY <1>1 DEF LotsInv, JobOK, AllClaimed
<1>3. PICK state : state = NoThread
  OBVIOUS
<1>4. Thread(j, t, state) /\ state.do = "none" /\ pool[j][t] # NoThread
  BY <1>1, <1>3 DEF NoThread
<1> QED
  BY <1>1, <1>2, <1>4, RowlessThread DEF InHands

LEMMA ClaimReadKeeps ==
  ASSUME LotsInv, NEW j \in RetailJobIds, NEW t \in PoolThreads, ClaimReads(j, t)
  PROVE  LotsInv'
<1>1. /\ lot' = lot /\ runner' = runner /\ LockIsFree(j)
      /\ pool[j][t].do = "ready"
  BY DEF ClaimReads
<1>2. /\ JobOK(j) /\ Len(lot[j].ids) \in Nat /\ lot[j].cursor \in Nat
      /\ lot[j].cursor <= Len(lot[j].ids)
  BY DEF LotsInv, JobOK, IsLot
<1>3. pool[j][t] # NoThread
  BY <1>1 DEF NoThread
<1>4. CASE lot[j].status = "cancelled" \/ lot[j].cursor >= Len(lot[j].ids)
  <2>1. PICK state : state = NoThread /\ Thread(j, t, state)
    BY <1>4 DEF ClaimReads
  <2>2. AllClaimed(j)
    BY <1>2, <1>4 DEF JobOK, AllClaimed
  <2>3. state.do = "none"
    BY <2>1 DEF NoThread
  <2> QED
    BY <1>1, <1>3, <2>1, <2>2, <2>3, RowlessThread DEF InHands
<1>5. CASE ~(lot[j].status = "cancelled" \/ lot[j].cursor >= Len(lot[j].ids))
  <2>1. PICK state :
          /\ state = [do |-> "claiming", cursor |-> lot[j].cursor, saw |-> lot[j].status]
          /\ Thread(j, t, state)
    BY <1>5 DEF ClaimReads
  <2>2. /\ state.do = "claiming" /\ state.cursor = lot[j].cursor
        /\ state # NoThread /\ lot[j].cursor < Len(lot[j].ids)
    BY <1>2, <1>5, <2>1 DEF NoThread
  <2> QED
    BY <1>1, <1>3, <2>1, <2>2, RowlessThread DEF InHands
<1> QED
  BY <1>4, <1>5

LEMMA AnalysisKeeps ==
  ASSUME LotsInv, NEW j \in RetailJobIds, NEW t \in PoolThreads, NEW ok \in BOOLEAN,
         Analyzes(j, t, ok)
  PROVE  LotsInv'
<1>1. /\ lot' = lot /\ runner' = runner /\ pool[j][t].do = "analyzing"
      /\ Thread(j, t, [do |-> "analyzed", ok |-> ok])
  BY DEF Analyzes
<1>2. PICK state : state = [do |-> "analyzed", ok |-> ok]
  OBVIOUS
<1>3. Thread(j, t, state) /\ state.do = "analyzed"
  BY <1>1, <1>2
<1>4. state # NoThread /\ pool[j][t] # NoThread
  BY <1>1, <1>3 DEF NoThread
<1> QED
  BY <1>1, <1>3, <1>4, RowlessThread DEF InHands

LEMMA RecordReadKeeps ==
  ASSUME LotsInv, NEW j \in RetailJobIds, NEW t \in PoolThreads, RecordReads(j, t)
  PROVE  LotsInv'
<1>1. /\ lot' = lot /\ runner' = runner /\ pool[j][t].do = "analyzed" /\ LockIsFree(j)
  BY DEF RecordReads
<1>2. PICK state :
        /\ state = [do |-> "recording", ok |-> pool[j][t].ok,
                    processed |-> lot[j].processed, failed |-> lot[j].failed]
        /\ Thread(j, t, state)
  BY DEF RecordReads
<1>3. /\ state.do = "recording"
      /\ state.processed = lot[j].processed /\ state.failed = lot[j].failed
  BY <1>2
<1>4. state # NoThread /\ pool[j][t] # NoThread
  BY <1>1, <1>3 DEF NoThread
<1> QED
  BY <1>1, <1>2, <1>3, <1>4, RowlessThread DEF InHands

(* A thread that writes the row under the lock.                            *)
LEMMA RowThread ==
  ASSUME LotsInv, NEW j \in RetailJobIds, NEW t \in PoolThreads, NEW state,
         Thread(j, t, state), runner' = runner, lot' = [lot EXCEPT ![j] = lot'[j]],
         Locks(j, t), state.do \notin {"claiming", "recording", "none"},
         IsLot(lot'[j]), lot'[j].status \in {lot[j].status, "running"},
         lot'[j].ids = lot[j].ids, lot'[j].calledOff = lot[j].calledOff,
         AllClaimed(j) => AllClaimed(j)', lot'[j].cursor <= Len(lot[j].ids),
         lot'[j].cursor = lot'[j].processed + lot'[j].failed + lot'[j].lost
                            + Cardinality(InHand(j)')
  PROVE  LotsInv'
<1>1. /\ pool'[j][t] = state
      /\ \A u \in PoolThreads : u # t => pool'[j][u] = pool[j][u]
  <2>1. ThreadWent(j, t, state)
    BY ThreadGoesOn
  <2> QED
    BY <2>1 DEF ThreadWent
<1>2. JobOK(j) /\ pool[j][t] # NoThread /\ state # NoThread
  BY DEF LotsInv, Locks, NoThread
<1>3. \A u \in PoolThreads : u # t => ~Locks(j, u)
  BY DEF LotsInv, OneLocks
<1>4. LockedReadsHold(j)'
  BY <1>1, <1>3 DEF LockedReadsHold, Locks
<1>5. lot'[j].status \notin {"completed", "absent"}
  BY <1>2, AtWork
<1>6. RunnerAgrees(j)'
  BY <1>2, <1>5, RunnerStillAgrees
<1>7. JobOK(j)'
  BY <1>2, <1>4, <1>6 DEF JobOK
<1>8. ~Locks(j, t)'
  BY <1>1 DEF Locks
<1> QED
  BY <1>7, <1>8, ThreadKeeps

LEMMA ClaimWriteKeeps ==
  ASSUME LotsInv, NEW j \in RetailJobIds, NEW t \in PoolThreads, ClaimWrites(j, t)
  PROVE  LotsInv'
<1>1. /\ JobOK(j) /\ IsLot(lot[j]) /\ lot = [k \in RetailJobIds |-> lot[k]]
      /\ Cardinality(InHand(j)) \in Nat
  BY InHandFinite DEF LotsInv, JobOK, TablesShaped
<1>2. /\ pool[j][t].do = "claiming" /\ pool[j][t].cursor = lot[j].cursor
      /\ lot[j].cursor < Len(lot[j].ids) /\ runner' = runner
  BY <1>1 DEF ClaimWrites, JobOK, LockedReadsHold
<1>3. PICK s : /\ s \in {lot[j].status, "running"}
               /\ s = IF pool[j][t].saw = "running" THEN lot[j].status ELSE "running"
  OBVIOUS
<1>4. s \in LotStatuses
  BY <1>1, <1>3 DEF IsLot, LotStatuses, ActiveLot
<1>5. PICK n \in Nat : n = lot[j].cursor
  BY <1>1 DEF IsLot
<1>6. lot' = [lot EXCEPT ![j].cursor = n + 1, ![j].stale = FALSE, ![j].status = s]
  BY <1>1, <1>2, <1>3, <1>5 DEF ClaimWrites, IsLot
<1>7. lot'[j] = LotRow(s, lot[j].mode, lot[j].ids, n + 1, lot[j].processed,
                       lot[j].failed, FALSE, lot[j].lost, lot[j].calledOff)
  BY <1>1, <1>6 DEF IsLot, LotRow
<1>8. lot' = [lot EXCEPT ![j] = lot'[j]]
  BY <1>1, <1>6
<1>9. /\ Len(lot[j].ids) \in Nat /\ n + 1 \in Nat
      /\ lot[j].processed \in Nat /\ lot[j].failed \in Nat
      /\ lot[j].lost \in Nat /\ lot[j].calledOff \in BOOLEAN
  BY <1>1, <1>5 DEF IsLot
<1>10. IsLot(lot'[j])
  <2>1. IsLot(LotRow(s, lot[j].mode, lot[j].ids, n + 1, lot[j].processed,
                     lot[j].failed, FALSE, lot[j].lost, lot[j].calledOff))
    BY <1>4, <1>9, LotOf
  <2> QED
    BY <1>7, <2>1
<1>11. /\ lot'[j].status = s /\ lot'[j].calledOff = lot[j].calledOff
       /\ lot'[j].ids = lot[j].ids /\ lot'[j].cursor = n + 1
       /\ lot'[j].processed = lot[j].processed /\ lot'[j].failed = lot[j].failed
       /\ lot'[j].lost = lot[j].lost
  BY <1>7 DEF LotRow
<1>12. PICK state : /\ state.do = "analyzing" /\ Thread(j, t, state)
  <2>1. Thread(j, t, [do |-> "analyzing", product |-> lot[j].ids[pool[j][t].cursor + 1]])
    BY DEF ClaimWrites
  <2> QED
    BY <2>1
<1>13. Cardinality(InHand(j)') = Cardinality(InHand(j)) + 1
  BY <1>2, <1>12, HandsChange DEF InHands
<1>14. AllClaimed(j) => AllClaimed(j)'
  BY <1>2, <1>9, <1>11, <1>5 DEF AllClaimed
<1>15. /\ lot'[j].cursor <= Len(lot[j].ids)
       /\ lot'[j].cursor = lot'[j].processed + lot'[j].failed + lot'[j].lost
                             + Cardinality(InHand(j)')
  <2>1. PICK h \in Nat : h = Cardinality(InHand(j))
    BY <1>1
  <2>2. Cardinality(InHand(j)') = h + 1
    BY <1>13, <2>1
  <2>3. n = lot[j].processed + lot[j].failed + lot[j].lost + h
    BY <1>1, <1>5, <2>1 DEF JobOK
  <2>4. n + 1 = lot[j].processed + lot[j].failed + lot[j].lost + (h + 1)
    <3>1. PICK a \in Nat, b \in Nat, c \in Nat :
            a = lot[j].processed /\ b = lot[j].failed /\ c = lot[j].lost
      BY <1>9
    <3>2. n = a + b + c + h
      BY <2>3, <3>1
    <3>3. n + 1 = a + b + c + (h + 1)
      BY <3>2
    <3> QED
      BY <3>1, <3>3
  <2>5. n + 1 <= Len(lot[j].ids)
    BY <1>2, <1>5, <1>9
  <2> QED
    BY <1>11, <2>2, <2>4, <2>5
<1>16. Locks(j, t)
  BY <1>2 DEF Locks
<1> QED
  BY <1>2, <1>3, <1>8, <1>10, <1>11, <1>12, <1>14, <1>15, <1>16, RowThread

LEMMA RecordWriteKeeps ==
  ASSUME LotsInv, NEW j \in RetailJobIds, NEW t \in PoolThreads, RecordWrites(j, t)
  PROVE  LotsInv'
<1>1. /\ JobOK(j) /\ IsLot(lot[j]) /\ lot = [k \in RetailJobIds |-> lot[k]]
      /\ Cardinality(InHand(j)) \in Nat
  BY InHandFinite DEF LotsInv, JobOK, TablesShaped
<1>2. /\ pool[j][t].do = "recording" /\ runner' = runner
      /\ pool[j][t].processed = lot[j].processed /\ pool[j][t].failed = lot[j].failed
  BY <1>1 DEF RecordWrites, JobOK, LockedReadsHold
<1>3. /\ Len(lot[j].ids) \in Nat /\ lot[j].cursor \in Nat
      /\ lot[j].processed \in Nat /\ lot[j].failed \in Nat
      /\ lot[j].lost \in Nat /\ lot[j].calledOff \in BOOLEAN
      /\ lot[j].status \in LotStatuses
  BY <1>1 DEF IsLot
<1>4. PICK p \in Nat, f \in Nat :
        /\ p = IF pool[j][t].ok THEN lot[j].processed + 1 ELSE lot[j].processed
        /\ f = IF pool[j][t].ok THEN lot[j].failed ELSE lot[j].failed + 1
  BY <1>3
<1>5. p + f = lot[j].processed + lot[j].failed + 1
  BY <1>3, <1>4
<1>6. lot' = [lot EXCEPT ![j].processed = p, ![j].failed = f, ![j].stale = FALSE]
  BY <1>1, <1>2, <1>4 DEF RecordWrites, IsLot
<1>7. lot'[j] = LotRow(lot[j].status, lot[j].mode, lot[j].ids, lot[j].cursor, p, f,
                       FALSE, lot[j].lost, lot[j].calledOff)
  BY <1>1, <1>6 DEF IsLot, LotRow
<1>8. lot' = [lot EXCEPT ![j] = lot'[j]]
  BY <1>1, <1>6
<1>9. IsLot(lot'[j])
  <2>1. IsLot(LotRow(lot[j].status, lot[j].mode, lot[j].ids, lot[j].cursor, p, f,
                     FALSE, lot[j].lost, lot[j].calledOff))
    BY <1>3, LotOf
  <2> QED
    BY <1>7, <2>1
<1>10. /\ lot'[j].status = lot[j].status /\ lot'[j].calledOff = lot[j].calledOff
       /\ lot'[j].ids = lot[j].ids /\ lot'[j].cursor = lot[j].cursor
       /\ lot'[j].processed = p /\ lot'[j].failed = f /\ lot'[j].lost = lot[j].lost
  BY <1>7 DEF LotRow
<1>11. PICK state : state.do = "ready" /\ Thread(j, t, state)
  <2>1. Thread(j, t, [do |-> "ready"])
    BY DEF RecordWrites
  <2> QED
    BY <2>1
<1>12. Cardinality(InHand(j)') = Cardinality(InHand(j)) - 1
  BY <1>2, <1>11, HandsChange DEF InHands
<1>13. AllClaimed(j) => AllClaimed(j)'
  BY <1>10 DEF AllClaimed
<1>14. lot[j].cursor = lot[j].processed + lot[j].failed + lot[j].lost
                         + Cardinality(InHand(j))
       /\ lot[j].cursor <= Len(lot[j].ids)
  BY <1>1 DEF JobOK
<1>15. /\ lot'[j].cursor <= Len(lot[j].ids)
       /\ lot'[j].cursor = lot'[j].processed + lot'[j].failed + lot'[j].lost
                             + Cardinality(InHand(j)')
  <2>1. PICK h \in Nat : h = Cardinality(InHand(j))
    BY <1>1
  <2>2. Cardinality(InHand(j)') = h - 1
    BY <1>12, <2>1
  <2>3. lot[j].cursor = p + f + lot[j].lost + (h - 1)
    <3>1. PICK a \in Nat, b \in Nat, c \in Nat, n \in Nat :
            /\ a = lot[j].processed /\ b = lot[j].failed /\ c = lot[j].lost
            /\ n = lot[j].cursor
      BY <1>3
    <3>2. n = a + b + c + h /\ p + f = a + b + 1
      BY <1>5, <1>14, <2>1, <3>1
    <3>3. n = p + f + c + (h - 1)
      BY <3>2
    <3> QED
      BY <3>1, <3>3
  <2> QED
    BY <1>10, <1>14, <2>2, <2>3
<1>16. Locks(j, t)
  BY <1>2 DEF Locks
<1> QED
  BY <1>2, <1>8, <1>9, <1>10, <1>11, <1>13, <1>15, <1>16, RowThread
-----------------------------------------------------------------------------
LEMMA LotsStep ==
  ASSUME LotsInv, PlansTyped, [RetailNext]_retailVars
  PROVE  LotsInv'
<1>1. CASE UNCHANGED retailVars
  <2>1. UNCHANGED <<lot, pool, runner>>
    BY <1>1 DEF retailVars
  <2>2. \A k \in RetailJobIds : JobOK(k)'
    BY <2>1, JobStays DEF LotsInv
  <2>3. lot' = [k \in RetailJobIds |-> lot'[k]]
    BY <2>1 DEF LotsInv, TablesShaped
  <2> QED
    BY <2>1, <2>2, <2>3, RowsMove, WorkersStand
<1>2. ASSUME NEW c \in Callers, NEW mode \in {"batch", "all"}, NEW resume \in BOOLEAN,
             AskForLot(c, mode, resume)
      PROVE  LotsInv'
  BY <1>2, ReclaimingKeeps DEF AskForLot
<1>3. ASSUME NEW c \in Callers, NEW j \in RetailJobIds, CancelLotRead(c, j)
      PROVE  LotsInv'
  <2>1. UNCHANGED <<lot, pool, runner>>
    BY <1>3 DEF CancelLotRead
  <2>2. \A k \in RetailJobIds : JobOK(k)'
    BY <2>1, JobStays DEF LotsInv
  <2>3. lot' = [k \in RetailJobIds |-> lot'[k]]
    BY <2>1 DEF LotsInv, TablesShaped
  <2> QED
    BY <2>1, <2>2, <2>3, RowsMove, WorkersStand
<1>4. CASE RetailAnswers
  BY <1>4, ReclaimingKeeps, CallKeeps, CancelKeeps DEF RetailAnswers, PollStatus
<1>5. CASE RetailWork
  <2>1. PICK j \in RetailJobIds :
          WorkerEnters(j) \/ WorkerStep(j) \/ \E t \in PoolThreads : ThreadStep(j, t)
    BY <1>5 DEF RetailWork
  <2>2. CASE WorkerEnters(j)
    BY <2>2, EnteringKeeps
  <2>3. CASE WorkerStep(j)
    BY <2>3, ReadingKeeps, StartingKeeps, EndKeeps, ClosingKeeps, ChainingKeeps,
       InsertingKeeps DEF WorkerStep
  <2>4. ASSUME NEW t \in PoolThreads, ThreadStep(j, t)
        PROVE  LotsInv'
    BY <2>4, StoppingKeeps, ClaimReadKeeps, ClaimWriteKeeps, RecordReadKeeps,
       RecordWriteKeeps, AnalysisKeeps DEF ThreadStep
  <2> QED
    BY <2>1, <2>2, <2>3, <2>4
<1>6. ASSUME NEW j \in RetailJobIds, LotAges(j)
      PROVE  LotsInv'
  BY <1>6, AgingKeeps
<1>7. CASE ProcessRestarts
  BY <1>7, RestartKeeps
<1> QED
  BY <1>1, <1>2, <1>3, <1>4, <1>5, <1>6, <1>7 DEF RetailNext

(* What is decided on to be inserted is a list of pending products.        *)
LEMMA DecisionTyped ==
  ASSUME NEW rows, NEW mode, NEW resume, Decision(rows, mode, resume).do = "insert"
  PROVE  Len(Decision(rows, mode, resume).ids) \in Nat
<1> DEFINE n == IF mode = "all" THEN ChunkSize ELSE BatchSize
<1>1. n \in Nat
  BY RetailBounds
<1>2. Decision(rows, mode, resume).ids = FirstPending(n)
  BY DEF Decision, NoCall
<1> HIDE DEF n
<1> QED
  BY <1>1, <1>2, FirstPendingIsList

LEMMA PipelineTyped ==
  ASSUME NEW rows, Pipeline(rows).do = "insert"
  PROVE  Len(Pipeline(rows).ids) \in Nat
<1>1. Pipeline(rows) = Decision(rows, "all", FALSE)
  BY DEF Pipeline, NextOfPipeline, NoCall
<1> QED
  BY <1>1, DecisionTyped

LEMMA PlansAtFirst == ASSUME RetailInit PROVE PlansTyped
BY DEF RetailInit, PlansTyped, NoCall, NoRunner, At

(* A request remembers what it decided on, or nothing.                     *)
LEMMA ProceedingTyped ==
  ASSUME PlansTyped, NEW c \in Callers, NEW call, runner' = runner,
         Proceeds(c, call), call.do = "insert" => Len(call.ids) \in Nat
  PROVE  PlansTyped'
BY DEF PlansTyped, Proceeds, NoCall

LEMMA PlansStep ==
  ASSUME LotsInv, PlansTyped, [RetailNext]_retailVars
  PROVE  PlansTyped'
<1>1. CASE UNCHANGED retailVars
  BY <1>1 DEF retailVars, PlansTyped
<1>2. ASSUME NEW c \in Callers, NEW mode \in {"batch", "all"}, NEW resume \in BOOLEAN,
             AskForLot(c, mode, resume)
      PROVE  PlansTyped'
  BY <1>2, DecisionTyped, ProceedingTyped DEF AskForLot
<1>3. ASSUME NEW c \in Callers, NEW j \in RetailJobIds, CancelLotRead(c, j)
      PROVE  PlansTyped'
  BY <1>3 DEF CancelLotRead, PlansTyped
<1>4. ASSUME NEW c \in Callers, PollStatus(c)
      PROVE  PlansTyped'
  BY <1>4, PipelineTyped, ProceedingTyped DEF PollStatus
<1>5. ASSUME NEW c \in Callers, CallWrites(c)
      PROVE  PlansTyped'
  BY <1>5 DEF CallWrites, PlansTyped, NoCall
<1>6. ASSUME NEW c \in Callers, CancelLotWrite(c)
      PROVE  PlansTyped'
  BY <1>6, PipelineTyped, ProceedingTyped DEF CancelLotWrite
<1>7. ASSUME NEW j \in RetailJobIds, WorkerEnters(j) \/ WorkerStep(j)
      PROVE  PlansTyped'
  <2>1. runner = [k \in RetailJobIds |-> runner[k]]
    BY DEF LotsInv, TablesShaped
  <2>2. caller' = caller
    BY <1>7 DEF WorkerEnters, WorkerStep, WorkerReads, WorkerStarts, WorkerSeesEnd,
                WorkerCloses, WorkerChains, WorkerInserts
  <2>3. CASE WorkerChains(j)
    <3>1. PICK r : /\ runner' = [runner EXCEPT ![j] = r]
                   /\ r.pc = "inserting" => Len(r.ids) \in Nat
      BY <2>3, DecisionTyped DEF WorkerChains, Leaves, NoRunner, At, NoCall
    <3> QED
      BY <2>1, <2>2, <3>1 DEF PlansTyped
  <2>4. CASE ~WorkerChains(j)
    <3>1. runner' = runner \/ \E pc \in {"none", "entered", "refreshing", "starting",
                                         "pool", "closing", "chaining"} :
                                 runner' = [runner EXCEPT ![j] = At(pc, <<>>)]
      BY <1>7, <2>4 DEF WorkerEnters, WorkerStep, WorkerReads, WorkerStarts,
         WorkerSeesEnd, WorkerCloses, WorkerInserts, Leaves, GoesTo, NoRunner
    <3> QED
      BY <2>1, <2>2, <3>1 DEF PlansTyped, At
  <2> QED
    BY <2>3, <2>4
<1>8. ASSUME NEW j \in RetailJobIds, NEW t \in PoolThreads, ThreadStep(j, t)
      PROVE  PlansTyped'
  BY <1>8 DEF ThreadStep, ThreadStops, ClaimReads, ClaimWrites, RecordReads,
     RecordWrites, Analyzes, PlansTyped
<1>9. ASSUME NEW j \in RetailJobIds, LotAges(j)
      PROVE  PlansTyped'
  BY <1>9 DEF LotAges, PlansTyped
<1>10. CASE ProcessRestarts
  BY <1>10 DEF ProcessRestarts, PlansTyped, NoCall, NoRunner, At
<1> QED
  BY <1>1, <1>2, <1>3, <1>4, <1>5, <1>6, <1>7, <1>8, <1>9, <1>10
     DEF RetailNext, RetailAnswers, RetailWork

-----------------------------------------------------------------------------
(* What the invariant says of a lot that calls itself completed.           *)
LEMMA InvAddsUp == ASSUME RetailInv PROVE LotsAddUp
<1>1. ASSUME NEW j \in RetailJobIds, lot[j].status = "completed"
      PROVE  /\ InHand(j) = {}
             /\ \/ lot[j].calledOff
                \/ lot[j].processed + lot[j].failed + lot[j].lost = Len(lot[j].ids)
  <2>1. JobOK(j) /\ IsLot(lot[j])
    BY DEF RetailInv, LotsInv, JobOK
  <2>2. AllClaimed(j) /\ runner[j].pc # "pool"
    BY <1>1, <2>1 DEF JobOK, RunnerAgrees
  <2>3. \A t \in PoolThreads : pool[j][t] = NoThread
    BY <2>1, <2>2 DEF JobOK, RunnerAgrees
  <2>4. InHand(j) = {} /\ Cardinality(InHand(j)) = 0
    BY <2>3, NothingInHand DEF NoThread
  <2> QED
    BY <2>1, <2>2, <2>4 DEF JobOK, AllClaimed, IsLot
<1>2. CompletedIsWhole
  BY <1>1 DEF CompletedIsWhole
<1>3. ClaimsAddUp
  BY DEF RetailInv, LotsInv, JobOK, ClaimsAddUp
<1> QED
  BY <1>2, <1>3 DEF LotsAddUp

THEOREM RetailInvariant == RetailSpec => []RetailInv
<1>1. RetailInit => RetailInv
  BY LotsAtFirst, PlansAtFirst DEF RetailInv
<1>2. RetailInv /\ [RetailNext]_retailVars => RetailInv'
  BY LotsStep, PlansStep DEF RetailInv
<1> QED
  BY <1>1, <1>2, PTL DEF RetailSpec

(* No product of a lot is claimed twice and no result is lost, whatever    *)
(* requests, threads and restarts there are; a lot that is completed has   *)
(* nothing in hand, and nothing unclaimed unless it was cancelled once.    *)
THEOREM LotsAlwaysAddUp == RetailSpec => []LotsAddUp
<1>1. RetailInv => LotsAddUp
  BY InvAddsUp
<1> QED
  BY <1>1, RetailInvariant, PTL
=============================================================================
