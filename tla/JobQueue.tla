------------------------------ MODULE JobQueue ------------------------------
(***************************************************************************)
(* The persisted job queue of the ERP (app/erp/queue.py) and the part of   *)
(* the worker that claims, renews, releases and finishes jobs              *)
(* (app/erp/workers.py): conditional UPDATEs guarded by the status or by   *)
(* the lease token, and a cancellation that reads the row without a lock   *)
(* and writes it back.                                                     *)
(***************************************************************************)
EXTENDS Integers, FiniteSets

CONSTANTS
  Jobs,         (* ids of jobs, in the order of their creation *)
  Keys,         (* what makes two jobs equivalent: kind, resource and mode *)
  Workers,      (* worker processes *)
  Cancellers,   (* concurrent requests to cancel a job *)
  MaxClaims,    (* model bound: claims of one job *)
  MaxCrashes    (* model bound: worker crashes *)

ASSUME JobsAreNumbers == Jobs \subseteq Nat
ASSUME SomeKey == Keys # {}
ASSUME QueueBounds == MaxClaims \in Nat /\ MaxCrashes \in Nat

VARIABLES
  job,          (* erp_jobs *)
  ahead,        (* the order of run_after: <<i, j>> when i comes before j *)
  lease,        (* the job and token each worker holds in memory *)
  cancelling,   (* the cancel requests in progress: the job and its status *)
  crashes       (* bounded number of crashes *)

queueVars == <<job, ahead, lease, cancelling, crashes>>

-----------------------------------------------------------------------------
(* No step gives a job the status waiting_rate_limit, the third of ACTIVE. *)
Active == {"queued", "processing"}
Terminal == {"succeeded", "failed", "cancelled"}
JobStatuses == {"absent"} \cup Active \cup Terminal

JobRows == [key : Keys, status : JobStatuses, token : Nat, expired : BOOLEAN,
            due : BOOLEAN, cancel : BOOLEAN, claims : Nat]

NoLease == [job |-> 0, token |-> 0]
Leases == [job : Jobs \cup {0}, token : Nat]
NoCancel == [job |-> 0, saw |-> "absent"]
Cancels == [job : Jobs \cup {0}, saw : JobStatuses]

ASSUME ZeroIsNoJob == 0 \notin Jobs

AbsentJob == [key |-> CHOOSE k \in Keys : TRUE, status |-> "absent",
              token |-> 0, expired |-> FALSE, due |-> TRUE, cancel |-> FALSE,
              claims |-> 0]

QueueInit ==
  /\ job = [j \in Jobs |-> AbsentJob]
  /\ ahead = {}
  /\ lease = [w \in Workers |-> NoLease]
  /\ cancelling = [c \in Cancellers |-> NoCancel]
  /\ crashes = 0

IsActive(j) == job[j].status \in Active
InLine(j) == IsActive(j) /\ job[j].due

(* A job leaves the line ...                                               *)
Without(j) == {p \in ahead : j \notin {p[1], p[2]}}
(* ... and joins it behind all the jobs in it, as do new jobs N together.  *)
Behind(j) == Without(j) \cup ({i \in Jobs \ {j} : InLine(i)} \X {j})
BehindAll(N) == ahead \cup ({i \in Jobs : InLine(i)} \X N)
                      \cup {p \in N \X N : p[1] < p[2]}

-----------------------------------------------------------------------------
(* enqueue *)

Equivalent(k) == {j \in Jobs : IsActive(j) /\ job[j].key = k}

(* A new job, unless an equivalent one is active (uq_erp_jobs_active).     *)
MustCreate(k) == Equivalent(k) = {}

NewJob(k) == [key |-> k, status |-> "queued", token |-> 0, expired |-> FALSE,
              due |-> TRUE, cancel |-> FALSE, claims |-> 0]

(* One transaction inserts a job for each key of S that needs one, with    *)
(* the next ids.                                                           *)
EnqueueAll(S) ==
  LET K    == {k \in S : MustCreate(k)}
      free == {j \in Jobs : job[j].status = "absent"}
  IN \E f \in [K -> free] :
       /\ \A k, l \in K : f[k] = f[l] => k = l
       /\ \A k \in K, j \in free : j < f[k] => \E l \in K : f[l] = j
       /\ job' = [j \in Jobs |->
            IF \E k \in K : f[k] = j
              THEN NewJob(CHOOSE k \in K : f[k] = j)
              ELSE job[j]]
       /\ ahead' = BehindAll({f[k] : k \in K})

Enqueue(k) ==
  /\ MustCreate(k)
  /\ EnqueueAll({k})
  /\ UNCHANGED <<lease, cancelling, crashes>>

-----------------------------------------------------------------------------
(* release_expired, claim_next, heartbeat, finish: the worker *)

Idle(w) == lease[w] = NoLease

(* Mutant: the release drops the token and forgets the status.             *)
ReleaseTokenOnly(w) ==
  LET late == {j \in Jobs : job[j].status = "processing" /\ job[j].expired}
  IN /\ Idle(w)
     /\ late # {}
     /\ job' = [j \in Jobs |->
          IF j \in late THEN [job[j] EXCEPT !.token = 0, !.expired = FALSE]
                        ELSE job[j]]
     /\ UNCHANGED <<ahead, lease, cancelling, crashes>>

ReleaseExpired(w) ==
  LET late == {j \in Jobs : job[j].status = "processing" /\ job[j].expired}
  IN /\ Idle(w)
     /\ late # {}
     /\ job' = [j \in Jobs |->
          IF j \in late THEN [job[j] EXCEPT !.status = "queued", !.token = 0,
                                            !.expired = FALSE]
                        ELSE job[j]]
     /\ UNCHANGED <<ahead, lease, cancelling, crashes>>

(* Mutant: a job that failed is taken up again by itself.                  *)
ClaimableAgain(j) ==
  /\ job[j].status \in {"queued", "failed"} /\ job[j].due
  /\ job[j].claims < MaxClaims

Claimable(j) ==
  /\ job[j].status = "queued" /\ job[j].due
  /\ job[j].claims < MaxClaims

(* Mutant: a job keeps one token for all its claims.                       *)
ClaimSameToken(w, j) ==
  /\ Idle(w)
  /\ Claimable(j)
  /\ \A i \in Jobs : Claimable(i) => <<i, j>> \notin ahead
  /\ job' = [job EXCEPT ![j].status = "processing", ![j].token = 1,
                        ![j].expired = FALSE, ![j].claims = @ + 1]
  /\ lease' = [lease EXCEPT ![w] = [job |-> j, token |-> 1]]
  /\ UNCHANGED <<ahead, cancelling, crashes>>

(* The first claimable job in the order of run_after and id.               *)
Claim(w, j) ==
  /\ Idle(w)
  /\ Claimable(j)
  /\ \A i \in Jobs : Claimable(i) => <<i, j>> \notin ahead
  /\ LET t == job[j].claims + 1 IN
       /\ job' = [job EXCEPT ![j].status = "processing", ![j].token = t,
                             ![j].expired = FALSE, ![j].claims = t]
       /\ lease' = [lease EXCEPT ![w] = [job |-> j, token |-> t]]
  /\ UNCHANGED <<ahead, cancelling, crashes>>

Owns(w, j) == ~Idle(w) /\ lease[w].job = j /\ job[j].token = lease[w].token

(* assert_lease and lease_alive: the token, the status and the time.       *)
LeaseAlive(w) ==
  LET j == lease[w].job IN
    /\ ~Idle(w)
    /\ Owns(w, j)
    /\ job[j].status = "processing"
    /\ ~job[j].expired

(* The renewal asks for the token only, not for the time.                  *)
Heartbeat(w, j) ==
  /\ Owns(w, j)
  /\ job[j].expired
  /\ job' = [job EXCEPT ![j].expired = FALSE]
  /\ UNCHANGED <<ahead, lease, cancelling, crashes>>

(* Mutant: the unique index covers the queued jobs only.                   *)
IndexCoversQueued(j, status) ==
  status = "queued" /\ \E i \in Equivalent(job[j].key) :
                          i # j /\ job[i].status = "queued"

(* The unique index refuses to re-activate a job with an active equivalent. *)
IndexRefuses(j, status) ==
  status = "queued" /\ \E i \in Equivalent(job[j].key) : i # j

(* Mutant: a refused request leaves the status that nothing claims.        *)
FinishedRowWaiting(j, status) ==
  [job[j] EXCEPT !.status = IF status = "queued" THEN "waiting_rate_limit"
                                                 ELSE status,
                 !.token = 0, !.expired = FALSE, !.due = (status # "queued")]

FinishedRow(j, status) ==
  [job[j] EXCEPT !.status = status, !.token = 0, !.expired = FALSE,
                 !.due = (status # "queued")]

(* finish: UPDATE ... WHERE lease_token = token.                           *)
FinishRow(w, status) ==
  LET j == lease[w].job IN
    IF Owns(w, j) /\ ~IndexRefuses(j, status)
      THEN /\ job' = [job EXCEPT ![j] = FinishedRow(j, status)]
           /\ ahead' = Without(j)
      ELSE UNCHANGED <<job, ahead>>

Finish(w, status) ==
  /\ ~Idle(w)
  /\ status = "cancelled" => job[lease[w].job].cancel
  /\ FinishRow(w, status)
  /\ lease' = [lease EXCEPT ![w] = NoLease]
  /\ UNCHANGED <<cancelling, crashes>>

(* A worker that finds its lease lost discards what it did.                *)
GiveUp(w) ==
  /\ ~Idle(w) /\ ~LeaseAlive(w)
  /\ lease' = [lease EXCEPT ![w] = NoLease]
  /\ UNCHANGED <<job, ahead, cancelling, crashes>>

CrashWorker(w) ==
  /\ ~Idle(w)
  /\ crashes < MaxCrashes
  /\ crashes' = crashes + 1
  /\ lease' = [lease EXCEPT ![w] = NoLease]
  /\ UNCHANGED <<job, ahead, cancelling>>

-----------------------------------------------------------------------------
(* cancel: the request reads the job ...                                   *)
CancelRead(c, j) ==
  /\ cancelling[c] = NoCancel
  /\ IsActive(j)
  /\ cancelling' = [cancelling EXCEPT ![c] = [job |-> j, saw |-> job[j].status]]
  /\ UNCHANGED <<job, ahead, lease, crashes>>

(* ... and writes the columns it changed, by primary key.                  *)
CancelWrite(c) ==
  LET j == cancelling[c].job IN
    /\ cancelling[c] # NoCancel
    /\ IF cancelling[c].saw = "queued"
         THEN /\ job' = [job EXCEPT ![j].status = "cancelled"]
              /\ ahead' = Without(j)
         ELSE /\ job' = [job EXCEPT ![j].cancel = TRUE]
              /\ UNCHANGED ahead
    /\ cancelling' = [cancelling EXCEPT ![c] = NoCancel]
    /\ UNCHANGED <<lease, crashes>>

-----------------------------------------------------------------------------
(* Time *)

LeaseExpires(j) ==
  /\ job[j].status = "processing" /\ ~job[j].expired
  /\ job' = [job EXCEPT ![j].expired = TRUE]
  /\ UNCHANGED <<ahead, lease, cancelling, crashes>>

BecomesDue(j) ==
  /\ job[j].status = "queued" /\ ~job[j].due
  /\ job' = [job EXCEPT ![j].due = TRUE]
  /\ ahead' = Behind(j)
  /\ UNCHANGED <<lease, cancelling, crashes>>

-----------------------------------------------------------------------------
WorkerStep(w) ==
  \/ ReleaseExpired(w)
  \/ \E j \in Jobs : Claim(w, j)
  \/ \E status \in Terminal \cup {"queued"} : Finish(w, status)
  \/ GiveUp(w)

QueueNext ==
  \/ \E k \in Keys : Enqueue(k)
  \/ \E w \in Workers :
       WorkerStep(w) \/ CrashWorker(w) \/ \E j \in Jobs : Heartbeat(w, j)
  \/ \E c \in Cancellers : CancelWrite(c) \/ \E j \in Jobs : CancelRead(c, j)
  \/ \E j \in Jobs : LeaseExpires(j) \/ BecomesDue(j)

QueueSpec == QueueInit /\ [][QueueNext]_queueVars

(* Nobody renews the lease of a job whose worker is gone.                  *)
Orphan(j) == \A w \in Workers : ~Owns(w, j)

(* Workers poll for ever, and time passes.                                 *)
QueueFairness ==
  /\ \A w \in Workers : WF_queueVars(WorkerStep(w))
  /\ \A j \in Jobs : /\ WF_queueVars(Orphan(j) /\ LeaseExpires(j))
                     /\ WF_queueVars(BecomesDue(j))

FairQueueSpec == QueueSpec /\ QueueFairness

-----------------------------------------------------------------------------
(* Properties *)

(* Each row and each lease has its shape.                                  *)
QueueTypeOK ==
  /\ job \in [Jobs -> JobRows]
  /\ ahead \subseteq Jobs \X Jobs
  /\ lease \in [Workers -> Leases]
  /\ cancelling \in [Cancellers -> Cancels]
  /\ crashes \in Nat

(* Two workers never both may commit work for one job (queue.py:1-5 and    *)
(* 78-85): not after an expiry, a release, a renewal or a crash.           *)
ExclusiveLease ==
  \A v, w \in Workers :
    (LeaseAlive(v) /\ LeaseAlive(w) /\ lease[v].job = lease[w].job) => v = w

(* At most one active job per kind, resource and mode, whatever            *)
(* cancellations and late finishes do (models/core.py:213).                *)
UniqueActive ==
  \A i, j \in Jobs :
    (IsActive(i) /\ IsActive(j) /\ job[i].key = job[j].key) => i = j

(* The queue keeps its promise to those who enqueue (queue.py:20-65): seen *)
(* through the statuses of its active jobs it is the board of JobBoard,    *)
(* whatever crashes, late renewals and cancellations do.                   *)
StatusOfKey(k) ==
  CASE \E j \in Equivalent(k) : job[j].status = "processing" -> "running"
    [] \A j \in Equivalent(k) : job[j].status # "processing" ->
         IF Equivalent(k) = {} THEN "none" ELSE "waiting"

Board == INSTANCE JobBoard WITH board <- [k \in Keys |-> StatusOfKey(k)]
KeepsTheBoard == Board!BoardSpec

(* Every job ends, unless it used up the model's claims: crashes, lost     *)
(* leases and refused requests leave no job behind (queue.py:111-119).     *)
EveryJobEnds ==
  \A j \in Jobs :
    (job[j].status # "absent")
      ~> (job[j].status \in Terminal \/ job[j].claims = MaxClaims)

=============================================================================
