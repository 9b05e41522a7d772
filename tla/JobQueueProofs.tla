--------------------------- MODULE JobQueueProofs ---------------------------
(***************************************************************************)
(* The leases of JobQueue are exclusive and its active jobs are unique,    *)
(* for any number of jobs, keys, workers and cancellations.                *)
(*                                                                         *)
(* ExclusiveLease is not inductive: a claim must not hand out a token that *)
(* another worker still remembers.  FreshTokens says so: what a worker     *)
(* remembers of a job is one of the claims the job has had, and no two     *)
(* workers remember the same one.                                          *)
(***************************************************************************)
EXTENDS JobQueue, TLAPS

FreshTokens ==
  /\ \A w \in Workers :
       ~Idle(w) => /\ lease[w].job \in Jobs
                   /\ lease[w].token <= job[lease[w].job].claims
  /\ \A v, w \in Workers :
       (~Idle(v) /\ ~Idle(w) /\ lease[v] = lease[w]) => v = w

AbsentUnclaimed == \A j \in Jobs : job[j].status = "absent" => job[j].claims = 0

QueueInv == QueueTypeOK /\ FreshTokens /\ AbsentUnclaimed /\ UniqueActive

-----------------------------------------------------------------------------
(* A worker acts on a job of the table only.                               *)
LEMMA AbsentJobTyped == AbsentJob \in JobRows
BY SomeKey DEF AbsentJob, JobRows, JobStatuses

LEMMA InitHolds == QueueInit => QueueInv
<1> SUFFICES ASSUME QueueInit PROVE QueueInv
  OBVIOUS
<1>1. QueueTypeOK
  BY AbsentJobTyped, SomeKey
     DEF QueueInit, QueueTypeOK, Leases, NoLease, Cancels, NoCancel, JobStatuses
<1>2. FreshTokens
  BY DEF QueueInit, FreshTokens, Idle
<1>3. AbsentUnclaimed
  BY DEF QueueInit, AbsentUnclaimed, AbsentJob
<1>4. UniqueActive
  BY DEF QueueInit, UniqueActive, IsActive, Active, AbsentJob
<1> QED
  BY <1>1, <1>2, <1>3, <1>4 DEF QueueInv

-----------------------------------------------------------------------------
(* What each kind of step does to the table                                *)

(* A step that leaves the leases and the claims of the jobs alone, or only *)
(* takes leases away, keeps the tokens fresh.                              *)
LEMMA LeasesKept ==
  ASSUME QueueTypeOK, FreshTokens, QueueTypeOK',
         \A j \in Jobs : job[j].claims <= job'[j].claims,
         \A w \in Workers : lease'[w] = lease[w] \/ lease'[w] = NoLease
  PROVE  FreshTokens'
<1>1. ASSUME NEW w \in Workers, ~Idle(w)'
      PROVE  /\ ~Idle(w) /\ lease'[w] = lease[w]
             /\ lease[w].job \in Jobs
             /\ lease[w].token <= job'[lease[w].job].claims
  <2>1. ~Idle(w) /\ lease'[w] = lease[w]
    BY <1>1 DEF Idle
  <2>2. lease[w].job \in Jobs /\ lease[w].token <= job[lease[w].job].claims
    BY <2>1 DEF FreshTokens
  <2>3. lease[w].token \in Nat /\ job[lease[w].job].claims \in Nat
          /\ job'[lease[w].job].claims \in Nat
    BY <2>2 DEF QueueTypeOK, Leases, JobRows
  <2> QED
    BY <2>1, <2>2, <2>3
<1> QED
  BY <1>1 DEF FreshTokens

(* A step that changes one job's row: what the row must satisfy.           *)
LEMMA RowChanged ==
  ASSUME QueueInv, NEW i \in Jobs, NEW r \in JobRows,
         job' = [job EXCEPT ![i] = r],
         r.key = job[i].key, r.claims >= job[i].claims, r.status # "absent",
         r.status \in Active => \A l \in Equivalent(r.key) : l = i
  PROVE  /\ job' \in [Jobs -> JobRows]
         /\ \A j \in Jobs : job[j].claims <= job'[j].claims
         /\ AbsentUnclaimed'
         /\ UniqueActive'
<1>1. job \in [Jobs -> JobRows]
  BY DEF QueueInv, QueueTypeOK
<1>2. job' \in [Jobs -> JobRows]
  BY <1>1
<1>3. \A j \in Jobs : job'[j] = IF j = i THEN r ELSE job[j]
  BY <1>1
<1>4. \A j \in Jobs : job[j].claims <= job'[j].claims
  BY <1>1, <1>3 DEF JobRows
<1>5. AbsentUnclaimed'
  BY <1>3 DEF QueueInv, AbsentUnclaimed
<1>6. UniqueActive'
  BY <1>3 DEF QueueInv, UniqueActive, IsActive, Equivalent
<1> QED
  BY <1>2, <1>4, <1>5, <1>6

(* New jobs do not share a key with an active one, nor with each other.    *)
LEMMA EnqueueAllStep ==
  ASSUME QueueInv, NEW S \in SUBSET Keys, EnqueueAll(S)
  PROVE  /\ job' \in [Jobs -> JobRows]
         /\ ahead' \subseteq Jobs \X Jobs
         /\ \A j \in Jobs : job[j].claims <= job'[j].claims
         /\ AbsentUnclaimed'
         /\ UniqueActive'
<1> DEFINE K    == {k \in S : MustCreate(k)}
           free == {j \in Jobs : job[j].status = "absent"}
<1>1. PICK f \in [K -> free] :
        /\ \A k, l \in K : f[k] = f[l] => k = l
        /\ job' = [j \in Jobs |->
             IF \E k \in K : f[k] = j
               THEN NewJob(CHOOSE k \in K : f[k] = j)
               ELSE job[j]]
        /\ ahead' = BehindAll({f[k] : k \in K})
  BY DEF EnqueueAll
<1>2. job \in [Jobs -> JobRows] /\ ahead \subseteq Jobs \X Jobs
  BY DEF QueueInv, QueueTypeOK
<1>3. ASSUME NEW k \in K
      PROVE  /\ NewJob(k) \in JobRows
             /\ NewJob(k).key = k
             /\ NewJob(k).status = "queued"
             /\ NewJob(k).claims = 0
  BY DEF NewJob, JobRows, JobStatuses, Active
(* A job of the new table is an old one, or a new one for one key of K.    *)
<1>4. ASSUME NEW j \in Jobs
      PROVE  \/ job'[j] = job[j]
             \/ \E k \in K : f[k] = j /\ job'[j] = NewJob(k)
  BY <1>1
<1>5. \A k \in K : f[k] \in Jobs /\ job[f[k]].status = "absent"
                    /\ job[f[k]].claims = 0
  BY <1>1 DEF QueueInv, AbsentUnclaimed
<1>6. job' \in [Jobs -> JobRows]
  BY <1>1, <1>2, <1>3, <1>4
<1>7. ahead' \subseteq Jobs \X Jobs
  BY <1>1, <1>2, <1>5 DEF BehindAll, InLine
<1>8. \A j \in Jobs : job[j].claims <= job'[j].claims
  BY <1>2, <1>3, <1>4, <1>5 DEF JobRows
<1>9. AbsentUnclaimed'
  BY <1>3, <1>4 DEF QueueInv, AbsentUnclaimed
<1>10. UniqueActive'
  <2> SUFFICES ASSUME NEW i \in Jobs, NEW j \in Jobs,
                      job'[i].status \in Active, job'[j].status \in Active,
                      job'[i].key = job'[j].key
               PROVE  i = j
    BY DEF UniqueActive, IsActive
  <2>1. ASSUME NEW k \in K, NEW l \in Jobs, job'[l] = job[l],
               job'[l].status \in Active
        PROVE  job'[l].key # k
    BY <2>1 DEF MustCreate, Equivalent, IsActive
  <2>2. CASE job'[i] = job[i] /\ job'[j] = job[j]
    BY <2>2 DEF QueueInv, UniqueActive, IsActive
  <2>3. CASE \E k \in K : f[k] = i /\ job'[i] = NewJob(k)
    BY <2>3, <2>1, <1>1, <1>3, <1>4
  <2>4. CASE \E k \in K : f[k] = j /\ job'[j] = NewJob(k)
    BY <2>4, <2>1, <1>1, <1>3, <1>4
  <2> QED
    BY <2>2, <2>3, <2>4, <1>4
<1> QED
  BY <1>6, <1>7, <1>8, <1>9, <1>10

-----------------------------------------------------------------------------
(* Each action preserves the invariant                                     *)

(* What is left to show of a step that only takes leases away.             *)
LEMMA TableStep ==
  ASSUME QueueInv,
         job' \in [Jobs -> JobRows], ahead' \subseteq Jobs \X Jobs,
         lease' \in [Workers -> Leases], cancelling' \in [Cancellers -> Cancels],
         crashes' \in Nat,
         \A j \in Jobs : job[j].claims <= job'[j].claims,
         \A w \in Workers : lease'[w] = lease[w] \/ lease'[w] = NoLease,
         AbsentUnclaimed', UniqueActive'
  PROVE  QueueInv'
<1>1. QueueTypeOK'
  BY DEF QueueTypeOK
<1>2. FreshTokens'
  BY <1>1, LeasesKept DEF QueueInv
<1> QED
  BY <1>1, <1>2 DEF QueueInv

LEMMA EnqueueKeeps ==
  ASSUME QueueInv, NEW k \in Keys, Enqueue(k)
  PROVE  QueueInv'
<1>1. {k} \in SUBSET Keys /\ EnqueueAll({k})
  BY DEF Enqueue
<1>2. UNCHANGED <<lease, cancelling, crashes>>
  BY DEF Enqueue
<1>3. QueueTypeOK
  BY DEF QueueInv
<1> QED
  BY <1>1, <1>2, <1>3, EnqueueAllStep, TableStep DEF QueueTypeOK

(* The columns that the worker writes, one by one.                         *)
LEMMA ColumnWritten ==
  ASSUME NEW r \in JobRows, NEW s \in JobStatuses, NEW n \in Nat, NEW b \in BOOLEAN
  PROVE  /\ [r EXCEPT !.status = s] \in JobRows
         /\ [r EXCEPT !.token = n] \in JobRows
         /\ [r EXCEPT !.expired = b] \in JobRows
         /\ [r EXCEPT !.claims = n] \in JobRows
BY DEF JobRows

(* A release keeps an active job active, so that nothing joins the active. *)
LEMMA ReleaseKeeps ==
  ASSUME QueueInv, NEW w \in Workers, ReleaseExpired(w)
  PROVE  QueueInv'
<1> DEFINE late == {j \in Jobs : job[j].status = "processing" /\ job[j].expired}
<1>1. QueueTypeOK
  BY DEF QueueInv
<1>2. job \in [Jobs -> JobRows]
  BY <1>1 DEF QueueTypeOK
<1>3. job' = [j \in Jobs |->
         IF j \in late THEN [job[j] EXCEPT !.status = "queued", !.token = 0,
                                           !.expired = FALSE]
                       ELSE job[j]]
      /\ UNCHANGED <<ahead, lease, cancelling, crashes>>
  BY DEF ReleaseExpired
<1>4. ASSUME NEW j \in Jobs
      PROVE  /\ job'[j] \in JobRows
             /\ job'[j].claims = job[j].claims /\ job'[j].key = job[j].key
             /\ job'[j].status \in Active <=> job[j].status \in Active
             /\ job'[j].status = "absent" <=> job[j].status = "absent"
  <2>1. CASE j \in late
    <3>1. job'[j] = [job[j] EXCEPT !.status = "queued", !.token = 0,
                                   !.expired = FALSE]
      BY <1>3, <2>1
    <3>2. job[j] \in JobRows /\ job[j].status = "processing"
      BY <1>2, <2>1
    <3>3. "queued" \in JobStatuses /\ 0 \in Nat
      BY DEF JobStatuses, Active
    <3>4. job'[j] \in JobRows
      BY <3>1, <3>2, <3>3, ColumnWritten
    <3>5. /\ job'[j].claims = job[j].claims /\ job'[j].key = job[j].key
          /\ job'[j].status = "queued"
      BY <3>1, <3>2 DEF JobRows
    <3> QED
      BY <3>2, <3>4, <3>5 DEF Active
  <2>2. CASE j \notin late
    BY <1>2, <1>3, <2>2
  <2> QED
    BY <2>1, <2>2
<1>5. job' \in [Jobs -> JobRows]
  BY <1>3, <1>4
<1>6. \A j \in Jobs : job[j].claims <= job'[j].claims
  BY <1>2, <1>4 DEF JobRows
<1>7. AbsentUnclaimed'
  BY <1>4 DEF QueueInv, AbsentUnclaimed
<1>8. UniqueActive'
  BY <1>4 DEF QueueInv, UniqueActive, IsActive
<1> QED
  BY <1>1, <1>3, <1>5, <1>6, <1>7, <1>8, TableStep DEF QueueTypeOK

(* A claim hands out a token that nobody remembers.                        *)
LEMMA ClaimKeeps ==
  ASSUME QueueInv, NEW w \in Workers, NEW j \in Jobs, Claim(w, j)
  PROVE  QueueInv'
<1> DEFINE t == job[j].claims + 1
           r == [job[j] EXCEPT !.status = "processing", !.token = t,
                               !.expired = FALSE, !.claims = t]
<1>1. QueueTypeOK
  BY DEF QueueInv
<1>2. job[j] \in JobRows /\ job[j].status = "queued"
  BY <1>1 DEF Claim, Claimable, QueueTypeOK
<1>3. /\ job' = [job EXCEPT ![j] = r]
      /\ lease' = [lease EXCEPT ![w] = [job |-> j, token |-> t]]
      /\ UNCHANGED <<ahead, cancelling, crashes>>
  <2>1. job \in [Jobs -> JobRows]
    BY <1>1 DEF QueueTypeOK
  <2>2. job' = [job EXCEPT ![j].status = "processing", ![j].token = t,
                           ![j].expired = FALSE, ![j].claims = t]
    BY DEF Claim
  <2>3. job' = [job EXCEPT ![j] = r]
    BY <2>1, <2>2
  <2> QED
    BY <2>3 DEF Claim
<1>4. /\ r \in JobRows /\ r.key = job[j].key /\ r.status = "processing"
      /\ r.claims = t /\ t \in Nat /\ job[j].claims \in Nat
  <2>1. job[j].claims \in Nat /\ t \in Nat
    BY <1>2 DEF JobRows
  <2>2. "processing" \in JobStatuses
    BY DEF JobStatuses, Active
  <2>3. r \in JobRows
    <3> HIDE DEF t
    <3> QED
      BY <1>2, <2>1, <2>2, ColumnWritten
  <2>4. r.key = job[j].key /\ r.status = "processing" /\ r.claims = t
    BY <1>2 DEF JobRows
  <2> QED
    BY <2>1, <2>3, <2>4
<1>5. \A l \in Equivalent(r.key) : l = j
  BY <1>2, <1>4 DEF QueueInv, UniqueActive, Equivalent, IsActive, Active
<1>6. /\ job' \in [Jobs -> JobRows]
      /\ \A l \in Jobs : job[l].claims <= job'[l].claims
      /\ AbsentUnclaimed' /\ UniqueActive'
  <2>1. r.claims >= job[j].claims /\ r.status # "absent"
    BY <1>4
  <2> HIDE DEF r
  <2> QED
    BY <1>3, <1>4, <1>5, <2>1, RowChanged
<1>7. lease' \in [Workers -> Leases]
  BY <1>1, <1>3, <1>4 DEF QueueTypeOK, Leases
<1>8. QueueTypeOK'
  BY <1>1, <1>3, <1>6, <1>7 DEF QueueTypeOK
<1>9. job'[j].claims = t
  BY <1>1, <1>3, <1>4 DEF QueueTypeOK
<1>10. ASSUME NEW v \in Workers, v # w
       PROVE  lease'[v] = lease[v] /\ lease[v] # [job |-> j, token |-> t]
  <2>1. lease'[v] = lease[v]
    BY <1>1, <1>3, <1>10 DEF QueueTypeOK
  <2>2. CASE Idle(v)
    <3>1. lease[v].job = 0
      BY <2>2 DEF Idle, NoLease
    <3> QED
      BY <2>1, <3>1, ZeroIsNoJob
  <2>3. CASE ~Idle(v)
    <3>1. lease[v].job = j => lease[v].token <= job[j].claims
      BY <2>3 DEF QueueInv, FreshTokens
    <3>2. lease[v].token \in Nat
      BY <1>1 DEF QueueTypeOK, Leases
    <3>3. ~(t <= job[j].claims)
      BY <1>4
    <3> HIDE DEF t
    <3> QED
      BY <2>1, <3>1, <3>2, <3>3
  <2> QED
    BY <2>2, <2>3
<1>11. lease'[w] = [job |-> j, token |-> t]
  BY <1>1, <1>3 DEF QueueTypeOK
<1>12. FreshTokens'
  <2>1. ASSUME NEW v \in Workers, ~Idle(v)'
        PROVE  /\ lease'[v].job \in Jobs
               /\ lease'[v].token <= job'[lease'[v].job].claims
    <3>1. CASE v = w
      BY <3>1, <1>4, <1>9, <1>11
    <3>2. CASE v # w
      <4>1. lease'[v] = lease[v] /\ ~Idle(v)
        BY <2>1, <3>2, <1>10 DEF Idle
      <4>2. lease[v].job \in Jobs /\ lease[v].token <= job[lease[v].job].claims
        BY <4>1 DEF QueueInv, FreshTokens
      <4>3. /\ lease[v].token \in Nat /\ job[lease[v].job].claims \in Nat
            /\ job'[lease[v].job].claims \in Nat
        BY <4>2, <1>1, <1>6 DEF QueueTypeOK, Leases, JobRows
      <4> QED
        BY <4>1, <4>2, <4>3, <1>6
    <3> QED
      BY <3>1, <3>2
  <2>2. ASSUME NEW u \in Workers, NEW v \in Workers, ~Idle(u)', ~Idle(v)',
               lease'[u] = lease'[v]
        PROVE  u = v
    <3>1. CASE u # w /\ v # w
      BY <3>1, <2>2, <1>10 DEF QueueInv, FreshTokens, Idle
    <3>2. CASE u = w \/ v = w
      BY <3>2, <2>2, <1>10, <1>11
    <3> QED
      BY <3>1, <3>2
  <2> QED
    BY <2>1, <2>2 DEF FreshTokens
<1> QED
  BY <1>6, <1>8, <1>12 DEF QueueInv

(* A finished job is one the worker owned, and the index is consulted.     *)
LEMMA FinishKeeps ==
  ASSUME QueueInv, NEW w \in Workers, NEW s \in Terminal \cup {"queued"},
         Finish(w, s)
  PROVE  QueueInv'
<1> DEFINE j == lease[w].job
<1>1. QueueTypeOK /\ job \in [Jobs -> JobRows]
  BY DEF QueueInv, QueueTypeOK
<1>2. lease' = [lease EXCEPT ![w] = NoLease] /\ UNCHANGED <<cancelling, crashes>>
  BY DEF Finish
<1>3. j \in Jobs
  BY DEF Finish, QueueInv, FreshTokens
<1>4. lease' \in [Workers -> Leases]
        /\ \A v \in Workers : lease'[v] = lease[v] \/ lease'[v] = NoLease
  BY <1>1, <1>2 DEF QueueTypeOK, Leases, NoLease
<1>5. CASE UNCHANGED <<job, ahead>>
  <2>1. \A l \in Jobs : job[l].claims <= job'[l].claims
    BY <1>1, <1>5 DEF JobRows
  <2>2. AbsentUnclaimed' /\ UniqueActive'
    BY <1>5 DEF QueueInv, AbsentUnclaimed, UniqueActive, IsActive
  <2> QED
    BY <1>1, <1>2, <1>4, <1>5, <2>1, <2>2, TableStep DEF QueueTypeOK
<1>6. CASE /\ ~IndexRefuses(j, s)
           /\ job' = [job EXCEPT ![j] = FinishedRow(j, s)]
           /\ ahead' = Without(j)
  <2> DEFINE r == FinishedRow(j, s)
  <2>1. /\ r \in JobRows /\ r.key = job[j].key /\ r.claims = job[j].claims
        /\ r.status = s
    BY <1>1, <1>3 DEF FinishedRow, JobRows, JobStatuses, Active, Terminal
  <2>2. s \in Active => \A l \in Equivalent(r.key) : l = j
    BY <1>6, <2>1 DEF IndexRefuses, Active, Terminal
  <2>3. r.status # "absent" /\ r.claims >= job[j].claims
    BY <1>1, <1>3, <2>1 DEF Terminal, JobRows
  <2>4. /\ job' \in [Jobs -> JobRows]
        /\ \A l \in Jobs : job[l].claims <= job'[l].claims
        /\ AbsentUnclaimed' /\ UniqueActive'
    <3> HIDE DEF r
    <3>1. job' = [job EXCEPT ![j] = r]
      BY <1>6 DEF r
    <3> HIDE DEF j
    <3> QED
      BY <1>3, <2>1, <2>2, <2>3, <3>1, RowChanged
  <2>5. ahead' \subseteq Jobs \X Jobs
    BY <1>1, <1>6 DEF Without, QueueTypeOK
  <2> QED
    BY <1>1, <1>2, <1>4, <2>4, <2>5, TableStep DEF QueueTypeOK
<1> QED
  BY <1>5, <1>6 DEF Finish, FinishRow

LEMMA GiveUpKeeps ==
  ASSUME QueueInv, NEW w \in Workers, GiveUp(w) \/ CrashWorker(w)
  PROVE  QueueInv'
<1>1. QueueTypeOK
  BY DEF QueueInv
<1>2. /\ lease' = [lease EXCEPT ![w] = NoLease]
      /\ UNCHANGED <<job, ahead, cancelling>>
      /\ crashes' \in Nat
  BY <1>1 DEF GiveUp, CrashWorker, QueueTypeOK
<1>3. /\ lease' \in [Workers -> Leases]
      /\ \A v \in Workers : lease'[v] = lease[v] \/ lease'[v] = NoLease
  BY <1>1, <1>2 DEF QueueTypeOK, Leases, NoLease
<1>4. \A j \in Jobs : job[j].claims <= job'[j].claims
  BY <1>1, <1>2 DEF QueueTypeOK, JobRows
<1>5. AbsentUnclaimed' /\ UniqueActive'
  BY <1>2 DEF QueueInv, AbsentUnclaimed, UniqueActive, IsActive
<1> QED
  BY <1>1, <1>2, <1>3, <1>4, <1>5, TableStep DEF QueueTypeOK

LEMMA HeartbeatKeeps ==
  ASSUME QueueInv, NEW w \in Workers, NEW j \in Jobs, Heartbeat(w, j)
  PROVE  QueueInv'
<1>1. QueueTypeOK /\ job \in [Jobs -> JobRows]
  BY DEF QueueInv, QueueTypeOK
<1>2. /\ job' = [job EXCEPT ![j] = [job[j] EXCEPT !.expired = FALSE]]
      /\ UNCHANGED <<ahead, lease, cancelling, crashes>>
  BY <1>1 DEF Heartbeat
<1>3. [job[j] EXCEPT !.expired = FALSE] \in JobRows
  BY <1>1 DEF JobRows
<1>4. \A i \in Jobs : /\ job'[i].claims = job[i].claims
                      /\ job'[i].key = job[i].key
                      /\ job'[i].status = job[i].status
  BY <1>1, <1>2 DEF JobRows
<1>5. job' \in [Jobs -> JobRows] /\ \A i \in Jobs : job[i].claims <= job'[i].claims
  BY <1>1, <1>2, <1>3, <1>4 DEF JobRows
<1>6. AbsentUnclaimed' /\ UniqueActive'
  BY <1>4 DEF QueueInv, AbsentUnclaimed, UniqueActive, IsActive
<1> QED
  BY <1>1, <1>2, <1>5, <1>6, TableStep DEF QueueTypeOK

LEMMA CancelReadKeeps ==
  ASSUME QueueInv, NEW c \in Cancellers, NEW j \in Jobs, CancelRead(c, j)
  PROVE  QueueInv'
<1>1. QueueTypeOK
  BY DEF QueueInv
<1>2. UNCHANGED <<job, ahead, lease, crashes>>
  BY DEF CancelRead
<1>3. cancelling' \in [Cancellers -> Cancels]
  BY <1>1 DEF CancelRead, QueueTypeOK, Cancels, JobRows
<1>4. \A i \in Jobs : job[i].claims <= job'[i].claims
  BY <1>1, <1>2 DEF QueueTypeOK, JobRows
<1>5. AbsentUnclaimed' /\ UniqueActive'
  BY <1>2 DEF QueueInv, AbsentUnclaimed, UniqueActive, IsActive
<1> QED
  BY <1>1, <1>2, <1>3, <1>4, <1>5, TableStep DEF QueueTypeOK

(* A cancellation only takes a job out of the active ones.                 *)
LEMMA CancelWriteKeeps ==
  ASSUME QueueInv, NEW c \in Cancellers, CancelWrite(c)
  PROVE  QueueInv'
<1> DEFINE j == cancelling[c].job
<1>1. QueueTypeOK /\ job \in [Jobs -> JobRows]
  BY DEF QueueInv, QueueTypeOK
<1>2. /\ cancelling' = [cancelling EXCEPT ![c] = NoCancel]
      /\ UNCHANGED <<lease, crashes>>
  BY DEF CancelWrite
<1>3. cancelling' \in [Cancellers -> Cancels]
  BY <1>1, <1>2 DEF QueueTypeOK, Cancels, NoCancel, JobStatuses
<1>4. ahead' \subseteq Jobs \X Jobs
  BY <1>1 DEF CancelWrite, Without, QueueTypeOK
<1>5. \/ job' = [job EXCEPT ![j].status = "cancelled"]
      \/ job' = [job EXCEPT ![j].cancel = TRUE]
  BY DEF CancelWrite
<1>6. ASSUME NEW i \in Jobs
      PROVE  /\ job'[i] \in JobRows
             /\ job'[i].claims = job[i].claims /\ job'[i].key = job[i].key
             /\ job'[i].status \in {job[i].status, "cancelled"}
  <2>1. job[i] \in JobRows /\ "cancelled" \in JobStatuses
    BY <1>1 DEF JobStatuses, Terminal
  <2>2. \/ job'[i] = job[i]
        \/ job'[i] = [job[i] EXCEPT !.status = "cancelled"]
        \/ job'[i] = [job[i] EXCEPT !.cancel = TRUE]
    BY <1>1, <1>5
  <2> QED
    BY <2>1, <2>2 DEF JobRows
<1>7. job' \in [Jobs -> JobRows]
  BY <1>1, <1>5, <1>6
<1>8. \A i \in Jobs : job[i].claims <= job'[i].claims
  BY <1>1, <1>6 DEF JobRows
<1>9. AbsentUnclaimed' /\ UniqueActive'
  BY <1>6 DEF QueueInv, AbsentUnclaimed, UniqueActive, IsActive, Active
<1> QED
  BY <1>1, <1>2, <1>3, <1>4, <1>7, <1>8, <1>9, TableStep DEF QueueTypeOK

LEMMA TimeKeeps ==
  ASSUME QueueInv, NEW j \in Jobs, LeaseExpires(j) \/ BecomesDue(j)
  PROVE  QueueInv'
<1>1. QueueTypeOK /\ job \in [Jobs -> JobRows]
  BY DEF QueueInv, QueueTypeOK
<1>2. UNCHANGED <<lease, cancelling, crashes>>
  BY DEF LeaseExpires, BecomesDue
<1>3. \/ job' = [job EXCEPT ![j].expired = TRUE]
      \/ job' = [job EXCEPT ![j].due = TRUE]
  BY DEF LeaseExpires, BecomesDue
<1>4. ahead' \subseteq Jobs \X Jobs
  BY <1>1 DEF LeaseExpires, BecomesDue, Behind, Without, QueueTypeOK
<1>5. ASSUME NEW i \in Jobs
      PROVE  /\ job'[i] \in JobRows
             /\ job'[i].claims = job[i].claims /\ job'[i].key = job[i].key
             /\ job'[i].status = job[i].status
  <2>1. \/ job'[i] = job[i]
        \/ job'[i] = [job[i] EXCEPT !.expired = TRUE]
        \/ job'[i] = [job[i] EXCEPT !.due = TRUE]
    BY <1>1, <1>3
  <2> QED
    BY <1>1, <2>1 DEF JobRows
<1>6. job' \in [Jobs -> JobRows]
  BY <1>1, <1>3, <1>5
<1>7. \A i \in Jobs : job[i].claims <= job'[i].claims
  BY <1>1, <1>5 DEF JobRows
<1>8. AbsentUnclaimed' /\ UniqueActive'
  BY <1>5 DEF QueueInv, AbsentUnclaimed, UniqueActive, IsActive
<1> QED
  BY <1>1, <1>2, <1>4, <1>6, <1>7, <1>8, TableStep DEF QueueTypeOK

-----------------------------------------------------------------------------
(* The theorems                                                            *)

LEMMA QueueInvInductive == QueueInv /\ [QueueNext]_queueVars => QueueInv'
<1> SUFFICES ASSUME QueueInv, [QueueNext]_queueVars PROVE QueueInv'
  OBVIOUS
<1>1. CASE \E k \in Keys : Enqueue(k)
  BY <1>1, EnqueueKeeps
<1>2. ASSUME NEW w \in Workers, WorkerStep(w) PROVE QueueInv'
  BY <1>2, ReleaseKeeps, ClaimKeeps, FinishKeeps, GiveUpKeeps DEF WorkerStep
<1>3. ASSUME NEW w \in Workers, CrashWorker(w) PROVE QueueInv'
  BY <1>3, GiveUpKeeps
<1>4. ASSUME NEW w \in Workers, NEW j \in Jobs, Heartbeat(w, j) PROVE QueueInv'
  BY <1>4, HeartbeatKeeps
<1>5. ASSUME NEW c \in Cancellers,
             CancelWrite(c) \/ \E j \in Jobs : CancelRead(c, j)
      PROVE  QueueInv'
  BY <1>5, CancelWriteKeeps, CancelReadKeeps
<1>6. ASSUME NEW j \in Jobs, LeaseExpires(j) \/ BecomesDue(j) PROVE QueueInv'
  BY <1>6, TimeKeeps
<1>7. CASE UNCHANGED queueVars
  BY <1>7 DEF queueVars, QueueInv, QueueTypeOK, FreshTokens, AbsentUnclaimed,
              UniqueActive, Idle, IsActive
<1> QED
  BY <1>1, <1>2, <1>3, <1>4, <1>5, <1>6, <1>7 DEF QueueNext

LEMMA QueueInvHolds == QueueSpec => []QueueInv
BY InitHolds, QueueInvInductive, PTL DEF QueueSpec

(* Every row, lease and cancellation keeps its shape.                      *)
THEOREM QueueTypeCorrect == QueueSpec => []QueueTypeOK
<1>1. QueueInv => QueueTypeOK
  BY DEF QueueInv
<1> QED
  BY <1>1, QueueInvHolds, PTL

(* Two workers never both hold a live lease of one job, whatever expires,  *)
(* is released, renewed, cancelled or crashes (queue.py:1-5).              *)
THEOREM LeasesAreExclusive == QueueSpec => []ExclusiveLease
<1>1. QueueInv => ExclusiveLease
  <2> SUFFICES ASSUME QueueInv, NEW v \in Workers, NEW w \in Workers,
                      LeaseAlive(v), LeaseAlive(w), lease[v].job = lease[w].job
               PROVE  v = w
    BY DEF ExclusiveLease
  <2>1. lease[v].token = lease[w].token
    BY DEF LeaseAlive, Owns
  <2>2. lease[v] \in Leases /\ lease[w] \in Leases
    BY DEF QueueInv, QueueTypeOK
  <2>3. lease[v] = lease[w]
    BY <2>1, <2>2 DEF Leases
  <2> QED
    BY <2>3 DEF QueueInv, FreshTokens, LeaseAlive
<1> QED
  BY <1>1, QueueInvHolds, PTL

(* Of equivalent jobs at most one is active (models/core.py:213).          *)
THEOREM ActiveJobsAreUnique == QueueSpec => []UniqueActive
<1>1. QueueInv => UniqueActive
  BY DEF QueueInv
<1> QED
  BY <1>1, QueueInvHolds, PTL


-----------------------------------------------------------------------------
(* The board                                                               *)

Seen(status) ==
  IF status = "processing" THEN "running"
  ELSE IF status \in Active THEN "waiting" ELSE "none"

(* With one active job per key, the board shows that job.                  *)
BoardShowsTheJob ==
  /\ \A k \in Keys : Equivalent(k) = {} => StatusOfKey(k) = "none"
  /\ \A k \in Keys, j \in Jobs : IsActive(j) /\ job[j].key = k =>
       StatusOfKey(k) = Seen(job[j].status)

LEMMA BoardShows == QueueInv => BoardShowsTheJob
<1> SUFFICES ASSUME QueueInv PROVE BoardShowsTheJob
  OBVIOUS
<1>1. ASSUME NEW k \in Keys, Equivalent(k) = {} PROVE StatusOfKey(k) = "none"
  BY <1>1 DEF StatusOfKey
<1>2. ASSUME NEW k \in Keys, NEW j \in Jobs, IsActive(j), job[j].key = k
      PROVE  StatusOfKey(k) = Seen(job[j].status)
  <2>1. Equivalent(k) = {j}
    BY <1>2 DEF QueueInv, UniqueActive, Equivalent
  <2> QED
    BY <1>2, <2>1 DEF StatusOfKey, Seen, IsActive
<1> QED
  BY <1>1, <1>2 DEF BoardShowsTheJob

(* A step that changes one job: the board changes at its key only, and not *)
(* from none to running.                                                   *)
LEMMA BoardFollowsTheJob ==
  ASSUME QueueInv, QueueInv', NEW j \in Jobs,
         \A i \in Jobs \ {j} : job'[i] = job[i],
         IsActive(j) => job'[j].key = job[j].key,
         job'[j].status = "processing" => IsActive(j)
  PROVE  [Board!BoardNext]_([k \in Keys |-> StatusOfKey(k)])
<1> DEFINE b == [k \in Keys |-> StatusOfKey(k)]
<1>0. PICK k \in Keys : job'[j].key = k
  BY DEF QueueInv, QueueTypeOK, JobRows
<1>1. BoardShowsTheJob /\ BoardShowsTheJob'
  <2>1. QueueInv' => BoardShowsTheJob'
    BY BoardShows, PTL
  <2> QED
    BY <2>1, BoardShows
<1>2. /\ \A i \in Jobs : job[i].key \in Keys /\ job'[i].key \in Keys
      /\ \A i \in Jobs : job[i].status \in JobStatuses /\ job'[i].status \in JobStatuses
  BY DEF QueueInv, QueueTypeOK, JobRows
<1>3. ASSUME NEW l \in Keys, l # k
      PROVE  StatusOfKey(l)' = StatusOfKey(l)
  <2>1. \A i \in Equivalent(l) \cup Equivalent(l)' : i # j
    BY <1>0, <1>3 DEF Equivalent, IsActive
  <2>2. Equivalent(l)' = Equivalent(l)
    BY <2>1 DEF Equivalent, IsActive
  <2> QED
    BY <2>1, <2>2 DEF StatusOfKey, Equivalent
<1>4. CASE \E i \in Jobs \ {j} : IsActive(i) /\ job[i].key = k
  <2>1. PICK i \in Jobs \ {j} : IsActive(i) /\ job[i].key = k
    BY <1>4
  <2>2. IsActive(i)' /\ job'[i] = job[i]
    BY <2>1 DEF IsActive
  <2>3. StatusOfKey(k)' = StatusOfKey(k)
    BY <1>1, <2>1, <2>2 DEF BoardShowsTheJob
  <2>4. b' = b
    BY <1>3, <2>3
  <2> QED
    BY <2>4
<1>5. CASE \A i \in Jobs \ {j} : ~(IsActive(i) /\ job[i].key = k)
  <2>1. StatusOfKey(k) = IF IsActive(j) THEN Seen(job[j].status) ELSE "none"
    <3>1. CASE IsActive(j)
      BY <3>1, <1>0, <1>1 DEF BoardShowsTheJob
    <3>2. CASE ~IsActive(j)
      <4>1. Equivalent(k) = {}
        BY <3>2, <1>0, <1>5 DEF Equivalent
      <4> QED
        BY <3>2, <4>1, <1>1, <1>2 DEF BoardShowsTheJob
    <3> QED
      BY <3>1, <3>2
  <2>2. StatusOfKey(k)' = IF IsActive(j)' THEN Seen(job'[j].status) ELSE "none"
    <3>1. CASE IsActive(j)'
      BY <3>1, <1>0, <1>1 DEF BoardShowsTheJob
    <3>2. CASE ~IsActive(j)'
      <4>1. Equivalent(k)' = {}
        BY <3>2, <1>0, <1>5 DEF Equivalent, IsActive
      <4> QED
        BY <3>2, <4>1, <1>1, <1>2 DEF BoardShowsTheJob
    <3> QED
      BY <3>1, <3>2
  <2>3. k \in Keys /\ b[k] = StatusOfKey(k) /\ b'[k] = StatusOfKey(k)'
        /\ b' = [l \in Keys |-> IF l = k THEN StatusOfKey(k)' ELSE b[l]]
    BY <1>2, <1>3
  <2>4. CASE StatusOfKey(k)' = StatusOfKey(k)
    <3>1. b' = b
      BY <1>3, <2>4
    <3> QED
      BY <3>1
  <2>5. CASE StatusOfKey(k)' = "none" /\ StatusOfKey(k) # "none"
    <3>1. Board!End(k)
      BY <2>3, <2>5 DEF Board!End
    <3> QED
      BY <2>3, <3>1 DEF Board!BoardNext
  <2>6. CASE StatusOfKey(k)' = "waiting" /\ StatusOfKey(k) = "none"
    <3>1. Board!Ask({k})
      BY <2>3, <2>6 DEF Board!Ask
    <3> QED
      BY <2>3, <3>1 DEF Board!BoardNext
  <2>7. CASE StatusOfKey(k)' = "waiting" /\ StatusOfKey(k) = "running"
    <3>1. Board!GoBack({k})
      BY <2>3, <2>7 DEF Board!GoBack
    <3> QED
      BY <2>3, <3>1 DEF Board!BoardNext
  <2>8. CASE StatusOfKey(k)' = "running" /\ StatusOfKey(k) = "waiting"
    <3>1. Board!Start(k)
      BY <2>3, <2>8 DEF Board!Start
    <3> QED
      BY <2>3, <3>1 DEF Board!BoardNext
  <2> QED
    BY <2>1, <2>2, <2>4, <2>5, <2>6, <2>7, <2>8 DEF Seen, IsActive, Active
<1> QED
  BY <1>4, <1>5


(* Every step of the queue is one of the board, or leaves it as it is.     *)
LEMMA QueueStepsOnTheBoard ==
  QueueInv /\ QueueInv' /\ [QueueNext]_queueVars
    => [Board!BoardNext]_([k \in Keys |-> StatusOfKey(k)])
<1> DEFINE b == [k \in Keys |-> StatusOfKey(k)]
<1> SUFFICES ASSUME QueueInv, QueueInv', [QueueNext]_queueVars
             PROVE  [Board!BoardNext]_b
  OBVIOUS
<1>1. job \in [Jobs -> JobRows] /\ job' \in [Jobs -> JobRows]
  BY DEF QueueInv, QueueTypeOK
<1>2. ASSUME UNCHANGED job PROVE b' = b
  BY <1>2 DEF StatusOfKey, Equivalent, IsActive
<1>3. ASSUME NEW k \in Keys, Enqueue(k) PROVE [Board!BoardNext]_b
  <2>1. EnqueueAll({k}) /\ MustCreate(k)
    BY <1>3 DEF Enqueue
  <2>2. PICK j \in Jobs : /\ job[j].status = "absent"
                          /\ \A i \in Jobs \ {j} : job'[i] = job[i]
                          /\ job'[j].status = "queued"
    BY <2>1 DEF EnqueueAll, NewJob
  <2> QED
    BY <2>2, BoardFollowsTheJob DEF IsActive, Active
<1>4. ASSUME NEW w \in Workers, ReleaseExpired(w) PROVE [Board!BoardNext]_b
  <2> DEFINE late == {j \in Jobs : job[j].status = "processing" /\ job[j].expired}
             S == {job[j].key : j \in late}
  <2>1. BoardShowsTheJob /\ BoardShowsTheJob'
    <3>1. QueueInv' => BoardShowsTheJob'
      BY BoardShows, PTL
    <3> QED
      BY <3>1, BoardShows
  <2>2. \A j \in Jobs : /\ job'[j].key = job[j].key
                        /\ job'[j].status = IF j \in late THEN "queued"
                                            ELSE job[j].status
    BY <1>1, <1>4 DEF ReleaseExpired, JobRows
  <2>3. S \in SUBSET Keys
    BY <1>1 DEF JobRows
  <2>4. ASSUME NEW k \in S PROVE b[k] = "running" /\ b'[k] = "waiting"
    <3>1. PICK j \in late : job[j].key = k
      OBVIOUS
    <3>2. IsActive(j) /\ IsActive(j)' /\ job'[j].key = k /\ k \in Keys
      BY <3>1, <2>2, <2>3 DEF IsActive, Active
    <3>3. Seen(job[j].status) = "running" /\ Seen(job'[j].status) = "waiting"
      BY <2>2 DEF Seen, Active
    <3> QED
      BY <2>1, <3>1, <3>2, <3>3 DEF BoardShowsTheJob
  <2>5. ASSUME NEW k \in Keys \ S PROVE b'[k] = b[k]
    <3>1. Equivalent(k)' = Equivalent(k)
      BY <2>2 DEF Equivalent, IsActive, Active
    <3>2. \A j \in Equivalent(k) : job'[j].status = job[j].status
      BY <2>2, <2>5 DEF Equivalent
    <3> QED
      BY <3>1, <3>2 DEF StatusOfKey
  <2>6. Board!GoBack(S)
    BY <2>3, <2>4, <2>5 DEF Board!GoBack
  <2> QED
    BY <2>3, <2>6 DEF Board!BoardNext
<1>5. ASSUME NEW w \in Workers, NEW j \in Jobs, Claim(w, j)
      PROVE  [Board!BoardNext]_b
  BY <1>1, <1>5, BoardFollowsTheJob DEF Claim, Claimable, JobRows, IsActive, Active
<1>6. ASSUME NEW w \in Workers, NEW s \in Terminal \cup {"queued"}, Finish(w, s)
      PROVE  [Board!BoardNext]_b
  <2> DEFINE j == lease[w].job
  <2>1. j \in Jobs
    BY <1>6 DEF Finish, QueueInv, FreshTokens
  <2>2. CASE job' = [job EXCEPT ![j] = FinishedRow(j, s)]
    <3>1. job'[j].key = job[j].key /\ job'[j].status # "processing"
      BY <1>1, <2>1, <2>2 DEF FinishedRow, JobRows, Terminal
    <3>2. \A i \in Jobs \ {j} : job'[i] = job[i]
      BY <1>1, <2>2
    <3> QED
      BY <2>1, <3>1, <3>2, BoardFollowsTheJob
  <2> QED
    BY <1>2, <1>6, <2>2 DEF Finish, FinishRow
<1>7. ASSUME NEW w \in Workers, GiveUp(w) \/ CrashWorker(w) PROVE b' = b
  BY <1>2, <1>7 DEF GiveUp, CrashWorker
<1>8. ASSUME NEW w \in Workers, NEW j \in Jobs, Heartbeat(w, j)
      PROVE  [Board!BoardNext]_b
  BY <1>1, <1>8, BoardFollowsTheJob DEF Heartbeat, JobRows, IsActive, Active
<1>9. ASSUME NEW c \in Cancellers, CancelWrite(c) PROVE [Board!BoardNext]_b
  <2> DEFINE j == cancelling[c].job
  <2>1. \/ job' = [job EXCEPT ![j].status = "cancelled"]
        \/ job' = [job EXCEPT ![j].cancel = TRUE]
    BY <1>9 DEF CancelWrite
  <2>2. CASE j \in Jobs
    <3>1. job'[j].key = job[j].key /\ job'[j].status \in {job[j].status, "cancelled"}
      BY <1>1, <2>1, <2>2 DEF JobRows
    <3>2. \A i \in Jobs \ {j} : job'[i] = job[i]
      BY <1>1, <2>1
    <3> QED
      BY <2>2, <3>1, <3>2, BoardFollowsTheJob DEF IsActive, Active
  <2>3. CASE j \notin Jobs
    BY <1>1, <1>2, <2>1, <2>3
  <2> QED
    BY <2>2, <2>3
<1>10. ASSUME NEW c \in Cancellers, NEW j \in Jobs, CancelRead(c, j) PROVE b' = b
  BY <1>2, <1>10 DEF CancelRead
<1>11. ASSUME NEW j \in Jobs, LeaseExpires(j) \/ BecomesDue(j)
       PROVE  [Board!BoardNext]_b
  BY <1>1, <1>11, BoardFollowsTheJob
     DEF LeaseExpires, BecomesDue, JobRows, IsActive, Active
<1>12. CASE UNCHANGED queueVars
  BY <1>2, <1>12 DEF queueVars
<1> QED
  BY <1>3, <1>4, <1>5, <1>6, <1>7, <1>8, <1>9, <1>10, <1>11, <1>12
     DEF QueueNext, WorkerStep

(* The queue implements the board that the inbox and the hydration are     *)
(* written over: per kind, resource and mode at most one active job, that  *)
(* waits or runs and never starts without having waited (queue.py:20-65).  *)
THEOREM QueueKeepsTheBoard == QueueSpec => KeepsTheBoard
<1>1. QueueInit => Board!BoardInit
  <2> SUFFICES ASSUME QueueInit, NEW k \in Keys PROVE StatusOfKey(k) = "none"
    BY DEF Board!BoardInit
  <2>1. Equivalent(k) = {}
    BY DEF QueueInit, Equivalent, IsActive, Active, AbsentJob
  <2> QED
    BY <2>1 DEF StatusOfKey
<1>2. QueueSpec => []QueueInv
  BY QueueInvHolds
<1> QED
  BY <1>1, <1>2, QueueStepsOnTheBoard, PTL DEF QueueSpec, KeepsTheBoard, Board!BoardSpec

=============================================================================
