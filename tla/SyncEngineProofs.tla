--------------------------- MODULE SyncEngineProofs ---------------------------
(***************************************************************************)
(* Proofs about the synchronisation: SyncEngine, for any number of         *)
(* resources, changes, jobs, workers and runs, and with workers that die   *)
(* at any moment; at the end, Hydration, for any orders and workers.       *)
(*                                                                         *)
(* SyncInv extends the invariant of the queue.  Its heart is one fact, kept*)
(* for each cursor the engine stores or holds in memory: what lies below   *)
(* the cursor is in the mirror or in quarantine, and the runs of its load  *)
(* read it.  RunIsBacked says so of a run, CheckpointIsBacked of a resource*)
(* and TaskIsBacked of a worker in the middle of a run; PageIsNext, that a *)
(* fetched page leaves nothing out between two cursors, carries the fact   *)
(* over a page.  It does not need one run per resource at a time: two runs *)
(* that overlap only store what is true of both.                           *)
(*                                                                         *)
(* DoneInv extends it with the order of the runs: the owner of a job, live *)
(* or about to be revived, is the last that ran for it.  PlanInv extends   *)
(* both: each resource of a worker's plan is left to do, read by its job,  *)
(* or denied, unless the job is bound not to end as a success.  KeptInv    *)
(* follows a full load that yields from run to run: its owner runs the last*)
(* one, and what ends an active job of it leaves a worker to ask for more. *)
(***************************************************************************)
EXTENDS Synchronisation, JobQueueProofs, FiniteSetTheorems, WellFoundedInduction

(* A bounded set of numbers that is not empty has a largest one.           *)
LEMMA MaxOfExists ==
  ASSUME NEW n \in Nat, NEW S \in SUBSET (0..n), S # {}
  PROVE  MaxOf(S) \in S /\ \A y \in S : y <= MaxOf(S)
<1> DEFINE T == {n - x : x \in S}
<1>1. T \subseteq Nat /\ T # {}
  <2>1. \A x \in S : n - x \in Nat
    OBVIOUS
  <2> QED
    BY <2>1
<1>2. PICK t \in T : \A y \in T : ~(<<y, t>> \in OpToRel(<, Nat))
  BY <1>1, NatLessThanWellFounded, WFMin
<1>3. \A y \in T : ~(y < t)
  BY <1>1, <1>2 DEF OpToRel
<1>4. PICK x \in S : t = n - x
  BY <1>2
<1>5. \A y \in S : y <= x
  BY <1>3, <1>4
<1> QED
  BY <1>4, <1>5 DEF MaxOf

LEMMA MinExists ==
  ASSUME NEW S \in SUBSET Nat, S # {}
  PROVE  \E x \in S : \A y \in S : x <= y
<1>2. PICK t \in S : \A y \in S : ~(<<y, t>> \in OpToRel(<, Nat))
  BY NatLessThanWellFounded, WFMin
<1>3. \A y \in S : ~(y < t)
  BY <1>2 DEF OpToRel
<1> QED
  BY <1>3

LEMMA Pages ==
  ASSUME NEW c \in Nat, head \in 0..Last
  PROVE  LET page == PageFrom(c) IN
           /\ page \subseteq From(c) /\ From(c) \subseteq Changes
           /\ page = {} => From(c) = {}
           /\ \A m \in page, p \in Changes : p <= m /\ At[p] >= c => p \in page
<1> DEFINE F == From(c)
           Before(p) == {q \in F : q < p}
<1>1. F \subseteq 1..head /\ F \subseteq Changes /\ F \subseteq Nat /\ IsFiniteSet(F)
  <2>1. head \in Int /\ 1 \in Int
    BY SyncConstants
  <2>2. IsFiniteSet(1..head)
    BY <2>1, FS_Interval
  <2>3. F \subseteq 1..head
    BY DEF From
  <2> QED
    BY <2>2, <2>3, FS_Subset, SyncConstants DEF Changes
<1>2. \A p \in F : IsFiniteSet(Before(p)) /\ Cardinality(Before(p)) \in Nat
  BY <1>1, FS_Subset, FS_CardinalityType
<1>3. ASSUME NEW p \in F, NEW m \in F, p <= m
      PROVE  Cardinality(Before(p)) <= Cardinality(Before(m))
  <2>1. Before(p) \subseteq Before(m)
    BY <1>1, <1>3
  <2> QED
    BY <1>2, <2>1, FS_Subset
<1>4. ASSUME F # {} PROVE PageFrom(c) # {}
  <2>1. PICK x \in F : \A y \in F : x <= y
    BY <1>1, <1>4, MinExists
  <2>2. Before(x) = {}
    BY <1>1, <2>1
  <2>3. Cardinality(Before(x)) = 0
    <3>1. Cardinality({}) = 0
      BY FS_EmptySet
    <3> QED
      BY <2>2, <3>1, Zenon
  <2>4. Cardinality(Before(x)) < PageSize
    BY <2>3, SyncConstants
  <2> QED
    BY <2>1, <2>4 DEF PageFrom
<1>5. ASSUME NEW m \in PageFrom(c), NEW p \in Changes, p <= m, At[p] >= c
      PROVE  p \in PageFrom(c)
  <2>1. m \in F /\ Cardinality(Before(m)) < PageSize
    BY DEF PageFrom
  <2>2. p \in F
    BY <1>1, <1>5, <2>1 DEF From, Changes
  <2>3. Cardinality(Before(p)) <= Cardinality(Before(m))
    BY <1>3, <1>5, <2>1, <2>2
  <2>4. Cardinality(Before(p)) < PageSize
    <3> DEFINE a == Cardinality(Before(p))
               b == Cardinality(Before(m))
    <3>1. a \in Nat /\ b \in Nat /\ a <= b /\ b < PageSize /\ PageSize \in Nat
      BY <1>2, <2>1, <2>2, <2>3, SyncConstants
    <3> HIDE DEF a, b
    <3>2. a < PageSize
      BY <3>1
    <3> QED
      BY <3>2 DEF a
  <2> QED
    BY <2>2, <2>4 DEF PageFrom
<1> QED
  BY <1>1, <1>4, <1>5 DEF PageFrom


(* What Skipping leaves of a sequence: some of its elements, once each.    *)
LEMMA Skips ==
  ASSUME NEW T, NEW s \in Seq(T), NEW S
  PROVE  /\ Skipping(s, S) \in Seq(T)
         /\ \A n \in DOMAIN Skipping(s, S) :
              \E i \in DOMAIN s : Skipping(s, S)[n] = s[i] /\ s[i] \notin S
         /\ (\A i, k \in DOMAIN s : s[i] = s[k] => i = k)
              => \A m, n \in DOMAIN Skipping(s, S) :
                   Skipping(s, S)[m] = Skipping(s, S)[n] => m = n
<1> DEFINE I == {i \in 1..Len(s) : s[i] \notin S}
           UpTo(i) == {l \in I : l <= i}
           N == Cardinality(I)
           At_(n) == CHOOSE i \in I : Cardinality(UpTo(i)) = n
<1>1. /\ Len(s) \in Nat /\ DOMAIN s = 1..Len(s) /\ I \subseteq Nat
      /\ IsFiniteSet(I) /\ N \in Nat
  <2>1. Len(s) \in Nat /\ DOMAIN s = 1..Len(s)
    OBVIOUS
  <2>2. IsFiniteSet(1..Len(s)) /\ I \in SUBSET (1..Len(s))
    BY <2>1, FS_Interval
  <2> QED
    BY <2>1, <2>2, FS_Subset, FS_CardinalityType
<1>2. ASSUME NEW i \in I
      PROVE  IsFiniteSet(UpTo(i)) /\ Cardinality(UpTo(i)) \in 1..N
  <2>1. UpTo(i) \in SUBSET I /\ UpTo(i) # {}
    BY <1>1
  <2>2. IsFiniteSet(UpTo(i)) /\ Cardinality(UpTo(i)) <= N
    BY <1>1, <2>1, FS_Subset
  <2>3. Cardinality(UpTo(i)) \in Nat /\ Cardinality(UpTo(i)) # 0
    BY <2>1, <2>2, FS_CardinalityType, FS_EmptySet
  <2> QED
    BY <1>1, <2>2, <2>3
<1>3. ASSUME NEW i \in I, NEW k \in I, Cardinality(UpTo(i)) = Cardinality(UpTo(k))
      PROVE  i = k
  <2>1. ASSUME NEW a \in I, NEW b \in I, a < b
        PROVE  Cardinality(UpTo(a)) # Cardinality(UpTo(b))
    <3>1. UpTo(a) \in SUBSET UpTo(b) /\ b \in UpTo(b) /\ b \notin UpTo(a)
      BY <1>1, <2>1
    <3> QED
      BY <1>2, <3>1, FS_Subset
  <2>2. ~(i < k) /\ ~(k < i)
    BY <1>3, <2>1
  <2> QED
    BY <1>1, <2>2
<1>4. \A n \in 1..N : \E i \in I : Cardinality(UpTo(i)) = n
  <2> DEFINE f == [i \in I |-> Cardinality(UpTo(i))]
  <2>1. f \in Injection(I, 1..N)
    BY <1>2, <1>3 DEF Injection, IsInjective
  <2>2. IsFiniteSet(1..N) /\ Cardinality(1..N) = N
    BY <1>1, FS_Interval
  <2>3. f \in Surjection(I, 1..N)
    BY <2>1, <2>2, FS_Injection
  <2> QED
    BY <2>3 DEF Surjection
<1>5. \A n \in 1..N : At_(n) \in I /\ Cardinality(UpTo(At_(n))) = n
  BY <1>4
<1>6. Skipping(s, S) = [n \in 1..N |-> s[At_(n)]]
  BY DEF Skipping
<1>7. \A n \in 1..N : At_(n) \in 1..Len(s) /\ s[At_(n)] \notin S
  BY <1>5
<1>8. \A m, n \in 1..N : At_(m) = At_(n) => m = n
  BY <1>5
<1> HIDE DEF N, At_
<1>9. \A n \in 1..N : s[At_(n)] \in T
  BY <1>1, <1>7
<1>10. [n \in 1..N |-> s[At_(n)]] \in Seq(T)
  BY <1>1, <1>9
<1>11. Skipping(s, S) \in Seq(T) /\ DOMAIN Skipping(s, S) = 1..N
  BY <1>6, <1>10
<1>12. \A n \in DOMAIN Skipping(s, S) :
         \E i \in DOMAIN s : Skipping(s, S)[n] = s[i] /\ s[i] \notin S
  BY <1>1, <1>6, <1>7, <1>11
<1>13. ASSUME \A i, k \in DOMAIN s : s[i] = s[k] => i = k
       PROVE  \A m, n \in DOMAIN Skipping(s, S) :
                Skipping(s, S)[m] = Skipping(s, S)[n] => m = n
  BY <1>1, <1>6, <1>7, <1>8, <1>11, <1>13
<1> QED
  BY <1>11, <1>12, <1>13

-----------------------------------------------------------------------------
(* The invariant                                                           *)

RunPcs == {"check", "fetch", "persist", "end"}

Below(c) == {p \in Changes : At[p] < c}
Known(r) == mirror[r] \cup quarantined[r]
Completed(r) == \E i \in RunsOf(r) : runs[i].status = "success"
Counts(i) == runs[i].mode = "full" \/ ~Completed(runs[i].resource)

(* What lies below the cursors of a run is in the mirror or in quarantine, *)
(* and the runs of its load read it, as far as a full load will count it.  *)
RunIsBacked(i) ==
  LET below == Below(runs[i].before) \cup Below(runs[i].after) IN
    /\ below \subseteq Known(runs[i].resource)
    /\ Counts(i) => below \subseteq covered[i]

(* What lies below a checkpoint is in the mirror; until a run of the       *)
(* resource is complete, its runs read it.                                 *)
CheckpointIsBacked(r) ==
  /\ Below(checkpoint[r].cursor) \subseteq mirror[r]
  /\ ~Completed(r) => Below(checkpoint[r].cursor)
                        \subseteq UNION {covered[i] : i \in RunsOf(r)}

(* A worker in the middle of a run has one that is not complete yet.       *)
TaskHasItsRun(w) ==
  LET t == task[w] IN
    /\ t.pc \in RunPcs \cup {"begin"} => t.todo # <<>>
    /\ t.pc \in RunPcs => /\ t.run \in DOMAIN runs
                          /\ runs[t.run].resource = Head(t.todo)
                          /\ runs[t.run].status \in {"running", "interrupted"}
    /\ t.pc \in RunPcs \ {"end"} => t.pages < MaxPages
    /\ t.pc = "end" => t.status \in EndStatuses

(* The cursor it asks the next page from, and the page it has in memory:   *)
(* nothing between the two, and the last page reaches as far as the origin *)
(* did.                                                                    *)
TaskIsBacked(w) ==
  LET t == task[w] IN
    t.pc \in RunPcs =>
      /\ Below(t.cursor) \subseteq Known(runs[t.run].resource)
      /\ Counts(t.run) => Below(t.cursor) \subseteq covered[t.run]

PageIsNext(w) ==
  LET t == task[w] IN
    t.pc = "persist" =>
      /\ t.page # {}
      /\ \A m \in t.page, p \in Changes : p <= m /\ At[p] >= t.cursor => p \in t.page
      /\ ~t.more => \A p \in 1..t.upto : At[p] >= t.cursor => p \in t.page

SuccessReached(w) ==
  LET t == task[w] IN
    (t.pc = "end" /\ t.status = "success") =>
      /\ 1..t.upto \subseteq Known(runs[t.run].resource)
      /\ Counts(t.run) => 1..t.upto \subseteq covered[t.run]

TaskIsGood(w) == /\ TaskHasItsRun(w) /\ TaskIsBacked(w)
                 /\ PageIsNext(w) /\ SuccessReached(w)

(* The resources a worker has to do are those of a job that exists.        *)
PlanIsKnown(w) ==
  ~Idle(w) => /\ job[lease[w].job].status # "absent"
              /\ \A i \in DOMAIN task[w].todo :
                   KeyOf(task[w].todo[i], ModeOf(w)) \in Keys

OwnRuns == \A v, w \in Workers :
  (task[v].pc \in RunPcs /\ task[w].pc \in RunPcs /\ task[v].run = task[w].run)
    => v = w

Histories == Len(covered) = Len(runs) /\ Len(runs) <= MaxRuns

SyncInv ==
  /\ QueueInv /\ SyncTypeOK /\ Histories /\ OwnRuns
  /\ \A w \in Workers : TaskIsGood(w) /\ PlanIsKnown(w)
  /\ \A i \in DOMAIN runs : RunIsBacked(i)
  /\ \A r \in Resources : CheckpointIsBacked(r)

(* The continuations of a job for all the resources are keys of the queue. *)
ContinuationsAreKeys ==
  \A k \in Keys, r \in Resources : k[1] = "all" => KeyOf(r, k[2]) \in Keys

SyncOrCrash == SyncNext \/ \E w \in Workers : Crash(w)
CrashingSpec == SyncInit /\ [][SyncOrCrash]_syncVars

-----------------------------------------------------------------------------
(* The types of what a step computes                                       *)

LEMMA NoTaskTyped == NoTask \in Tasks /\ 0 \in Cursors
<1>1. 0 \in Cursors
  BY SyncConstants, InstantsGrow DEF Cursors, Changes
<1>2. /\ NoTask.pc \in Pcs /\ NoTask.todo \in Seq(Resources)
      /\ NoTask.run \in 0..MaxRuns /\ NoTask.pages \in 0..MaxPages
      /\ NoTask.upto \in 0..Last
  BY SyncConstants DEF NoTask, Pcs
<1> QED
  BY <1>1, <1>2 DEF NoTask, Tasks

(* Cursors are instants, or 0.                                             *)
LEMMA CursorsBounded ==
  /\ \A p \in Changes : At[p] \in Cursors /\ At[p] \in Nat \ {0}
  /\ \E n \in Nat : Cursors = 0..n
  /\ Cursors \subseteq Nat
<1>1. CASE Last = 0
  BY <1>1 DEF Cursors, Changes
<1>2. CASE Last # 0
  <2>1. Last \in Changes /\ At[Last] \in Nat /\ Cursors = 0..At[Last]
    BY <1>2, SyncConstants, InstantsGrow DEF Changes, Cursors
  <2>2. \A p \in Changes : At[p] \in Nat \ {0} /\ (p < Last => At[p] <= At[Last])
    BY <2>1, InstantsGrow
  <2>3. \A p \in Changes : p < Last \/ p = Last
    BY <2>1, SyncConstants DEF Changes
  <2> QED
    BY <2>1, <2>2, <2>3
<1> QED
  BY <1>1, <1>2

LEMMA PageCursorTyped ==
  ASSUME NEW page \in SUBSET Changes, page # {}
  PROVE  /\ MaxOf(page) \in page /\ \A p \in page : p <= MaxOf(page)
         /\ PageCursor(page) \in Cursors
<1>1. page \in SUBSET (0..Last) /\ Last \in Nat
  BY SyncConstants DEF Changes
<1>2. MaxOf(page) \in page /\ \A p \in page : p <= MaxOf(page)
  BY <1>1, MaxOfExists
<1> QED
  BY <1>2, CursorsBounded DEF PageCursor

LEMMA BackByTyped ==
  ASSUME NEW c \in Cursors
  PROVE  BackBy(c) \in Cursors /\ BackBy(c) <= c
BY CursorsBounded, SyncConstants DEF BackBy

LEMMA PlanTyped ==
  ASSUME NEW k \in Keys
  PROVE  /\ PlanOf(k) \in Seq(Resources)
         /\ k[2] \in Modes
         /\ ContinuationsAreKeys =>
              \A i \in DOMAIN PlanOf(k) : KeyOf(PlanOf(k)[i], k[2]) \in Keys
<1>1. PICK a \in Resources \cup {"all"}, mode \in Modes : k = <<a, mode>>
  BY KeysAreSync DEF SyncKeys
<1>2. k[1] = a /\ k[2] = mode /\ k = <<k[1], k[2]>>
  BY <1>1
<1>3. CASE a = "all"
  <2>1. PlanOf(k) = Order
    BY <1>2, <1>3 DEF PlanOf
  <2>2. \A i \in DOMAIN Order : Order[i] \in Resources
    BY SyncConstants
  <2> QED
    BY <1>2, <1>3, <2>1, <2>2, SyncConstants DEF ContinuationsAreKeys
<1>4. CASE a # "all"
  <2>1. PlanOf(k) = <<a>> /\ a \in Resources
    BY <1>1, <1>2, <1>4 DEF PlanOf
  <2>2. <<a>> \in Seq(Resources) /\ \A i \in DOMAIN <<a>> : <<a>>[i] = a
    BY <2>1
  <2>3. KeyOf(a, k[2]) = k
    BY <1>2 DEF KeyOf
  <2> QED
    BY <1>1, <1>2, <2>1, <2>2, <2>3
<1> QED
  BY <1>3, <1>4

-----------------------------------------------------------------------------
(* The table of the jobs                                                   *)

JobsStay == \A j \in Jobs : job[j].status # "absent" =>
              job'[j].status # "absent" /\ job'[j].key = job[j].key

(* The table after a step of the queue.                                    *)
LEMMA EnqueueAllStays ==
  ASSUME QueueInv, NEW S \in SUBSET Keys, EnqueueAll(S)
  PROVE  JobsStay
<1> DEFINE K    == {k \in S : MustCreate(k)}
           free == {j \in Jobs : job[j].status = "absent"}
<1>1. PICK f \in [K -> free] :
        job' = [j \in Jobs |->
                 IF \E k \in K : f[k] = j
                   THEN NewJob(CHOOSE k \in K : f[k] = j)
                   ELSE job[j]]
  BY DEF EnqueueAll
<1> QED
  BY <1>1 DEF JobsStay

LEMMA QueueStepStays == QueueInv /\ QueueNext => JobsStay
<1> SUFFICES ASSUME QueueInv, QueueNext PROVE JobsStay
  OBVIOUS
<1>1. job \in [Jobs -> JobRows]
  BY DEF QueueInv, QueueTypeOK
<1>2. ASSUME NEW k \in Keys, Enqueue(k) PROVE JobsStay
  BY <1>2, EnqueueAllStays DEF Enqueue
<1>3. ASSUME NEW w \in Workers, ReleaseExpired(w) PROVE JobsStay
  BY <1>1, <1>3 DEF ReleaseExpired, JobRows, JobsStay
<1>4. ASSUME NEW w \in Workers, NEW j \in Jobs, Claim(w, j) PROVE JobsStay
  BY <1>1, <1>4 DEF Claim, JobRows, JobsStay
<1>5. ASSUME NEW w \in Workers, NEW s \in Terminal \cup {"queued"}, Finish(w, s)
      PROVE  JobsStay
  <2> DEFINE j == lease[w].job
  <2>1. j \in Jobs /\ s # "absent"
    BY <1>5 DEF Finish, QueueInv, FreshTokens, Terminal
  <2>2. \/ job' = job
        \/ job' = [job EXCEPT ![j] = FinishedRow(j, s)]
    BY <1>5 DEF Finish, FinishRow
  <2>3. FinishedRow(j, s).key = job[j].key /\ FinishedRow(j, s).status = s
    BY <1>1, <2>1 DEF FinishedRow, JobRows
  <2> HIDE DEF j
  <2> QED
    BY <1>1, <2>1, <2>2, <2>3 DEF JobsStay
<1>6. ASSUME NEW w \in Workers, NEW j \in Jobs, Heartbeat(w, j) PROVE JobsStay
  BY <1>1, <1>6 DEF Heartbeat, JobRows, JobsStay
<1>7. ASSUME NEW c \in Cancellers, NEW j \in Jobs, CancelRead(c, j) PROVE JobsStay
  BY <1>1, <1>7 DEF CancelRead, JobsStay
<1>8. ASSUME NEW c \in Cancellers, CancelWrite(c) PROVE JobsStay
  BY <1>1, <1>8 DEF CancelWrite, JobRows, JobsStay
<1>9. ASSUME NEW j \in Jobs, LeaseExpires(j) \/ BecomesDue(j) PROVE JobsStay
  BY <1>1, <1>9 DEF LeaseExpires, BecomesDue, JobRows, JobsStay
<1>10. ASSUME NEW w \in Workers, GiveUp(w) \/ CrashWorker(w) PROVE JobsStay
  BY <1>1, <1>10 DEF GiveUp, CrashWorker, JobsStay
<1> QED
  BY <1>2, <1>3, <1>4, <1>5, <1>6, <1>7, <1>8, <1>9, <1>10
     DEF QueueNext, WorkerStep

(* A worker that drops its lease, if it has one.                           *)
LEMMA LeaseDropped ==
  ASSUME QueueInv, NEW w \in Workers,
         lease' = [lease EXCEPT ![w] = NoLease],
         UNCHANGED <<job, ahead, cancelling>>, crashes' \in Nat
  PROVE  QueueInv' /\ JobsStay
<1>1. QueueTypeOK
  BY DEF QueueInv
<1>2. lease' \in [Workers -> Leases]
        /\ \A v \in Workers : lease'[v] = lease[v] \/ lease'[v] = NoLease
  BY <1>1 DEF QueueTypeOK, Leases, NoLease
<1>3. \A j \in Jobs : job[j].claims <= job'[j].claims
  BY <1>1 DEF QueueTypeOK, JobRows
<1>4. AbsentUnclaimed' /\ UniqueActive' /\ JobsStay
  BY DEF QueueInv, AbsentUnclaimed, UniqueActive, IsActive, JobsStay
<1> QED
  BY <1>1, <1>2, <1>3, <1>4, TableStep DEF QueueTypeOK

(* A worker that keeps its lease, if any, and goes on with the resources   *)
(* it had to do, knows their job.                                          *)
LEMMA PlanStaysKnown ==
  ASSUME QueueInv, JobsStay, NEW w \in Workers, PlanIsKnown(w),
         lease'[w] = lease[w] \/ lease'[w] = NoLease,
         \A i \in DOMAIN task'[w].todo :
           \E k \in DOMAIN task[w].todo : task'[w].todo[i] = task[w].todo[k]
  PROVE  PlanIsKnown(w)'
<1> SUFFICES ASSUME ~Idle(w)'
             PROVE  /\ job'[lease'[w].job].status # "absent"
                    /\ \A i \in DOMAIN task'[w].todo :
                         KeyOf(task'[w].todo[i], job'[lease'[w].job].key[2]) \in Keys
  BY DEF PlanIsKnown, ModeOf
<1>1. lease'[w] = lease[w] /\ ~Idle(w)
  BY DEF Idle
<1>2. lease[w].job \in Jobs /\ job[lease[w].job].status # "absent"
  BY <1>1 DEF QueueInv, FreshTokens, PlanIsKnown
<1>3. job'[lease[w].job].status # "absent"
        /\ job'[lease[w].job].key = job[lease[w].job].key
  BY <1>2 DEF JobsStay
<1> QED
  BY <1>1, <1>3 DEF PlanIsKnown, ModeOf

(* A step that leaves the mirror, the runs and the checkpoints alone.      *)
stored == <<runs, checkpoint, mirror, quarantined, covered>>

LEMMA DataKept ==
  ASSUME SyncInv, UNCHANGED stored
  PROVE  /\ Histories'
         /\ \A i \in DOMAIN runs' : RunIsBacked(i)'
         /\ \A r \in Resources : CheckpointIsBacked(r)'
         /\ \A w \in Workers : task'[w] = task[w] => TaskIsGood(w)'
<1>1. \A i \in DOMAIN runs' : RunIsBacked(i)'
  BY DEF SyncInv, stored, RunIsBacked, Known, Counts, Completed, RunsOf
<1>2. \A r \in Resources : CheckpointIsBacked(r)'
  BY DEF SyncInv, stored, CheckpointIsBacked, Completed, RunsOf
<1>3. ASSUME NEW w \in Workers, task'[w] = task[w] PROVE TaskIsGood(w)'
  <2>1. TaskIsGood(w)
    BY DEF SyncInv
  <2> QED
    BY <1>3, <2>1 DEF stored, TaskIsGood, TaskHasItsRun, TaskIsBacked, PageIsNext,
                 SuccessReached, Known, Counts, Completed, RunsOf
<1> QED
  BY <1>1, <1>2, <1>3 DEF SyncInv, Histories, stored

LEMMA QuietStep ==
  ASSUME SyncInv, QueueInv', UNCHANGED stored, task' \in [Workers -> Tasks],
         head' \in 0..Last, outages' \in 0..MaxOutages,
         \A v \in Workers :
           \/ task'[v] = task[v]
           \/ /\ TaskIsGood(v)'
              /\ task'[v].pc \in RunPcs =>
                   task[v].pc \in RunPcs /\ task'[v].run = task[v].run,
         \A v \in Workers : PlanIsKnown(v)'
  PROVE  SyncInv'
<1>1. SyncTypeOK'
  BY DEF SyncInv, SyncTypeOK, stored, QueueInv
<1>2. OwnRuns'
  BY DEF SyncInv, OwnRuns
<1>3. \A v \in Workers : TaskIsGood(v)'
  BY DataKept
<1> QED
  BY <1>1, <1>2, <1>3, DataKept DEF SyncInv

(* Nobody's task and no data changes: a step of the queue alone.           *)
LEMMA QueueAloneKeeps ==
  ASSUME SyncInv, QueueNext, \A v \in Workers : lease'[v] = lease[v],
         UNCHANGED <<task, dataVars>>
  PROVE  SyncInv'
<1>1. QueueInv' /\ JobsStay
  BY QueueInvInductive, QueueStepStays DEF SyncInv
<1>2. \A v \in Workers : PlanIsKnown(v)'
  BY <1>1, PlanStaysKnown DEF SyncInv
<1>3. /\ task' \in [Workers -> Tasks] /\ UNCHANGED stored
      /\ head' \in 0..Last /\ outages' \in 0..MaxOutages
  BY DEF SyncInv, SyncTypeOK, dataVars, stored
<1> QED
  BY <1>1, <1>2, <1>3, QuietStep

(* A worker that is not in a run any more.                                 *)
OffRun(t) == t.pc \notin RunPcs /\ (t.pc = "begin" => t.todo # <<>>)

LEMMA OffRunStep ==
  ASSUME SyncInv, QueueInv', JobsStay, UNCHANGED dataVars,
         NEW w \in Workers, NEW t \in Tasks, OffRun(t),
         task' = [task EXCEPT ![w] = t],
         \A v \in Workers \ {w} : lease'[v] = lease[v], PlanIsKnown(w)'
  PROVE  SyncInv'
<1>1. task \in [Workers -> Tasks]
  BY DEF SyncInv, SyncTypeOK
<1>2. task' \in [Workers -> Tasks] /\ task'[w] = t
        /\ \A v \in Workers \ {w} : task'[v] = task[v]
  BY <1>1
<1>3. TaskIsGood(w)'
  BY <1>2 DEF OffRun, TaskIsGood, TaskHasItsRun, TaskIsBacked, PageIsNext,
              SuccessReached, RunPcs
<1>4. \A v \in Workers : PlanIsKnown(v)'
  BY <1>2, PlanStaysKnown DEF SyncInv
<1>5. UNCHANGED stored /\ head' \in 0..Last /\ outages' \in 0..MaxOutages
  BY DEF SyncInv, SyncTypeOK, dataVars, stored
<1> QED
  BY <1>2, <1>3, <1>4, <1>5, QuietStep DEF OffRun

-----------------------------------------------------------------------------
(* The steps that leave the data alone                                     *)

LEMMA TakeKeeps ==
  ASSUME ContinuationsAreKeys, SyncInv, NEW w \in Workers, NEW j \in Jobs, Take(w, j)
  PROVE  SyncInv'
<1> DEFINE k == job[j].key
<1>1. Claim(w, j) /\ UNCHANGED dataVars
  BY DEF Take
<1>2. QueueInv' /\ JobsStay
  BY <1>1, QueueInvInductive, QueueStepStays DEF SyncInv, QueueNext, WorkerStep
<1>3. lease' = [lease EXCEPT ![w] = lease'[w]] /\ lease'[w].job = j
        /\ job[j].status = "queued" /\ k \in Keys
  BY <1>1 DEF Claim, Claimable, SyncInv, QueueInv, QueueTypeOK, JobRows
<1>4. \A v \in Workers \ {w} : lease'[v] = lease[v]
  BY <1>1 DEF Claim, SyncInv, QueueInv, QueueTypeOK
<1>5. PICK skip \in SUBSET Denied(k) :
        LET todo == Skipping(PlanOf(k), skip \cup DoneBy(j))
        IN task' = [task EXCEPT ![w] =
             [NoTask EXCEPT !.pc = IF todo = <<>> THEN "close" ELSE "begin",
                            !.todo = todo, !.from = j]]
  BY DEF Take
<1> DEFINE todo == Skipping(PlanOf(k), skip \cup DoneBy(j))
           t == [NoTask EXCEPT !.pc = IF todo = <<>> THEN "close" ELSE "begin",
                               !.todo = todo, !.from = j]
<1>6. PlanOf(k) \in Seq(Resources)
        /\ \A i \in DOMAIN PlanOf(k) : KeyOf(PlanOf(k)[i], k[2]) \in Keys
  BY <1>3, PlanTyped
<1>7. /\ todo \in Seq(Resources)
      /\ \A n \in DOMAIN todo : \E i \in DOMAIN PlanOf(k) : todo[n] = PlanOf(k)[i]
  <2> DEFINE s == PlanOf(k)
             S == skip \cup DoneBy(j)
  <2>1. s \in Seq(Resources)
    BY <1>6
  <2> HIDE DEF s, S
  <2>2. /\ Skipping(s, S) \in Seq(Resources)
        /\ \A n \in DOMAIN Skipping(s, S) : \E i \in DOMAIN s : Skipping(s, S)[n] = s[i]
    BY <2>1, Skips
  <2> QED
    BY <2>2 DEF s, S
<1> HIDE DEF todo
<1>8. t \in Tasks /\ OffRun(t) /\ t.todo = todo
  BY <1>7, NoTaskTyped DEF Tasks, NoTask, Pcs, OffRun, RunPcs
<1>9. task' = [task EXCEPT ![w] = t]
  BY <1>5 DEF todo
<1>10. PlanIsKnown(w)'
  <2>1. task'[w].todo = todo
    BY <1>8, <1>9 DEF SyncInv, SyncTypeOK
  <2>2. job'[j].status # "absent" /\ job'[j].key = k
    BY <1>2, <1>3 DEF JobsStay
  <2>3. \A n \in DOMAIN todo : KeyOf(todo[n], k[2]) \in Keys
    BY <1>6, <1>7
  <2> QED
    BY <1>3, <2>1, <2>2, <2>3 DEF PlanIsKnown, ModeOf
<1> HIDE DEF t, k
<1> QED
  BY <1>1, <1>2, <1>4, <1>8, <1>9, <1>10, OffRunStep

(* A worker that loses its lease or dies forgets everything.               *)
LEMMA ForgetKeeps ==
  ASSUME SyncInv, NEW w \in Workers, LoseLease(w) \/ Crash(w)
  PROVE  SyncInv'
<1>1. /\ lease' = [lease EXCEPT ![w] = NoLease]
      /\ task' = [task EXCEPT ![w] = NoTask]
      /\ UNCHANGED <<job, ahead, cancelling, dataVars>> /\ crashes' \in Nat
  BY DEF LoseLease, Crash, SyncInv, QueueInv, QueueTypeOK
<1>2. QueueInv' /\ JobsStay
  BY <1>1, LeaseDropped DEF SyncInv
<1>3. \A v \in Workers \ {w} : lease'[v] = lease[v]
  BY <1>1 DEF SyncInv, QueueInv, QueueTypeOK
<1>4. PlanIsKnown(w)'
  BY <1>1 DEF PlanIsKnown, Idle, SyncInv, QueueInv, QueueTypeOK
<1>5. NoTask \in Tasks /\ OffRun(NoTask)
  BY NoTaskTyped DEF OffRun, NoTask, RunPcs
<1> QED
  BY <1>1, <1>2, <1>3, <1>4, <1>5, OffRunStep

LEMMA BeginBusyKeeps ==
  ASSUME SyncInv, NEW w \in Workers, BeginBusy(w)
  PROVE  SyncInv'
<1> DEFINE t == [task[w] EXCEPT !.pc = "close", !.status = "busy",
                                !.results = task[w].results \cup {"busy"}]
<1>1. task' = [task EXCEPT ![w] = t] /\ UNCHANGED <<queueVars, dataVars>>
  BY DEF BeginBusy, SyncInv, SyncTypeOK
<1>2. QueueInv' /\ JobsStay /\ \A v \in Workers : lease'[v] = lease[v]
  <2>1. QueueInv'
    BY <1>1, QueueInvInductive DEF SyncInv
  <2> QED
    BY <1>1, <2>1 DEF queueVars, JobsStay
<1>3. t \in Tasks /\ OffRun(t) /\ t.todo = task[w].todo
  <2>1. task[w] \in Tasks
    BY DEF SyncInv, SyncTypeOK
  <2>2. task[w].results \cup {"busy"} \in SUBSET (EndStatuses \cup {"busy"})
    BY <2>1 DEF Tasks
  <2> QED
    BY <2>1, <2>2 DEF Tasks, Pcs, OffRun, RunPcs
<1>4. task'[w].todo = task[w].todo
  BY <1>1, <1>3 DEF SyncInv, SyncTypeOK
<1>5. PlanIsKnown(w)'
  BY <1>2, <1>4, PlanStaysKnown DEF SyncInv
<1> HIDE DEF t
<1> QED
  BY <1>1, <1>2, <1>3, <1>5, OffRunStep

LEMMA CloseKeeps ==
  ASSUME SyncInv, NEW w \in Workers, CloseJob(w)
  PROVE  SyncInv'
<1>1. JobStatus(task[w]) \in Terminal \cup {"queued"}
  BY DEF JobStatus, Terminal
<1>2. Finish(w, JobStatus(task[w])) /\ UNCHANGED dataVars
  BY DEF CloseJob
<1>3. QueueInv' /\ JobsStay
  BY <1>1, <1>2, QueueInvInductive, QueueStepStays DEF SyncInv, QueueNext, WorkerStep
<1>4. lease' = [lease EXCEPT ![w] = NoLease]
  BY <1>2 DEF Finish
<1>5. PlanIsKnown(w)' /\ \A v \in Workers \ {w} : lease'[v] = lease[v]
  BY <1>4 DEF PlanIsKnown, Idle, SyncInv, QueueInv, QueueTypeOK
<1>6. PICK t \in Tasks : OffRun(t) /\ task' = [task EXCEPT ![w] = t]
  <2>1. NoTask \in Tasks /\ OffRun(NoTask)
    BY NoTaskTyped DEF OffRun, NoTask, RunPcs
  <2>2. task[w] \in Tasks
    BY DEF SyncInv, SyncTypeOK
  <2> DEFINE t == [NoTask EXCEPT !.pc = "requeue", !.from = task[w].from,
                                 !.continue = task[w].continue]
  <2>3. t \in Tasks /\ OffRun(t)
    BY <2>1, <2>2 DEF Tasks, NoTask, Pcs, OffRun, RunPcs
  <2>4. task' = [task EXCEPT ![w] = NoTask] \/ task' = [task EXCEPT ![w] = t]
    BY DEF CloseJob
  <2> QED
    BY <2>1, <2>3, <2>4
<1> QED
  BY <1>2, <1>3, <1>5, <1>6, OffRunStep

LEMMA RequeueKeeps ==
  ASSUME SyncInv, NEW w \in Workers, Requeue(w)
  PROVE  SyncInv'
<1>1. task[w].continue \in SUBSET Keys
  BY DEF SyncInv, SyncTypeOK, Tasks
<1>2. /\ EnqueueAll(task[w].continue) /\ task' = [task EXCEPT ![w] = NoTask]
      /\ UNCHANGED <<lease, cancelling, crashes, dataVars>>
  BY DEF Requeue
<1>3. QueueInv' /\ JobsStay
  <2>1. QueueInv /\ QueueTypeOK
    BY DEF SyncInv, QueueInv
  <2>2. /\ job' \in [Jobs -> JobRows] /\ ahead' \subseteq Jobs \X Jobs
        /\ \A j \in Jobs : job[j].claims <= job'[j].claims
        /\ AbsentUnclaimed' /\ UniqueActive' /\ JobsStay
    BY <1>1, <1>2, <2>1, EnqueueAllStep, EnqueueAllStays
  <2> QED
    BY <1>2, <2>1, <2>2, TableStep DEF QueueTypeOK
<1>4. NoTask \in Tasks /\ OffRun(NoTask)
  BY NoTaskTyped DEF OffRun, NoTask, RunPcs
<1>5. PlanIsKnown(w)'
  <2>1. task'[w].todo = <<>>
    BY <1>2 DEF SyncInv, SyncTypeOK, NoTask
  <2> QED
    BY <1>2, <1>3, <2>1, PlanStaysKnown DEF SyncInv
<1> QED
  BY <1>2, <1>3, <1>4, <1>5, OffRunStep

(* A worker that stays in its run, at the same cursor.                     *)
LEMMA InRunStep ==
  ASSUME SyncInv, UNCHANGED <<queueVars, stored>>,
         head' \in 0..Last, outages' \in 0..MaxOutages,
         NEW w \in Workers, NEW t \in Tasks,
         task' = [task EXCEPT ![w] = t],
         task[w].pc \in RunPcs \ {"end"}, t.pc \in RunPcs,
         t.run = task[w].run, t.todo = task[w].todo, t.cursor = task[w].cursor,
         t.pc # "end" => t.pages = task[w].pages,
         t.pc = "end" => t.status \in EndStatuses,
         PageIsNext(w)', SuccessReached(w)'
  PROVE  SyncInv'
<1>1. task \in [Workers -> Tasks]
  BY DEF SyncInv, SyncTypeOK
<1>2. task' \in [Workers -> Tasks] /\ task'[w] = t
        /\ \A v \in Workers \ {w} : task'[v] = task[v]
  BY <1>1
<1>3. TaskIsGood(w)
  BY DEF SyncInv
<1>4. TaskHasItsRun(w)'
  BY <1>2, <1>3 DEF TaskIsGood, TaskHasItsRun, stored, RunPcs
<1>5. TaskIsBacked(w)'
  BY <1>2, <1>3 DEF TaskIsGood, TaskIsBacked, stored, Known, Counts, Completed, RunsOf
<1>6. TaskIsGood(w)'
  BY <1>4, <1>5 DEF TaskIsGood
<1>7. QueueInv' /\ JobsStay /\ \A v \in Workers : lease'[v] = lease[v]
  <2>1. QueueInv'
    BY QueueInvInductive DEF SyncInv
  <2> QED
    BY <2>1 DEF queueVars, JobsStay
<1>8. \A v \in Workers : PlanIsKnown(v)'
  BY <1>2, <1>7, PlanStaysKnown DEF SyncInv
<1> QED
  BY <1>2, <1>6, <1>7, <1>8, QuietStep

LEMMA CheckKeeps ==
  ASSUME SyncInv, NEW w \in Workers, Check(w)
  PROVE  SyncInv'
<1>1. task[w] \in Tasks /\ task[w].pc = "check" /\ UNCHANGED <<queueVars, dataVars>>
  BY DEF Check, Held, AtPc, SyncInv, SyncTypeOK
<1>2. PICK t : /\ task' = [task EXCEPT ![w] = t]
               /\ \/ t = [task[w] EXCEPT !.pc = "fetch"]
                  \/ t = [task[w] EXCEPT !.pc = "end", !.status = "cancelled"]
  BY DEF Check, Ending, SyncInv, SyncTypeOK
<1>3. /\ t \in Tasks /\ t.pc \in {"fetch", "end"}
      /\ t.run = task[w].run /\ t.todo = task[w].todo /\ t.cursor = task[w].cursor
      /\ t.pages = task[w].pages
      /\ t.pc = "end" => t.status = "cancelled"
  <2>1. CASE t = [task[w] EXCEPT !.pc = "fetch"]
    BY <1>1, <2>1 DEF Tasks, Pcs
  <2>2. CASE t = [task[w] EXCEPT !.pc = "end", !.status = "cancelled"]
    <3>1. "cancelled" \in EndStatuses
      BY DEF EndStatuses
    <3> QED
      BY <1>1, <2>2, <3>1 DEF Tasks, Pcs
  <2> QED
    BY <1>2, <2>1, <2>2
<1>4. task'[w] = t
  BY <1>2 DEF SyncInv, SyncTypeOK
<1>5. PageIsNext(w)' /\ SuccessReached(w)'
  BY <1>3, <1>4 DEF PageIsNext, SuccessReached
<1>6. UNCHANGED stored /\ head' \in 0..Last /\ outages' \in 0..MaxOutages
  BY <1>1 DEF SyncInv, SyncTypeOK, dataVars, stored
<1> QED
  BY <1>1, <1>2, <1>3, <1>5, <1>6, InRunStep DEF RunPcs, EndStatuses

LEMMA FetchFailsKeeps ==
  ASSUME SyncInv, NEW w \in Workers, NEW status \in Outages, FetchFails(w, status)
  PROVE  SyncInv'
<1> DEFINE t == [task[w] EXCEPT !.pc = "end", !.status = status]
<1>1. /\ task[w] \in Tasks /\ task[w].pc = "fetch" /\ UNCHANGED <<queueVars, stored>>
      /\ head' \in 0..Last /\ outages' \in 0..MaxOutages
      /\ task' = [task EXCEPT ![w] = t]
  <2>1. /\ task[w] \in Tasks /\ task[w].pc = "fetch" /\ UNCHANGED <<queueVars, stored>>
        /\ head' \in 0..Last
        /\ task' = [task EXCEPT ![w].pc = "end", ![w].status = status]
    BY DEF FetchFails, AtPc, Ending, SyncInv, SyncTypeOK, stored
  <2>2. outages' \in 0..MaxOutages
    BY SyncConstants DEF FetchFails, SyncInv, SyncTypeOK
  <2>3. task \in [Workers -> Tasks]
    BY DEF SyncInv, SyncTypeOK
  <2> QED
    BY <2>1, <2>2, <2>3
<1>2. status \in EndStatuses /\ status # "success"
  BY SyncConstants DEF EndStatuses, Failing
<1>3. /\ t \in Tasks /\ t.pc = "end" /\ t.status = status
      /\ t.run = task[w].run /\ t.todo = task[w].todo /\ t.cursor = task[w].cursor
  BY <1>1, <1>2 DEF Tasks, Pcs
<1>4. task'[w] = t
  BY <1>1 DEF SyncInv, SyncTypeOK
<1>5. PageIsNext(w)' /\ SuccessReached(w)'
  BY <1>2, <1>3, <1>4 DEF PageIsNext, SuccessReached
<1> HIDE DEF t
<1> QED
  BY <1>1, <1>2, <1>3, <1>5, InRunStep DEF RunPcs

(* A page, or the end: what the origin shows from the cursor on.           *)
LEMMA FetchKeeps ==
  ASSUME SyncInv, NEW w \in Workers, Fetch(w)
  PROVE  SyncInv'
<1> DEFINE c == task[w].cursor
           page == PageFrom(c)
           s == [task[w] EXCEPT !.pc = "end", !.status = "success", !.upto = head]
           t == [task[w] EXCEPT !.pc = "persist", !.page = page,
                                !.more = (page # From(c)), !.upto = head]
<1>1. /\ task[w] \in Tasks /\ task[w].pc = "fetch" /\ UNCHANGED <<queueVars, stored>>
      /\ head \in 0..Last /\ head' \in 0..Last /\ outages' \in 0..MaxOutages
  BY DEF Fetch, AtPc, SyncInv, SyncTypeOK, dataVars, stored
<1>2. task \in [Workers -> Tasks]
  BY DEF SyncInv, SyncTypeOK
<1>3. c \in Nat
  BY <1>1, CursorsBounded DEF Tasks
<1>4. /\ page \subseteq From(c) /\ From(c) \subseteq Changes
      /\ page = {} => From(c) = {}
      /\ \A m \in page, p \in Changes : p <= m /\ At[p] >= c => p \in page
  BY <1>1, <1>3, Pages
<1>5. CASE page = {}
  <2>1. task' = [task EXCEPT ![w] = s]
    BY <1>2, <1>5 DEF Fetch
  <2>2. /\ s \in Tasks /\ s.pc = "end" /\ s.status = "success" /\ s.upto = head
        /\ s.run = task[w].run /\ s.todo = task[w].todo /\ s.cursor = c
    <3>1. "success" \in EndStatuses
      BY DEF EndStatuses
    <3> QED
      BY <1>1, <3>1 DEF Tasks, Pcs
  <2>3. task'[w] = s
    BY <1>2, <2>1
  <2>4. 1..head \subseteq Below(c)
    <3>1. ASSUME NEW p \in 1..head PROVE p \in Changes /\ At[p] \in Nat /\ ~(At[p] >= c)
      <4>1. p \in Changes
        BY <1>1, SyncConstants DEF Changes
      <4>2. p \notin From(c)
        BY <1>4, <1>5
      <4> QED
        BY <4>1, <4>2, CursorsBounded DEF From
    <3> QED
      BY <1>3, <3>1 DEF Below
  <2>5. PageIsNext(w)'
    BY <2>2, <2>3 DEF PageIsNext
  <2>6. SuccessReached(w)'
    <3>1. TaskIsBacked(w)
      BY DEF SyncInv, TaskIsGood
    <3>2. /\ 1..head \subseteq Known(runs[task[w].run].resource)
          /\ Counts(task[w].run) => 1..head \subseteq covered[task[w].run]
      BY <1>1, <2>4, <3>1 DEF TaskIsBacked, RunPcs
    <3> HIDE DEF s
    <3> QED
      BY <1>1, <2>2, <2>3, <3>2
         DEF SuccessReached, stored, Known, Counts, Completed, RunsOf
  <2> HIDE DEF s
  <2> QED
    BY <1>1, <2>1, <2>2, <2>5, <2>6, InRunStep DEF RunPcs, EndStatuses
<1>6. CASE page # {}
  <2>1. task' = [task EXCEPT ![w] = t]
    BY <1>2, <1>6 DEF Fetch
  <2>2. /\ t \in Tasks /\ t.pc = "persist" /\ t.page = page /\ t.upto = head
        /\ t.more = (page # From(c)) /\ t.pages = task[w].pages
        /\ t.run = task[w].run /\ t.todo = task[w].todo /\ t.cursor = c
    <3>1. page \in SUBSET Changes /\ (page # From(c)) \in BOOLEAN
      BY <1>4
    <3> HIDE DEF page
    <3> QED
      BY <1>1, <3>1 DEF Tasks, Pcs
  <2>3. task'[w] = t
    BY <1>2, <2>1
  <2>4. page = From(c) => \A p \in 1..head : At[p] >= c => p \in page
    BY DEF From
  <2> HIDE DEF t, page
  <2>5. PageIsNext(w)'
    BY <1>4, <1>6, <2>2, <2>3, <2>4 DEF PageIsNext
  <2>6. SuccessReached(w)'
    BY <2>2, <2>3 DEF SuccessReached
  <2> QED
    BY <1>1, <2>1, <2>2, <2>5, <2>6, InRunStep DEF RunPcs
<1> QED
  BY <1>5, <1>6

-----------------------------------------------------------------------------
(* A run begins                                                            *)

LEMMA NothingBelowZero == Below(0) = {}
BY CursorsBounded DEF Below

(* The resume point of a full load: the runs it resumes read what is below *)
(* it, and it is known.                                                    *)
LEMMA ResumeIsBacked ==
  ASSUME SyncInv, NEW r \in Resources
  PROVE  /\ FullResume(r) \in Cursors
         /\ Below(FullResume(r)) \subseteq Known(r)
         /\ Below(FullResume(r)) \subseteq UNION {covered[i] : i \in FullPool(r)}
<1> DEFINE pool == FullPool(r)
           open == {i \in pool : runs[i].status \in RESUMABLE_FULL_STATUSES}
           S == {runs[i].after : i \in open} \cup {runs[i].before : i \in open}
<1>1. /\ runs \in Seq(Runs)
      /\ pool \subseteq DOMAIN runs
      /\ \A i \in pool : runs[i].resource = r /\ Counts(i)
  BY DEF SyncInv, SyncTypeOK, FullPool, RunsOf, Counts, Completed
<1>2. CASE pool = {} \/ MaxOf(pool) \notin open
  <2>1. FullResume(r) = 0
    BY <1>2 DEF FullResume
  <2> QED
    BY <2>1, NothingBelowZero, NoTaskTyped
<1>3. CASE pool # {} /\ MaxOf(pool) \in open
  <2>1. FullResume(r) = MaxOf(S)
    BY <1>3 DEF FullResume
  <2>2. \A i \in open : runs[i].after \in Cursors /\ runs[i].before \in Cursors
    <3>1. \A i \in DOMAIN runs : runs[i] \in Runs
      BY <1>1
    <3> QED
      BY <1>1, <3>1 DEF Runs
  <2>3. S \subseteq Cursors /\ S # {}
    BY <1>3, <2>2
  <2>4. MaxOf(S) \in S
    BY <2>3, CursorsBounded, MaxOfExists
  <2>5. PICK i \in open : FullResume(r) = runs[i].after \/ FullResume(r) = runs[i].before
    BY <2>1, <2>4
  <2>6. RunIsBacked(i) /\ Counts(i) /\ runs[i].resource = r /\ i \in pool
    BY <1>1 DEF SyncInv
  <2>7. Below(FullResume(r)) \subseteq Known(r) /\ Below(FullResume(r)) \subseteq covered[i]
    BY <2>5, <2>6 DEF RunIsBacked
  <2> QED
    BY <2>1, <2>3, <2>4, <2>6, <2>7
<1> QED
  BY <1>2, <1>3

(* Until a run of the resource is complete, all its runs count.            *)
LEMMA PoolOfIncomplete ==
  ASSUME SyncInv, NEW r \in Resources, ~Completed(r)
  PROVE  FullPool(r) = RunsOf(r)
<1> DEFINE full == {i \in RunsOf(r) : runs[i].mode = "full"}
           done == MaxOf({0} \cup {i \in full : runs[i].status = "success"})
<1>1. {i \in full : runs[i].status = "success"} = {}
  BY DEF Completed
<1>2. done \in {0} \cup {}
  <2>1. MaxOf({0}) = 0
    BY DEF MaxOf
  <2> QED
    BY <1>1, <2>1
<1>3. \A i \in RunsOf(r) : i > 0
  BY DEF RunsOf, SyncInv, SyncTypeOK
<1>4. FullPool(r) = {i \in RunsOf(r) : i > done}
  BY DEF FullPool, Completed
<1> HIDE DEF done
<1> QED
  BY <1>2, <1>3, <1>4

(* Where a run starts, and what it has read before its first page.         *)
StartOf(r, mode) ==
  IF mode = "full" THEN FullResume(r) ELSE checkpoint[r].cursor
ReadBefore(r, start) ==
  IF start = 0 THEN {} ELSE UNION {covered[i] : i \in FullPool(r)}

LEMMA StartIsBacked ==
  ASSUME SyncInv, NEW r \in Resources, NEW mode \in Modes
  PROVE  LET start == StartOf(r, mode) IN
           /\ start \in Cursors
           /\ Below(start) \subseteq Known(r)
           /\ mode = "full" \/ ~Completed(r) =>
                Below(start) \subseteq ReadBefore(r, start)
           /\ ReadBefore(r, start) \in SUBSET Changes
<1> DEFINE start == StartOf(r, mode)
           Good == /\ start \in Cursors /\ Below(start) \subseteq Known(r)
                   /\ mode = "full" \/ ~Completed(r) =>
                        Below(start) \subseteq ReadBefore(r, start)
<1>1. ASSUME mode = "full" PROVE Good
  <2>1. start = FullResume(r)
    BY <1>1 DEF StartOf
  <2>2. start = 0 => Below(start) = {}
    BY NothingBelowZero
  <2> HIDE DEF start
  <2> QED
    BY <1>1, <2>1, <2>2, ResumeIsBacked DEF ReadBefore
<1>2. ASSUME mode # "full" PROVE Good
  <2>1. start = checkpoint[r].cursor
    BY <1>2 DEF StartOf
  <2>2. start \in Cursors
    BY <2>1 DEF SyncInv, SyncTypeOK, Checkpoints
  <2>3. CheckpointIsBacked(r) /\ (start = 0 => Below(start) = {})
    BY NothingBelowZero DEF SyncInv
  <2> HIDE DEF start
  <2>4. ~Completed(r) => Below(start) \subseteq ReadBefore(r, start)
    BY <2>1, <2>3, PoolOfIncomplete DEF CheckpointIsBacked, ReadBefore
  <2> QED
    BY <1>2, <2>1, <2>2, <2>3, <2>4 DEF CheckpointIsBacked, Known
<1>3. ReadBefore(r, start) \in SUBSET Changes
  <2>1. \A i \in DOMAIN runs : covered[i] \in SUBSET Changes
    BY DEF SyncInv, SyncTypeOK, Histories
  <2>2. FullPool(r) \subseteq DOMAIN runs
    BY DEF FullPool, RunsOf
  <2> HIDE DEF start
  <2> QED
    BY <2>1, <2>2 DEF ReadBefore
<1> QED
  BY <1>1, <1>2, <1>3

LEMMA BeginRunKeeps ==
  ASSUME SyncInv, NEW w \in Workers, BeginRun(w)
  PROVE  SyncInv'
<1>0. PICK n \in Nat : Len(runs) = n
  BY DEF SyncInv, SyncTypeOK
<1> DEFINE r == Head(task[w].todo)
           mode == ModeOf(w)
           start == StartOf(r, mode)
           closed == [i \in DOMAIN runs |->
                       IF i \in RunsOf(r) /\ runs[i].status = "running"
                         THEN [runs[i] EXCEPT !.status = "interrupted"]
                         ELSE runs[i]]
           row == [job |-> lease[w].job, resource |-> r, mode |-> mode,
                   status |-> "running", before |-> start, after |-> 0]
           t == [task[w] EXCEPT !.pc = "check", !.run = n + 1,
                                !.cursor = BackBy(start), !.pages = 0]
<1>1. /\ ~Idle(w) /\ task[w].pc = "begin" /\ n < MaxRuns
      /\ UNCHANGED <<queueVars, head, mirror, quarantined, outages>>
      /\ runs' = Append(closed, row)
      /\ covered' = Append(covered, ReadBefore(r, start))
      /\ checkpoint' = [checkpoint EXCEPT ![r].status = "running"]
  BY <1>0 DEF BeginRun, Held, AtPc, LeaseAlive, StartOf, ReadBefore
<1>2. /\ task \in [Workers -> Tasks] /\ runs \in Seq(Runs) /\ covered \in Seq(SUBSET Changes)
      /\ checkpoint \in [Resources -> Checkpoints] /\ QueueInv /\ QueueTypeOK
      /\ n \in Nat /\ Len(covered) = n /\ DOMAIN runs = 1..n
  BY <1>0 DEF SyncInv, SyncTypeOK, Histories, QueueInv
<1>3. task' = [task EXCEPT ![w] = t]
  BY <1>0, <1>2 DEF BeginRun, StartOf
<1>4. r \in Resources
  <2>1. task[w].todo \in Seq(Resources) /\ task[w].todo # <<>>
    BY <1>1, <1>2 DEF Tasks, SyncInv, TaskIsGood, TaskHasItsRun
  <2> QED
    BY <2>1
<1>5. lease[w].job \in Jobs /\ mode \in Modes
  <2>1. lease[w].job \in Jobs
    BY <1>1, <1>2 DEF QueueInv, FreshTokens
  <2>2. job[lease[w].job].key \in Keys
    BY <1>2, <2>1 DEF QueueTypeOK, JobRows
  <2> QED
    BY <2>1, <2>2, PlanTyped DEF ModeOf
<1>6. /\ start \in Cursors /\ Below(start) \subseteq Known(r)
      /\ mode = "full" \/ ~Completed(r) => Below(start) \subseteq ReadBefore(r, start)
      /\ ReadBefore(r, start) \in SUBSET Changes
  BY <1>4, <1>5, StartIsBacked
<1> HIDE DEF mode, start, r
<1>7. row \in Runs
  BY <1>4, <1>5, <1>6, NoTaskTyped DEF Runs, RunStatuses
<1>8. ASSUME NEW i \in 1..n
      PROVE  /\ closed[i] \in Runs
             /\ closed[i].job = runs[i].job /\ closed[i].resource = runs[i].resource
             /\ closed[i].mode = runs[i].mode
             /\ closed[i].before = runs[i].before /\ closed[i].after = runs[i].after
             /\ closed[i].status = "success" <=> runs[i].status = "success"
             /\ runs[i].status \in {"running", "interrupted"} =>
                  closed[i].status \in {"running", "interrupted"}
  <2>1. runs[i] \in Runs
    BY <1>2
  <2>2. "interrupted" \in RunStatuses
    BY DEF RunStatuses, EndStatuses, Failing
  <2> QED
    BY <1>2, <2>1, <2>2 DEF Runs
<1>9. closed \in Seq(Runs) /\ Len(closed) = n
  BY <1>2, <1>8
<1> HIDE DEF closed, row
<1>10. /\ runs' \in Seq(Runs) /\ Len(runs') = n + 1 /\ DOMAIN runs' = 1..(n+1)
       /\ \A i \in 1..n : runs'[i] = closed[i]
       /\ runs'[n+1] = row
  BY <1>1, <1>2, <1>7, <1>9
<1>11. /\ covered' \in Seq(SUBSET Changes) /\ Len(covered') = n + 1
       /\ \A i \in 1..n : covered'[i] = covered[i]
       /\ covered'[n+1] = ReadBefore(r, start)
  BY <1>1, <1>2, <1>6
<1>12. /\ row.resource = r /\ row.mode = mode /\ row.status = "running"
       /\ row.before = start /\ row.after = 0
  BY DEF row
<1>13. ASSUME NEW q
       PROVE  /\ RunsOf(q)' = RunsOf(q) \cup (IF q = r THEN {n+1} ELSE {})
              /\ Completed(q)' <=> Completed(q)
  <2>1. RunsOf(q)' = RunsOf(q) \cup (IF q = r THEN {n+1} ELSE {})
    BY <1>2, <1>8, <1>10, <1>12 DEF RunsOf
  <2>2. RunsOf(q) \subseteq 1..n
    BY <1>2 DEF RunsOf
  <2>3. \A i \in RunsOf(q) : runs'[i].status = "success" <=> runs[i].status = "success"
    BY <1>8, <1>10, <2>2
  <2>4. runs'[n+1].status # "success"
    BY <1>10, <1>12
  <2>5. Completed(q)' <=> \E i \in RunsOf(q)' : runs'[i].status = "success"
    BY DEF Completed
  <2>6. Completed(q)' <=> \E i \in RunsOf(q) : runs'[i].status = "success"
    BY <2>1, <2>4, <2>5
  <2> QED
    BY <2>1, <2>3, <2>6 DEF Completed
<1>14. \A i \in 1..n : Counts(i)' <=> Counts(i)
  BY <1>8, <1>10, <1>13 DEF Counts
<1>15. Counts(n+1)' <=> (mode = "full" \/ ~Completed(r))
  BY <1>10, <1>12, <1>13 DEF Counts
<1>16. \A q \in Resources : Known(q)' = Known(q) /\ checkpoint'[q].cursor = checkpoint[q].cursor
  BY <1>1, <1>2 DEF Known, Checkpoints
<1>17. t \in Tasks /\ t.pc = "check" /\ t.run = n + 1 /\ t.todo = task[w].todo
         /\ t.cursor = BackBy(start) /\ t.pages = 0
  <2>1. n + 1 \in 0..MaxRuns /\ 0 \in 0..MaxPages /\ "check" \in Pcs
    BY <1>1, <1>2, SyncConstants DEF Pcs
  <2>2. BackBy(start) \in Cursors
    BY <1>6, BackByTyped
  <2>3. task[w] \in Tasks
    BY <1>2
  <2> QED
    BY <2>1, <2>2, <2>3 DEF Tasks
<1> HIDE DEF t
<1>18. task' \in [Workers -> Tasks] /\ task'[w] = t
         /\ \A v \in Workers \ {w} : task'[v] = task[v]
  BY <1>2, <1>3, <1>17
<1>19. SyncTypeOK' /\ Histories' /\ QueueInv'
  <2>1. QueueInv'
    BY <1>1, QueueInvInductive DEF SyncInv
  <2>2. checkpoint' \in [Resources -> Checkpoints]
    BY <1>1, <1>2 DEF Checkpoints, RunStatuses
  <2>3. Histories'
    BY <1>1, <1>2, <1>10, <1>11, SyncConstants DEF Histories
  <2> QED
    BY <1>1, <1>10, <1>11, <1>18, <2>1, <2>2, <2>3 DEF SyncInv, SyncTypeOK, QueueInv
<1>20. OwnRuns'
  <2>1. \A v \in Workers \ {w} : task'[v].pc \in RunPcs => task'[v].run \in 1..n
    BY <1>2, <1>18 DEF SyncInv, TaskIsGood, TaskHasItsRun
  <2>2. ~(n + 1 \in 1..n)
    BY <1>2
  <2> QED
    BY <1>17, <1>18, <2>1, <2>2 DEF SyncInv, OwnRuns
<1>21. \A i \in DOMAIN runs' : RunIsBacked(i)'
  <2>1. ASSUME NEW i \in 1..n PROVE RunIsBacked(i)'
    <3>0. runs[i] \in Runs
      BY <1>2
    <3>1. RunIsBacked(i) /\ runs[i].resource \in Resources
      BY <1>2, <3>0 DEF SyncInv, Runs
    <3> QED
      BY <1>8, <1>10, <1>11, <1>14, <1>16, <3>1 DEF RunIsBacked
  <2>2. RunIsBacked(n+1)'
    BY <1>4, <1>6, <1>10, <1>11, <1>12, <1>15, <1>16, NothingBelowZero DEF RunIsBacked
  <2> QED
    BY <1>2, <1>10, <2>1, <2>2
<1>22. \A q \in Resources : CheckpointIsBacked(q)'
  <2> SUFFICES ASSUME NEW q \in Resources PROVE CheckpointIsBacked(q)'
    OBVIOUS
  <2>1. CheckpointIsBacked(q) /\ RunsOf(q) \subseteq 1..n
    BY <1>2 DEF SyncInv, RunsOf
  <2>2. UNION {covered[i] : i \in RunsOf(q)} \subseteq UNION {covered'[i] : i \in RunsOf(q)'}
    BY <1>11, <1>13, <2>1
  <2> QED
    BY <1>1, <1>13, <1>16, <2>1, <2>2 DEF CheckpointIsBacked
<1>23. \A v \in Workers : TaskIsGood(v)'
  <2>1. ASSUME NEW v \in Workers, v # w PROVE TaskIsGood(v)'
    <3>1. TaskIsGood(v) /\ task'[v] = task[v]
      BY <1>18, <2>1 DEF SyncInv
    <3>2. task[v].pc \in RunPcs => task[v].run \in 1..n /\ runs[task[v].run].resource \in Resources
      <4>1. \A i \in 1..n : runs[i] \in Runs
        BY <1>2
      <4> QED
        BY <1>2, <3>1, <4>1 DEF TaskIsGood, TaskHasItsRun, Runs
    <3>3. TaskHasItsRun(v)'
      BY <1>8, <1>10, <3>1, <3>2 DEF TaskIsGood, TaskHasItsRun
    <3>4. TaskIsBacked(v)' /\ SuccessReached(v)'
      BY <1>8, <1>10, <1>11, <1>14, <1>16, <3>1, <3>2
         DEF TaskIsGood, TaskIsBacked, SuccessReached, RunPcs
    <3>5. PageIsNext(v)'
      BY <3>1 DEF TaskIsGood, PageIsNext
    <3> QED
      BY <3>3, <3>4, <3>5 DEF TaskIsGood
  <2>2. TaskIsGood(w)'
    <3>1. TaskHasItsRun(w)'
      <4>1. task[w].todo # <<>>
        BY <1>1 DEF SyncInv, TaskIsGood, TaskHasItsRun
      <4> QED
        BY <1>10, <1>12, <1>17, <1>18, <1>2, <4>1, SyncConstants DEF TaskHasItsRun, r, RunPcs
    <3>2. Below(BackBy(start)) \subseteq Below(start)
      BY <1>6, BackByTyped, CursorsBounded DEF Below
    <3>3. TaskIsBacked(w)'
      BY <1>4, <1>6, <1>10, <1>11, <1>12, <1>15, <1>16, <1>17, <1>18, <3>2 DEF TaskIsBacked
    <3>4. PageIsNext(w)' /\ SuccessReached(w)'
      BY <1>17, <1>18 DEF PageIsNext, SuccessReached
    <3> QED
      BY <3>1, <3>3, <3>4 DEF TaskIsGood
  <2> QED
    BY <2>1, <2>2
<1>24. \A v \in Workers : PlanIsKnown(v)'
  <2>1. JobsStay /\ \A v \in Workers : lease'[v] = lease[v] /\ task'[v].todo = task[v].todo
    BY <1>1, <1>17, <1>18 DEF queueVars, JobsStay
  <2> QED
    BY <1>2, <2>1, PlanStaysKnown DEF SyncInv
<1> QED
  BY <1>19, <1>20, <1>21, <1>22, <1>23, <1>24 DEF SyncInv

-----------------------------------------------------------------------------
(* A page is stored                                                        *)

(* The page closes the gap between the cursor and its last instant; the    *)
(* last page reaches what the origin showed.                               *)
LEMMA PageCloses ==
  ASSUME NEW page \in SUBSET Changes, page # {}, NEW c \in Cursors,
         \A m \in page, p \in Changes : p <= m /\ At[p] >= c => p \in page
  PROVE  /\ Below(PageCursor(page)) \subseteq Below(c) \cup page
         /\ \A n \in 0..Last : (\A p \in 1..n : At[p] >= c => p \in page)
              => 1..n \subseteq Below(c) \cup page
<1>1. PICK m \in page : PageCursor(page) = At[m]
  BY PageCursorTyped DEF PageCursor
<1>2. /\ c \in Nat /\ Changes \subseteq Nat
      /\ \A p \in Changes : At[p] \in Nat
      /\ \A p, q \in Changes : p < q => At[p] <= At[q]
  BY CursorsBounded, InstantsGrow, SyncConstants DEF Changes
<1>3. ASSUME NEW p \in Changes, At[p] < At[m] PROVE p \in Below(c) \cup page
  <2>1. p <= m
    BY <1>2, <1>3
  <2> QED
    BY <1>2, <2>1 DEF Below
<1>4. \A n \in 0..Last : 1..n \subseteq Changes
  BY SyncConstants DEF Changes
<1>5. ASSUME NEW n \in 0..Last, \A p \in 1..n : At[p] >= c => p \in page,
             NEW p \in 1..n
      PROVE  p \in Below(c) \cup page
  BY <1>2, <1>4, <1>5 DEF Below
<1>6. Below(At[m]) \subseteq Below(c) \cup page
  BY <1>3 DEF Below
<1> QED
  BY <1>1, <1>5, <1>6

LEMMA NextStatusTyped ==
  ASSUME NEW w \in Workers, task[w] \in Tasks, NEW slice \in BOOLEAN
  PROVE  /\ NextStatus(w, slice) \in {"success", "continuing", "failed", "partial", "none"}
         /\ NextStatus(w, slice) = "success" => ~task[w].more
         /\ NextStatus(w, slice) = "none" => task[w].pages + 1 # MaxPages
<1>1. task[w].more \in BOOLEAN
  BY DEF Tasks
<1> QED
  BY <1>1 DEF NextStatus

LEMMA PersistPageKeeps ==
  ASSUME SyncInv, NEW w \in Workers, NEW bad \in SUBSET Fragile, NEW slice \in BOOLEAN,
         PersistPage(w, bad, slice)
  PROVE  SyncInv'
<1>0. PICK t \in Tasks, g \in Nat, r \in Resources :
        t = task[w] /\ g = t.run /\ r = Head(t.todo)
  <2>1. task[w] \in Tasks /\ task[w].pc = "persist"
    BY DEF SyncInv, SyncTypeOK, PersistPage, Held, AtPc
  <2>2. task[w].todo \in Seq(Resources) /\ task[w].todo # <<>> /\ task[w].run \in Nat
    BY <2>1, SyncConstants DEF Tasks, SyncInv, TaskIsGood, TaskHasItsRun, RunPcs
  <2>3. Head(task[w].todo) \in Resources
    BY <2>2
  <2> QED
    BY <2>1, <2>2, <2>3
<1>1. PICK n \in Nat : Len(runs) = n
  BY DEF SyncInv, SyncTypeOK
<1> DEFINE page == t.page
           c == t.cursor
           next == PageCursor(page)
           status == NextStatus(w, slice)
           pend == Pending(r, page, bad)
           advance == (pend = {})
           new == [t EXCEPT !.pc = IF status = "none" THEN "check" ELSE "end",
                            !.status = status, !.cursor = next,
                            !.pages = t.pages + 1, !.page = {}]
<1>2. /\ task \in [Workers -> Tasks] /\ runs \in Seq(Runs) /\ covered \in Seq(SUBSET Changes)
      /\ checkpoint \in [Resources -> Checkpoints] /\ QueueInv
      /\ mirror \in [Resources -> SUBSET Changes]
      /\ quarantined \in [Resources -> SUBSET Changes]
      /\ Len(covered) = n /\ DOMAIN runs = 1..n
  BY <1>1 DEF SyncInv, SyncTypeOK, Histories
<1>3. /\ t.pc = "persist" /\ bad \subseteq page
      /\ UNCHANGED <<queueVars, head, outages>>
      /\ mirror' = [mirror EXCEPT ![r] = mirror[r] \cup (page \ bad)]
      /\ quarantined' = [quarantined EXCEPT ![r] = pend]
      /\ checkpoint' = [checkpoint EXCEPT ![r].cursor = NextCheckpoint(r, next, advance)]
      /\ runs' = [runs EXCEPT ![g].after = IF advance THEN next ELSE runs[g].after]
      /\ covered' = [covered EXCEPT ![g] = covered[g] \cup page]
      /\ task' = [task EXCEPT ![w] = new]
  BY <1>0, <1>2 DEF PersistPage, Held, AtPc
<1>4. /\ g \in 1..n /\ runs[g].resource = r /\ runs[g].status \in {"running", "interrupted"}
      /\ t.pages < MaxPages /\ t.todo # <<>>
      /\ Below(c) \subseteq Known(r) /\ (Counts(g) => Below(c) \subseteq covered[g])
      /\ page # {}
      /\ \A m \in page, p \in Changes : p <= m /\ At[p] >= c => p \in page
      /\ ~t.more => \A p \in 1..t.upto : At[p] >= c => p \in page
  <2>1. TaskHasItsRun(w) /\ TaskIsBacked(w) /\ PageIsNext(w)
    BY DEF SyncInv, TaskIsGood
  <2> QED
    BY <1>0, <1>2, <1>3, <2>1 DEF TaskHasItsRun, TaskIsBacked, PageIsNext, RunPcs
<1>5. /\ page \in SUBSET Changes /\ c \in Cursors /\ t.upto \in 0..Last /\ next \in Cursors
      /\ t.pages \in Nat /\ t.todo \in Seq(Resources)
  <2>1. page \in SUBSET Changes /\ c \in Cursors /\ t.upto \in 0..Last
          /\ t.pages \in Nat /\ t.todo \in Seq(Resources)
    BY SyncConstants DEF Tasks
  <2> QED
    BY <1>4, <2>1, PageCursorTyped
<1>6. /\ Below(next) \subseteq Below(c) \cup page
      /\ ~t.more => 1..t.upto \subseteq Below(c) \cup page
  <2>1. \A k \in 0..Last : (\A p \in 1..k : At[p] >= c => p \in page)
                              => 1..k \subseteq Below(c) \cup page
    BY <1>4, <1>5, PageCloses
  <2> QED
    BY <1>4, <1>5, <2>1, PageCloses
<1>7. /\ status \in {"success", "continuing", "failed", "partial", "none"}
      /\ status = "success" => ~t.more
      /\ status = "none" => t.pages + 1 < MaxPages
  <2>1. task[w] \in Tasks
    BY <1>2
  <2>2. /\ status \in {"success", "continuing", "failed", "partial", "none"}
        /\ status = "success" => ~task[w].more
        /\ status = "none" => task[w].pages + 1 # MaxPages
    BY <2>1, NextStatusTyped
  <2> HIDE DEF status
  <2> QED
    BY <1>0, <1>4, <1>5, <2>2, SyncConstants
<1> HIDE DEF next, status
<1>8. pend \in SUBSET Changes /\ bad \subseteq pend /\ quarantined[r] \subseteq pend \cup page
  BY <1>2, <1>3, <1>5 DEF Pending
<1> HIDE DEF pend, page, c
<1>9. ASSUME NEW q \in Resources
      PROVE  /\ Known(q) \subseteq Known(q)' /\ mirror[q] \subseteq mirror'[q]
             /\ q = r => page \subseteq Known(q)'
             /\ q = r /\ advance => Known(q)' \subseteq mirror'[q]
             /\ q # r => mirror'[q] = mirror[q] /\ checkpoint'[q] = checkpoint[q]
  BY <1>2, <1>3, <1>8 DEF Known
<1> HIDE DEF advance
<1>10. ASSUME NEW i \in 1..n
       PROVE  /\ runs'[i] \in Runs
              /\ runs'[i].resource = runs[i].resource /\ runs'[i].mode = runs[i].mode
              /\ runs'[i].status = runs[i].status /\ runs'[i].before = runs[i].before
              /\ \/ runs'[i].after = runs[i].after
                 \/ i = g /\ advance /\ runs'[i].after = next
  <2>1. runs[i] \in Runs /\ runs[g] \in Runs
    BY <1>2, <1>4
  <2> QED
    BY <1>2, <1>3, <1>5, <2>1 DEF Runs
<1>11. runs' \in Seq(Runs) /\ Len(runs') = n /\ DOMAIN runs' = 1..n
  <2>1. runs' = [i \in 1..n |-> runs'[i]]
    BY <1>2, <1>3
  <2> QED
    BY <1>10, <2>1
<1>12. /\ covered' \in Seq(SUBSET Changes) /\ Len(covered') = n
       /\ \A i \in 1..n : covered[i] \subseteq covered'[i]
       /\ covered'[g] = covered[g] \cup page
  BY <1>2, <1>3, <1>4, <1>5 DEF page
<1>13. ASSUME NEW q
       PROVE  RunsOf(q)' = RunsOf(q) /\ (Completed(q)' <=> Completed(q))
  BY <1>2, <1>10, <1>11 DEF RunsOf, Completed
<1>14. \A i \in 1..n : Counts(i)' <=> Counts(i)
  BY <1>10, <1>13 DEF Counts
<1>15. \/ checkpoint'[r].cursor = checkpoint[r].cursor
       \/ advance /\ checkpoint'[r].cursor = next
  BY <1>2, <1>3 DEF NextCheckpoint, Checkpoints
<1>16. /\ new \in Tasks /\ new.run = g /\ new.todo = t.todo
       /\ new.cursor = next /\ new.pages = t.pages + 1 /\ new.status = status
       /\ new.pc = (IF status = "none" THEN "check" ELSE "end")
       /\ new.upto = t.upto
  <2>1. /\ status \in EndStatuses \cup {"none", "busy"} /\ t.pages + 1 \in 0..MaxPages
        /\ {"check", "end"} \subseteq Pcs /\ {} \in SUBSET Changes
    BY <1>4, <1>5, <1>7, SyncConstants DEF EndStatuses, Failing, Pcs
  <2> QED
    BY <1>0, <1>5, <2>1 DEF Tasks
<1> HIDE DEF new
<1>17. task' \in [Workers -> Tasks] /\ task'[w] = new
         /\ \A v \in Workers \ {w} : task'[v] = task[v]
  BY <1>2, <1>3, <1>16
<1>18. SyncTypeOK' /\ Histories' /\ QueueInv'
  <2>1. QueueInv'
    BY <1>3, QueueInvInductive DEF SyncInv
  <2>2. checkpoint' \in [Resources -> Checkpoints]
    <3>1. NextCheckpoint(r, next, advance) \in Cursors /\ checkpoint[r] \in Checkpoints
      BY <1>2, <1>5 DEF NextCheckpoint, Checkpoints
    <3> HIDE DEF next
    <3> QED
      BY <1>2, <1>3, <3>1 DEF Checkpoints
  <2>3. /\ mirror' \in [Resources -> SUBSET Changes]
        /\ quarantined' \in [Resources -> SUBSET Changes]
    BY <1>2, <1>3, <1>5, <1>8
  <2>4. Histories'
    BY <1>1, <1>11, <1>12 DEF Histories, SyncInv
  <2> QED
    BY <1>3, <1>11, <1>12, <1>17, <2>1, <2>2, <2>3, <2>4 DEF SyncInv, SyncTypeOK, QueueInv
<1>19. OwnRuns'
  BY <1>0, <1>3, <1>16, <1>17 DEF SyncInv, OwnRuns, RunPcs
<1>20. Below(next) \subseteq Known(r)' /\ (Counts(g) => Below(next) \subseteq covered'[g])
  BY <1>4, <1>6, <1>9, <1>12
<1>21. \A i \in DOMAIN runs' : RunIsBacked(i)'
  <2> SUFFICES ASSUME NEW i \in 1..n PROVE RunIsBacked(i)'
    BY <1>11
  <2>1. RunIsBacked(i) /\ runs[i].resource \in Resources
    <3>1. runs[i] \in Runs
      BY <1>2
    <3> QED
      BY <1>2, <3>1 DEF SyncInv, Runs
  <2>2. Known(runs[i].resource) \subseteq Known(runs[i].resource)'
    <3>1. \A q \in Resources : Known(q) \subseteq Known(q)'
      BY <1>9
    <3>2. PICK q \in Resources : q = runs[i].resource
      BY <2>1
    <3> QED
      BY <1>10, <3>1, <3>2 DEF Known
  <2> QED
    BY <1>4, <1>10, <1>12, <1>14, <1>20, <2>1, <2>2 DEF RunIsBacked
<1>22. \A q \in Resources : CheckpointIsBacked(q)'
  <2> SUFFICES ASSUME NEW q \in Resources PROVE CheckpointIsBacked(q)'
    OBVIOUS
  <2>1. CheckpointIsBacked(q) /\ RunsOf(q) \subseteq 1..n
    BY <1>2 DEF SyncInv, RunsOf
  <2>2. UNION {covered[i] : i \in RunsOf(q)} \subseteq UNION {covered'[i] : i \in RunsOf(q)'}
    BY <1>12, <1>13, <2>1
  <2>3. CASE checkpoint'[q].cursor = checkpoint[q].cursor
    BY <1>9, <1>13, <2>1, <2>2, <2>3 DEF CheckpointIsBacked
  <2>4. CASE q = r /\ advance /\ checkpoint'[r].cursor = next
    <3>1. Below(next) \subseteq mirror'[r]
      BY <1>9, <1>20, <2>4
    <3>2. ~Completed(r) => Counts(g) /\ g \in RunsOf(r)
      BY <1>2, <1>4 DEF Counts, RunsOf
    <3> QED
      BY <1>13, <1>20, <2>4, <3>1, <3>2 DEF CheckpointIsBacked
  <2> QED
    BY <1>9, <1>15, <2>3, <2>4
<1>23. ASSUME NEW v \in Workers, v # w PROVE TaskIsGood(v)'
  <2>1. TaskIsGood(v) /\ task'[v] = task[v]
    BY <1>17, <1>23 DEF SyncInv
  <2>2. PICK i \in Nat : i = task[v].run
    BY <1>2, SyncConstants DEF Tasks
  <2>3. task[v].pc \in RunPcs =>
          /\ i \in 1..n /\ runs[i].resource \in Resources
          /\ Known(runs[i].resource) \subseteq Known(runs[i].resource)'
    <3> SUFFICES ASSUME task[v].pc \in RunPcs
                 PROVE  /\ i \in 1..n /\ runs[i].resource \in Resources
                        /\ Known(runs[i].resource) \subseteq Known(runs[i].resource)'
      OBVIOUS
    <3>1. i \in 1..n
      BY <1>2, <2>1, <2>2 DEF TaskIsGood, TaskHasItsRun
    <3>2. runs[i] \in Runs
      BY <1>2, <3>1
    <3>3. PICK q \in Resources : q = runs[i].resource
      BY <3>2 DEF Runs
    <3>4. Known(q) \subseteq Known(q)'
      BY <1>9
    <3> QED
      BY <1>10, <3>1, <3>3, <3>4 DEF Known
  <2>4. TaskHasItsRun(v)'
    BY <1>2, <1>10, <1>11, <2>1, <2>2, <2>3 DEF TaskIsGood, TaskHasItsRun
  <2>5. TaskIsBacked(v)' /\ SuccessReached(v)'
    BY <1>10, <1>12, <1>14, <2>1, <2>2, <2>3
       DEF TaskIsGood, TaskIsBacked, SuccessReached, RunPcs
  <2>6. PageIsNext(v)'
    BY <2>1 DEF TaskIsGood, PageIsNext
  <2> QED
    BY <2>4, <2>5, <2>6 DEF TaskIsGood
<1>24. TaskIsGood(w)'
  <2>1. TaskHasItsRun(w)'
    BY <1>4, <1>5, <1>7, <1>10, <1>11, <1>16, <1>17, <1>0
       DEF TaskHasItsRun, RunPcs, EndStatuses, Failing
  <2>2. TaskIsBacked(w)'
    BY <1>4, <1>10, <1>14, <1>16, <1>17, <1>20 DEF TaskIsBacked, Known
  <2>3. PageIsNext(w)'
    BY <1>16, <1>17 DEF PageIsNext
  <2>4. SuccessReached(w)'
    <3>1. status = "success" => /\ 1..t.upto \subseteq Known(r)'
                                /\ Counts(g) => 1..t.upto \subseteq covered'[g]
      BY <1>4, <1>6, <1>7, <1>9, <1>12
    <3> QED
      BY <1>4, <1>10, <1>14, <1>16, <1>17, <3>1 DEF SuccessReached, Known
  <2> QED
    BY <2>1, <2>2, <2>3, <2>4 DEF TaskIsGood
<1>25. \A v \in Workers : PlanIsKnown(v)'
  <2>1. JobsStay /\ \A v \in Workers : lease'[v] = lease[v] /\ task'[v].todo = task[v].todo
    BY <1>0, <1>3, <1>16, <1>17 DEF queueVars, JobsStay
  <2> QED
    BY <1>2, <2>1, PlanStaysKnown DEF SyncInv
<1> QED
  BY <1>18, <1>19, <1>21, <1>22, <1>23, <1>24, <1>25 DEF SyncInv

-----------------------------------------------------------------------------
(* A run ends                                                              *)

LEMMA TailOf ==
  ASSUME NEW T, NEW s \in Seq(T), s # <<>>, Len(s) # 1
  PROVE  /\ Tail(s) \in Seq(T) /\ Tail(s) # <<>>
         /\ \A i \in DOMAIN Tail(s) : i + 1 \in DOMAIN s /\ Tail(s)[i] = s[i+1]
<1>1. Len(s) \in Nat /\ Len(s) # 0 /\ Len(s) # 1 /\ DOMAIN s = 1..Len(s)
  OBVIOUS
<1>2. PICK t : t = Tail(s)
  OBVIOUS
<1>3. /\ t \in Seq(T) /\ Len(t) = Len(s) - 1 /\ DOMAIN t = 1..Len(t)
      /\ \A i \in 1..Len(t) : t[i] = s[i+1]
  BY <1>1, <1>2
<1>4. t # <<>>
  <2>1. Len(t) # 0
    BY <1>1, <1>3
  <2>2. Len(<<>>) = 0
    OBVIOUS
  <2> QED
    BY <2>1, <2>2
<1>5. \A i \in DOMAIN t : i + 1 \in DOMAIN s
  BY <1>1, <1>3
<1> QED
  BY <1>2, <1>3, <1>4, <1>5

LEMMA EndRunKeeps ==
  ASSUME SyncInv, NEW w \in Workers, EndRun(w)
  PROVE  SyncInv'
<1>0. PICK t \in Tasks, g \in Nat, r \in Resources :
        t = task[w] /\ g = t.run /\ r = Head(t.todo)
  <2>1. task[w] \in Tasks /\ task[w].pc = "end"
    BY DEF SyncInv, SyncTypeOK, EndRun, Held, AtPc
  <2>2. task[w].todo \in Seq(Resources) /\ task[w].todo # <<>> /\ task[w].run \in Nat
    BY <2>1, SyncConstants DEF Tasks, SyncInv, TaskIsGood, TaskHasItsRun, RunPcs
  <2>3. Head(task[w].todo) \in Resources
    BY <2>2
  <2> QED
    BY <2>1, <2>2, <2>3
<1>1. PICK n \in Nat : Len(runs) = n
  BY DEF SyncInv, SyncTypeOK
<1> DEFINE stop == t.status \in StopsTheJob \/ Len(t.todo) = 1
           left == IF stop THEN <<>> ELSE Tail(t.todo)
           next == IF t.status = "continuing" THEN ContinueWith(w) ELSE {}
           new == [NoTask EXCEPT !.pc = IF stop THEN "close" ELSE "begin",
                                 !.todo = left, !.status = t.status,
                                 !.results = t.results \cup {t.status},
                                 !.continue = next, !.from = t.from]
<1>2. /\ task \in [Workers -> Tasks] /\ runs \in Seq(Runs) /\ covered \in Seq(SUBSET Changes)
      /\ checkpoint \in [Resources -> Checkpoints] /\ QueueInv
      /\ Len(covered) = n /\ DOMAIN runs = 1..n
  BY <1>1 DEF SyncInv, SyncTypeOK, Histories
<1>3. /\ t.pc = "end" /\ ~Idle(w)
      /\ UNCHANGED <<queueVars, head, mirror, quarantined, covered, outages>>
      /\ runs' = [runs EXCEPT ![g].status = t.status]
      /\ checkpoint' = [checkpoint EXCEPT ![r].status = t.status]
      /\ task' = [task EXCEPT ![w] = new]
  BY <1>0, <1>2 DEF EndRun, Held, AtPc, LeaseAlive
<1>4. /\ g \in 1..n /\ runs[g].status \in {"running", "interrupted"}
      /\ t.status \in EndStatuses /\ t.todo \in Seq(Resources) /\ t.todo # <<>>
  <2>1. TaskHasItsRun(w)
    BY DEF SyncInv, TaskIsGood
  <2> QED
    BY <1>0, <1>2, <1>3, <2>1 DEF TaskHasItsRun, RunPcs, Tasks
<1>5. ASSUME NEW i \in 1..n
      PROVE  /\ runs'[i] \in Runs
             /\ runs'[i].resource = runs[i].resource /\ runs'[i].mode = runs[i].mode
             /\ runs'[i].before = runs[i].before /\ runs'[i].after = runs[i].after
             /\ runs[i].status = "success" => runs'[i].status = "success"
             /\ i # g => runs'[i].status = runs[i].status
  <2>1. runs[i] \in Runs /\ runs[g] \in Runs /\ t.status \in RunStatuses
    BY <1>2, <1>4 DEF RunStatuses
  <2> QED
    BY <1>2, <1>3, <1>4, <2>1 DEF Runs
<1>6. runs' \in Seq(Runs) /\ Len(runs') = n /\ DOMAIN runs' = 1..n
  <2>1. runs' = [i \in 1..n |-> runs'[i]]
    BY <1>2, <1>3
  <2> QED
    BY <1>5, <2>1
<1>7. ASSUME NEW q
      PROVE  RunsOf(q)' = RunsOf(q) /\ (Completed(q) => Completed(q)')
  BY <1>2, <1>5, <1>6 DEF RunsOf, Completed
<1>8. \A i \in 1..n : Counts(i)' => Counts(i)
  BY <1>5, <1>7 DEF Counts
<1>9. /\ \A q \in Resources : checkpoint'[q].cursor = checkpoint[q].cursor
      /\ checkpoint' \in [Resources -> Checkpoints]
  BY <1>2, <1>3, <1>4 DEF Checkpoints, RunStatuses
<1>10. lease[w].job \in Jobs /\ next \in SUBSET Keys
  <2>1. lease[w].job \in Jobs
    BY <1>2, <1>3 DEF QueueInv, FreshTokens
  <2>2. \A i \in 1..Len(task[w].todo) : KeyOf(task[w].todo[i], ModeOf(w)) \in Keys
    BY <1>0, <1>3, <1>4 DEF SyncInv, PlanIsKnown
  <2> QED
    BY <2>1, <2>2 DEF ContinueWith
<1>11. /\ left \in Seq(Resources) /\ (~stop => left # <<>>)
       /\ \A i \in DOMAIN left : \E k \in DOMAIN t.todo : left[i] = t.todo[k]
  <2>1. CASE stop
    BY <2>1
  <2>2. CASE ~stop
    <3>1. left = Tail(t.todo) /\ Len(t.todo) # 1
      BY <2>2
    <3> HIDE DEF left
    <3> QED
      BY <1>4, <3>1, TailOf
  <2> QED
    BY <2>1, <2>2
<1> HIDE DEF stop, left, next
<1>12. new \in Tasks /\ OffRun(new) /\ new.todo = left
  <2>1. /\ t.results \cup {t.status} \in SUBSET (EndStatuses \cup {"busy"})
        /\ t.status \in EndStatuses \cup {"none", "busy"} /\ t.from \in Jobs \cup {0}
        /\ {"close", "begin"} \subseteq Pcs
    BY <1>4 DEF Tasks, Pcs
  <2>2. new \in Tasks
    BY <1>10, <1>11, <2>1, NoTaskTyped DEF Tasks, NoTask
  <2>3. new.todo = left /\ new.pc = (IF stop THEN "close" ELSE "begin")
    BY DEF NoTask
  <2> QED
    BY <1>11, <2>2, <2>3 DEF OffRun, RunPcs
<1> HIDE DEF new
<1>13. task' \in [Workers -> Tasks] /\ task'[w] = new
         /\ \A v \in Workers \ {w} : task'[v] = task[v]
  BY <1>2, <1>3, <1>12
<1>14. SyncTypeOK' /\ Histories' /\ QueueInv'
  <2>1. QueueInv'
    BY <1>3, QueueInvInductive DEF SyncInv
  <2> QED
    BY <1>1, <1>3, <1>6, <1>9, <1>13, <2>1 DEF SyncInv, SyncTypeOK, QueueInv, Histories
<1>15. OwnRuns'
  BY <1>12, <1>13 DEF SyncInv, OwnRuns, OffRun
<1>16. \A i \in DOMAIN runs' : RunIsBacked(i)'
  BY <1>2, <1>3, <1>5, <1>6, <1>8 DEF SyncInv, RunIsBacked, Known
<1>17. \A q \in Resources : CheckpointIsBacked(q)'
  <2> SUFFICES ASSUME NEW q \in Resources PROVE CheckpointIsBacked(q)'
    OBVIOUS
  <2>1. CheckpointIsBacked(q) /\ RunsOf(q)' = RunsOf(q) /\ covered' = covered
    BY <1>3, <1>7 DEF SyncInv
  <2> QED
    BY <1>3, <1>7, <1>9, <2>1 DEF CheckpointIsBacked
<1>18. ASSUME NEW v \in Workers, v # w PROVE TaskIsGood(v)'
  <2>1. TaskIsGood(v) /\ task'[v] = task[v]
    BY <1>13, <1>18 DEF SyncInv
  <2>2. task[v].pc \in RunPcs => task[v].run \in 1..n /\ task[v].run # g
    BY <1>0, <1>2, <1>3, <1>18, <2>1 DEF TaskIsGood, TaskHasItsRun, SyncInv, OwnRuns, RunPcs
  <2>3. TaskHasItsRun(v)'
    BY <1>2, <1>5, <1>6, <2>1, <2>2 DEF TaskIsGood, TaskHasItsRun
  <2>4. TaskIsBacked(v)' /\ SuccessReached(v)'
    BY <1>3, <1>5, <1>8, <2>1, <2>2
       DEF TaskIsGood, TaskIsBacked, SuccessReached, RunPcs, Known
  <2>5. PageIsNext(v)'
    BY <2>1 DEF TaskIsGood, PageIsNext
  <2> QED
    BY <2>3, <2>4, <2>5 DEF TaskIsGood
<1>19. TaskIsGood(w)'
  BY <1>12, <1>13 DEF OffRun, TaskIsGood, TaskHasItsRun, TaskIsBacked, PageIsNext,
                      SuccessReached, RunPcs
<1>20. \A v \in Workers : PlanIsKnown(v)'
  <2>1. JobsStay /\ \A v \in Workers : lease'[v] = lease[v]
    BY <1>3 DEF queueVars, JobsStay
  <2>2. \A v \in Workers : \A i \in DOMAIN task'[v].todo :
          \E k \in DOMAIN task[v].todo : task'[v].todo[i] = task[v].todo[k]
    BY <1>0, <1>11, <1>12, <1>13
  <2> QED
    BY <1>2, <2>1, <2>2, PlanStaysKnown DEF SyncInv
<1> QED
  BY <1>14, <1>15, <1>16, <1>17, <1>18, <1>19, <1>20 DEF SyncInv

LEMMA ChangeKeeps ==
  ASSUME SyncInv, Change
  PROVE  SyncInv'
<1>1. /\ UNCHANGED <<queueVars, task, stored, outages>>
      /\ head' \in 0..Last /\ outages' \in 0..MaxOutages
  BY SyncConstants DEF Change, SyncInv, SyncTypeOK, stored
<1>2. QueueInv' /\ JobsStay /\ \A v \in Workers : lease'[v] = lease[v]
  <2>1. QueueInv'
    BY <1>1, QueueInvInductive DEF SyncInv
  <2> QED
    BY <1>1, <2>1 DEF queueVars, JobsStay
<1>3. \A v \in Workers : PlanIsKnown(v)'
  BY <1>1, <1>2, PlanStaysKnown DEF SyncInv
<1>4. task' \in [Workers -> Tasks]
  BY <1>1 DEF SyncInv, SyncTypeOK
<1> QED
  BY <1>1, <1>2, <1>3, <1>4, QuietStep

-----------------------------------------------------------------------------
(* The theorems                                                            *)

LEMMA SyncInitHolds == SyncInit => SyncInv
<1> SUFFICES ASSUME SyncInit PROVE SyncInv
  OBVIOUS
<1>1. QueueInv
  BY InitHolds DEF SyncInit
<1>2. SyncTypeOK
  BY <1>1, NoTaskTyped, SyncConstants DEF SyncInit, SyncTypeOK, QueueInv, Checkpoints
<1>3. Histories
  BY SyncConstants DEF SyncInit, Histories
<1>4. \A w \in Workers : task[w] = NoTask /\ Idle(w)
  BY DEF SyncInit, QueueInit, Idle
<1>5. OwnRuns /\ \A w \in Workers : TaskIsGood(w) /\ PlanIsKnown(w)
  BY <1>4 DEF OwnRuns, TaskIsGood, TaskHasItsRun, TaskIsBacked, PageIsNext,
              SuccessReached, PlanIsKnown, NoTask, RunPcs
<1>6. DOMAIN runs = {}
  BY DEF SyncInit
<1>7. \A r \in Resources : CheckpointIsBacked(r)
  BY NothingBelowZero DEF SyncInit, CheckpointIsBacked
<1> QED
  BY <1>1, <1>2, <1>3, <1>5, <1>6, <1>7 DEF SyncInv

LEMMA SyncInvInductive ==
  ASSUME ContinuationsAreKeys
  PROVE  SyncInv /\ [SyncOrCrash]_syncVars => SyncInv'
<1> SUFFICES ASSUME SyncInv, [SyncOrCrash]_syncVars PROVE SyncInv'
  OBVIOUS
<1>0. QueueInv
  BY DEF SyncInv
<1>1. ASSUME NEW k \in Keys, Request(k) PROVE SyncInv'
  <2>1. QueueNext /\ UNCHANGED <<lease, task, dataVars>>
    BY <1>1 DEF Request, QueueNext, Enqueue
  <2> QED
    BY <2>1, QueueAloneKeeps
<1>2. ASSUME NEW w \in Workers, SyncStep(w) PROVE SyncInv'
  <2>1. CASE ReleaseExpired(w) /\ UNCHANGED <<task, dataVars>>
    <3>1. QueueNext /\ UNCHANGED lease
      BY <2>1 DEF QueueNext, WorkerStep, ReleaseExpired
    <3> QED
      BY <2>1, <3>1, QueueAloneKeeps
  <2>2. ASSUME NEW j \in Jobs, Take(w, j) PROVE SyncInv'
    BY <2>2, TakeKeeps
  <2>3. CASE LoseLease(w)
    BY <2>3, ForgetKeeps
  <2>4. CASE BeginBusy(w) \/ BeginRun(w)
    BY <2>4, BeginBusyKeeps, BeginRunKeeps
  <2>5. CASE Check(w) \/ Fetch(w)
    BY <2>5, CheckKeeps, FetchKeeps
  <2>6. ASSUME NEW status \in Outages, FetchFails(w, status) PROVE SyncInv'
    BY <2>6, FetchFailsKeeps
  <2>7. ASSUME NEW bad \in SUBSET Fragile, NEW slice \in BOOLEAN,
               PersistPage(w, bad, slice)
        PROVE  SyncInv'
    BY <2>7, PersistPageKeeps
  <2>8. CASE EndRun(w)
    BY <2>8, EndRunKeeps
  <2>9. CASE CloseJob(w) \/ Requeue(w)
    BY <2>9, CloseKeeps, RequeueKeeps
  <2> QED
    BY <1>2, <2>1, <2>2, <2>3, <2>4, <2>5, <2>6, <2>7, <2>8, <2>9 DEF SyncStep
<1>3. ASSUME NEW w \in Workers, Renew(w) PROVE SyncInv'
  <2>1. Heartbeat(w, lease[w].job) /\ UNCHANGED <<task, dataVars>>
    BY <1>3 DEF Renew
  <2>2. lease[w].job \in Jobs
    BY <1>0, <2>1 DEF Heartbeat, Owns, QueueInv, FreshTokens
  <2>3. QueueNext /\ UNCHANGED lease
    BY <2>1, <2>2 DEF QueueNext, Heartbeat
  <2> QED
    BY <2>1, <2>3, QueueAloneKeeps
<1>4. ASSUME NEW c \in Cancellers,
             CancelWrite(c) \/ \E j \in Jobs : CancelRead(c, j),
             UNCHANGED <<task, dataVars>>
      PROVE  SyncInv'
  <2>1. QueueNext /\ UNCHANGED lease
    BY <1>4 DEF QueueNext, CancelWrite, CancelRead
  <2> QED
    BY <1>4, <2>1, QueueAloneKeeps
<1>5. ASSUME NEW j \in Jobs, Passing(j) \/ Due(j) PROVE SyncInv'
  <2>1. QueueNext /\ UNCHANGED <<lease, task, dataVars>>
    BY <1>5 DEF Passing, Due, QueueNext, LeaseExpires, BecomesDue
  <2> QED
    BY <2>1, QueueAloneKeeps
<1>6. CASE Change
  BY <1>6, ChangeKeeps
<1>7. ASSUME NEW w \in Workers, Crash(w) PROVE SyncInv'
  BY <1>7, ForgetKeeps
<1>8. CASE UNCHANGED syncVars
  <2>1. QueueInv'
    BY <1>0, <1>8, QueueInvInductive DEF syncVars
  <2>2. /\ JobsStay /\ \A v \in Workers : lease'[v] = lease[v] /\ task'[v] = task[v]
        /\ UNCHANGED stored
        /\ head' \in 0..Last /\ outages' \in 0..MaxOutages
        /\ task' \in [Workers -> Tasks]
    BY <1>8 DEF syncVars, queueVars, dataVars, stored, JobsStay, SyncInv, SyncTypeOK
  <2>3. \A v \in Workers : PlanIsKnown(v)'
    BY <1>0, <2>2, PlanStaysKnown DEF SyncInv
  <2> QED
    BY <2>1, <2>2, <2>3, QuietStep
<1> QED
  BY <1>1, <1>2, <1>3, <1>4, <1>5, <1>6, <1>7, <1>8 DEF SyncOrCrash, SyncNext

LEMMA SyncInvHolds ==
  ASSUME ContinuationsAreKeys
  PROVE  CrashingSpec => []SyncInv
BY SyncInitHolds, SyncInvInductive, PTL DEF CrashingSpec

(* The runs without a crash of a worker are among those with one.          *)
LEMMA CrashesAllowed == SyncSpec => CrashingSpec
<1>1. [SyncNext]_syncVars => [SyncOrCrash]_syncVars
  BY DEF SyncOrCrash
<1> QED
  BY <1>1, PTL DEF SyncSpec, CrashingSpec

(* What a checkpoint says is true: nothing before it is missing from the   *)
(* mirror, a full load that ends in success read everything, and a success *)
(* leaves nothing out but the quarantine (engine.py:110-119, 249-267,      *)
(* 399-468); for any number of resources, changes, jobs and workers,       *)
(* whatever leases are lost and revived, and whoever dies.                 *)
THEOREM CheckpointsAreHonest ==
  ASSUME ContinuationsAreKeys
  PROVE  CrashingSpec => []CheckpointIsHonest
<1>1. SyncInv => CheckpointIsHonest
  <2> SUFFICES ASSUME SyncInv PROVE CheckpointIsHonest
    OBVIOUS
  <2>1. NoGap
    BY DEF SyncInv, CheckpointIsBacked, NoGap, Below
  <2>2. ASSUME NEW w \in Workers, task[w].pc = "end"
        PROVE  runs[task[w].run].resource = Head(task[w].todo) /\ SuccessReached(w)
    BY <2>2 DEF SyncInv, TaskIsGood, TaskHasItsRun, RunPcs
  <2>3. FullLoadIsComplete
    BY <2>2 DEF FullLoadIsComplete, SuccessReached, Counts
  <2>4. SuccessIsCurrent
    BY <2>2 DEF SuccessIsCurrent, SuccessReached, Known
  <2> QED
    BY <2>1, <2>3, <2>4 DEF CheckpointIsHonest, SyncInv
<1> QED
  BY <1>1, SyncInvHolds, PTL

(* The cursor of a resource never moves back, whatever page is read again  *)
(* and whatever run resumes an older one (engine.py:264-266).              *)
THEOREM CursorsNeverRegress ==
  ASSUME ContinuationsAreKeys
  PROVE  CrashingSpec => CursorNeverRegresses
<1>1. SyncInv /\ [SyncOrCrash]_syncVars =>
        [\A r \in Resources :
           checkpoint'[r].cursor >= checkpoint[r].cursor]_syncVars
  <2> SUFFICES ASSUME SyncInv, SyncOrCrash, NEW r \in Resources
               PROVE  checkpoint'[r].cursor >= checkpoint[r].cursor
    OBVIOUS
  <2>1. checkpoint \in [Resources -> Checkpoints] /\ checkpoint[r].cursor \in Nat
    BY CursorsBounded DEF SyncInv, SyncTypeOK, Checkpoints
  <2>2. CASE UNCHANGED checkpoint
    BY <2>1, <2>2
  <2>3. ASSUME NEW w \in Workers, BeginRun(w) \/ EndRun(w)
        PROVE  checkpoint'[r].cursor >= checkpoint[r].cursor
    <3>1. PICK q, s : checkpoint' = [checkpoint EXCEPT ![q].status = s]
      BY <2>3 DEF BeginRun, EndRun
    <3>2. checkpoint'[r].cursor = checkpoint[r].cursor
      BY <2>1, <3>1 DEF Checkpoints
    <3> QED
      BY <2>1, <3>2
  <2>4. ASSUME NEW w \in Workers, NEW bad \in SUBSET Fragile, NEW slice \in BOOLEAN,
               PersistPage(w, bad, slice)
        PROVE  checkpoint'[r].cursor >= checkpoint[r].cursor
    <3>1. PICK q, next, advance :
            checkpoint' = [checkpoint EXCEPT ![q].cursor = NextCheckpoint(q, next, advance)]
      BY <2>4 DEF PersistPage
    <3>2. checkpoint'[r].cursor >= checkpoint[r].cursor
      BY <2>1, <3>1 DEF NextCheckpoint, Checkpoints
    <3> QED
      BY <3>2
  <2> QED
    BY <2>2, <2>3, <2>4
       DEF SyncOrCrash, SyncNext, SyncStep, Request, Renew, Passing, Due, Change, Crash,
           Take, LoseLease, BeginBusy, Check, Fetch, FetchFails, CloseJob, Requeue, dataVars
<1> QED
  BY <1>1, SyncInvHolds, PTL DEF CrashingSpec, CursorNeverRegresses

-----------------------------------------------------------------------------
(* No job reads a resource again that it completed                         *)

(* A worker owns its job as long as the row has its token, live or not:    *)
(* a renewal may revive the lease (queue.py:156-170).                      *)
Owning(w) == ~Idle(w) /\ job[lease[w].job].token = lease[w].token

NoRepeats(s) == \A i, k \in DOMAIN s : s[i] = s[k] => i = k

LatestOfItsJob(w) ==
  LET g == task[w].run IN
    /\ runs[g].job = lease[w].job
    /\ \A k \in DOMAIN runs :
         k > g => ~(runs[k].job = runs[g].job /\ runs[k].resource = runs[g].resource)

OwnerIsAhead(w) ==
  Owning(w) =>
    /\ \A n \in DOMAIN task[w].todo : task[w].todo[n] \notin DoneBy(lease[w].job)
    /\ task[w].pc \in RunPcs => LatestOfItsJob(w)

DoneInv ==
  /\ NothingDoneTwice
  /\ \A w \in Workers : /\ ~Idle(w) => lease[w].token > 0
                        /\ NoRepeats(task[w].todo)
                        /\ OwnerIsAhead(w)

(* Whoever lost a job does not get it back by its old token.               *)
TokensMove == \A j \in Jobs :
  job'[j].token \in {job[j].token, 0, job[j].claims + 1}

LEMMA QueueStepTokens == QueueInv /\ QueueNext => TokensMove
<1> SUFFICES ASSUME QueueInv, QueueNext PROVE TokensMove
  OBVIOUS
<1>1. job \in [Jobs -> JobRows]
  BY DEF QueueInv, QueueTypeOK
<1>2. ASSUME NEW k \in Keys, Enqueue(k) PROVE TokensMove
  BY <1>2 DEF Enqueue, EnqueueAll, NewJob, TokensMove
<1>3. ASSUME NEW w \in Workers, ReleaseExpired(w) PROVE TokensMove
  BY <1>1, <1>3 DEF ReleaseExpired, JobRows, TokensMove
<1>4. ASSUME NEW w \in Workers, NEW j \in Jobs, Claim(w, j) PROVE TokensMove
  BY <1>1, <1>4 DEF Claim, JobRows, TokensMove
<1>5. ASSUME NEW w \in Workers, NEW s \in Terminal \cup {"queued"}, Finish(w, s)
      PROVE  TokensMove
  <2> DEFINE j == lease[w].job
  <2>1. j \in Jobs
    BY <1>5 DEF Finish, QueueInv, FreshTokens
  <2>2. \/ job' = job
        \/ job' = [job EXCEPT ![j] = FinishedRow(j, s)]
    BY <1>5 DEF Finish, FinishRow
  <2>3. FinishedRow(j, s).token = 0
    BY <1>1, <2>1 DEF FinishedRow, JobRows
  <2> HIDE DEF j
  <2> QED
    BY <1>1, <2>1, <2>2, <2>3 DEF TokensMove
<1>6. ASSUME NEW w \in Workers, NEW j \in Jobs, Heartbeat(w, j) PROVE TokensMove
  BY <1>1, <1>6 DEF Heartbeat, JobRows, TokensMove
<1>7. ASSUME NEW c \in Cancellers,
             CancelWrite(c) \/ \E j \in Jobs : CancelRead(c, j)
      PROVE  TokensMove
  BY <1>1, <1>7 DEF CancelRead, CancelWrite, JobRows, TokensMove
<1>8. ASSUME NEW j \in Jobs, LeaseExpires(j) \/ BecomesDue(j) PROVE TokensMove
  BY <1>1, <1>8 DEF LeaseExpires, BecomesDue, JobRows, TokensMove
<1>9. ASSUME NEW w \in Workers, GiveUp(w) \/ CrashWorker(w) PROVE TokensMove
  BY <1>1, <1>9 DEF GiveUp, CrashWorker, TokensMove
<1> QED
  BY <1>2, <1>3, <1>4, <1>5, <1>6, <1>7, <1>8, <1>9 DEF QueueNext, WorkerStep

LEMMA OwnersWereOwners ==
  ASSUME QueueInv, TokensMove, NEW w \in Workers, lease'[w] = lease[w],
         ~Idle(w) => lease[w].token > 0, Owning(w)'
  PROVE  Owning(w)
<1>1. ~Idle(w) /\ job'[lease[w].job].token = lease[w].token
  BY DEF Owning, Idle
<1>2. /\ lease[w].job \in Jobs
      /\ lease[w].token <= job[lease[w].job].claims
  BY <1>1 DEF QueueInv, FreshTokens
<1>3. lease[w].token \in Nat /\ job[lease[w].job].claims \in Nat
  BY <1>2 DEF QueueInv, QueueTypeOK, Leases, JobRows
<1>4. job'[lease[w].job].token \in {job[lease[w].job].token, 0, job[lease[w].job].claims + 1}
  BY <1>2 DEF TokensMove
<1> QED
  BY <1>1, <1>2, <1>3, <1>4 DEF Owning

LEMMA OwnersDiffer ==
  ASSUME QueueInv, NEW v \in Workers, NEW w \in Workers,
         Owning(v), Owning(w), lease[v].job = lease[w].job
  PROVE  v = w
<1>1. lease[v] \in Leases /\ lease[w] \in Leases /\ lease[v].token = lease[w].token
  BY DEF Owning, QueueInv, QueueTypeOK
<1>2. lease[v] = lease[w]
  BY <1>1 DEF Leases
<1> QED
  BY <1>2 DEF Owning, QueueInv, FreshTokens

(* A step that begins and ends no run.                                     *)
LEMMA DoneQuiet ==
  ASSUME QueueInv, DoneInv, TokensMove, UNCHANGED runs,
         \A w \in Workers :
           /\ lease'[w] = lease[w] \/ lease'[w] = NoLease
           /\ task'[w].todo = task[w].todo \/ task'[w].todo = <<>>
           /\ task'[w].pc \in RunPcs =>
                task[w].pc \in RunPcs /\ task'[w].run = task[w].run
  PROVE  DoneInv'
<1>1. NothingDoneTwice'
  BY DEF DoneInv, NothingDoneTwice
<1> SUFFICES ASSUME NEW w \in Workers
             PROVE  /\ ~Idle(w)' => lease'[w].token > 0
                    /\ NoRepeats(task'[w].todo) /\ OwnerIsAhead(w)'
  BY <1>1 DEF DoneInv
<1>2. ~Idle(w)' => lease'[w] = lease[w] /\ ~Idle(w)
  BY DEF Idle
<1>3. NoRepeats(task'[w].todo)
  BY DEF DoneInv, NoRepeats
<1>4. ASSUME Owning(w)' PROVE Owning(w) /\ lease'[w] = lease[w]
  BY <1>2, <1>4, OwnersWereOwners DEF DoneInv, Owning
<1>5. OwnerIsAhead(w)'
  BY <1>4 DEF DoneInv, OwnerIsAhead, LatestOfItsJob, DoneBy
<1> QED
  BY <1>2, <1>3, <1>5 DEF DoneInv

LEMMA PlanDoesNotRepeat ==
  ASSUME NoRepeats(Order), NEW k \in Keys
  PROVE  NoRepeats(PlanOf(k))
<1>1. CASE k[1] = "all"
  BY <1>1 DEF PlanOf
<1>2. CASE k[1] # "all"
  <2>1. NoRepeats(<<k[1]>>)
    BY DEF NoRepeats
  <2> QED
    BY <1>2, <2>1 DEF PlanOf
<1> QED
  BY <1>1, <1>2

(* A claim starts with the resources that the job has not completed.       *)
LEMMA DoneTake ==
  ASSUME NoRepeats(Order), SyncInv, DoneInv, NEW w \in Workers, NEW j \in Jobs, Take(w, j)
  PROVE  DoneInv'
<1> DEFINE k == job[j].key
<1>0. QueueInv /\ QueueTypeOK /\ task \in [Workers -> Tasks] /\ runs \in Seq(Runs)
  BY DEF SyncInv, SyncTypeOK, QueueInv
<1>1. Claim(w, j) /\ UNCHANGED runs
  BY DEF Take, dataVars
<1>2. TokensMove
  BY <1>0, <1>1, QueueStepTokens DEF QueueNext, WorkerStep
<1>3. /\ lease'[w].job = j /\ lease'[w].token = job[j].claims + 1
      /\ job[j].claims \in Nat /\ k \in Keys
      /\ \A v \in Workers \ {w} : lease'[v] = lease[v]
  BY <1>0, <1>1 DEF Claim, QueueTypeOK, JobRows
<1>4. PICK skip \in SUBSET Denied(k) :
        LET todo == Skipping(PlanOf(k), skip \cup DoneBy(j))
        IN task' = [task EXCEPT ![w] =
             [NoTask EXCEPT !.pc = IF todo = <<>> THEN "close" ELSE "begin",
                            !.todo = todo, !.from = j]]
  BY DEF Take
<1> DEFINE s == PlanOf(k)
           S == skip \cup DoneBy(j)
           todo == Skipping(s, S)
<1>5. NoRepeats(todo) /\ \A n \in DOMAIN todo : todo[n] \notin S
  <2>1. s \in Seq(Resources) /\ \A a, b \in DOMAIN s : s[a] = s[b] => a = b
    BY <1>3, PlanTyped, PlanDoesNotRepeat DEF NoRepeats
  <2> HIDE DEF s, S
  <2> QED
    BY <2>1, Skips DEF NoRepeats
<1>6. /\ task'[w].todo = todo /\ task'[w].pc \notin RunPcs
      /\ \A v \in Workers \ {w} : task'[v] = task[v]
  <2> DEFINE t == [NoTask EXCEPT !.pc = IF todo = <<>> THEN "close" ELSE "begin",
                                 !.todo = todo, !.from = j]
  <2>1. task' = [task EXCEPT ![w] = t]
    BY <1>4
  <2> HIDE DEF todo
  <2>2. t.todo = todo /\ t.pc \in {"close", "begin"}
    BY DEF NoTask
  <2> HIDE DEF t
  <2> QED
    BY <1>0, <2>1, <2>2 DEF RunPcs
<1>7. NothingDoneTwice' /\ DoneBy(j)' = DoneBy(j)
  BY <1>1 DEF DoneInv, NothingDoneTwice, DoneBy
<1>8. OwnerIsAhead(w)'
  <2>1. DoneBy(lease[w].job)' = DoneBy(j)
    BY <1>1, <1>3 DEF DoneBy
  <2> HIDE DEF todo
  <2> QED
    BY <1>1, <1>3, <1>5, <1>6 DEF OwnerIsAhead, DoneBy
<1>9. ASSUME NEW v \in Workers, v # w
      PROVE  /\ ~Idle(v)' => lease'[v].token > 0
             /\ NoRepeats(task'[v].todo) /\ OwnerIsAhead(v)'
  <2>1. lease'[v] = lease[v] /\ task'[v] = task[v]
    BY <1>3, <1>6, <1>9
  <2>2. Owning(v)' => Owning(v)
    BY <1>0, <1>2, <2>1, OwnersWereOwners DEF DoneInv
  <2> QED
    BY <1>1, <2>1, <2>2 DEF DoneInv, OwnerIsAhead, LatestOfItsJob, DoneBy, Idle
<1> QED
  BY <1>3, <1>5, <1>6, <1>7, <1>8, <1>9 DEF DoneInv

(* A run begins on a resource that its job has not completed, and no other *)
(* owner is on the job.                                                    *)
LEMMA DoneBegin ==
  ASSUME SyncInv, DoneInv, NEW w \in Workers, BeginRun(w)
  PROVE  DoneInv'
<1>0. PICK n \in Nat, r \in {Head(task[w].todo)}, j \in {lease[w].job} :
         Len(runs) = n /\ r = Head(task[w].todo) /\ j = lease[w].job
  BY DEF SyncInv, SyncTypeOK
<1> DEFINE closed == [i \in DOMAIN runs |->
                       IF i \in RunsOf(r) /\ runs[i].status = "running"
                         THEN [runs[i] EXCEPT !.status = "interrupted"]
                         ELSE runs[i]]
<1>1. PICK row :
        /\ task[w].pc = "begin" /\ LeaseAlive(w)
        /\ UNCHANGED queueVars
        /\ runs' = Append(closed, row)
        /\ row.job = j /\ row.resource = r /\ row.status = "running"
        /\ task' = [task EXCEPT ![w].pc = "check", ![w].run = n + 1,
                                ![w].cursor = task'[w].cursor, ![w].pages = 0]
  <2> DEFINE row == [job |-> j, resource |-> r, mode |-> ModeOf(w),
                     status |-> "running",
                     before |-> IF ModeOf(w) = "full" THEN FullResume(r)
                                ELSE checkpoint[r].cursor,
                     after |-> 0]
  <2>1. /\ task[w].pc = "begin" /\ LeaseAlive(w) /\ UNCHANGED queueVars
        /\ runs' = Append(closed, row)
    BY <1>0 DEF BeginRun, Held, AtPc
  <2>2. task' = [task EXCEPT ![w].pc = "check", ![w].run = n + 1,
                             ![w].cursor = task'[w].cursor, ![w].pages = 0]
    BY <1>0 DEF BeginRun, SyncInv, SyncTypeOK, Tasks
  <2>3. row.job = j /\ row.resource = r /\ row.status = "running"
    OBVIOUS
  <2> HIDE DEF row, closed
  <2> QED
    BY <2>1, <2>2, <2>3
<1>2. /\ runs \in Seq(Runs) /\ DOMAIN runs = 1..n /\ task \in [Workers -> Tasks] /\ QueueInv
      /\ \A i \in 1..n : runs[i] \in Runs
  BY <1>0 DEF SyncInv, SyncTypeOK
<1>3. ASSUME NEW i \in 1..n
      PROVE  /\ closed[i].job = runs[i].job /\ closed[i].resource = runs[i].resource
             /\ closed[i].status = "success" <=> runs[i].status = "success"
  BY <1>2 DEF Runs
<1>4. closed = [i \in 1..n |-> closed[i]] /\ Len(closed) = n /\ closed \in Seq({closed[i] : i \in 1..n})
  BY <1>2
<1> HIDE DEF closed
<1>5. /\ DOMAIN runs' = 1..(n+1) /\ runs'[n+1] = row
      /\ \A i \in 1..n : runs'[i] = closed[i]
  BY <1>1, <1>4
<1>6. /\ task'[w].pc = "check" /\ task'[w].run = n + 1 /\ task'[w].todo = task[w].todo
      /\ \A v \in Workers \ {w} : task'[v] = task[v]
  BY <1>1, <1>2 DEF Tasks
<1>7. Owning(w) /\ r \notin DoneBy(j)
  <2>1. Owning(w)
    BY <1>1 DEF LeaseAlive, Owning, Owns
  <2>2. task[w].todo \in Seq(Resources) /\ task[w].todo # <<>>
    BY <1>1, <1>2 DEF SyncInv, TaskIsGood, TaskHasItsRun, Tasks
  <2>3. 1 \in DOMAIN task[w].todo /\ r = task[w].todo[1]
    BY <1>0, <2>2
  <2> QED
    BY <1>0, <2>1, <2>3 DEF DoneInv, OwnerIsAhead
<1>8. ASSUME NEW q PROVE DoneBy(q)' = DoneBy(q)
  <2>1. ASSUME NEW a \in Resources PROVE a \in DoneBy(q)' <=> a \in DoneBy(q)
    <3>1. /\ n + 1 \in DOMAIN runs' /\ runs'[n+1].status # "success"
          /\ \A i \in DOMAIN runs' : i \in 1..n \/ i = n + 1
      BY <1>1, <1>5
    <3> QED
      BY <1>2, <1>3, <1>5, <3>1 DEF DoneBy
  <2> QED
    BY <2>1 DEF DoneBy
<1>9. NothingDoneTwice'
  <2> SUFFICES ASSUME NEW i \in 1..(n+1), NEW k \in 1..(n+1), i < k,
                      runs'[i].job = runs'[k].job, runs'[i].resource = runs'[k].resource
               PROVE  runs'[i].status # "success"
    BY <1>5 DEF NothingDoneTwice
  <2>1. CASE k = n + 1
    <3>1. i \in 1..n /\ runs[i].job = j /\ runs[i].resource = r
      BY <1>0, <1>1, <1>3, <1>5, <2>1
    <3>2. runs[i].resource \in Resources
      BY <1>2, <3>1 DEF Runs
    <3>3. runs[i].status # "success"
      BY <1>2, <1>7, <3>1, <3>2 DEF DoneBy
    <3> QED
      BY <1>3, <1>5, <3>1, <3>3
  <2>2. CASE k # n + 1
    BY <1>2, <1>3, <1>5, <2>2 DEF DoneInv, NothingDoneTwice
  <2> QED
    BY <2>1, <2>2
<1>10. \A v \in Workers : lease'[v] = lease[v] /\ job' = job /\ (Owning(v)' <=> Owning(v))
                          /\ (Idle(v)' <=> Idle(v))
  BY <1>1 DEF queueVars, Owning, Idle
<1>11. OwnerIsAhead(w)'
  <2>1. \A m \in DOMAIN task'[w].todo : task'[w].todo[m] \notin DoneBy(lease[w].job)'
    BY <1>0, <1>6, <1>7, <1>8, <1>10 DEF DoneInv, OwnerIsAhead
  <2>2. LatestOfItsJob(w)'
    BY <1>0, <1>1, <1>5, <1>6, <1>10 DEF LatestOfItsJob
  <2> QED
    BY <2>1, <2>2 DEF OwnerIsAhead, DoneBy
<1>12. ASSUME NEW v \in Workers, v # w PROVE OwnerIsAhead(v)'
  <2> SUFFICES ASSUME Owning(v)
               PROVE  /\ \A m \in DOMAIN task'[v].todo :
                           task'[v].todo[m] \notin DoneBy(lease[v].job)'
                      /\ task'[v].pc \in RunPcs => LatestOfItsJob(v)'
    BY <1>10 DEF OwnerIsAhead, DoneBy
  <2>1. OwnerIsAhead(v) /\ task'[v] = task[v] /\ lease[v].job # j
    BY <1>0, <1>2, <1>6, <1>7, <1>12, OwnersDiffer DEF DoneInv
  <2>2. ASSUME task[v].pc \in RunPcs PROVE LatestOfItsJob(v)'
    <3>1. LatestOfItsJob(v) /\ task[v].run \in 1..n
      BY <1>2, <2>1, <2>2 DEF OwnerIsAhead, SyncInv, TaskIsGood, TaskHasItsRun
    <3> QED
      BY <1>1, <1>2, <1>3, <1>5, <1>10, <2>1, <3>1 DEF LatestOfItsJob
  <2> QED
    BY <1>8, <1>10, <2>1, <2>2 DEF OwnerIsAhead
<1> QED
  BY <1>6, <1>9, <1>10, <1>11, <1>12 DEF DoneInv

(* A run ends under the lease: it is the last of its job on the resource,  *)
(* and the resource is not among those left.                               *)
LEMMA DoneEnd ==
  ASSUME SyncInv, DoneInv, NEW w \in Workers, EndRun(w)
  PROVE  DoneInv'
<1>0. PICK n \in Nat, g \in {task[w].run}, r \in {Head(task[w].todo)},
          j \in {lease[w].job}, status \in {task[w].status} :
        /\ Len(runs) = n /\ g = task[w].run /\ r = Head(task[w].todo)
        /\ j = lease[w].job /\ status = task[w].status
  BY DEF SyncInv, SyncTypeOK
<1>1. /\ task[w].pc = "end" /\ LeaseAlive(w) /\ UNCHANGED queueVars
      /\ runs' = [runs EXCEPT ![g].status = status]
  BY <1>0 DEF EndRun, Held, AtPc
<1>2. /\ runs \in Seq(Runs) /\ DOMAIN runs = 1..n /\ task \in [Workers -> Tasks] /\ QueueInv
      /\ \A i \in 1..n : runs[i] \in Runs
  BY <1>0 DEF SyncInv, SyncTypeOK
<1>3. /\ g \in 1..n /\ runs[g].resource = r
      /\ task[w].todo \in Seq(Resources) /\ task[w].todo # <<>>
  BY <1>0, <1>1, <1>2 DEF SyncInv, TaskIsGood, TaskHasItsRun, RunPcs, Tasks
<1>4. /\ DOMAIN runs' = 1..n
      /\ \A i \in 1..n : /\ runs'[i].job = runs[i].job
                         /\ runs'[i].resource = runs[i].resource
                         /\ i # g => runs'[i].status = runs[i].status
  BY <1>1, <1>2, <1>3 DEF Runs
<1>5. /\ task'[w].pc \notin RunPcs
      /\ task'[w].todo = <<>> \/
           (task'[w].todo = Tail(task[w].todo) /\ Len(task[w].todo) # 1)
      /\ \A v \in Workers \ {w} : task'[v] = task[v]
  BY <1>2 DEF EndRun, NoTask, RunPcs
<1>6. Owning(w) /\ LatestOfItsJob(w) /\ runs[g].job = j
  <2>1. Owning(w)
    BY <1>1 DEF LeaseAlive, Owning, Owns
  <2> QED
    BY <1>0, <1>1, <2>1 DEF DoneInv, OwnerIsAhead, LatestOfItsJob, RunPcs
<1>7. /\ DoneBy(j)' \subseteq DoneBy(j) \cup {r}
      /\ \A q : q # j => DoneBy(q)' = DoneBy(q)
  <2>1. ASSUME NEW q
        PROVE  /\ q = j => DoneBy(q)' \subseteq DoneBy(q) \cup {r}
               /\ q # j => DoneBy(q)' = DoneBy(q)
    <3>1. ASSUME NEW s \in DoneBy(q)' PROVE s \in DoneBy(q) \/ (q = j /\ s = r)
      <4>1. PICK i \in 1..n : /\ runs'[i].job = q /\ runs'[i].resource = s
                              /\ runs'[i].status = "success" /\ s \in Resources
        BY <1>4, <3>1 DEF DoneBy
      <4>2. CASE i = g
        BY <1>3, <1>4, <1>6, <4>1, <4>2
      <4>3. CASE i # g
        BY <1>2, <1>4, <4>1, <4>3 DEF DoneBy
      <4> QED
        BY <4>2, <4>3
    <3>2. ASSUME q # j, NEW s \in DoneBy(q) PROVE s \in DoneBy(q)'
      <4>1. PICK i \in 1..n : /\ runs[i].job = q /\ runs[i].resource = s
                              /\ runs[i].status = "success" /\ s \in Resources
        BY <1>2, <3>2 DEF DoneBy
      <4>2. i # g
        BY <1>6, <3>2, <4>1
      <4> QED
        BY <1>4, <4>1, <4>2 DEF DoneBy
    <3> QED
      BY <3>1, <3>2
  <2> QED
    BY <2>1
<1>8. NothingDoneTwice'
  BY <1>0, <1>2, <1>3, <1>4, <1>6 DEF DoneInv, NothingDoneTwice, LatestOfItsJob
<1>9. \A v \in Workers : lease'[v] = lease[v] /\ (Owning(v)' <=> Owning(v))
                         /\ (Idle(v)' <=> Idle(v))
  BY <1>1 DEF queueVars, Owning, Idle
<1>10. /\ NoRepeats(task'[w].todo)
       /\ \A m \in DOMAIN task'[w].todo :
            task'[w].todo[m] # r /\ task'[w].todo[m] \notin DoneBy(j)
  <2>1. CASE task'[w].todo = <<>>
    BY <2>1 DEF NoRepeats
  <2>2. CASE task'[w].todo = Tail(task[w].todo) /\ Len(task[w].todo) # 1
    <3>1. \A i \in DOMAIN task'[w].todo :
            i \in Nat \ {0} /\ i + 1 \in DOMAIN task[w].todo
              /\ task'[w].todo[i] = task[w].todo[i+1]
      <4>1. Tail(task[w].todo) \in Seq(Resources)
        BY <1>3, <2>2, TailOf
      <4> QED
        BY <1>3, <2>2, <4>1, TailOf
    <3>2. 1 \in DOMAIN task[w].todo /\ r = task[w].todo[1]
      BY <1>0, <1>3
    <3>3. NoRepeats(task[w].todo)
            /\ \A i \in DOMAIN task[w].todo : task[w].todo[i] \notin DoneBy(j)
      BY <1>0, <1>6 DEF DoneInv, OwnerIsAhead
    <3> QED
      BY <3>1, <3>2, <3>3 DEF NoRepeats
  <2> QED
    BY <1>5, <2>1, <2>2
<1>11. OwnerIsAhead(w)'
  <2>1. DoneBy(lease[w].job)' = DoneBy(j)'
    BY <1>0, <1>9 DEF DoneBy
  <2> QED
    BY <1>5, <1>7, <1>10, <2>1 DEF OwnerIsAhead
<1>12. ASSUME NEW v \in Workers, v # w PROVE OwnerIsAhead(v)' /\ NoRepeats(task'[v].todo)
  <2>1. NoRepeats(task'[v].todo) /\ task'[v] = task[v] /\ OwnerIsAhead(v)
    BY <1>5, <1>12 DEF DoneInv
  <2> SUFFICES ASSUME Owning(v)
               PROVE  /\ \A m \in DOMAIN task'[v].todo :
                           task'[v].todo[m] \notin DoneBy(lease[v].job)'
                      /\ task'[v].pc \in RunPcs => LatestOfItsJob(v)'
    BY <1>9, <2>1 DEF OwnerIsAhead
  <2>2. lease[v].job # j
    BY <1>0, <1>2, <1>6, <1>12, OwnersDiffer
  <2>3. PICK q : q = lease[v].job
    OBVIOUS
  <2>4. DoneBy(lease[v].job)' = DoneBy(q)' /\ DoneBy(q)' = DoneBy(q)
    BY <1>7, <1>9, <2>2, <2>3 DEF DoneBy
  <2>5. ASSUME task[v].pc \in RunPcs PROVE LatestOfItsJob(v)'
    <3>1. LatestOfItsJob(v) /\ task[v].run \in 1..n
      BY <1>2, <2>1, <2>5 DEF OwnerIsAhead, SyncInv, TaskIsGood, TaskHasItsRun
    <3> QED
      BY <1>2, <1>4, <1>9, <2>1, <3>1 DEF LatestOfItsJob
  <2> QED
    BY <2>1, <2>3, <2>4, <2>5 DEF OwnerIsAhead
<1> QED
  BY <1>8, <1>9, <1>10, <1>11, <1>12 DEF DoneInv

LEMMA DoneInitHolds == SyncInit => DoneInv
<1> SUFFICES ASSUME SyncInit PROVE DoneInv
  OBVIOUS
<1>1. runs = <<>> /\ \A w \in Workers : task[w] = NoTask /\ Idle(w)
  BY DEF SyncInit, QueueInit, Idle
<1>2. NoTask.todo = <<>> /\ NoRepeats(<<>>)
  BY DEF NoTask, NoRepeats
<1> QED
  BY <1>1, <1>2 DEF DoneInv, NothingDoneTwice, OwnerIsAhead, Owning

LEMMA DoneInvInductive ==
  ASSUME NoRepeats(Order)
  PROVE  SyncInv /\ DoneInv /\ [SyncOrCrash]_syncVars => DoneInv'
<1> SUFFICES ASSUME SyncInv, DoneInv, [SyncOrCrash]_syncVars PROVE DoneInv'
  OBVIOUS
<1>0. QueueInv /\ lease \in [Workers -> Leases] /\ task \in [Workers -> Tasks]
  BY DEF SyncInv, SyncTypeOK, QueueInv, QueueTypeOK
<1>1. ASSUME NEW w \in Workers, NEW j \in Jobs, Take(w, j) PROVE DoneInv'
  BY <1>1, DoneTake
<1>2. ASSUME NEW w \in Workers, BeginRun(w) \/ EndRun(w) PROVE DoneInv'
  BY <1>2, DoneBegin, DoneEnd
<1>3. ASSUME QueueNext \/ UNCHANGED job PROVE TokensMove
  BY <1>0, <1>3, QueueStepTokens DEF TokensMove
(* A worker forgets, gives up or hands over.                               *)
<1>4. ASSUME NEW w \in Workers, LoseLease(w) \/ Crash(w) \/ CloseJob(w) \/ Requeue(w)
      PROVE  DoneInv'
  <2>1. /\ UNCHANGED runs
        /\ lease' = lease \/ lease' = [lease EXCEPT ![w] = NoLease]
        /\ task'[w].todo = <<>> /\ task'[w].pc \notin RunPcs
        /\ \A v \in Workers \ {w} : task'[v] = task[v]
    <3>1. UNCHANGED runs /\ (lease' = lease \/ lease' = [lease EXCEPT ![w] = NoLease])
      BY <1>4 DEF LoseLease, Crash, CloseJob, Requeue, Finish, dataVars
    <3>2. PICK t : /\ task' = [task EXCEPT ![w] = t]
                   /\ t.todo = <<>> /\ t.pc \notin RunPcs
      <4>1. NoTask.todo = <<>> /\ NoTask.pc \notin RunPcs
        BY DEF NoTask, RunPcs
      <4>2. CASE LoseLease(w) \/ Crash(w) \/ Requeue(w)
        BY <4>1, <4>2 DEF LoseLease, Crash, Requeue
      <4>3. CASE CloseJob(w)
        <5> DEFINE t == [NoTask EXCEPT !.pc = "requeue", !.from = task[w].from,
                                       !.continue = task[w].continue]
        <5>1. t.todo = <<>> /\ t.pc \notin RunPcs
          BY DEF NoTask, RunPcs
        <5>2. \/ task' = [task EXCEPT ![w] = NoTask]
              \/ task' = [task EXCEPT ![w] = t]
          BY <4>3 DEF CloseJob
        <5> QED
          BY <4>1, <5>1, <5>2
      <4> QED
        BY <1>4, <4>2, <4>3
    <3> QED
      BY <1>0, <3>1, <3>2
  <2>2. TokensMove
    <3>1. CASE LoseLease(w) \/ Crash(w)
      BY <1>3, <3>1 DEF LoseLease, Crash
    <3>2. CASE CloseJob(w)
      <4>1. JobStatus(task[w]) \in Terminal \cup {"queued"}
        BY DEF JobStatus, Terminal
      <4> QED
        BY <1>3, <3>2, <4>1 DEF CloseJob, QueueNext, WorkerStep
    <3>3. CASE Requeue(w)
      BY <3>3 DEF Requeue, EnqueueAll, NewJob, TokensMove
    <3> QED
      BY <1>4, <3>1, <3>2, <3>3
  <2> QED
    BY <1>0, <2>1, <2>2, DoneQuiet
(* A worker goes on with its run, or with none.                            *)
<1>5. ASSUME NEW w \in Workers, UNCHANGED <<queueVars, runs>>,
             \A v \in Workers \ {w} : task'[v] = task[v],
             task'[w].todo = task[w].todo, task'[w].run = task[w].run,
             task'[w].pc \in RunPcs => task[w].pc \in RunPcs
      PROVE  DoneInv'
  <2>1. TokensMove /\ lease' = lease
    BY <1>3, <1>5 DEF queueVars
  <2> QED
    BY <1>0, <1>5, <2>1, DoneQuiet
<1>6. ASSUME NEW w \in Workers,
             BeginBusy(w) \/ Check(w) \/ Fetch(w) \/ \E status \in Outages : FetchFails(w, status)
      PROVE  DoneInv'
  <2>1. /\ UNCHANGED <<queueVars, runs>> /\ \A v \in Workers \ {w} : task'[v] = task[v]
        /\ task'[w].todo = task[w].todo /\ task'[w].run = task[w].run
        /\ task'[w].pc \in RunPcs => task[w].pc \in RunPcs
    <3>1. task[w] \in Tasks
      BY <1>0
    <3> QED
      BY <1>0, <1>6, <3>1 DEF BeginBusy, Check, Fetch, FetchFails, Ending, Held, AtPc,
                              dataVars, RunPcs, Tasks
  <2> QED
    BY <1>5, <2>1
<1>7. ASSUME NEW w \in Workers, NEW bad \in SUBSET Fragile, NEW slice \in BOOLEAN,
             PersistPage(w, bad, slice)
      PROVE  DoneInv'
  <2>1. task[w] \in Tasks /\ runs \in Seq(Runs)
    BY <1>0 DEF SyncInv, SyncTypeOK
  <2>2. /\ UNCHANGED queueVars /\ \A v \in Workers \ {w} : task'[v] = task[v]
        /\ task'[w].todo = task[w].todo /\ task'[w].run = task[w].run
        /\ task[w].pc \in RunPcs
    BY <1>0, <1>7, <2>1 DEF PersistPage, Held, AtPc, RunPcs, Tasks
  <2>3. PICK g, x : runs' = [runs EXCEPT ![g].after = x]
    BY <1>7 DEF PersistPage
  <2>4. /\ DOMAIN runs' = DOMAIN runs
        /\ \A i \in DOMAIN runs : /\ runs'[i].job = runs[i].job
                                  /\ runs'[i].resource = runs[i].resource
                                  /\ runs'[i].status = runs[i].status
    <3>1. \A i \in DOMAIN runs : runs[i] \in Runs
      BY <2>1
    <3> QED
      BY <2>1, <2>3, <3>1 DEF Runs
  <2>5. NothingDoneTwice' /\ \A q : DoneBy(q)' = DoneBy(q)
    BY <2>4 DEF DoneInv, NothingDoneTwice, DoneBy
  <2>6. ASSUME NEW v \in Workers
        PROVE  /\ ~Idle(v)' => lease'[v].token > 0
               /\ NoRepeats(task'[v].todo) /\ OwnerIsAhead(v)'
    <3>1. /\ lease'[v] = lease[v] /\ (Idle(v)' <=> Idle(v)) /\ (Owning(v)' <=> Owning(v))
          /\ task'[v].todo = task[v].todo
          /\ task'[v].run = task[v].run
          /\ task'[v].pc \in RunPcs => task[v].pc \in RunPcs
      BY <2>2 DEF queueVars, Idle, Owning
    <3>2. DoneBy(lease[v].job)' = DoneBy(lease[v].job)
      BY <2>4, <3>1 DEF DoneBy
    <3>3. task'[v].pc \in RunPcs => task[v].run \in DOMAIN runs
      BY <3>1 DEF SyncInv, TaskIsGood, TaskHasItsRun
    <3>4. OwnerIsAhead(v)'
      BY <2>4, <3>1, <3>2, <3>3 DEF DoneInv, OwnerIsAhead, LatestOfItsJob
    <3> QED
      BY <3>1, <3>4 DEF DoneInv
  <2> QED
    BY <2>5, <2>6 DEF DoneInv
(* The rest of the world: the queue, the time, the origin.                 *)
<1>8. ASSUME UNCHANGED <<lease, task, runs>>, QueueNext \/ UNCHANGED job PROVE DoneInv'
  BY <1>0, <1>3, <1>8, DoneQuiet
<1>9. ASSUME NEW w \in Workers, Renew(w) PROVE DoneInv'
  <2>1. Heartbeat(w, lease[w].job) /\ UNCHANGED <<task, dataVars>>
    BY <1>9 DEF Renew
  <2>2. lease[w].job \in Jobs
    BY <1>0, <2>1 DEF Heartbeat, Owns, QueueInv, FreshTokens
  <2>3. QueueNext /\ UNCHANGED lease
    BY <2>1, <2>2 DEF QueueNext, Heartbeat
  <2> QED
    BY <1>8, <2>1, <2>3 DEF dataVars
<1>10. ASSUME NEW w \in Workers, ReleaseExpired(w), UNCHANGED <<task, dataVars>> PROVE DoneInv'
  <2>1. QueueNext /\ UNCHANGED lease
    BY <1>10 DEF QueueNext, WorkerStep, ReleaseExpired
  <2> QED
    BY <1>8, <1>10, <2>1 DEF dataVars
<1>11. ASSUME \/ \E k \in Keys : Request(k)
              \/ \E c \in Cancellers :
                   /\ CancelWrite(c) \/ \E j \in Jobs : CancelRead(c, j)
                   /\ UNCHANGED <<task, dataVars>>
              \/ \E j \in Jobs : Passing(j) \/ Due(j)
       PROVE  DoneInv'
  <2>1. QueueNext /\ UNCHANGED <<lease, task, dataVars>>
    BY <1>11 DEF Request, Passing, Due, QueueNext, Enqueue, CancelWrite, CancelRead,
                 LeaseExpires, BecomesDue
  <2> QED
    BY <1>8, <2>1 DEF dataVars
<1>12. CASE Change \/ UNCHANGED syncVars
  BY <1>8, <1>12 DEF Change, syncVars, queueVars, dataVars
<1> QED
  BY <1>1, <1>2, <1>4, <1>6, <1>7, <1>9, <1>10, <1>11, <1>12
     DEF SyncOrCrash, SyncNext, SyncStep

(* A job taken again, however often, does not run on a resource that it    *)
(* completed: not even when the worker that lost it goes on or comes back  *)
(* with a revived lease (workers.py:48, diagnostico-carga-pedidos.md:117). *)
(* SYNC_ORDER names each resource once.                                    *)
THEOREM NothingIsDoneTwice ==
  ASSUME ContinuationsAreKeys, NoRepeats(Order)
  PROVE  CrashingSpec => []NothingDoneTwice
<1>1. DoneInv => NothingDoneTwice
  BY DEF DoneInv
<1>2. CrashingSpec => []DoneInv
  BY DoneInitHolds, DoneInvInductive, SyncInvHolds, PTL DEF CrashingSpec
<1> QED
  BY <1>1, <1>2, PTL

-----------------------------------------------------------------------------
(* The plan of a job is read                                               *)

(* The deployment the code is documented for (docs/erp/status.md:65).      *)
OneWorker == \A v, w \in Workers : v = w

(* A resource that the origin denied in some run, and what its checkpoint  *)
(* shows of it as long as nobody but this worker writes there.             *)
DeniedOnce(r) == \E i \in RunsOf(r) : runs[i].status = "forbidden"
Denial(r) == DeniedOnce(r) /\ (OneWorker => checkpoint[r].status = "forbidden")

PlanSet(j) == LET s == PlanOf(job[j].key) IN {s[i] : i \in DOMAIN s}
Left(t) == {t.todo[n] : n \in DOMAIN t.todo}

(* The job of the task fails, is cancelled or returns to the queue.        *)
WillNotSucceed(t) ==
  \/ t.results \cap (Failing \cup {"cancelled"}) # {}
  \/ t.pc = "close" /\ (t.status \in {"busy", "waiting_rate_limit"} \/ t.continue # {})

Working(w) == task[w].pc \notin {"idle", "requeue"}

PlanProgress(w) ==
  LET t == task[w] IN
    Working(w) =>
      /\ t.from \in Jobs /\ job[t.from].status # "absent"
      /\ ~Idle(w) => lease[w].job = t.from
      /\ t.pc = "close" => t.todo = <<>> \/ t.status = "busy"
      /\ \/ WillNotSucceed(t)
         \/ \A r \in PlanSet(t.from) :
              r \in Left(t) \/ ReadBy(t.from, r) \/ Denial(r)

PlanInv ==
  /\ \A r \in Resources : checkpoint[r].status = "forbidden" => DeniedOnce(r)
  /\ \A w \in Workers : PlanProgress(w)

(* A job that succeeded and left no continuation read every resource of    *)
(* its plan but for those that the origin denied in some run.              *)
SuccessReadsOrWasDenied ==
  \A w \in Workers :
    LET t == task[w] IN
      (t.pc = "close" /\ JobStatus(t) = "succeeded" /\ t.continue = {})
        => \A r \in PlanSet(t.from) : ReadBy(t.from, r) \/ DeniedOnce(r)

(* What Skipping leaves out of a sequence is in the set.                   *)
LEMMA SkipsOnly ==
  ASSUME NEW T, NEW s \in Seq(T), NEW S, NEW i \in DOMAIN s, s[i] \notin S
  PROVE  \E n \in DOMAIN Skipping(s, S) : Skipping(s, S)[n] = s[i]
<1> DEFINE I == {k \in 1..Len(s) : s[k] \notin S}
           UpTo(k) == {l \in I : l <= k}
           N == Cardinality(I)
           At_(n) == CHOOSE k \in I : Cardinality(UpTo(k)) = n
<1>1. /\ Len(s) \in Nat /\ DOMAIN s = 1..Len(s) /\ I \subseteq Nat
      /\ IsFiniteSet(I) /\ N \in Nat /\ i \in I
  <2>1. Len(s) \in Nat /\ DOMAIN s = 1..Len(s)
    OBVIOUS
  <2>2. IsFiniteSet(1..Len(s)) /\ I \in SUBSET (1..Len(s))
    BY <2>1, FS_Interval
  <2> QED
    BY <2>1, <2>2, FS_Subset, FS_CardinalityType
<1>2. ASSUME NEW k \in I
      PROVE  IsFiniteSet(UpTo(k)) /\ Cardinality(UpTo(k)) \in 1..N
  <2>1. UpTo(k) \in SUBSET I /\ UpTo(k) # {}
    BY <1>1
  <2>2. IsFiniteSet(UpTo(k)) /\ Cardinality(UpTo(k)) <= N
    BY <1>1, <2>1, FS_Subset
  <2>3. Cardinality(UpTo(k)) \in Nat /\ Cardinality(UpTo(k)) # 0
    BY <2>1, <2>2, FS_CardinalityType, FS_EmptySet
  <2> QED
    BY <1>1, <2>2, <2>3
<1>3. ASSUME NEW a \in I, NEW b \in I, a < b
      PROVE  Cardinality(UpTo(a)) # Cardinality(UpTo(b))
  <2>1. UpTo(a) \in SUBSET UpTo(b) /\ b \in UpTo(b) /\ b \notin UpTo(a)
    BY <1>1, <1>3
  <2> QED
    BY <1>2, <2>1, FS_Subset
<1>4. PICK n \in 1..N : n = Cardinality(UpTo(i))
  BY <1>1, <1>2
<1>5. At_(n) \in I /\ Cardinality(UpTo(At_(n))) = n
  BY <1>1, <1>4
<1>6. At_(n) = i
  <2>1. ~(At_(n) < i) /\ ~(i < At_(n))
    BY <1>1, <1>3, <1>4, <1>5
  <2> HIDE DEF At_
  <2> QED
    BY <1>1, <1>5, <2>1
<1>7. Skipping(s, S) = [m \in 1..N |-> s[At_(m)]]
  BY DEF Skipping
<1> HIDE DEF N, At_
<1> QED
  BY <1>4, <1>6, <1>7

(* A run that has ended stays as it ended.                                 *)
RunsKeepTheirEnds ==
  \A i \in DOMAIN runs :
    /\ i \in DOMAIN runs'
    /\ runs'[i].job = runs[i].job /\ runs'[i].resource = runs[i].resource
    /\ runs[i].status \in {"success", "partial", "forbidden"} =>
         runs'[i].status = runs[i].status

ReadsStay ==
  \A r \in Resources : /\ \A j \in Jobs : ReadBy(j, r) => ReadBy(j, r)'
                       /\ DeniedOnce(r) => DeniedOnce(r)'

LEMMA EndsAreKept == RunsKeepTheirEnds => ReadsStay
BY DEF RunsKeepTheirEnds, ReadsStay, ReadBy, DeniedOnce, RunsOf

LEMMA PlanIsOfResources ==
  ASSUME SyncInv, NEW j \in Jobs
  PROVE  PlanSet(j) \subseteq Resources
<1>1. job[j].key \in Keys
  BY DEF SyncInv, QueueInv, QueueTypeOK, JobRows
<1>2. PlanOf(job[j].key) \in Seq(Resources)
  BY <1>1, PlanTyped
<1> QED
  BY <1>2 DEF PlanSet

(* A worker that goes on with its plan, or rests.                          *)
GoesOn(w) ==
  Working(w)' =>
    /\ Working(w)
    /\ task[w].pc = "close" => task'[w] = task[w]
    /\ task'[w].from = task[w].from /\ task'[w].todo = task[w].todo
    /\ task[w].results \subseteq task'[w].results
    /\ task'[w].pc = "close" => task'[w].status = "busy" \/ task'[w] = task[w]

LEMMA PlanGoesOn ==
  ASSUME SyncInv, JobsStay, ReadsStay, NEW w \in Workers, PlanProgress(w), GoesOn(w),
         lease'[w] = lease[w] \/ lease'[w] = NoLease,
         \A r \in Resources : Denial(r) => Denial(r)' \/ r \in Left(task[w])
  PROVE  PlanProgress(w)'
<1> SUFFICES ASSUME NEW u, NEW j, u = task'[w], j = u.from, Working(w)'
             PROVE  /\ j \in Jobs /\ job'[j].status # "absent"
                    /\ ~Idle(w)' => lease'[w].job = j
                    /\ u.pc = "close" => u.todo = <<>> \/ u.status = "busy"
                    /\ \/ WillNotSucceed(u)
                       \/ \A r \in PlanSet(j)' :
                            r \in Left(u) \/ ReadBy(j, r)' \/ Denial(r)'
  BY DEF PlanProgress, PlanSet, ReadBy, RunsOf
<1>1. PICK t : t = task[w]
  OBVIOUS
<1>2. /\ t.from = j /\ u.todo = t.todo /\ t.results \subseteq u.results
      /\ Working(w) /\ (t.pc # "close" \/ u = t)
      /\ u.pc = "close" => u.status = "busy" \/ u = t
  BY <1>1 DEF GoesOn, Working
<1>3. /\ j \in Jobs /\ job[j].status # "absent"
      /\ ~Idle(w) => lease[w].job = j
      /\ t.pc = "close" => t.todo = <<>> \/ t.status = "busy"
      /\ \/ WillNotSucceed(t)
         \/ \A r \in PlanSet(j) : r \in Left(t) \/ ReadBy(j, r) \/ Denial(r)
  BY <1>1, <1>2 DEF PlanProgress
<1>4. /\ job'[j].status # "absent" /\ PlanSet(j)' = PlanSet(j)
  BY <1>3 DEF JobsStay, PlanSet
<1>5. ~Idle(w)' => lease'[w].job = j
  BY <1>3 DEF Idle
<1>6. ASSUME WillNotSucceed(t) PROVE WillNotSucceed(u)
  BY <1>2, <1>6 DEF WillNotSucceed
<1>7. ASSUME \A r \in PlanSet(j) : r \in Left(t) \/ ReadBy(j, r) \/ Denial(r)
      PROVE  \A r \in PlanSet(j) : r \in Left(u) \/ ReadBy(j, r)' \/ Denial(r)'
  <2> SUFFICES ASSUME NEW r \in PlanSet(j)
               PROVE  r \in Left(u) \/ ReadBy(j, r)' \/ Denial(r)'
    OBVIOUS
  <2>1. r \in Resources
    BY <1>3, PlanIsOfResources
  <2>2. Left(u) = Left(t)
    BY <1>2 DEF Left
  <2>3. ReadBy(j, r) => ReadBy(j, r)'
    BY <1>3, <2>1 DEF ReadsStay
  <2> QED
    BY <1>1, <1>7, <2>1, <2>2, <2>3
<1>8. WillNotSucceed(u) \/ \A r \in PlanSet(j)' :
                              r \in Left(u) \/ ReadBy(j, r)' \/ Denial(r)'
  BY <1>2, <1>3, <1>4, <1>6, <1>7
<1> QED
  BY <1>1, <1>2, <1>3, <1>4, <1>5, <1>8

(* A step that begins and ends no run, and no plan.                        *)
LEMMA PlanQuiet ==
  ASSUME SyncInv, PlanInv, JobsStay, UNCHANGED <<runs, checkpoint>>,
         \A w \in Workers : /\ GoesOn(w)
                            /\ lease'[w] = lease[w] \/ lease'[w] = NoLease
  PROVE  PlanInv'
<1>1. RunsKeepTheirEnds /\ \A r \in Resources : Denial(r) => Denial(r)'
  BY DEF RunsKeepTheirEnds, Denial, DeniedOnce, RunsOf
<1>2. \A r \in Resources : checkpoint'[r].status = "forbidden" => DeniedOnce(r)'
  BY DEF PlanInv, DeniedOnce, RunsOf
<1>3. \A w \in Workers : PlanProgress(w)'
  BY <1>1, EndsAreKept, PlanGoesOn DEF PlanInv
<1> QED
  BY <1>2, <1>3 DEF PlanInv

(* A step of one worker on its own plan.                                   *)
LEMMA PlanOfOne ==
  ASSUME SyncInv, PlanInv, JobsStay, RunsKeepTheirEnds, NEW w \in Workers,
         \A v \in Workers \ {w} : task'[v] = task[v] /\ lease'[v] = lease[v],
         \A r \in Resources : checkpoint'[r].status = "forbidden" => DeniedOnce(r)',
         PlanProgress(w)'
  PROVE  PlanInv'
<1>1. ReadsStay
  BY EndsAreKept
<1>2. ASSUME NEW v \in Workers, v # w PROVE PlanProgress(v)'
  <2>1. GoesOn(v) /\ lease'[v] = lease[v] /\ PlanProgress(v)
    BY <1>2 DEF GoesOn, Working, PlanInv
  <2>2. ~OneWorker
    BY <1>2 DEF OneWorker
  <2>3. \A r \in Resources : Denial(r) => Denial(r)'
    BY <1>1, <2>2 DEF Denial, ReadsStay, OneWorker
  <2> QED
    BY <1>1, <2>1, <2>3, PlanGoesOn
<1> QED
  BY <1>2 DEF PlanInv

LEMMA PlanTaken ==
  ASSUME SyncInv, PlanInv, NEW w \in Workers, NEW j \in Jobs, Take(w, j)
  PROVE  PlanInv'
<1>0. /\ QueueInv /\ QueueTypeOK /\ task \in [Workers -> Tasks]
      /\ Claim(w, j) /\ UNCHANGED dataVars
  BY DEF SyncInv, SyncTypeOK, QueueInv, Take
<1>1. JobsStay
  BY <1>0, QueueStepStays DEF QueueNext, WorkerStep
<1>2. PICK k \in Keys : k = job[j].key
  BY <1>0 DEF QueueTypeOK, JobRows
<1>3. /\ lease'[w].job = j /\ job[j].status # "absent"
      /\ \A v \in Workers \ {w} : lease'[v] = lease[v]
  BY <1>0 DEF Claim, Claimable, QueueTypeOK
<1>4. PICK skip, todo, t :
        /\ skip \in SUBSET Denied(k)
        /\ todo = Skipping(PlanOf(k), skip \cup DoneBy(j))
        /\ t = [NoTask EXCEPT !.pc = IF todo = <<>> THEN "close" ELSE "begin",
                              !.todo = todo, !.from = j]
        /\ task' = [task EXCEPT ![w] = t]
  BY <1>2 DEF Take
<1>5. /\ t.todo = todo /\ t.from = j /\ t.pc \in {"close", "begin"}
      /\ t.pc = "close" => todo = <<>>
  BY <1>4 DEF NoTask
<1>6. task'[w] = t /\ \A v \in Workers \ {w} : task'[v] = task[v]
  BY <1>0, <1>4
<1>7. PlanSet(j)' = PlanSet(j) /\ job'[j].status # "absent"
  BY <1>1, <1>3 DEF JobsStay, PlanSet
<1>8. UNCHANGED <<runs, checkpoint>>
  BY <1>0 DEF dataVars
<1>9. ASSUME NEW r \in PlanSet(j)
      PROVE  r \in Left(t) \/ ReadBy(j, r)' \/ Denial(r)'
  <2>1. PICK i \in DOMAIN PlanOf(k) : r = PlanOf(k)[i]
    BY <1>2 DEF PlanSet
  <2>2. PlanOf(k) \in Seq(Resources)
    BY PlanTyped
  <2>3. CASE r \notin skip \cup DoneBy(j)
    <3>1. \E n \in DOMAIN todo : todo[n] = r
      BY <1>4, <2>1, <2>2, <2>3, SkipsOnly
    <3> QED
      BY <1>5, <3>1 DEF Left
  <2>4. CASE r \in skip
    <3>1. r \in Resources /\ checkpoint[r].status = "forbidden"
      BY <1>4, <2>4 DEF Denied
    <3>2. Denial(r)
      BY <3>1 DEF PlanInv, Denial
    <3> QED
      BY <1>8, <3>2 DEF Denial, DeniedOnce, RunsOf
  <2>5. CASE r \in DoneBy(j)
    <3>1. ReadBy(j, r)
      BY <2>5 DEF DoneBy, ReadBy, RunsOf
    <3> QED
      BY <1>8, <3>1 DEF ReadBy, RunsOf
  <2> QED
    BY <2>3, <2>4, <2>5
<1>10. PlanProgress(w)'
  BY <1>3, <1>5, <1>6, <1>7, <1>9 DEF PlanProgress, ReadBy, RunsOf, PlanSet
<1>11. RunsKeepTheirEnds /\ \A r \in Resources :
         checkpoint'[r].status = "forbidden" => DeniedOnce(r)'
  BY <1>8 DEF RunsKeepTheirEnds, PlanInv, DeniedOnce, RunsOf
<1> QED
  BY <1>1, <1>3, <1>6, <1>10, <1>11, PlanOfOne

(* A run that begins closes no run but those that were running, and writes *)
(* the checkpoint of a resource that is left to do.                        *)
LEMMA PlanBegun ==
  ASSUME SyncInv, PlanInv, NEW w \in Workers, BeginRun(w)
  PROVE  PlanInv'
<1>0. PICK n \in Nat, r \in {Head(task[w].todo)} : Len(runs) = n /\ r = Head(task[w].todo)
  BY DEF SyncInv, SyncTypeOK
<1>1. /\ task[w].pc = "begin" /\ UNCHANGED queueVars
      /\ checkpoint' = [checkpoint EXCEPT ![r].status = "running"]
  BY <1>0 DEF BeginRun, Held, AtPc
<1>2. /\ runs \in Seq(Runs) /\ DOMAIN runs = 1..n /\ task \in [Workers -> Tasks]
      /\ checkpoint \in [Resources -> Checkpoints] /\ QueueInv
      /\ \A i \in 1..n : runs[i] \in Runs
      /\ task[w].todo \in Seq(Resources) /\ task[w].todo # <<>>
  BY <1>0, <1>1 DEF SyncInv, SyncTypeOK, TaskIsGood, TaskHasItsRun, Tasks
<1>3. r \in Resources /\ r \in Left(task[w])
  BY <1>0, <1>2 DEF Left
<1>4. PICK closed, new :
        /\ closed = [i \in DOMAIN runs |->
                       IF i \in RunsOf(r) /\ runs[i].status = "running"
                         THEN [runs[i] EXCEPT !.status = "interrupted"]
                         ELSE runs[i]]
        /\ runs' = Append(closed, new)
  BY <1>0 DEF BeginRun
<1>5. RunsKeepTheirEnds
  <2>1. /\ Len(closed) = n /\ DOMAIN closed = 1..n
        /\ \A i \in 1..n : /\ closed[i].job = runs[i].job
                           /\ closed[i].resource = runs[i].resource
                           /\ runs[i].status # "running" => closed[i].status = runs[i].status
    <3>1. closed = [i \in 1..n |->
                       IF i \in RunsOf(r) /\ runs[i].status = "running"
                         THEN [runs[i] EXCEPT !.status = "interrupted"]
                         ELSE runs[i]]
      BY <1>2, <1>4
    <3>2. \A i \in 1..n : /\ closed[i].job = runs[i].job
                          /\ closed[i].resource = runs[i].resource
                          /\ runs[i].status # "running" => closed[i].status = runs[i].status
      BY <1>2, <3>1 DEF Runs
    <3> QED
      BY <1>0, <3>1, <3>2
  <2>2. \A i \in 1..n : i \in DOMAIN runs' /\ runs'[i] = closed[i]
    BY <1>0, <1>4, <2>1
  <2> QED
    BY <1>2, <2>1, <2>2 DEF RunsKeepTheirEnds
<1>6. /\ \A a \in Resources \ {r} : checkpoint'[a] = checkpoint[a]
      /\ checkpoint'[r].status = "running"
  BY <1>1, <1>2, <1>3 DEF Checkpoints
<1>7. \A a \in Resources : checkpoint'[a].status = "forbidden" => DeniedOnce(a)'
  BY <1>5, <1>6, EndsAreKept DEF PlanInv, ReadsStay
<1>8. /\ JobsStay /\ \A v \in Workers : lease'[v] = lease[v]
      /\ \A v \in Workers \ {w} : task'[v] = task[v]
  BY <1>1, <1>2 DEF JobsStay, queueVars, BeginRun
<1>9. GoesOn(w)
  <2>1. task[w] \in Tasks
    BY <1>2
  <2> QED
    BY <1>2, <1>1, <2>1 DEF BeginRun, GoesOn, Working, Tasks
<1>10. PlanProgress(w)'
  <2>1. \A a \in Resources : Denial(a) => Denial(a)' \/ a \in Left(task[w])
    BY <1>3, <1>5, <1>6, EndsAreKept DEF Denial, ReadsStay
  <2> QED
    BY <1>5, <1>8, <1>9, <2>1, EndsAreKept, PlanGoesOn DEF PlanInv
<1> QED
  BY <1>5, <1>7, <1>8, <1>10, PlanOfOne

(* A run that ends read its resource, or was denied it, or its status ends *)
(* the job without a success.                                              *)
LEMMA PlanEnded ==
  ASSUME SyncInv, DoneInv, PlanInv, NEW w \in Workers, EndRun(w)
  PROVE  PlanInv'
<1>0. PICK t \in Tasks, g \in {task[w].run}, r \in {Head(task[w].todo)},
          j \in {task[w].from}, status \in {task[w].status} :
        /\ t = task[w] /\ g = t.run /\ r = Head(t.todo)
        /\ j = t.from /\ status = t.status
  BY DEF SyncInv, SyncTypeOK
<1>1. /\ t.pc = "end" /\ LeaseAlive(w) /\ UNCHANGED queueVars
      /\ runs' = [runs EXCEPT ![g].status = status]
      /\ checkpoint' = [checkpoint EXCEPT ![r].status = status]
  BY <1>0 DEF EndRun, Held, AtPc
<1>2. /\ runs \in Seq(Runs) /\ task \in [Workers -> Tasks] /\ QueueInv
      /\ checkpoint \in [Resources -> Checkpoints]
      /\ \A i \in DOMAIN runs : runs[i] \in Runs
  BY DEF SyncInv, SyncTypeOK
<1>3. /\ g \in DOMAIN runs /\ runs[g].resource = r
      /\ runs[g].status \in {"running", "interrupted"} /\ status \in EndStatuses
      /\ t.todo \in Seq(Resources) /\ t.todo # <<>>
  BY <1>0, <1>1 DEF SyncInv, TaskIsGood, TaskHasItsRun, RunPcs, Tasks
<1>4. r \in Resources
  BY <1>0, <1>3
<1>5. /\ DOMAIN runs' = DOMAIN runs
      /\ \A i \in DOMAIN runs : /\ runs'[i].job = runs[i].job
                                /\ runs'[i].resource = runs[i].resource
                                /\ i # g => runs'[i].status = runs[i].status
      /\ runs'[g].status = status
  BY <1>1, <1>2, <1>3 DEF Runs
<1>6. RunsKeepTheirEnds
  BY <1>3, <1>5 DEF RunsKeepTheirEnds
<1>7. /\ \A a \in Resources \ {r} : checkpoint'[a] = checkpoint[a]
      /\ checkpoint'[r].status = status
  BY <1>1, <1>2, <1>4 DEF Checkpoints
<1>8. \A a \in Resources : checkpoint'[a].status = "forbidden" => DeniedOnce(a)'
  <2>1. status = "forbidden" => DeniedOnce(r)'
    BY <1>3, <1>5 DEF DeniedOnce, RunsOf
  <2> QED
    BY <1>6, <1>7, <2>1, EndsAreKept DEF PlanInv, ReadsStay
<1>9. /\ JobsStay /\ \A v \in Workers : lease'[v] = lease[v]
      /\ \A v \in Workers \ {w} : task'[v] = task[v]
  BY <1>1, <1>2 DEF JobsStay, queueVars, EndRun
<1>10. runs[g].job = j /\ ~Idle(w)
  <2>1. Owning(w) /\ ~Idle(w)
    BY <1>1 DEF LeaseAlive, Owning, Owns
  <2>2. runs[g].job = lease[w].job
    BY <1>0, <1>1, <2>1 DEF DoneInv, OwnerIsAhead, LatestOfItsJob, RunPcs
  <2>3. lease[w].job = j
    BY <1>0, <1>1, <2>1 DEF PlanInv, PlanProgress, Working
  <2> QED
    BY <2>1, <2>2, <2>3
<1>11. PICK stop, left, continue, u :
         /\ stop = (status \in StopsTheJob \/ Len(t.todo) = 1)
         /\ left = IF stop THEN <<>> ELSE Tail(t.todo)
         /\ continue = IF status = "continuing" THEN ContinueWith(w) ELSE {}
         /\ u = [NoTask EXCEPT !.pc = IF stop THEN "close" ELSE "begin",
                               !.todo = left, !.status = status,
                               !.results = t.results \cup {status},
                               !.continue = continue, !.from = j]
         /\ task'[w] = u
  BY <1>0, <1>2 DEF EndRun
<1>12. /\ u.pc = (IF stop THEN "close" ELSE "begin") /\ u.todo = left
       /\ u.status = status /\ u.results = t.results \cup {status}
       /\ u.continue = continue /\ u.from = j
  BY <1>11 DEF NoTask
<1>13. /\ j \in Jobs /\ job'[j].status # "absent"
       /\ ~Idle(w)' => lease'[w].job = j
       /\ PlanSet(j)' = PlanSet(j)
       /\ \/ WillNotSucceed(t)
          \/ \A a \in PlanSet(j) : a \in Left(t) \/ ReadBy(j, a) \/ Denial(a)
  <2>1. /\ j \in Jobs /\ job[j].status # "absent"
        /\ ~Idle(w) => lease[w].job = j
        /\ \/ WillNotSucceed(t)
           \/ \A a \in PlanSet(j) : a \in Left(t) \/ ReadBy(j, a) \/ Denial(a)
    BY <1>0, <1>1 DEF PlanInv, PlanProgress, Working
  <2> QED
    BY <1>9, <2>1 DEF JobsStay, PlanSet, Idle
<1>14. ASSUME WillNotSucceed(t) PROVE WillNotSucceed(u)
  BY <1>1, <1>12, <1>14 DEF WillNotSucceed
<1>15. ASSUME status \notin {"success", "partial"} PROVE WillNotSucceed(u)
  <2>1. CASE status = "continuing"
    <3>1. 1 \in 1..Len(t.todo)
      BY <1>3
    <3>2. KeyOf(t.todo[1], ModeOf(w)) \in ContinueWith(w)
      BY <1>0, <3>1 DEF ContinueWith
    <3>3. u.pc = "close" /\ u.continue # {}
      BY <1>11, <1>12, <2>1, <3>2 DEF StopsTheJob
    <3> QED
      BY <3>3 DEF WillNotSucceed
  <2>2. CASE status = "waiting_rate_limit"
    BY <1>11, <1>12, <2>2 DEF StopsTheJob, WillNotSucceed
  <2>3. CASE status \in Failing \cup {"cancelled"}
    BY <1>12, <2>3 DEF WillNotSucceed
  <2> QED
    BY <1>3, <1>15, <2>1, <2>2, <2>3 DEF EndStatuses
<1>16. ASSUME status \in {"success", "partial"},
              \A a \in PlanSet(j) : a \in Left(t) \/ ReadBy(j, a) \/ Denial(a)
       PROVE  \A a \in PlanSet(j) : a \in Left(u) \/ ReadBy(j, a)' \/ Denial(a)'
  <2> SUFFICES ASSUME NEW a \in PlanSet(j), a # r
               PROVE  a \in Left(u) \/ ReadBy(j, a)' \/ Denial(a)'
    BY <1>3, <1>5, <1>10, <1>16 DEF ReadBy, RunsOf
  <2>1. a \in Resources
    BY <1>13, PlanIsOfResources
  <2>2. ReadBy(j, a) => ReadBy(j, a)'
    BY <1>6, <1>13, <2>1, EndsAreKept DEF ReadsStay
  <2>3. Denial(a) => Denial(a)'
    BY <1>6, <1>7, <2>1, EndsAreKept DEF ReadsStay, Denial
  <2>4. ASSUME a \in Left(t) PROVE a \in Left(u)
    <3>1. PICK i \in DOMAIN t.todo : a = t.todo[i]
      BY <2>4 DEF Left
    <3>2. /\ Len(t.todo) \in Nat /\ DOMAIN t.todo = 1..Len(t.todo) /\ t.todo[1] = r
      BY <1>0, <1>3
    <3>3. i \in 2..Len(t.todo) /\ Len(t.todo) # 1
      BY <3>1, <3>2
    <3>4. ~stop /\ u.todo = Tail(t.todo)
      BY <1>11, <1>12, <1>16, <3>3 DEF StopsTheJob
    <3>5. i - 1 \in DOMAIN Tail(t.todo) /\ Tail(t.todo)[i-1] = t.todo[i]
      BY <1>3, <3>2, <3>3
    <3> QED
      BY <3>1, <3>4, <3>5 DEF Left
  <2> QED
    BY <1>16, <2>2, <2>3, <2>4
<1>17. WillNotSucceed(u)
         \/ \A a \in PlanSet(j) : a \in Left(u) \/ ReadBy(j, a)' \/ Denial(a)'
  BY <1>13, <1>14, <1>15, <1>16
<1>18. PlanProgress(w)'
  <2>1. u.pc = "close" => u.todo = <<>>
    BY <1>11, <1>12
  <2> QED
    BY <1>11, <1>12, <1>13, <1>17, <2>1 DEF PlanProgress, PlanSet, ReadBy, RunsOf
<1> QED
  BY <1>6, <1>8, <1>9, <1>18, PlanOfOne

LEMMA PlanInitHolds == SyncInit => PlanInv
BY DEF SyncInit, PlanInv, PlanProgress, Working, NoTask

LEMMA PlanPersisted ==
  ASSUME SyncInv, PlanInv, NEW w \in Workers, NEW bad, NEW slice, PersistPage(w, bad, slice)
  PROVE  PlanInv'
<1>1. /\ runs \in Seq(Runs) /\ task \in [Workers -> Tasks]
      /\ checkpoint \in [Resources -> Checkpoints] /\ task[w] \in Tasks
  BY DEF SyncInv, SyncTypeOK
<1>2. PICK g, x, r, y : /\ runs' = [runs EXCEPT ![g].after = x]
                        /\ checkpoint' = [checkpoint EXCEPT ![r].cursor = y]
  BY DEF PersistPage
<1>3. /\ DOMAIN runs' = DOMAIN runs
      /\ \A i \in DOMAIN runs : /\ runs'[i].job = runs[i].job
                                /\ runs'[i].resource = runs[i].resource
                                /\ runs'[i].status = runs[i].status
  <2>1. \A i \in DOMAIN runs : runs[i] \in Runs
    BY <1>1
  <2> QED
    BY <1>1, <1>2, <2>1 DEF Runs
<1>4. \A a \in Resources : checkpoint'[a].status = checkpoint[a].status
  BY <1>1, <1>2 DEF Checkpoints
<1>5. RunsKeepTheirEnds
  BY <1>3 DEF RunsKeepTheirEnds
<1>6. \A a \in Resources : /\ checkpoint'[a].status = "forbidden" => DeniedOnce(a)'
                           /\ Denial(a) => Denial(a)'
  BY <1>4, <1>5, EndsAreKept DEF PlanInv, ReadsStay, Denial
<1>7. /\ JobsStay /\ \A v \in Workers : lease'[v] = lease[v]
      /\ \A v \in Workers \ {w} : task'[v] = task[v]
  BY <1>1 DEF PersistPage, JobsStay, queueVars
<1>8. GoesOn(w)
  BY <1>1 DEF PersistPage, Held, AtPc, GoesOn, Working, Tasks
<1>9. PlanProgress(w)'
  BY <1>5, <1>6, <1>7, <1>8, EndsAreKept, PlanGoesOn DEF PlanInv
<1> QED
  BY <1>5, <1>6, <1>7, <1>9, PlanOfOne

LEMMA PlanInvInductive == SyncInv /\ DoneInv /\ PlanInv /\ [SyncOrCrash]_syncVars => PlanInv'
<1> SUFFICES ASSUME SyncInv, DoneInv, PlanInv, [SyncOrCrash]_syncVars PROVE PlanInv'
  OBVIOUS
<1>0. /\ QueueInv /\ lease \in [Workers -> Leases] /\ task \in [Workers -> Tasks]
      /\ \A v \in Workers : task[v] \in Tasks
  BY DEF SyncInv, SyncTypeOK, QueueInv, QueueTypeOK
<1>1. ASSUME QueueNext \/ UNCHANGED job PROVE JobsStay
  BY <1>0, <1>1, QueueStepStays DEF JobsStay
<1>2. ASSUME NEW w \in Workers, NEW j \in Jobs, Take(w, j) PROVE PlanInv'
  BY <1>2, PlanTaken
<1>3. ASSUME NEW w \in Workers, BeginRun(w) \/ EndRun(w) PROVE PlanInv'
  BY <1>3, PlanBegun, PlanEnded
<1>4. ASSUME NEW w \in Workers, NEW bad \in SUBSET Fragile, NEW slice \in BOOLEAN,
             PersistPage(w, bad, slice)
      PROVE  PlanInv'
  BY <1>4, PlanPersisted
(* A worker forgets, gives up or hands over.                               *)
<1>5. ASSUME NEW w \in Workers, LoseLease(w) \/ Crash(w) \/ CloseJob(w) \/ Requeue(w)
      PROVE  PlanInv'
  <2>1. /\ UNCHANGED <<runs, checkpoint>>
        /\ lease' = lease \/ lease' = [lease EXCEPT ![w] = NoLease]
    BY <1>5 DEF LoseLease, Crash, CloseJob, Requeue, Finish, dataVars
  <2>2. /\ ~Working(w)'
        /\ \A v \in Workers \ {w} : task'[v] = task[v]
    <3>1. PICK t : /\ task' = [task EXCEPT ![w] = t]
                   /\ t.pc \in {"idle", "requeue"}
      <4>1. NoTask.pc = "idle"
        BY DEF NoTask
      <4>2. CASE LoseLease(w) \/ Crash(w) \/ Requeue(w)
        BY <4>1, <4>2 DEF LoseLease, Crash, Requeue
      <4>3. CASE CloseJob(w)
        <5> DEFINE t == [NoTask EXCEPT !.pc = "requeue", !.from = task[w].from,
                                       !.continue = task[w].continue]
        <5>1. t.pc = "requeue"
          BY DEF NoTask
        <5>2. \/ task' = [task EXCEPT ![w] = NoTask]
              \/ task' = [task EXCEPT ![w] = t]
          BY <4>3 DEF CloseJob
        <5> QED
          BY <4>1, <5>1, <5>2
      <4> QED
        BY <1>5, <4>2, <4>3
    <3> QED
      BY <1>0, <3>1 DEF Working
  <2>3. JobsStay
    <3>1. CASE LoseLease(w) \/ Crash(w)
      BY <1>1, <3>1 DEF LoseLease, Crash
    <3>2. CASE CloseJob(w)
      <4>1. JobStatus(task[w]) \in Terminal \cup {"queued"}
        BY DEF JobStatus, Terminal
      <4> QED
        BY <1>1, <3>2, <4>1 DEF CloseJob, QueueNext, WorkerStep
    <3>3. CASE Requeue(w)
      <4>1. task[w].continue \in SUBSET Keys
        BY <1>0 DEF Tasks
      <4> QED
        BY <1>0, <3>3, <4>1, EnqueueAllStays DEF Requeue
    <3> QED
      BY <1>5, <3>1, <3>2, <3>3
  <2>4. \A v \in Workers : /\ GoesOn(v)
                           /\ lease'[v] = lease[v] \/ lease'[v] = NoLease
    BY <1>0, <2>1, <2>2 DEF GoesOn, Working
  <2> QED
    BY <2>1, <2>3, <2>4, PlanQuiet
(* A worker goes on with its plan, or leaves it to another job.            *)
<1>6. ASSUME NEW w \in Workers,
             BeginBusy(w) \/ Check(w) \/ Fetch(w) \/ \E status \in Outages : FetchFails(w, status)
      PROVE  PlanInv'
  <2>1. /\ UNCHANGED <<queueVars, runs, checkpoint>>
        /\ \A v \in Workers \ {w} : task'[v] = task[v]
    BY <1>0, <1>6 DEF BeginBusy, Check, Fetch, FetchFails, Ending, dataVars
  <2>2. GoesOn(w)
    <3>1. task[w] \in Tasks
      BY <1>0
    <3>2. ASSUME BeginBusy(w) PROVE GoesOn(w)
      BY <1>0, <3>1, <3>2 DEF BeginBusy, Held, AtPc, GoesOn, Working, Tasks
    <3>3. ASSUME Check(w) PROVE GoesOn(w)
      <4>1. task[w].pc = "check"
        BY <3>3 DEF Check, Held, AtPc
      <4>2. \/ task' = [task EXCEPT ![w].pc = "end", ![w].status = "cancelled"]
            \/ task' = [task EXCEPT ![w].pc = "fetch"]
        BY <3>3 DEF Check, Ending
      <4>3. /\ task'[w].pc \in {"end", "fetch", "persist"} /\ task'[w].from = task[w].from
            /\ task'[w].todo = task[w].todo /\ task'[w].results = task[w].results
        BY <1>0, <3>1, <4>2 DEF Tasks
      <4> QED
        BY <4>1, <4>3 DEF GoesOn, Working
    <3>4. ASSUME Fetch(w) PROVE GoesOn(w)
      <4>1. task[w].pc = "fetch"
        BY <3>4 DEF Fetch, AtPc
      <4>2. /\ task'[w].pc \in {"end", "persist"} /\ task'[w].from = task[w].from
            /\ task'[w].todo = task[w].todo /\ task'[w].results = task[w].results
        <5>1. CASE PageFrom(task[w].cursor) = {}
          <6>1. task' = [task EXCEPT ![w].pc = "end", ![w].status = "success",
                                     ![w].upto = head]
            BY <3>4, <5>1 DEF Fetch
          <6> QED
            BY <1>0, <3>1, <6>1 DEF Tasks
        <5>2. CASE PageFrom(task[w].cursor) # {}
          <6>1. PICK page, more :
                  task' = [task EXCEPT ![w].pc = "persist", ![w].page = page,
                                       ![w].more = more, ![w].upto = head]
            BY <3>4, <5>2 DEF Fetch
          <6> QED
            BY <1>0, <3>1, <6>1 DEF Tasks
        <5> QED
          BY <5>1, <5>2
      <4> QED
        BY <4>1, <4>2 DEF GoesOn, Working
    <3>5. ASSUME NEW status \in Outages, FetchFails(w, status) PROVE GoesOn(w)
      BY <1>0, <3>1, <3>5 DEF FetchFails, Ending, AtPc, GoesOn, Working, Tasks
    <3> QED
      BY <1>6, <3>2, <3>3, <3>4, <3>5
  <2>3. JobsStay /\ lease' = lease
    BY <1>1, <2>1 DEF queueVars
  <2>4. \A v \in Workers : GoesOn(v)
    BY <2>1, <2>2 DEF GoesOn, Working
  <2> QED
    BY <2>1, <2>3, <2>4, PlanQuiet
(* The rest of the world: the queue, the time, the origin.                 *)
<1>7. ASSUME UNCHANGED <<lease, task, runs, checkpoint>>, QueueNext \/ UNCHANGED job
      PROVE  PlanInv'
  <2>1. \A v \in Workers : GoesOn(v) /\ lease'[v] = lease[v]
    BY <1>7 DEF GoesOn, Working
  <2> QED
    BY <1>1, <1>7, <2>1, PlanQuiet
<1>8. ASSUME NEW w \in Workers, Renew(w) PROVE PlanInv'
  <2>1. Heartbeat(w, lease[w].job) /\ UNCHANGED <<task, dataVars>>
    BY <1>8 DEF Renew
  <2>2. lease[w].job \in Jobs
    BY <1>0, <2>1 DEF Heartbeat, Owns, QueueInv, FreshTokens
  <2>3. QueueNext /\ UNCHANGED lease
    BY <2>1, <2>2 DEF QueueNext, Heartbeat
  <2> QED
    BY <1>7, <2>1, <2>3 DEF dataVars
<1>9. ASSUME NEW w \in Workers, ReleaseExpired(w), UNCHANGED <<task, dataVars>> PROVE PlanInv'
  <2>1. QueueNext /\ UNCHANGED lease
    BY <1>9 DEF QueueNext, WorkerStep, ReleaseExpired
  <2> QED
    BY <1>7, <1>9, <2>1 DEF dataVars
<1>10. ASSUME \/ \E k \in Keys : Request(k)
              \/ \E c \in Cancellers :
                   /\ CancelWrite(c) \/ \E j \in Jobs : CancelRead(c, j)
                   /\ UNCHANGED <<task, dataVars>>
              \/ \E j \in Jobs : Passing(j) \/ Due(j)
       PROVE  PlanInv'
  <2>1. QueueNext /\ UNCHANGED <<lease, task, dataVars>>
    BY <1>10 DEF Request, Passing, Due, QueueNext, Enqueue, CancelWrite, CancelRead,
                 LeaseExpires, BecomesDue
  <2> QED
    BY <1>7, <2>1 DEF dataVars
<1>11. CASE Change \/ UNCHANGED syncVars
  BY <1>7, <1>11 DEF Change, syncVars, queueVars, dataVars
<1> QED
  BY <1>2, <1>3, <1>4, <1>5, <1>6, <1>8, <1>9, <1>10, <1>11
     DEF SyncOrCrash, SyncNext, SyncStep

LEMMA SuccessReads ==
  ASSUME SyncInv, PlanInv, NEW w \in Workers,
         task[w].pc = "close", JobStatus(task[w]) = "succeeded", task[w].continue = {}
  PROVE  \A r \in PlanSet(task[w].from) : ReadBy(task[w].from, r) \/ Denial(r)
<1>1. /\ task[w].status \notin {"busy", "waiting_rate_limit"}
      /\ task[w].results \cap (Failing \cup {"cancelled"}) = {}
  BY DEF JobStatus
<1>2. ~WillNotSucceed(task[w]) /\ task[w].todo = <<>>
  BY <1>1 DEF WillNotSucceed, PlanInv, PlanProgress, Working
<1>3. Left(task[w]) = {}
  BY <1>2 DEF Left
<1> QED
  BY <1>2, <1>3 DEF PlanInv, PlanProgress, Working

(* A job that ends as a success, and leaves no continuation, read every    *)
(* resource of its plan, itself, in this claim or an earlier one: whatever *)
(* other workers do meanwhile, but for the resources that the origin denied*)
(* in some run (workers.py:41-60, 155-169).                                *)
THEOREM PlansAreReadOrDenied ==
  ASSUME ContinuationsAreKeys, NoRepeats(Order)
  PROVE  CrashingSpec => []SuccessReadsOrWasDenied
<1>1. SyncInv /\ PlanInv => SuccessReadsOrWasDenied
  BY SuccessReads DEF SuccessReadsOrWasDenied, Denial
<1> QED
  BY <1>1, DoneInitHolds, DoneInvInductive, SyncInvHolds, PlanInitHolds,
     PlanInvInductive, PTL DEF CrashingSpec

(* Where one worker runs (docs/erp/status.md:65), the resources left out   *)
(* are those whose checkpoint still shows the denial; with two, another    *)
(* job may be trying such a resource again while the first one ends.       *)
THEOREM PlansAreRead ==
  ASSUME ContinuationsAreKeys, NoRepeats(Order), OneWorker
  PROVE  CrashingSpec => []PlanIsRead
<1>1. SyncInv /\ PlanInv => JobSuccessIsComplete
  <2> SUFFICES ASSUME SyncInv, PlanInv, NEW w \in Workers,
                      task[w].pc = "close", JobStatus(task[w]) = "succeeded",
                      task[w].continue = {},
                      NEW i \in 1..Len(PlanOf(job[task[w].from].key))
               PROVE  LET r == PlanOf(job[task[w].from].key)[i]
                      IN ReadBy(task[w].from, r) \/ checkpoint[r].status = "forbidden"
    BY DEF JobSuccessIsComplete
  <2>1. task[w].from \in Jobs
    BY DEF PlanInv, PlanProgress, Working
  <2>2. job[task[w].from].key \in Keys
    BY <2>1 DEF SyncInv, QueueInv, QueueTypeOK, JobRows
  <2>3. i \in DOMAIN PlanOf(job[task[w].from].key)
    <3>1. PICK s \in Seq(Resources) : s = PlanOf(job[task[w].from].key)
      BY <2>2, PlanTyped
    <3> QED
      BY <3>1
  <2>4. PlanOf(job[task[w].from].key)[i] \in PlanSet(task[w].from)
    BY <2>3 DEF PlanSet
  <2> QED
    BY <2>4, SuccessReads DEF Denial
<1> QED
  BY <1>1, NothingIsDoneTwice, DoneInitHolds, DoneInvInductive, SyncInvHolds, PlanInitHolds,
     PlanInvInductive, PTL DEF CrashingSpec, PlanIsRead

-----------------------------------------------------------------------------
(* What a slice leaves of a full load is kept                              *)

FullRuns(r) == {i \in RunsOf(r) : runs[i].mode = "full"}

(* Where nobody cancels, a row with a token is being processed.            *)
TokensProcess == \A j \in Jobs : job[j].token # 0 => job[j].status = "processing"

RunsHaveJobs ==
  \A i \in DOMAIN runs :
    /\ job[runs[i].job].status # "absent"
    /\ runs[i].mode = "full" => job[runs[i].job].key = KeyOf(runs[i].resource, "full")

(* An active job that is done leaves no slice.                             *)
DoneIsDone ==
  \A j \in Jobs, r \in Resources :
    (IsActive(j) /\ job[j].key = KeyOf(r, "full") /\ r \in DoneBy(j)) => ~Sliced(r)

(* The owner of a full load runs the last full run of its resource; when   *)
(* it is about to end the job, the load is over, goes back to the line, or *)
(* is continued by the worker.                                             *)
OwnerCarriesOn(w, r) ==
  (Owning(w) /\ job[lease[w].job].key = KeyOf(r, "full")) =>
    /\ \A n \in DOMAIN task[w].todo : task[w].todo[n] = r
    /\ task[w].pc \in RunPcs => /\ task[w].run \in FullRuns(r)
                                /\ \A i \in FullRuns(r) : i <= task[w].run
    /\ task[w].pc = "close" => \/ task[w].status = "busy" \/ ~Sliced(r)
                               \/ KeyOf(r, "full") \in task[w].continue

HandsOver(w) == task[w].continue # {} => task[w].pc \in {"close", "requeue"}

KeptInv ==
  /\ TokensProcess /\ RunsHaveJobs /\ DoneIsDone /\ ContinuationKept
  /\ \A w \in Workers : HandsOver(w) /\ \A r \in Resources : OwnerCarriesOn(w, r)

(* What the theorem asks for: no load of all the resources, and nobody who *)
(* cancels.                                                                *)
LoadsAreSingle == Cancellers = {} /\ KeyOf("all", "full") \notin Keys

LEMMA LastIn ==
  ASSUME NEW n \in Nat, NEW F \in SUBSET (0..n), NEW P
  PROVE  (F # {} /\ MaxOf(F) \in P) <=> \E i \in F : i \in P /\ \A k \in F : k <= i
<1>1. F # {} => MaxOf(F) \in F /\ \A y \in F : y <= MaxOf(F)
  BY MaxOfExists
<1>2. ASSUME NEW i \in F, \A k \in F : k <= i PROVE MaxOf(F) = i
  <2>1. PICK m \in F : m = MaxOf(F) /\ \A y \in F : y <= m
    BY <1>1
  <2>2. m \in Int /\ i \in Int /\ m <= i /\ i <= m
    BY <1>2, <2>1
  <2> QED
    BY <2>1, <2>2
<1> QED
  BY <1>1, <1>2

(* The last full run yielded.                                              *)
YieldedLast(r) ==
  \E i \in FullRuns(r) : runs[i].status = "continuing" /\ \A k \in FullRuns(r) : k <= i

LEMMA SlicedMeans ==
  ASSUME SyncTypeOK, NEW r \in Resources
  PROVE  Sliced(r) <=> YieldedLast(r)
<1>1. PICK n \in Nat : Len(runs) = n /\ DOMAIN runs = 1..n
  BY DEF SyncTypeOK
<1>2. PICK F \in SUBSET (0..n) : F = FullRuns(r)
  <2>1. \A i \in FullRuns(r) : i \in 1..n
    BY <1>1 DEF FullRuns, RunsOf
  <2> QED
    BY <2>1
<1>3. PICK P : P = {i \in DOMAIN runs : runs[i].status = "continuing"}
  OBVIOUS
<1>4. (F # {} /\ MaxOf(F) \in P) <=> \E i \in F : i \in P /\ \A k \in F : k <= i
  BY LastIn
<1>5. \A i \in F : i \in P <=> runs[i].status = "continuing"
  BY <1>2, <1>3 DEF FullRuns, RunsOf
<1>6. Sliced(r) <=> F # {} /\ runs[MaxOf(F)].status = "continuing"
  BY <1>2 DEF Sliced, FullRuns
<1>7. F # {} => MaxOf(F) \in F
  BY MaxOfExists
<1> QED
  BY <1>2, <1>4, <1>5, <1>6, <1>7 DEF YieldedLast

LEMMA SlicedMeansNext ==
  ASSUME SyncTypeOK', NEW r \in Resources
  PROVE  Sliced(r)' <=> YieldedLast(r)'
<1>1. PICK n \in Nat : Len(runs') = n /\ DOMAIN runs' = 1..n
  BY DEF SyncTypeOK
<1>2. PICK F \in SUBSET (0..n) : F = FullRuns(r)'
  <2>1. \A i \in FullRuns(r)' : i \in 1..n
    BY <1>1 DEF FullRuns, RunsOf
  <2> QED
    BY <2>1
<1>3. PICK P : P = {i \in DOMAIN runs' : runs'[i].status = "continuing"}
  OBVIOUS
<1>4. (F # {} /\ MaxOf(F) \in P) <=> \E i \in F : i \in P /\ \A k \in F : k <= i
  BY LastIn
<1>5. \A i \in F : i \in P <=> runs'[i].status = "continuing"
  BY <1>2, <1>3 DEF FullRuns, RunsOf
<1>6. Sliced(r)' <=> F # {} /\ runs'[MaxOf(F)].status = "continuing"
  BY <1>2 DEF Sliced, FullRuns, MaxOf
<1>7. F # {} => MaxOf(F) \in F
  BY MaxOfExists
<1> QED
  BY <1>2, <1>4, <1>5, <1>6, <1>7 DEF YieldedLast

(* A run keeps its status, or a slice is continued by another one.         *)
RunsStand ==
  /\ DOMAIN runs' = DOMAIN runs
  /\ \A i \in DOMAIN runs :
       /\ runs'[i].job = runs[i].job /\ runs'[i].resource = runs[i].resource
       /\ runs'[i].mode = runs[i].mode /\ runs'[i].status = runs[i].status

LEMMA RunsStandMeans ==
  ASSUME SyncTypeOK, SyncTypeOK', RunsStand
  PROVE  /\ \A r \in Resources : FullRuns(r)' = FullRuns(r) /\ (Sliced(r)' <=> Sliced(r))
         /\ \A j \in Jobs : DoneBy(j)' = DoneBy(j)
<1>1. ASSUME NEW r \in Resources
      PROVE  FullRuns(r)' = FullRuns(r) /\ (Sliced(r)' <=> Sliced(r))
  <2>1. FullRuns(r)' = FullRuns(r)
    BY DEF RunsStand, FullRuns, RunsOf
  <2>2. Sliced(r) <=> YieldedLast(r)
    BY SlicedMeans
  <2>3. Sliced(r)' <=> YieldedLast(r)'
    BY SlicedMeansNext
  <2>4. \A i \in FullRuns(r) : i \in DOMAIN runs
    BY DEF FullRuns, RunsOf
  <2> QED
    BY <2>1, <2>2, <2>3, <2>4 DEF RunsStand, YieldedLast
<1>2. \A j \in Jobs : DoneBy(j)' = DoneBy(j)
  BY DEF RunsStand, DoneBy
<1> QED
  BY <1>1, <1>2

(* The table of jobs after a step that ends none.                          *)
ActiveStays ==
  \A j \in Jobs :
    /\ IsActive(j) => IsActive(j)'
    /\ IsActive(j)' => IsActive(j) \/ job[j].status = "absent"
    /\ job'[j].token # 0 => job'[j].status = "processing"

LEMMA EnqueueStaysActive ==
  ASSUME QueueInv, TokensProcess, NEW S \in SUBSET Keys, EnqueueAll(S)
  PROVE  ActiveStays
<1> DEFINE K    == {k \in S : MustCreate(k)}
           free == {j \in Jobs : job[j].status = "absent"}
<1>1. PICK f \in [K -> free] :
        job' = [j \in Jobs |->
                 IF \E k \in K : f[k] = j
                   THEN NewJob(CHOOSE k \in K : f[k] = j)
                   ELSE job[j]]
  BY DEF EnqueueAll
<1> SUFFICES ASSUME NEW j \in Jobs
             PROVE  /\ IsActive(j) => IsActive(j)'
                    /\ IsActive(j)' => IsActive(j) \/ job[j].status = "absent"
                    /\ job'[j].token # 0 => job'[j].status = "processing"
  BY DEF ActiveStays
<1>2. CASE \E k \in K : f[k] = j
  <2>1. j \in free
    BY <1>2
  <2>2. PICK k : job'[j] = NewJob(k)
    BY <1>1, <1>2
  <2>3. job'[j].token = 0 /\ job[j].status = "absent"
    BY <2>1, <2>2 DEF NewJob
  <2> QED
    BY <2>3 DEF IsActive, Active
<1>3. CASE ~\E k \in K : f[k] = j
  <2>1. job'[j] = job[j]
    BY <1>1, <1>3
  <2> QED
    BY <2>1 DEF IsActive, TokensProcess
<1> QED
  BY <1>2, <1>3

LEMMA StepStaysActive ==
  ASSUME QueueInv, TokensProcess,
         \/ UNCHANGED job
         \/ \E k \in Keys : Enqueue(k)
         \/ \E w \in Workers : ReleaseExpired(w)
         \/ \E w \in Workers, j \in Jobs : Claim(w, j) \/ Heartbeat(w, j)
         \/ \E j \in Jobs : LeaseExpires(j) \/ BecomesDue(j)
  PROVE  ActiveStays
<1>0. job \in [Jobs -> JobRows]
  BY DEF QueueInv, QueueTypeOK
<1>1. CASE UNCHANGED job
  BY <1>1 DEF ActiveStays, IsActive, TokensProcess
<1>2. ASSUME NEW k \in Keys, Enqueue(k) PROVE ActiveStays
  BY <1>2, EnqueueStaysActive DEF Enqueue
<1>3. ASSUME NEW w \in Workers, ReleaseExpired(w) PROVE ActiveStays
  BY <1>0, <1>3 DEF ReleaseExpired, JobRows, ActiveStays, IsActive, Active, TokensProcess
<1>4. ASSUME NEW w \in Workers, NEW j \in Jobs, Claim(w, j) PROVE ActiveStays
  BY <1>0, <1>4 DEF Claim, Claimable, JobRows, ActiveStays, IsActive, Active, TokensProcess
<1>5. ASSUME NEW w \in Workers, NEW j \in Jobs, Heartbeat(w, j) PROVE ActiveStays
  BY <1>0, <1>5 DEF Heartbeat, JobRows, ActiveStays, IsActive, TokensProcess
<1>6. ASSUME NEW j \in Jobs, LeaseExpires(j) PROVE ActiveStays
  BY <1>0, <1>6 DEF LeaseExpires, JobRows, ActiveStays, IsActive, TokensProcess
<1>7. ASSUME NEW j \in Jobs, BecomesDue(j) PROVE ActiveStays
  BY <1>0, <1>7 DEF BecomesDue, JobRows, ActiveStays, IsActive, TokensProcess
<1> QED
  BY <1>1, <1>2, <1>3, <1>4, <1>5, <1>6, <1>7

(* The active job of a full load has one owner at most.                    *)
LEMMA OwnersAreOne ==
  ASSUME SyncInv, DoneInv, TokensProcess, NEW v \in Workers, NEW w \in Workers,
         Owning(v), Owning(w), job[lease[v].job].key = job[lease[w].job].key
  PROVE  v = w
<1>1. /\ lease[v].job \in Jobs /\ lease[w].job \in Jobs /\ QueueInv
      /\ lease[v].token > 0 /\ lease[w].token > 0
  BY DEF SyncInv, QueueInv, FreshTokens, Owning, DoneInv
<1>2. job[lease[v].job].status = "processing" /\ job[lease[w].job].status = "processing"
  BY <1>1 DEF Owning, TokensProcess
<1>3. lease[v].job = lease[w].job
  BY <1>1, <1>2 DEF QueueInv, UniqueActive, IsActive, Active
<1> QED
  BY <1>1, <1>3, OwnersDiffer

(* What the steps have in common: a worker that goes on, loses its lease,  *)
(* or whose request is refused.                                            *)
Quietly(v) ==
  /\ lease'[v] = lease[v] \/ lease'[v] = NoLease
  /\ task'[v].todo = task[v].todo \/ task'[v].todo = <<>>
  /\ task'[v].continue = task[v].continue
  /\ task'[v].pc \in RunPcs => task[v].pc \in RunPcs /\ task'[v].run = task[v].run
  /\ task'[v].pc = "close" => task'[v].status = "busy" \/ task'[v] = task[v]
  /\ task'[v].continue # {} => task'[v].pc \in {"close", "requeue"}

(* Who still owns a full load still carries on with it.                    *)
LEMMA OwnerGoesOn ==
  ASSUME SyncInv, SyncInv', DoneInv, KeptInv, JobsStay, TokensMove, RunsStand,
         NEW v \in Workers, NEW r \in Resources, Quietly(v)
  PROVE  OwnerCarriesOn(v, r)'
<1> SUFFICES ASSUME Owning(v)', job'[lease'[v].job].key = KeyOf(r, "full")
             PROVE  OwnerCarriesOn(v, r)'
  BY DEF OwnerCarriesOn
<1>1. lease'[v] = lease[v] /\ ~Idle(v) /\ QueueInv
  BY DEF Quietly, Owning, Idle, SyncInv
<1>2. Owning(v)
  BY <1>1, OwnersWereOwners DEF DoneInv
<1>3. lease[v].job \in Jobs /\ job[lease[v].job].status # "absent"
  BY <1>1 DEF QueueInv, FreshTokens, SyncInv, PlanIsKnown
<1>4. job[lease[v].job].key = KeyOf(r, "full")
  BY <1>1, <1>3 DEF JobsStay
<1>5. /\ \A n \in DOMAIN task[v].todo : task[v].todo[n] = r
      /\ task[v].pc \in RunPcs => /\ task[v].run \in FullRuns(r)
                                  /\ \A i \in FullRuns(r) : i <= task[v].run
      /\ task[v].pc = "close" => \/ task[v].status = "busy" \/ ~Sliced(r)
                                 \/ KeyOf(r, "full") \in task[v].continue
  BY <1>2, <1>4 DEF KeptInv, OwnerCarriesOn
<1>6. FullRuns(r)' = FullRuns(r) /\ (Sliced(r)' <=> Sliced(r))
  BY RunsStandMeans DEF SyncInv
<1>7. \A n \in DOMAIN task'[v].todo : task'[v].todo[n] = r
  BY <1>5 DEF Quietly
<1>8. KeyOf(r, "full")' = KeyOf(r, "full")
  BY DEF KeyOf
<1> QED
  BY <1>5, <1>6, <1>7, <1>8 DEF OwnerCarriesOn, Quietly

(* What the tables say after a step that ends no run and no job.           *)
LEMMA KeptTables ==
  ASSUME SyncInv, SyncInv', DoneInv, KeptInv, JobsStay, ActiveStays, RunsStand,
         \A v \in Workers : /\ HandsOver(v)' /\ \A r \in Resources : OwnerCarriesOn(v, r)'
                            /\ task'[v].continue = task[v].continue
  PROVE  KeptInv'
<1>1. /\ \A r \in Resources : FullRuns(r)' = FullRuns(r) /\ (Sliced(r)' <=> Sliced(r))
      /\ \A j \in Jobs : DoneBy(j)' = DoneBy(j)
  BY RunsStandMeans DEF SyncInv
<1>2. TokensProcess'
  BY DEF ActiveStays, TokensProcess
<1>3. \A i \in DOMAIN runs : runs[i].job \in Jobs
  <2>1. runs \in Seq(Runs)
    BY DEF SyncInv, SyncTypeOK
  <2>2. \A i \in DOMAIN runs : runs[i] \in Runs
    BY <2>1
  <2> QED
    BY <2>2 DEF Runs
<1>4. RunsHaveJobs'
  BY <1>3 DEF RunsHaveJobs, KeptInv, RunsStand, JobsStay, KeyOf
<1>5. DoneIsDone'
  <2> SUFFICES ASSUME NEW j \in Jobs, NEW r \in Resources, IsActive(j)',
                      job'[j].key = KeyOf(r, "full"), r \in DoneBy(j)', Sliced(r)'
               PROVE  FALSE
    BY DEF DoneIsDone, KeyOf
  <2>1. r \in DoneBy(j) /\ Sliced(r)
    BY <1>1
  <2>2. job[j].status # "absent"
    BY <2>1 DEF DoneBy, KeptInv, RunsHaveJobs
  <2>3. IsActive(j) /\ job[j].key = KeyOf(r, "full")
    BY <2>2 DEF ActiveStays, JobsStay
  <2> QED
    BY <2>1, <2>3 DEF KeptInv, DoneIsDone
<1>6. ContinuationKept'
  <2> SUFFICES ASSUME NEW r \in Resources, Sliced(r)'
               PROVE  \/ \E j \in Jobs : IsActive(j)' /\ job'[j].key = KeyOf(r, "full")
                      \/ \E v \in Workers : KeyOf(r, "full") \in task'[v].continue
    BY DEF ContinuationKept, KeyOf
  <2>1. \/ \E j \in Jobs : IsActive(j) /\ job[j].key = KeyOf(r, "full")
        \/ \E v \in Workers : KeyOf(r, "full") \in task[v].continue
    BY <1>1 DEF KeptInv, ContinuationKept
  <2>2. CASE \E j \in Jobs : IsActive(j) /\ job[j].key = KeyOf(r, "full")
    BY <2>2 DEF ActiveStays, JobsStay, IsActive, Active
  <2>3. CASE \E v \in Workers : KeyOf(r, "full") \in task[v].continue
    BY <2>3
  <2> QED
    BY <2>1, <2>2, <2>3
<1> QED
  BY <1>2, <1>4, <1>5, <1>6 DEF KeptInv

LEMMA KeptQuiet ==
  ASSUME SyncInv, SyncInv', DoneInv, KeptInv, JobsStay, TokensMove, ActiveStays, RunsStand,
         \A v \in Workers : Quietly(v)
  PROVE  KeptInv'
<1>1. \A v \in Workers : HandsOver(v)' /\ task'[v].continue = task[v].continue
  BY DEF HandsOver, Quietly
<1>2. \A v \in Workers, r \in Resources : OwnerCarriesOn(v, r)'
  BY OwnerGoesOn
<1> QED
  BY <1>1, <1>2, KeptTables

(* The key of a job that is for one resource.                              *)
LEMMA KeyParts ==
  ASSUME LoadsAreSingle, NEW k \in Keys, k[2] = "full"
  PROVE  \E r \in Resources : k = KeyOf(r, "full") /\ PlanOf(k) = <<r>>
<1>1. PICK x \in Resources \cup {"all"}, m \in Modes : k = <<x, m>>
  BY KeysAreSync DEF SyncKeys
<1>2. m = "full" /\ x # "all" /\ k[1] = x
  BY <1>1 DEF LoadsAreSingle, KeyOf
<1> QED
  BY <1>1, <1>2 DEF KeyOf, PlanOf

LEMMA KeyOfOne ==
  ASSUME NEW r \in Resources, NEW q, KeyOf(r, "full") = KeyOf(q, "full")
  PROVE  r = q
BY DEF KeyOf

(* A claim starts a plan, unless the load is done.                         *)
LEMMA KeptTake ==
  ASSUME SyncInv, SyncInv', DoneInv, KeptInv, LoadsAreSingle,
         NEW w \in Workers, NEW j \in Jobs, Take(w, j)
  PROVE  KeptInv'
<1>0. /\ QueueInv /\ QueueTypeOK /\ task \in [Workers -> Tasks] /\ lease \in [Workers -> Leases]
      /\ Claim(w, j) /\ UNCHANGED dataVars /\ task[w].pc = "idle"
  BY DEF SyncInv, SyncTypeOK, QueueInv, QueueTypeOK, Take
<1>1. JobsStay /\ TokensMove
  BY <1>0, QueueStepStays, QueueStepTokens DEF QueueNext, WorkerStep
<1>2. ActiveStays
  BY <1>0, StepStaysActive DEF KeptInv
<1>3. PICK k \in Keys : k = job[j].key
  BY <1>0 DEF QueueTypeOK, JobRows
<1>4. /\ lease'[w].job = j /\ IsActive(j)
      /\ \A v \in Workers \ {w} : lease'[v] = lease[v]
  BY <1>0 DEF Claim, Claimable, IsActive, Active
<1>5. PICK skip, todo, t :
        /\ skip \in SUBSET Denied(k)
        /\ todo = Skipping(PlanOf(k), skip \cup DoneBy(j))
        /\ t = [NoTask EXCEPT !.pc = IF todo = <<>> THEN "close" ELSE "begin",
                              !.todo = todo, !.from = j]
        /\ task' = [task EXCEPT ![w] = t]
  BY <1>3 DEF Take
<1>6. /\ t.todo = todo /\ t.pc \in {"close", "begin"} /\ t.continue = {}
      /\ t.pc = "close" => todo = <<>>
  BY <1>5 DEF NoTask
<1>7. task'[w] = t /\ \A v \in Workers \ {w} : task'[v] = task[v]
  BY <1>0, <1>5
<1>8. RunsStand
  BY <1>0 DEF dataVars, RunsStand
<1>9. \A v \in Workers \ {w} : Quietly(v)
  BY <1>4, <1>7 DEF Quietly, KeptInv, HandsOver
<1>10. task[w].continue = {}
  BY <1>0 DEF KeptInv, HandsOver
<1>11. ASSUME NEW r \in Resources PROVE OwnerCarriesOn(w, r)'
  <2> SUFFICES ASSUME job'[j].key = KeyOf(r, "full")
               PROVE  /\ \A n \in DOMAIN t.todo : t.todo[n] = r
                      /\ t.pc = "close" => ~Sliced(r)'
    BY <1>4, <1>6, <1>7 DEF OwnerCarriesOn, KeyOf, RunPcs
  <2>1. k = KeyOf(r, "full") /\ job[j].status # "absent"
    BY <1>1, <1>3, <1>4 DEF JobsStay, IsActive, Active
  <2>2. k[2] = "full" /\ k[1] = r
    BY <2>1 DEF KeyOf
  <2>3. PlanOf(k) = <<r>> /\ k[1] # "all"
    BY <2>2, SyncConstants DEF PlanOf
  <2>4. skip = {}
    BY <1>5, <2>3 DEF Denied
  <2>5. PlanOf(k) \in Seq(Resources) /\ DOMAIN PlanOf(k) = {1} /\ PlanOf(k)[1] = r
    BY <2>3
  <2>6. \A n \in DOMAIN todo : \E i \in DOMAIN PlanOf(k) : todo[n] = PlanOf(k)[i]
    BY <1>5, <2>5, Skips
  <2>7. ASSUME todo = <<>> PROVE r \in DoneBy(j)
    <3>1. ASSUME r \notin skip \cup DoneBy(j) PROVE FALSE
      <4>1. \E n \in DOMAIN todo : todo[n] = PlanOf(k)[1]
        BY <1>5, <2>5, <3>1, SkipsOnly
      <4> QED
        BY <2>7, <4>1
    <3> QED
      BY <2>4, <3>1
  <2>8. todo = <<>> => ~Sliced(r)
    BY <1>3, <1>4, <2>1, <2>7 DEF KeptInv, DoneIsDone
  <2>9. Sliced(r)' <=> Sliced(r)
    BY <1>8, RunsStandMeans DEF SyncInv
  <2> QED
    BY <1>6, <2>5, <2>6, <2>8, <2>9
<1>12. \A v \in Workers : /\ HandsOver(v)'
                          /\ \A r \in Resources : OwnerCarriesOn(v, r)'
                          /\ task'[v].continue = task[v].continue
  <2>1. \A v \in Workers \ {w}, r \in Resources : OwnerCarriesOn(v, r)'
    BY <1>1, <1>8, <1>9, OwnerGoesOn
  <2> QED
    BY <1>6, <1>7, <1>9, <1>10, <1>11, <2>1 DEF HandsOver, Quietly
<1> QED
  BY <1>1, <1>2, <1>8, <1>12, KeptTables

(* The full load an owner works on.                                        *)
LEMMA LoadOfOwner ==
  ASSUME SyncInv, KeptInv, LoadsAreSingle, NEW w \in Workers, LeaseAlive(w), ModeOf(w) = "full",
         task[w].todo # <<>>
  PROVE  \E r \in Resources : /\ job[lease[w].job].key = KeyOf(r, "full")
                              /\ Head(task[w].todo) = r
<1>1. /\ lease[w].job \in Jobs /\ Owning(w) /\ task[w].todo \in Seq(Resources)
      /\ job[lease[w].job].key \in Keys
  BY DEF SyncInv, SyncTypeOK, QueueInv, QueueTypeOK, FreshTokens, LeaseAlive, Owning, Owns,
         Tasks, JobRows
<1>2. PICK k \in Keys : k = job[lease[w].job].key
  BY <1>1
<1>3. PICK r \in Resources : k = KeyOf(r, "full")
  BY <1>2, KeyParts DEF ModeOf
<1>4. \A n \in DOMAIN task[w].todo : task[w].todo[n] = r
  BY <1>1, <1>2, <1>3 DEF KeptInv, OwnerCarriesOn
<1>5. 1 \in DOMAIN task[w].todo /\ Head(task[w].todo) = task[w].todo[1]
  BY <1>1
<1> QED
  BY <1>2, <1>3, <1>4, <1>5

(* A new run replaces what the last one left of the load.                  *)
LEMMA KeptBegin ==
  ASSUME SyncInv, SyncInv', DoneInv, KeptInv, LoadsAreSingle, NEW w \in Workers, BeginRun(w)
  PROVE  KeptInv'
<1>0. PICK n \in Nat, q \in {Head(task[w].todo)}, j \in {lease[w].job}, mode \in {ModeOf(w)} :
        /\ Len(runs) = n /\ q = Head(task[w].todo) /\ j = lease[w].job /\ mode = ModeOf(w)
  BY DEF SyncInv, SyncTypeOK
<1> DEFINE closed == [i \in DOMAIN runs |->
                       IF i \in RunsOf(q) /\ runs[i].status = "running"
                         THEN [runs[i] EXCEPT !.status = "interrupted"]
                         ELSE runs[i]]
<1>1. PICK row, cursor :
        /\ task[w].pc = "begin" /\ LeaseAlive(w)
        /\ UNCHANGED queueVars
        /\ runs' = Append(closed, row)
        /\ row.job = j /\ row.resource = q /\ row.status = "running" /\ row.mode = mode
        /\ task' = [task EXCEPT ![w].pc = "check", ![w].run = n + 1,
                                ![w].cursor = cursor, ![w].pages = 0]
  <2> DEFINE start == IF ModeOf(w) = "full" THEN FullResume(q) ELSE checkpoint[q].cursor
             row == [job |-> j, resource |-> q, mode |-> ModeOf(w),
                     status |-> "running", before |-> start, after |-> 0]
  <2>1. task[w].pc = "begin" /\ LeaseAlive(w) /\ UNCHANGED queueVars
        /\ runs' = Append(closed, row)
    BY <1>0 DEF BeginRun, Held, AtPc
  <2>2. task' = [task EXCEPT ![w].pc = "check", ![w].run = n + 1,
                             ![w].cursor = BackBy(start), ![w].pages = 0]
    BY <1>0 DEF BeginRun
  <2>3. row.job = j /\ row.resource = q /\ row.status = "running" /\ row.mode = mode
    BY <1>0
  <2> HIDE DEF row, start
  <2> QED
    BY <2>1, <2>2, <2>3
<1>2. /\ runs \in Seq(Runs) /\ DOMAIN runs = 1..n /\ task \in [Workers -> Tasks] /\ QueueInv
      /\ \A i \in 1..n : runs[i] \in Runs
      /\ task[w] \in Tasks
  BY <1>0 DEF SyncInv, SyncTypeOK
<1>3. /\ task'[w].pc = "check" /\ task'[w].run = n + 1 /\ task'[w].todo = task[w].todo
      /\ task'[w].continue = task[w].continue
      /\ \A v \in Workers \ {w} : task'[v] = task[v]
  BY <1>1, <1>2 DEF Tasks
<1>4. /\ DOMAIN runs' = 1..(n + 1)
      /\ \A i \in 1..n : /\ runs'[i].job = runs[i].job
                         /\ runs'[i].resource = runs[i].resource
                         /\ runs'[i].mode = runs[i].mode
                         /\ \/ runs'[i].status = runs[i].status
                            \/ runs[i].status = "running" /\ runs'[i].status = "interrupted"
      /\ runs'[n + 1] = row
  <2>1. closed \in Seq({closed[i] : i \in 1..n}) /\ Len(closed) = n
    BY <1>2
  <2>2. DOMAIN runs' = 1..(n + 1) /\ runs'[n + 1] = row /\ \A i \in 1..n : runs'[i] = closed[i]
    BY <1>1, <2>1
  <2> QED
    BY <1>2, <2>2 DEF Runs
<1>5. Owning(w) /\ j \in Jobs /\ job[j].status = "processing" /\ task[w].continue = {}
      /\ task[w].todo # <<>>
  <2>1. Owning(w) /\ j \in Jobs /\ job[j].status = "processing"
    BY <1>0, <1>1, <1>2 DEF LeaseAlive, Owning, Owns, QueueInv, FreshTokens
  <2>2. task[w].continue = {}
    BY <1>1 DEF KeptInv, HandsOver
  <2>3. task[w].todo # <<>>
    BY <1>1 DEF SyncInv, TaskIsGood, TaskHasItsRun
  <2> QED
    BY <2>1, <2>2, <2>3
<1>6. ASSUME mode = "full" PROVE q \in Resources /\ job[j].key = KeyOf(q, "full")
  BY <1>0, <1>1, <1>5, <1>6, LoadOfOwner
<1>7. ASSUME NEW r \in Resources
      PROVE  /\ r = q /\ mode = "full" => FullRuns(r)' = FullRuns(r) \cup {n + 1}
             /\ ~(r = q /\ mode = "full") => FullRuns(r)' = FullRuns(r)
             /\ FullRuns(r) \subseteq 1..n
  <2>1. \A i : i \in FullRuns(r)' <=> i \in FullRuns(r) \/ (i = n + 1 /\ r = q /\ mode = "full")
    BY <1>1, <1>2, <1>4 DEF FullRuns, RunsOf
  <2> QED
    BY <1>2, <2>1 DEF FullRuns, RunsOf
<1>8. ASSUME NEW r \in Resources, Sliced(r)'
      PROVE  Sliced(r) /\ ~(r = q /\ mode = "full")
  <2>1. PICK i \in FullRuns(r)' : /\ runs'[i].status = "continuing"
                                  /\ \A k \in FullRuns(r)' : k <= i
    BY <1>8, SlicedMeansNext DEF YieldedLast, SyncInv
  <2>2. ~(r = q /\ mode = "full")
    <3>1. SUFFICES ASSUME r = q /\ mode = "full" PROVE FALSE
      OBVIOUS
    <3>2. n + 1 \in FullRuns(r)' /\ n + 1 <= i /\ i \in 1..(n + 1)
      BY <1>7, <2>1, <3>1
    <3>3. i = n + 1
      BY <3>2
    <3> QED
      BY <1>1, <1>4, <2>1, <3>3
  <2>3. i \in FullRuns(r) /\ i \in 1..n /\ \A k \in FullRuns(r) : k <= i
    BY <1>7, <2>1, <2>2
  <2>4. runs[i].status = "continuing"
    BY <1>4, <2>1, <2>3
  <2>5. YieldedLast(r)
    BY <2>3, <2>4 DEF YieldedLast
  <2> QED
    BY <2>2, <2>5, SlicedMeans DEF SyncInv
<1>9. job' = job /\ lease' = lease
  BY <1>1 DEF queueVars
<1>10. TokensProcess'
  BY <1>9 DEF KeptInv, TokensProcess
<1>11. RunsHaveJobs'
  <2> SUFFICES ASSUME NEW i \in 1..(n + 1)
               PROVE  /\ job[runs'[i].job].status # "absent"
                      /\ runs'[i].mode = "full" =>
                           job[runs'[i].job].key = KeyOf(runs'[i].resource, "full")
    BY <1>4, <1>9 DEF RunsHaveJobs, KeyOf
  <2>1. CASE i \in 1..n
    BY <1>2, <1>4, <2>1 DEF KeptInv, RunsHaveJobs
  <2>2. CASE i = n + 1
    BY <1>1, <1>4, <1>5, <1>6, <2>2
  <2> QED
    BY <2>1, <2>2
<1>12. DoneIsDone'
  <2> SUFFICES ASSUME NEW i \in Jobs, NEW r \in Resources, IsActive(i)',
                      job'[i].key = KeyOf(r, "full"), r \in DoneBy(i)', Sliced(r)'
               PROVE  FALSE
    BY DEF DoneIsDone, KeyOf
  <2>1. r \in DoneBy(i)
    BY <1>1, <1>2, <1>4 DEF DoneBy
  <2>2. IsActive(i) /\ job[i].key = KeyOf(r, "full") /\ Sliced(r)
    BY <1>8, <1>9 DEF IsActive
  <2> QED
    BY <2>1, <2>2 DEF KeptInv, DoneIsDone
<1>13. ContinuationKept'
  <2> SUFFICES ASSUME NEW r \in Resources, Sliced(r)'
               PROVE  \/ \E i \in Jobs : IsActive(i)' /\ job'[i].key = KeyOf(r, "full")
                      \/ \E v \in Workers : KeyOf(r, "full") \in task'[v].continue
    BY DEF ContinuationKept, KeyOf
  <2>1. \/ \E i \in Jobs : IsActive(i) /\ job[i].key = KeyOf(r, "full")
        \/ \E v \in Workers : KeyOf(r, "full") \in task[v].continue
    BY <1>8 DEF KeptInv, ContinuationKept
  <2> QED
    BY <1>3, <1>9, <2>1 DEF IsActive
<1>14. ASSUME NEW v \in Workers, NEW r \in Resources PROVE OwnerCarriesOn(v, r)'
  <2> SUFFICES ASSUME Owning(v)', job'[lease'[v].job].key = KeyOf(r, "full")
               PROVE  OwnerCarriesOn(v, r)'
    BY DEF OwnerCarriesOn, KeyOf
  <2>1. Owning(v) /\ job[lease[v].job].key = KeyOf(r, "full")
    BY <1>9 DEF Owning, Idle
  <2>2. /\ \A m \in DOMAIN task[v].todo : task[v].todo[m] = r
        /\ task[v].pc \in RunPcs => /\ task[v].run \in FullRuns(r)
                                    /\ \A i \in FullRuns(r) : i <= task[v].run
        /\ task[v].pc = "close" => \/ task[v].status = "busy" \/ ~Sliced(r)
                                   \/ KeyOf(r, "full") \in task[v].continue
    BY <2>1 DEF KeptInv, OwnerCarriesOn
  <2>3. CASE v = w
    <3>1. mode = "full"
      BY <1>0, <2>1, <2>3 DEF ModeOf, KeyOf
    <3>2. r = q
      BY <1>0, <1>6, <2>1, <2>3, <3>1, KeyOfOne
    <3>3. n + 1 \in FullRuns(r)' /\ \A i \in FullRuns(r)' : i <= n + 1
      BY <1>7, <3>1, <3>2
    <3> QED
      BY <1>3, <2>2, <2>3, <3>3 DEF OwnerCarriesOn, RunPcs
  <2>4. CASE v # w
    <3>1. ~(r = q /\ mode = "full")
      <4>1. SUFFICES ASSUME r = q /\ mode = "full" PROVE FALSE
        OBVIOUS
      <4>2. job[lease[v].job].key = job[lease[w].job].key
        BY <1>0, <1>6, <2>1, <4>1
      <4> QED
        BY <1>5, <2>1, <2>4, <4>2, OwnersAreOne DEF KeptInv
    <3>2. FullRuns(r)' = FullRuns(r) /\ (Sliced(r)' => Sliced(r)) /\ task'[v] = task[v]
      BY <1>3, <1>7, <1>8, <2>4, <3>1
    <3>3. KeyOf(r, "full")' = KeyOf(r, "full")
      BY DEF KeyOf
    <3> QED
      BY <2>2, <3>2, <3>3 DEF OwnerCarriesOn
  <2> QED
    BY <2>3, <2>4
<1>15. \A v \in Workers : HandsOver(v)'
  BY <1>3, <1>5 DEF KeptInv, HandsOver
<1> QED
  BY <1>10, <1>11, <1>12, <1>13, <1>14, <1>15 DEF KeptInv

(* A run ends: a slice leaves its continuation with the worker.            *)
LEMMA KeptEnd ==
  ASSUME SyncInv, SyncInv', DoneInv, KeptInv, LoadsAreSingle, NEW w \in Workers, EndRun(w)
  PROVE  KeptInv'
<1>0. PICK n \in Nat, g \in {task[w].run}, q \in {Head(task[w].todo)},
          j \in {lease[w].job}, status \in {task[w].status}, mode \in {ModeOf(w)} :
        /\ Len(runs) = n /\ g = task[w].run /\ q = Head(task[w].todo)
        /\ j = lease[w].job /\ status = task[w].status /\ mode = ModeOf(w)
  BY DEF SyncInv, SyncTypeOK
<1>1. /\ task[w].pc = "end" /\ LeaseAlive(w) /\ UNCHANGED queueVars
      /\ runs' = [runs EXCEPT ![g].status = status]
  BY <1>0 DEF EndRun, Held, AtPc
<1>2. /\ runs \in Seq(Runs) /\ DOMAIN runs = 1..n /\ task \in [Workers -> Tasks] /\ QueueInv
      /\ \A i \in 1..n : runs[i] \in Runs
  BY <1>0 DEF SyncInv, SyncTypeOK
<1>3. /\ g \in 1..n /\ runs[g].resource = q /\ runs[g].status \in {"running", "interrupted"}
      /\ task[w].todo \in Seq(Resources) /\ task[w].todo # <<>> /\ status \in EndStatuses
  BY <1>0, <1>1, <1>2 DEF SyncInv, TaskIsGood, TaskHasItsRun, RunPcs, Tasks
<1>4. /\ DOMAIN runs' = 1..n
      /\ \A i \in 1..n : /\ runs'[i].job = runs[i].job
                         /\ runs'[i].resource = runs[i].resource
                         /\ runs'[i].mode = runs[i].mode
                         /\ i # g => runs'[i].status = runs[i].status
      /\ runs'[g].status = status
  BY <1>1, <1>2, <1>3 DEF Runs
<1>5. /\ task'[w].pc \in {"begin", "close"} /\ task'[w].status = status
      /\ status = "continuing" => task'[w].pc = "close"
      /\ task'[w].continue = IF status = "continuing" THEN ContinueWith(w) ELSE {}
      /\ task'[w].todo = <<>> \/ task'[w].todo = Tail(task[w].todo)
      /\ \A v \in Workers \ {w} : task'[v] = task[v]
  BY <1>0, <1>2 DEF EndRun, NoTask, StopsTheJob
<1>6. Owning(w) /\ LatestOfItsJob(w) /\ runs[g].job = j /\ job[j].status = "processing"
      /\ j \in Jobs /\ q \notin DoneBy(j)
  <2>1. Owning(w) /\ j \in Jobs /\ job[j].status = "processing"
    BY <1>0, <1>1, <1>2 DEF LeaseAlive, Owning, Owns, QueueInv, FreshTokens
  <2>2. LatestOfItsJob(w) /\ runs[g].job = j
    BY <1>0, <1>1, <2>1 DEF DoneInv, OwnerIsAhead, LatestOfItsJob, RunPcs
  <2>3. 1 \in DOMAIN task[w].todo /\ q = task[w].todo[1]
    BY <1>0, <1>3
  <2>4. q \notin DoneBy(j)
    BY <1>0, <2>1, <2>3 DEF DoneInv, OwnerIsAhead
  <2> QED
    BY <2>1, <2>2, <2>4
<1>7. job' = job /\ lease' = lease /\ task[w].continue = {}
  BY <1>1 DEF queueVars, KeptInv, HandsOver
<1>8. ASSUME mode = "full"
      PROVE  /\ q \in Resources /\ job[j].key = KeyOf(q, "full")
             /\ g \in FullRuns(q) /\ \A i \in FullRuns(q) : i <= g
  <2>1. q \in Resources /\ job[j].key = KeyOf(q, "full")
    BY <1>0, <1>1, <1>3, <1>8, LoadOfOwner
  <2> QED
    BY <1>0, <1>1, <1>6, <2>1 DEF KeptInv, OwnerCarriesOn, RunPcs
<1>9. ASSUME mode # "full" PROVE runs[g].mode # "full" /\ job[j].key[2] # "full"
  <2>1. job[j].key[2] # "full"
    BY <1>0, <1>9 DEF ModeOf
  <2>2. ASSUME runs[g].mode = "full" PROVE FALSE
    <3>1. job[j].key = KeyOf(q, "full")
      BY <1>2, <1>3, <1>6, <2>2 DEF KeptInv, RunsHaveJobs
    <3>2. KeyOf(q, "full")[2] = "full"
      BY DEF KeyOf
    <3> QED
      BY <2>1, <3>1, <3>2
  <2> QED
    BY <2>1, <2>2
<1>10. \A r \in Resources : FullRuns(r)' = FullRuns(r) /\ FullRuns(r) \subseteq 1..n
  BY <1>2, <1>4 DEF FullRuns, RunsOf
<1>11. ASSUME NEW r \in Resources, ~(r = q /\ mode = "full")
       PROVE  Sliced(r)' <=> Sliced(r)
  <2>1. \A i \in FullRuns(r) : i \in 1..n /\ i # g
    BY <1>3, <1>9, <1>10, <1>11 DEF FullRuns, RunsOf
  <2>2. YieldedLast(r)' <=> YieldedLast(r)
    BY <1>4, <1>10, <2>1 DEF YieldedLast
  <2> QED
    BY <2>2, SlicedMeans, SlicedMeansNext DEF SyncInv
<1>12. ASSUME mode = "full", status # "continuing"
       PROVE  ~Sliced(q)'
  <2> SUFFICES ASSUME NEW i \in FullRuns(q)', runs'[i].status = "continuing",
                      \A k \in FullRuns(q)' : k <= i
               PROVE  FALSE
    BY <1>8, <1>12, SlicedMeansNext DEF YieldedLast, SyncInv
  <2>1. i \in 1..n /\ i <= g /\ g <= i
    BY <1>8, <1>10, <1>12
  <2>2. i = g
    BY <1>3, <2>1
  <2> QED
    BY <1>4, <1>12, <2>2
<1>13. ASSUME mode = "full", status = "continuing"
       PROVE  KeyOf(q, "full") \in task'[w].continue
  <2>1. 1 \in 1..Len(task[w].todo) /\ q = task[w].todo[1]
    BY <1>0, <1>3
  <2> QED
    BY <1>0, <1>5, <1>13, <2>1 DEF ContinueWith
<1>14. TokensProcess'
  BY <1>7 DEF KeptInv, TokensProcess
<1>15. RunsHaveJobs'
  BY <1>2, <1>4, <1>7 DEF KeptInv, RunsHaveJobs, KeyOf
<1>16. DoneIsDone'
  <2> SUFFICES ASSUME NEW i \in Jobs, NEW r \in Resources, IsActive(i)',
                      job'[i].key = KeyOf(r, "full"), r \in DoneBy(i)', Sliced(r)'
               PROVE  FALSE
    BY DEF DoneIsDone, KeyOf
  <2>1. IsActive(i) /\ job[i].key = KeyOf(r, "full")
    BY <1>7 DEF IsActive
  <2>2. CASE r = q /\ mode = "full"
    <3>1. i = j
      BY <1>2, <1>6, <1>8, <2>1, <2>2 DEF QueueInv, UniqueActive, IsActive, Active
    <3>2. status = "continuing"
      BY <1>12, <2>2
    <3>3. q \in DoneBy(j)
      BY <1>2, <1>3, <1>4, <2>2, <3>1, <3>2 DEF DoneBy
    <3> QED
      BY <1>6, <3>3
  <2>3. CASE ~(r = q /\ mode = "full")
    <3>1. r \in DoneBy(i)
      <4>1. PICK k \in 1..n : runs'[k].job = i /\ runs'[k].resource = r
                              /\ runs'[k].status = "success"
        BY <1>4 DEF DoneBy
      <4>2. CASE k = g
        <5>1. i = j /\ r = q
          BY <1>3, <1>4, <1>6, <4>1, <4>2
        <5>2. job[j].key[2] = "full"
          BY <2>1, <5>1 DEF KeyOf
        <5> QED
          BY <1>9, <2>3, <5>1, <5>2
      <4>3. CASE k # g
        BY <1>2, <1>4, <4>1, <4>3 DEF DoneBy
      <4> QED
        BY <4>2, <4>3
    <3>2. Sliced(r)
      BY <1>11, <2>3
    <3> QED
      BY <2>1, <3>1, <3>2 DEF KeptInv, DoneIsDone
  <2> QED
    BY <2>2, <2>3
<1>17. ContinuationKept'
  <2> SUFFICES ASSUME NEW r \in Resources, Sliced(r)'
               PROVE  \/ \E i \in Jobs : IsActive(i)' /\ job'[i].key = KeyOf(r, "full")
                      \/ \E v \in Workers : KeyOf(r, "full") \in task'[v].continue
    BY DEF ContinuationKept, KeyOf
  <2>1. CASE r = q /\ mode = "full"
    BY <1>12, <1>13, <2>1
  <2>2. CASE ~(r = q /\ mode = "full")
    <3>1. \/ \E i \in Jobs : IsActive(i) /\ job[i].key = KeyOf(r, "full")
          \/ \E v \in Workers : KeyOf(r, "full") \in task[v].continue
      BY <1>11, <2>2 DEF KeptInv, ContinuationKept
    <3> QED
      BY <1>5, <1>7, <3>1 DEF IsActive
  <2> QED
    BY <2>1, <2>2
<1>18. ASSUME NEW v \in Workers, NEW r \in Resources PROVE OwnerCarriesOn(v, r)'
  <2> SUFFICES ASSUME Owning(v)', job'[lease'[v].job].key = KeyOf(r, "full")
               PROVE  OwnerCarriesOn(v, r)'
    BY DEF OwnerCarriesOn, KeyOf
  <2>1. Owning(v) /\ job[lease[v].job].key = KeyOf(r, "full")
    BY <1>7 DEF Owning, Idle
  <2>2. /\ \A m \in DOMAIN task[v].todo : task[v].todo[m] = r
        /\ task[v].pc \in RunPcs => /\ task[v].run \in FullRuns(r)
                                    /\ \A i \in FullRuns(r) : i <= task[v].run
        /\ task[v].pc = "close" => \/ task[v].status = "busy" \/ ~Sliced(r)
                                   \/ KeyOf(r, "full") \in task[v].continue
    BY <2>1 DEF KeptInv, OwnerCarriesOn
  <2>3. KeyOf(r, "full")' = KeyOf(r, "full")
    BY DEF KeyOf
  <2>4. CASE v = w
    <3>1. mode = "full"
      BY <1>0, <2>1, <2>4 DEF ModeOf, KeyOf
    <3>2. r = q
      BY <1>0, <1>8, <2>1, <2>4, <3>1, KeyOfOne
    <3>3. \A m \in DOMAIN task'[w].todo : task'[w].todo[m] = r
      <4>1. \A m \in DOMAIN Tail(task[w].todo) : /\ m + 1 \in DOMAIN task[w].todo
                                                 /\ Tail(task[w].todo)[m] = task[w].todo[m + 1]
        BY <1>3
      <4>2. \A m \in DOMAIN Tail(task[w].todo) : Tail(task[w].todo)[m] = r
        BY <2>2, <2>4, <4>1
      <4>3. CASE task'[w].todo = <<>>
        BY <4>3
      <4>4. CASE task'[w].todo = Tail(task[w].todo)
        BY <4>2, <4>4
      <4> QED
        BY <1>5, <4>3, <4>4
    <3>4. ~Sliced(r)' \/ KeyOf(r, "full") \in task'[w].continue
      BY <1>12, <1>13, <3>1, <3>2
    <3> QED
      BY <1>5, <2>3, <2>4, <3>3, <3>4 DEF OwnerCarriesOn, RunPcs
  <2>5. CASE v # w
    <3>1. ~(r = q /\ mode = "full")
      <4>1. SUFFICES ASSUME r = q /\ mode = "full" PROVE FALSE
        OBVIOUS
      <4>2. job[lease[v].job].key = job[lease[w].job].key
        BY <1>0, <1>8, <2>1, <4>1
      <4> QED
        BY <1>6, <2>1, <2>5, <4>2, OwnersAreOne DEF KeptInv
    <3>2. FullRuns(r)' = FullRuns(r) /\ (Sliced(r)' <=> Sliced(r)) /\ task'[v] = task[v]
      BY <1>5, <1>10, <1>11, <2>5, <3>1
    <3> QED
      BY <2>2, <2>3, <3>2 DEF OwnerCarriesOn
  <2> QED
    BY <2>4, <2>5
<1>19. \A v \in Workers : HandsOver(v)'
  BY <1>5 DEF KeptInv, HandsOver
<1> QED
  BY <1>14, <1>15, <1>16, <1>17, <1>18, <1>19 DEF KeptInv

(* The job ends: a load that was not over is continued.                    *)
LEMMA KeptClose ==
  ASSUME SyncInv, SyncInv', DoneInv, KeptInv, LoadsAreSingle, NEW w \in Workers, CloseJob(w)
  PROVE  KeptInv'
<1>0. PICK j \in {lease[w].job}, status \in {JobStatus(task[w])} :
        j = lease[w].job /\ status = JobStatus(task[w])
  OBVIOUS
<1>1. /\ task[w].pc = "close" /\ ~Idle(w) /\ Finish(w, status) /\ UNCHANGED dataVars
      /\ QueueInv /\ QueueTypeOK /\ j \in Jobs /\ task \in [Workers -> Tasks]
      /\ lease' = [lease EXCEPT ![w] = NoLease] /\ lease \in [Workers -> Leases]
  BY <1>0 DEF CloseJob, AtPc, Finish, SyncInv, SyncTypeOK, QueueInv, QueueTypeOK, FreshTokens
<1>2. /\ job \in [Jobs -> JobRows]
      /\ \/ job' = job
         \/ /\ job' = [job EXCEPT ![j] = FinishedRow(j, status)]
            /\ Owning(w)
  BY <1>0, <1>1 DEF Finish, FinishRow, Owns, Owning, QueueTypeOK
<1>3. JobsStay /\ TokensMove
  <2>1. status \in Terminal \cup {"queued"}
    BY <1>0 DEF JobStatus, Terminal
  <2> QED
    BY <1>1, <2>1, QueueStepStays, QueueStepTokens DEF QueueNext, WorkerStep
<1>4. /\ FinishedRow(j, status).status = status /\ FinishedRow(j, status).token = 0
  BY <1>1, <1>2 DEF FinishedRow, JobRows
<1>5. /\ task'[w].continue = task[w].continue /\ task'[w].todo = <<>>
      /\ task'[w].pc \in {"idle", "requeue"}
      /\ task[w].continue # {} => task'[w].pc = "requeue"
      /\ \A v \in Workers \ {w} : task'[v] = task[v]
  <2>1. CASE task[w].continue = {}
    <3>1. task' = [task EXCEPT ![w] = NoTask]
      BY <2>1 DEF CloseJob
    <3> QED
      BY <1>1, <2>1, <3>1 DEF NoTask
  <2>2. CASE task[w].continue # {}
    <3>1. task' = [task EXCEPT ![w] = [NoTask EXCEPT !.pc = "requeue", !.from = task[w].from,
                                                     !.continue = task[w].continue]]
      BY <2>2 DEF CloseJob
    <3> QED
      BY <1>1, <3>1 DEF NoTask
  <2> QED
    BY <2>1, <2>2
<1>6. ASSUME NEW i \in Jobs
      PROVE  /\ IsActive(i)' => IsActive(i)
             /\ IsActive(i) => IsActive(i)' \/ (i = j /\ Owning(w) /\ status # "queued")
             /\ job'[i].token # 0 => job'[i].status = "processing"
  <2>1. CASE job'[i] = job[i]
    BY <2>1 DEF IsActive, KeptInv, TokensProcess
  <2>2. CASE job'[i] # job[i]
    <3>1. i = j /\ job'[j] = FinishedRow(j, status) /\ Owning(w)
      BY <1>1, <1>2, <2>2
    <3>2. lease[w].token > 0 /\ job[j].token = lease[w].token
      BY <1>0, <1>1, <3>1 DEF DoneInv, Owning
    <3>3. IsActive(j)
      BY <1>1, <3>2 DEF KeptInv, TokensProcess, IsActive, Active
    <3> QED
      BY <1>4, <3>1, <3>3 DEF IsActive, Active
  <2> QED
    BY <2>1, <2>2
<1>7. RunsStand
  BY <1>1 DEF dataVars, RunsStand
<1>8. /\ \A r \in Resources : Sliced(r)' <=> Sliced(r)
      /\ \A i \in Jobs : DoneBy(i)' = DoneBy(i)
  BY <1>7, RunsStandMeans DEF SyncInv
<1>9. TokensProcess'
  BY <1>6 DEF TokensProcess
<1>10. RunsHaveJobs'
  <2>1. runs \in Seq(Runs) /\ UNCHANGED runs
    BY <1>1 DEF SyncInv, SyncTypeOK, dataVars
  <2>2. \A i \in DOMAIN runs : runs[i].job \in Jobs
    <3>1. \A i \in DOMAIN runs : runs[i] \in Runs
      BY <2>1
    <3> QED
      BY <3>1 DEF Runs
  <2> QED
    BY <1>3, <2>1, <2>2 DEF RunsHaveJobs, KeptInv, JobsStay, KeyOf
<1>11. DoneIsDone'
  <2> SUFFICES ASSUME NEW i \in Jobs, NEW r \in Resources, IsActive(i)',
                      job'[i].key = KeyOf(r, "full"), r \in DoneBy(i)', Sliced(r)'
               PROVE  FALSE
    BY DEF DoneIsDone, KeyOf
  <2>1. IsActive(i)
    BY <1>6
  <2>2. job[i].key = KeyOf(r, "full")
    BY <1>3, <2>1 DEF JobsStay, IsActive, Active
  <2> QED
    BY <1>8, <2>1, <2>2 DEF KeptInv, DoneIsDone
<1>12. ContinuationKept'
  <2> SUFFICES ASSUME NEW r \in Resources, Sliced(r)'
               PROVE  \/ \E i \in Jobs : IsActive(i)' /\ job'[i].key = KeyOf(r, "full")
                      \/ \E v \in Workers : KeyOf(r, "full") \in task'[v].continue
    BY DEF ContinuationKept, KeyOf
  <2>1. \/ \E i \in Jobs : IsActive(i) /\ job[i].key = KeyOf(r, "full")
        \/ \E v \in Workers : KeyOf(r, "full") \in task[v].continue
    BY <1>8 DEF KeptInv, ContinuationKept
  <2>2. ASSUME NEW i \in Jobs, IsActive(i), job[i].key = KeyOf(r, "full")
        PROVE  \/ IsActive(i)' /\ job'[i].key = KeyOf(r, "full")
               \/ KeyOf(r, "full") \in task[w].continue
    <3>1. job'[i].key = KeyOf(r, "full")
      BY <1>3, <2>2 DEF JobsStay, IsActive, Active
    <3>2. CASE i = j /\ Owning(w) /\ status # "queued"
      <4>1. \/ task[w].status = "busy" \/ ~Sliced(r)
            \/ KeyOf(r, "full") \in task[w].continue
        BY <1>0, <1>1, <2>2, <3>2 DEF KeptInv, OwnerCarriesOn
      <4>2. task[w].status # "busy"
        BY <1>0, <3>2 DEF JobStatus
      <4> QED
        BY <1>8, <4>1, <4>2
    <3> QED
      BY <1>6, <2>2, <3>1, <3>2
  <2> QED
    BY <1>5, <2>1, <2>2
<1>13. \A v \in Workers : HandsOver(v)'
  BY <1>5 DEF KeptInv, HandsOver
<1>14. ASSUME NEW v \in Workers, NEW r \in Resources PROVE OwnerCarriesOn(v, r)'
  <2>1. CASE v = w
    <3>1. Idle(w)'
      BY <1>1 DEF Idle
    <3> QED
      BY <2>1, <3>1 DEF OwnerCarriesOn, Owning
  <2>2. CASE v # w
    <3>1. Quietly(v)
      BY <1>1, <1>5, <2>2 DEF Quietly, KeptInv, HandsOver
    <3> QED
      BY <1>3, <1>7, <3>1, OwnerGoesOn
  <2> QED
    BY <2>1, <2>2
<1> QED
  BY <1>9, <1>10, <1>11, <1>12, <1>13, <1>14 DEF KeptInv

(* The continuation enters the queue, or finds its equivalent there.       *)
LEMMA Requeued ==
  ASSUME QueueInv, NEW S \in SUBSET Keys, EnqueueAll(S), NEW k \in S, ActiveStays, JobsStay
  PROVE  \E i \in Jobs : IsActive(i)' /\ job'[i].key = k
<1>1. CASE ~MustCreate(k)
  <2>1. PICK i \in Jobs : IsActive(i) /\ job[i].key = k
    BY <1>1 DEF MustCreate, Equivalent
  <2>2. IsActive(i)' /\ job'[i].key = k
    BY <2>1 DEF ActiveStays, JobsStay, IsActive, Active
  <2> QED
    BY <2>2
<1>2. CASE MustCreate(k)
  <2> DEFINE K    == {l \in S : MustCreate(l)}
             free == {j \in Jobs : job[j].status = "absent"}
  <2>1. PICK f \in [K -> free] :
          /\ \A l, m \in K : f[l] = f[m] => l = m
          /\ job' = [j \in Jobs |->
                   IF \E l \in K : f[l] = j
                     THEN NewJob(CHOOSE l \in K : f[l] = j)
                     ELSE job[j]]
    BY DEF EnqueueAll
  <2>2. k \in K /\ f[k] \in Jobs
    BY <1>2, <2>1
  <2>3. (CHOOSE l \in K : f[l] = f[k]) = k
    BY <2>1, <2>2
  <2>4. job'[f[k]] = NewJob(k)
    BY <2>1, <2>2, <2>3
  <2>5. job'[f[k]].status = "queued" /\ job'[f[k]].key = k
    BY <2>4 DEF NewJob
  <2> QED
    BY <2>2, <2>5 DEF IsActive, Active
<1> QED
  BY <1>1, <1>2

LEMMA KeptRequeue ==
  ASSUME SyncInv, SyncInv', DoneInv, KeptInv, LoadsAreSingle, NEW w \in Workers, Requeue(w)
  PROVE  KeptInv'
<1>1. /\ task[w].pc = "requeue" /\ EnqueueAll(task[w].continue) /\ UNCHANGED <<lease, dataVars>>
      /\ task' = [task EXCEPT ![w] = NoTask]
      /\ QueueInv /\ task \in [Workers -> Tasks] /\ task[w].continue \in SUBSET Keys
  BY DEF Requeue, AtPc, SyncInv, SyncTypeOK, Tasks
<1>2. JobsStay /\ ActiveStays /\ TokensMove
  <2>1. TokensMove
    BY <1>1 DEF EnqueueAll, NewJob, TokensMove
  <2> QED
    BY <1>1, <2>1, EnqueueAllStays, EnqueueStaysActive DEF KeptInv
<1>3. /\ task'[w].pc = "idle" /\ task'[w].todo = <<>> /\ task'[w].continue = {}
      /\ \A v \in Workers \ {w} : task'[v] = task[v]
  BY <1>1 DEF NoTask
<1>4. RunsStand
  BY <1>1 DEF dataVars, RunsStand
<1>5. /\ \A r \in Resources : Sliced(r)' <=> Sliced(r)
      /\ \A i \in Jobs : DoneBy(i)' = DoneBy(i)
  BY <1>4, RunsStandMeans DEF SyncInv
<1>6. TokensProcess'
  BY <1>2 DEF ActiveStays, TokensProcess
<1>7. RunsHaveJobs'
  <2>1. runs \in Seq(Runs) /\ UNCHANGED runs
    BY <1>1 DEF SyncInv, SyncTypeOK, dataVars
  <2>2. \A i \in DOMAIN runs : runs[i].job \in Jobs
    <3>1. \A i \in DOMAIN runs : runs[i] \in Runs
      BY <2>1
    <3> QED
      BY <3>1 DEF Runs
  <2> QED
    BY <1>2, <2>1, <2>2 DEF RunsHaveJobs, KeptInv, JobsStay, KeyOf
<1>8. DoneIsDone'
  <2> SUFFICES ASSUME NEW i \in Jobs, NEW r \in Resources, IsActive(i)',
                      job'[i].key = KeyOf(r, "full"), r \in DoneBy(i)', Sliced(r)'
               PROVE  FALSE
    BY DEF DoneIsDone, KeyOf
  <2>1. r \in DoneBy(i) /\ Sliced(r)
    BY <1>5
  <2>2. job[i].status # "absent"
    BY <2>1 DEF DoneBy, KeptInv, RunsHaveJobs
  <2>3. IsActive(i) /\ job[i].key = KeyOf(r, "full")
    BY <1>2, <2>2 DEF ActiveStays, JobsStay
  <2> QED
    BY <2>1, <2>3 DEF KeptInv, DoneIsDone
<1>9. ContinuationKept'
  <2> SUFFICES ASSUME NEW r \in Resources, Sliced(r)'
               PROVE  \/ \E i \in Jobs : IsActive(i)' /\ job'[i].key = KeyOf(r, "full")
                      \/ \E v \in Workers : KeyOf(r, "full") \in task'[v].continue
    BY DEF ContinuationKept, KeyOf
  <2>1. \/ \E i \in Jobs : IsActive(i) /\ job[i].key = KeyOf(r, "full")
        \/ \E v \in Workers : KeyOf(r, "full") \in task[v].continue
    BY <1>5 DEF KeptInv, ContinuationKept
  <2>2. CASE \E i \in Jobs : IsActive(i) /\ job[i].key = KeyOf(r, "full")
    BY <1>2, <2>2 DEF ActiveStays, JobsStay, IsActive, Active
  <2>3. CASE KeyOf(r, "full") \in task[w].continue
    BY <1>1, <1>2, <2>3, Requeued
  <2> QED
    BY <1>3, <2>1, <2>2, <2>3
<1>10. \A v \in Workers : HandsOver(v)'
  BY <1>3 DEF KeptInv, HandsOver
<1>11. ASSUME NEW v \in Workers, NEW r \in Resources PROVE OwnerCarriesOn(v, r)'
  <2>1. CASE v = w
    BY <1>3, <2>1 DEF OwnerCarriesOn, RunPcs
  <2>2. CASE v # w
    <3>1. Quietly(v)
      BY <1>1, <1>3, <2>2 DEF Quietly, KeptInv, HandsOver
    <3> QED
      BY <1>2, <1>4, <3>1, OwnerGoesOn
  <2> QED
    BY <2>1, <2>2
<1> QED
  BY <1>6, <1>7, <1>8, <1>9, <1>10, <1>11 DEF KeptInv

LEMMA KeptInvInductive ==
  ASSUME LoadsAreSingle
  PROVE  SyncInv /\ SyncInv' /\ DoneInv /\ KeptInv /\ [SyncNext]_syncVars => KeptInv'
<1> SUFFICES ASSUME SyncInv, SyncInv', DoneInv, KeptInv, [SyncNext]_syncVars PROVE KeptInv'
  OBVIOUS
<1>0. /\ QueueInv /\ lease \in [Workers -> Leases] /\ task \in [Workers -> Tasks]
      /\ \A v \in Workers : task[v] \in Tasks
  BY DEF SyncInv, SyncTypeOK, QueueInv, QueueTypeOK
<1>1. ASSUME NEW w \in Workers, NEW j \in Jobs, Take(w, j) PROVE KeptInv'
  BY <1>1, KeptTake
<1>2. ASSUME NEW w \in Workers, BeginRun(w) \/ EndRun(w) \/ CloseJob(w) \/ Requeue(w)
      PROVE  KeptInv'
  BY <1>2, KeptBegin, KeptEnd, KeptClose, KeptRequeue
<1>3. ASSUME UNCHANGED job PROVE JobsStay /\ TokensMove /\ ActiveStays
  BY <1>0, <1>3, StepStaysActive DEF JobsStay, TokensMove, KeptInv
(* A worker goes on, is refused or forgets.                                *)
<1>4. ASSUME NEW w \in Workers, Quietly(w), UNCHANGED <<job, runs>>,
             \A v \in Workers \ {w} : task'[v] = task[v] /\ lease'[v] = lease[v]
      PROVE  KeptInv'
  <2>1. \A v \in Workers : Quietly(v)
    BY <1>4 DEF Quietly, KeptInv, HandsOver
  <2>2. RunsStand
    BY <1>4 DEF RunsStand
  <2> QED
    BY <1>3, <1>4, <2>1, <2>2, KeptQuiet
<1>5. ASSUME NEW w \in Workers, LoseLease(w) PROVE KeptInv'
  <2>1. /\ task' = [task EXCEPT ![w] = NoTask] /\ lease' = [lease EXCEPT ![w] = NoLease]
        /\ UNCHANGED <<job, runs>> /\ task[w].pc \notin {"close", "requeue"}
    BY <1>5 DEF LoseLease, dataVars
  <2>2. task[w].continue = {}
    BY <2>1 DEF KeptInv, HandsOver
  <2>3. Quietly(w)
    BY <1>0, <2>1, <2>2 DEF Quietly, NoTask, RunPcs
  <2> QED
    BY <1>0, <1>4, <2>1, <2>3
<1>6. ASSUME NEW w \in Workers,
             BeginBusy(w) \/ Check(w) \/ Fetch(w) \/ \E status \in Outages : FetchFails(w, status)
      PROVE  KeptInv'
  <2>1. UNCHANGED <<queueVars, runs>> /\ \A v \in Workers \ {w} : task'[v] = task[v]
    BY <1>0, <1>6 DEF BeginBusy, Check, Fetch, FetchFails, Ending, dataVars
  <2>2. task[w].pc \in {"begin", "check", "fetch"} /\ task[w].continue = {}
    <3>1. task[w].pc \in {"begin", "check", "fetch"}
      BY <1>6 DEF BeginBusy, Check, Fetch, FetchFails, Held, AtPc
    <3> QED
      BY <3>1 DEF KeptInv, HandsOver
  <2>3. /\ task'[w].todo = task[w].todo /\ task'[w].continue = task[w].continue
        /\ \/ task'[w].pc = "close" /\ task'[w].status = "busy"
           \/ task[w].pc \in RunPcs /\ task'[w].pc \in RunPcs /\ task'[w].run = task[w].run
    <3>1. task[w] \in Tasks
      BY <1>0
    <3>2. ASSUME BeginBusy(w) PROVE <2>3!:
      BY <1>0, <3>1, <3>2 DEF BeginBusy, Tasks
    <3>3. ASSUME Check(w) PROVE <2>3!:
      <4>1. \/ task' = [task EXCEPT ![w].pc = "end", ![w].status = "cancelled"]
            \/ task' = [task EXCEPT ![w].pc = "fetch"]
        BY <3>3 DEF Check, Ending
      <4>2. task[w].pc = "check"
        BY <3>3 DEF Check, Held, AtPc
      <4> QED
        BY <1>0, <3>1, <4>1, <4>2 DEF Tasks, RunPcs
    <3>4. ASSUME Fetch(w) PROVE <2>3!:
      <4>1. task[w].pc = "fetch"
        BY <3>4 DEF Fetch, AtPc
      <4>2. CASE PageFrom(task[w].cursor) = {}
        <5>1. task' = [task EXCEPT ![w].pc = "end", ![w].status = "success",
                                   ![w].upto = head]
          BY <3>4, <4>2 DEF Fetch
        <5> QED
          BY <1>0, <3>1, <4>1, <5>1 DEF Tasks, RunPcs
      <4>3. CASE PageFrom(task[w].cursor) # {}
        <5>1. PICK page, more :
                task' = [task EXCEPT ![w].pc = "persist", ![w].page = page,
                                     ![w].more = more, ![w].upto = head]
          BY <3>4, <4>3 DEF Fetch
        <5> QED
          BY <1>0, <3>1, <4>1, <5>1 DEF Tasks, RunPcs
      <4> QED
        BY <4>2, <4>3
    <3>5. ASSUME NEW status \in Outages, FetchFails(w, status) PROVE <2>3!:
      BY <1>0, <3>1, <3>5 DEF FetchFails, Ending, AtPc, Tasks, RunPcs
    <3> QED
      BY <1>6, <3>2, <3>3, <3>4, <3>5
  <2>4. Quietly(w)
    BY <2>1, <2>2, <2>3 DEF Quietly, queueVars, RunPcs
  <2> QED
    BY <1>4, <2>1, <2>4 DEF queueVars
<1>7. ASSUME NEW w \in Workers, NEW bad \in SUBSET Fragile, NEW slice \in BOOLEAN,
             PersistPage(w, bad, slice)
      PROVE  KeptInv'
  <2>1. PICK status, next, advance :
          /\ UNCHANGED queueVars /\ task[w].pc = "persist"
          /\ runs' = [runs EXCEPT ![task[w].run].after = IF advance THEN next ELSE @]
          /\ task' = [task EXCEPT
               ![w] = [task[w] EXCEPT !.pc = IF status = "none" THEN "check" ELSE "end",
                                      !.status = status, !.cursor = next,
                                      !.pages = task[w].pages + 1, !.page = {}]]
    BY <1>7 DEF PersistPage, Held, AtPc
  <2>2. RunsStand
    <3>1. runs \in Seq(Runs)
      BY DEF SyncInv, SyncTypeOK
    <3>2. \A i \in DOMAIN runs : runs[i] \in Runs
      BY <3>1
    <3> QED
      BY <2>1, <3>1, <3>2 DEF RunsStand, Runs
  <2>3. /\ task'[w].todo = task[w].todo /\ task'[w].continue = task[w].continue
        /\ task'[w].pc \in {"check", "end"} /\ task'[w].run = task[w].run
        /\ \A v \in Workers \ {w} : task'[v] = task[v]
    BY <1>0, <2>1 DEF Tasks
  <2>4. task[w].continue = {}
    BY <2>1 DEF KeptInv, HandsOver
  <2>5. Quietly(w)
    BY <2>1, <2>3, <2>4 DEF Quietly, queueVars, RunPcs
  <2>6. \A v \in Workers : Quietly(v)
    BY <2>1, <2>3, <2>5 DEF Quietly, KeptInv, HandsOver, queueVars
  <2> QED
    BY <1>3, <2>1, <2>2, <2>6, KeptQuiet DEF queueVars
(* The rest of the world: the queue, the time, the origin.                 *)
<1>8. ASSUME UNCHANGED <<task, runs>>, \A v \in Workers : lease'[v] = lease[v],
             JobsStay, TokensMove, ActiveStays
      PROVE  KeptInv'
  <2>1. \A v \in Workers : Quietly(v)
    BY <1>8 DEF Quietly, KeptInv, HandsOver
  <2>2. RunsStand
    BY <1>8 DEF RunsStand
  <2> QED
    BY <1>8, <2>1, <2>2, KeptQuiet
<1>9. ASSUME \/ \E k \in Keys : Enqueue(k)
             \/ \E w \in Workers : ReleaseExpired(w)
             \/ \E w \in Workers, j \in Jobs : Heartbeat(w, j)
             \/ \E j \in Jobs : LeaseExpires(j) \/ BecomesDue(j),
             UNCHANGED <<task, dataVars>>
      PROVE  KeptInv'
  <2>1. QueueNext /\ UNCHANGED <<lease, runs>>
    BY <1>9 DEF QueueNext, WorkerStep, Enqueue, ReleaseExpired, Heartbeat, LeaseExpires,
                BecomesDue, dataVars
  <2>2. JobsStay /\ TokensMove /\ ActiveStays
    BY <1>0, <1>9, <2>1, QueueStepStays, QueueStepTokens, StepStaysActive DEF KeptInv
  <2> QED
    BY <1>8, <1>9, <2>1, <2>2
<1>10. ASSUME NEW w \in Workers, Renew(w) PROVE KeptInv'
  <2>1. Heartbeat(w, lease[w].job) /\ UNCHANGED <<task, dataVars>>
    BY <1>10 DEF Renew
  <2>2. lease[w].job \in Jobs
    BY <1>0, <2>1 DEF Heartbeat, Owns, QueueInv, FreshTokens
  <2> QED
    BY <1>9, <2>1, <2>2
<1>11. ASSUME \/ \E k \in Keys : Request(k)
              \/ \E w \in Workers : ReleaseExpired(w) /\ UNCHANGED <<task, dataVars>>
              \/ \E j \in Jobs : Passing(j) \/ Due(j)
       PROVE  KeptInv'
  BY <1>9, <1>11 DEF Request, Passing, Due
<1>12. CASE Change \/ UNCHANGED syncVars
  BY <1>3, <1>8, <1>12 DEF Change, syncVars, queueVars, dataVars
<1>13. Cancellers = {}
  BY DEF LoadsAreSingle
<1> QED
  BY <1>1, <1>2, <1>5, <1>6, <1>7, <1>10, <1>11, <1>12, <1>13 DEF SyncNext, SyncStep

LEMMA KeptInitHolds == SyncInit => KeptInv
<1> SUFFICES ASSUME SyncInit PROVE KeptInv
  OBVIOUS
<1>1. /\ runs = <<>> /\ \A w \in Workers : task[w] = NoTask /\ Idle(w)
      /\ \A j \in Jobs : job[j].token = 0
  BY DEF SyncInit, QueueInit, Idle, AbsentJob
<1>2. \A r \in Resources : ~Sliced(r)
  BY <1>1 DEF Sliced, RunsOf
<1>3. NoTask.continue = {} /\ NoTask.todo = <<>> /\ NoTask.pc = "idle"
  BY DEF NoTask
<1> QED
  BY <1>1, <1>2, <1>3 DEF KeptInv, TokensProcess, RunsHaveJobs, DoneIsDone, ContinuationKept,
                          HandsOver, OwnerCarriesOn, Owning

(* What a slice leaves of a full load is not forgotten: while workers live *)
(* and nobody cancels, a job for the resource goes on with it, or its      *)
(* worker will ask for one, whoever loses a lease and gets it back, and    *)
(* however often a job is taken again (engine.py:430-431,                  *)
(* workers.py:174-189); where no full load is for all resources at once.   *)
THEOREM ContinuationsAreKept ==
  ASSUME ContinuationsAreKeys, NoRepeats(Order), LoadsAreSingle
  PROVE  SyncSpec => []ContinuationKept
<1>1. [SyncNext]_syncVars => [SyncOrCrash]_syncVars
  BY DEF SyncOrCrash
<1>2. SyncInit => SyncInv /\ DoneInv /\ KeptInv
  BY SyncInitHolds, DoneInitHolds, KeptInitHolds
<1>3. SyncInv /\ [SyncNext]_syncVars => SyncInv'
  BY <1>1, SyncInvInductive
<1>4. SyncInv /\ DoneInv /\ [SyncNext]_syncVars => DoneInv'
  BY <1>1, DoneInvInductive
<1>5. SyncInv /\ SyncInv' /\ DoneInv /\ KeptInv /\ [SyncNext]_syncVars => KeptInv'
  BY KeptInvInductive
<1>6. KeptInv => ContinuationKept
  BY DEF KeptInv
<1> QED
  BY <1>2, <1>3, <1>4, <1>5, <1>6, PTL DEF SyncSpec

-----------------------------------------------------------------------------
(* The items of the orders.  HydrationInv says of each row that it is what *)
(* the origin had, and of each worker what it holds: under its lease it is *)
(* the only one with a job of its kind, so nobody else stores a detail     *)
(* between its reading of a row and its writing, and the items of the      *)
(* mirror are no newer than the detail in its hands.                       *)

(* A row of the mirror holds what the origin had, at most as it is now.    *)
RowIsReal(o) ==
  LET row == mirrored[o] IN
    /\ row.version \in Nat /\ row.items \in Nat
    /\ row.items <= placed[o].version /\ row.version <= placed[o].version
    /\ row.complete \in BOOLEAN
    /\ row.complete <=> row.items > 0 /\ Sent(o, row.items).items = "live"

(* What a worker holds at each place.                                      *)
SyncPlaces == {"list", "read page", "store page"}
DetailPlaces == {"read order", "store order"}
ItemPlaces == {"choose", "get", "pending"} \cup DetailPlaces
Places == {"rest", "ask", "finish", "requeue"} \cup SyncPlaces \cup ItemPlaces

TaskHasItsFields(t) ==
  /\ t.at \in Places /\ "at" \in DOMAIN t
  /\ t.at # "rest" => /\ {"kind", "leased", "more"} \subseteq DOMAIN t
                      /\ t.kind \in Kinds /\ t.leased \in BOOLEAN
  /\ t.at \in SyncPlaces => t.kind = "sync"
  /\ t.at \in ItemPlaces => t.kind = "hydrate"
  /\ t.at \in {"read page", "store page"} => "version" \in DOMAIN t
  /\ t.at = "store page" => "seen" \in DOMAIN t
  /\ t.at \in {"get"} \cup DetailPlaces => {"todo", "stored"} \subseteq DOMAIN t
  /\ t.at \in DetailPlaces => "detail" \in DOMAIN t
  /\ t.at = "store order" => "seen" \in DOMAIN t

(* The job is the worker's: it is the only one, until it gives it back.    *)
AtWork(t) == t.at \notin {"rest", "requeue"} /\ t.leased

(* The versions in a page, and the one of a detail, are no newer than the  *)
(* origin's; under the lease, no older than the mirror's items, and what   *)
(* was read of the order is as it was.                                     *)
PageIsReal(t) ==
  t.at \in {"read page", "store page"} =>
    \A o \in MirrorOrders \cap DOMAIN t.version :
      t.version[o] \in Nat /\ t.version[o] <= placed[o].version

DetailIsReal(t) ==
  t.at \in DetailPlaces =>
    LET o == Head(t.todo) IN
      o \in MirrorOrders =>
        /\ t.detail \in Nat \ {0} /\ t.detail <= placed[o].version
        /\ t.leased => mirrored[o].items <= t.detail
        /\ t.at = "store order" => t.seen.complete = mirrored[o].complete

CrewInv ==
  /\ \A w \in DOMAIN crew :
       LET t == crew[w] IN
         /\ TaskHasItsFields(t) /\ PageIsReal(t) /\ DetailIsReal(t)
         /\ AtWork(t) => line[t.kind] = "running"
         /\ t.at = "store order" => t.leased
  /\ \A v, w \in DOMAIN crew :
       (AtWork(crew[v]) /\ AtWork(crew[w]) /\ crew[v].kind = crew[w].kind) => v = w

HydrationInv ==
  /\ line \in [Kinds -> {"none", "waiting", "running"}]
  /\ DOMAIN mirrored = MirrorOrders
  /\ \A o \in MirrorOrders : placed[o].version \in Nat \ {0} /\ RowIsReal(o)
  /\ CrewInv

LEMMA WhatItTakes ==
  ASSUME NEW w \in DOMAIN crew, NEW new, Takes(w, new)
  PROVE  /\ DOMAIN crew' = DOMAIN crew
         /\ \A v \in DOMAIN crew \ {w} : crew'[v] = crew[v]
         /\ DOMAIN crew'[w] = DOMAIN new \cup DOMAIN crew[w]
         /\ \A f \in DOMAIN new : crew'[w][f] = new[f]
         /\ \A f \in DOMAIN crew[w] \ DOMAIN new : crew'[w][f] = crew[w][f]
<1>1. PICK u : u = [field \in DOMAIN new \cup DOMAIN crew[w] |->
                     IF field \in DOMAIN new THEN new[field] ELSE crew[w][field]]
  OBVIOUS
<1>2. crew' = [crew EXCEPT ![w] = u]
  BY <1>1 DEF Takes
<1> QED
  BY <1>1, <1>2

(* What a worker at rest, or on its way, holds is right.                   *)
LEMMA SimpleTask ==
  ASSUME NEW t, NEW place \in {"ask", "finish", "requeue", "list", "choose", "pending"},
         NEW kind \in Kinds, NEW leased \in BOOLEAN,
         {"at", "kind", "leased", "more"} \subseteq DOMAIN t,
         t.at = place, t.kind = kind, t.leased = leased,
         place = "list" => kind = "sync", place \in {"choose", "pending"} => kind = "hydrate"
  PROVE  TaskHasItsFields(t) /\ PageIsReal(t) /\ DetailIsReal(t) /\ t.at # "store order"
BY DEF TaskHasItsFields, PageIsReal, DetailIsReal, SyncPlaces, DetailPlaces, ItemPlaces, Places

LEMMA RestingTask ==
  TaskHasItsFields(Resting) /\ PageIsReal(Resting) /\ DetailIsReal(Resting)
    /\ ~AtWork(Resting) /\ Resting.at # "store order"
BY DEF Resting, TaskHasItsFields, PageIsReal, DetailIsReal, SyncPlaces, DetailPlaces,
       ItemPlaces, Places, AtWork

(* A step of one worker; what it does to the rows is right for the others. *)
LEMMA RowsStep ==
  ASSUME HydrationInv, NEW w \in DOMAIN crew, NEW u, u = crew'[w],
         DOMAIN crew' = DOMAIN crew, \A v \in DOMAIN crew \ {w} : crew'[v] = crew[v],
         UNCHANGED placed, DOMAIN mirrored' = DOMAIN mirrored,
         \A o \in MirrorOrders : RowIsReal(o)',
         \A v \in DOMAIN crew \ {w} : \A t : t = crew[v] => DetailIsReal(t)',
         line' \in [Kinds -> {"none", "waiting", "running"}],
         \A k \in Kinds : line[k] = "running" =>
           line'[k] = "running" \/ (AtWork(crew[w]) /\ crew[w].kind = k),
         TaskHasItsFields(u), PageIsReal(u), DetailIsReal(u)', u.at = "store order" => u.leased,
         AtWork(u) => /\ line'[u.kind] = "running"
                      /\ \/ line[u.kind] # "running"
                         \/ AtWork(crew[w]) /\ crew[w].kind = u.kind
  PROVE  HydrationInv'
<1>1. \A o \in MirrorOrders' : placed'[o].version \in Nat \ {0} /\ RowIsReal(o)'
  BY DEF HydrationInv, MirrorOrders
<1>2. \A t : PageIsReal(t) => PageIsReal(t)'
  BY DEF PageIsReal, MirrorOrders
<1>3. ASSUME NEW v \in DOMAIN crew, v # w, NEW t, t = crew[v]
      PROVE  /\ TaskHasItsFields(t) /\ PageIsReal(t)' /\ DetailIsReal(t)'
             /\ AtWork(t) => line'[t.kind] = "running"
             /\ t.at = "store order" => t.leased
             /\ AtWork(t) /\ AtWork(u) => t.kind # u.kind
  <2>1. /\ TaskHasItsFields(crew[v]) /\ PageIsReal(crew[v]) /\ DetailIsReal(crew[v])
        /\ AtWork(crew[v]) => line[crew[v].kind] = "running"
        /\ crew[v].at = "store order" => crew[v].leased
        /\ AtWork(crew[v]) /\ AtWork(crew[w]) => crew[v].kind # crew[w].kind
    BY <1>3 DEF HydrationInv, CrewInv
  <2>2. AtWork(crew[v]) => crew[v].kind \in Kinds
    BY <2>1 DEF TaskHasItsFields, AtWork
  <2> QED
    BY <1>2, <1>3, <2>1, <2>2
<1>4. \A v \in DOMAIN crew \ {w} : crew'[v] = crew[v]
  OBVIOUS
<1>5. ASSUME NEW v \in DOMAIN crew'
      PROVE  /\ TaskHasItsFields(crew'[v]) /\ PageIsReal(crew[v])' /\ DetailIsReal(crew[v])'
             /\ AtWork(crew'[v]) => line'[crew'[v].kind] = "running"
             /\ crew'[v].at = "store order" => crew'[v].leased
  <2>1. PICK t : t = crew'[v]
    OBVIOUS
  <2>2. TaskHasItsFields(t) /\ PageIsReal(t)' /\ DetailIsReal(t)'
          /\ (AtWork(t) => line'[t.kind] = "running") /\ (t.at = "store order" => t.leased)
    <3>1. CASE v = w
      BY <1>2, <2>1, <3>1
    <3>2. CASE v # w
      BY <1>3, <1>4, <2>1, <3>2
    <3> QED
      BY <3>1, <3>2
  <2> QED
    BY <2>1, <2>2 DEF PageIsReal, DetailIsReal
<1>6. ASSUME NEW a \in DOMAIN crew', NEW b \in DOMAIN crew',
             AtWork(crew'[a]), AtWork(crew'[b]), crew'[a].kind = crew'[b].kind
      PROVE  a = b
  <2>1. CASE a # w /\ b # w
    BY <1>4, <1>6, <2>1 DEF HydrationInv, CrewInv
  <2>2. CASE a = w /\ b # w
    BY <1>3, <1>4, <1>6, <2>2
  <2>3. CASE a # w /\ b = w
    BY <1>3, <1>4, <1>6, <2>3
  <2> QED
    BY <2>1, <2>2, <2>3
<1>7. CrewInv'
  BY <1>5, <1>6 DEF CrewInv, AtWork
<1> QED
  BY <1>1, <1>7 DEF HydrationInv, MirrorOrders

(* A step of one worker that leaves the rows and the origin alone.         *)
LEMMA CrewStep ==
  ASSUME HydrationInv, NEW w \in DOMAIN crew, NEW u, u = crew'[w],
         DOMAIN crew' = DOMAIN crew, \A v \in DOMAIN crew \ {w} : crew'[v] = crew[v],
         UNCHANGED <<placed, mirrored>>, line' \in [Kinds -> {"none", "waiting", "running"}],
         \A k \in Kinds : line[k] = "running" =>
           line'[k] = "running" \/ (AtWork(crew[w]) /\ crew[w].kind = k),
         TaskHasItsFields(u), PageIsReal(u), DetailIsReal(u), u.at = "store order" => u.leased,
         AtWork(u) => /\ line'[u.kind] = "running"
                      /\ \/ line[u.kind] # "running"
                         \/ AtWork(crew[w]) /\ crew[w].kind = u.kind
  PROVE  HydrationInv'
<1>1. \A o \in MirrorOrders : RowIsReal(o)'
  BY DEF HydrationInv, RowIsReal
<1>2. \A t : DetailIsReal(t) => DetailIsReal(t)'
  BY DEF DetailIsReal, MirrorOrders
<1>3. \A v \in DOMAIN crew \ {w} : \A t : t = crew[v] => DetailIsReal(t)'
  BY <1>2 DEF HydrationInv, CrewInv
<1> QED
  BY <1>1, <1>2, <1>3, RowsStep

(* What a step of the board does to the jobs that run.                     *)
LineTyped == line \in [Kinds -> {"none", "waiting", "running"}]

LEMMA Asked ==
  ASSUME LineTyped, NEW S, Line!Ask(S)
  PROVE  LineTyped' /\ \A k \in Kinds : line'[k] = "running" <=> line[k] = "running"
BY DEF LineTyped, Line!Ask

LEMMA Started ==
  ASSUME LineTyped, NEW kind \in Kinds, Line!Start(kind)
  PROVE  /\ LineTyped' /\ line[kind] # "running" /\ line'[kind] = "running"
         /\ \A k \in Kinds : line[k] = "running" => line'[k] = "running"
BY DEF LineTyped, Line!Start

LEMMA WentBack ==
  ASSUME LineTyped, NEW S, Line!GoBack(S)
  PROVE  /\ LineTyped'
         /\ \A k \in Kinds : line[k] = "running" => line'[k] = "running" \/ k \in S
BY DEF LineTyped, Line!GoBack

LEMMA Ended ==
  ASSUME LineTyped, NEW kind \in Kinds, Line!End(kind)
  PROVE  /\ LineTyped'
         /\ \A k \in Kinds : line[k] = "running" => line'[k] = "running" \/ k = kind
BY DEF LineTyped, Line!End

LEMMA GoesWhere ==
  ASSUME NEW w \in DOMAIN crew, NEW place, Goes(w, place)
  PROVE  /\ DOMAIN crew' = DOMAIN crew
         /\ \A v \in DOMAIN crew \ {w} : crew'[v] = crew[v]
         /\ {"at", "kind", "leased", "more"} \subseteq DOMAIN crew'[w]
         /\ crew'[w].at = place /\ crew'[w].kind = crew[w].kind
         /\ crew'[w].leased = crew[w].leased
<1>1. PICK u : u = [at |-> place, kind |-> crew[w].kind, leased |-> crew[w].leased,
                    more |-> crew[w].more]
  OBVIOUS
<1>2. crew' = [crew EXCEPT ![w] = u]
  BY <1>1 DEF Goes
<1> QED
  BY <1>1, <1>2

(* A worker lays down what it has.                                         *)
LEMMA RestKeeps ==
  ASSUME HydrationInv, NEW w \in DOMAIN crew, Rests(w), UNCHANGED <<placed, mirrored>>, LineTyped',
         \A k \in Kinds : line[k] = "running" =>
           line'[k] = "running" \/ (AtWork(crew[w]) /\ crew[w].kind = k)
  PROVE  HydrationInv'
<1>1. /\ DOMAIN crew' = DOMAIN crew /\ crew'[w] = Resting
      /\ \A v \in DOMAIN crew \ {w} : crew'[v] = crew[v]
  BY DEF Rests
<1> QED
  BY <1>1, RestingTask, CrewStep DEF LineTyped

(* A worker goes on, with the kind and the lease it had.                   *)
LEMMA GoKeeps ==
  ASSUME HydrationInv, NEW w \in DOMAIN crew, crew[w].at # "rest", crew[w].at # "requeue",
         NEW place \in {"ask", "finish", "requeue"}, Goes(w, place),
         UNCHANGED <<placed, mirrored>>, LineTyped',
         \A k \in Kinds : line[k] = "running" =>
           line'[k] = "running" \/ (AtWork(crew[w]) /\ crew[w].kind = k /\ place = "requeue")
  PROVE  HydrationInv'
<1>1. PICK u, kind, leased : u = crew'[w] /\ kind = crew[w].kind /\ leased = crew[w].leased
  OBVIOUS
<1>2. kind \in Kinds /\ leased \in BOOLEAN
  BY <1>1 DEF HydrationInv, CrewInv, TaskHasItsFields
<1>3. /\ DOMAIN crew' = DOMAIN crew
      /\ \A v \in DOMAIN crew \ {w} : crew'[v] = crew[v]
      /\ {"at", "kind", "leased", "more"} \subseteq DOMAIN u
      /\ u.at = place /\ u.kind = kind /\ u.leased = leased
  BY <1>1, GoesWhere
<1>4. TaskHasItsFields(u) /\ PageIsReal(u) /\ DetailIsReal(u) /\ u.at # "store order"
  BY <1>2, <1>3, SimpleTask
<1>5. AtWork(u) => AtWork(crew[w]) /\ line'[u.kind] = "running"
  <2>1. AtWork(u) => place # "requeue" /\ AtWork(crew[w])
    BY <1>1, <1>3 DEF AtWork
  <2>2. AtWork(crew[w]) => line[kind] = "running"
    BY <1>1 DEF HydrationInv, CrewInv
  <2> QED
    BY <1>2, <1>3, <2>1, <2>2
<1> QED
  BY <1>1, <1>3, <1>4, <1>5, CrewStep DEF LineTyped

LEMMA BeginKeeps ==
  ASSUME HydrationInv, NEW w \in DOMAIN crew, NEW kind \in Kinds, Begin(w, kind)
  PROVE  HydrationInv'
<1>1. PICK u : u = [at |-> IF kind = "sync" THEN "list" ELSE "choose",
                    kind |-> kind, leased |-> TRUE, more |-> FALSE]
  OBVIOUS
<1>2. crew' = [crew EXCEPT ![w] = u] /\ Line!Start(kind) /\ UNCHANGED <<placed, mirrored>>
  BY <1>1 DEF Begin, mirrorRows
<1>3. /\ DOMAIN crew' = DOMAIN crew /\ crew'[w] = u
      /\ \A v \in DOMAIN crew \ {w} : crew'[v] = crew[v]
  BY <1>2
<1>4. TaskHasItsFields(u) /\ PageIsReal(u) /\ DetailIsReal(u) /\ u.at # "store order"
  <2>1. PICK place \in {"list", "choose"} : place = u.at
    BY <1>1
  <2>2. place = "list" => kind = "sync"
    BY <1>1, <2>1
  <2>3. place = "choose" => kind = "hydrate"
    BY <1>1, <2>1 DEF Kinds
  <2>4. u.kind = kind /\ u.leased = TRUE /\ {"at", "kind", "leased", "more"} \subseteq DOMAIN u
    BY <1>1
  <2> QED
    BY <2>1, <2>2, <2>3, <2>4, SimpleTask
<1>5. /\ LineTyped' /\ line[kind] # "running" /\ line'[kind] = "running"
      /\ \A k \in Kinds : line[k] = "running" => line'[k] = "running"
  BY <1>2, Started DEF HydrationInv, LineTyped
<1>6. u.kind = kind
  BY <1>1
<1> QED
  BY <1>2, <1>3, <1>4, <1>5, <1>6, CrewStep DEF LineTyped

(* A worker goes on with its job, on its own.                              *)
LEMMA OwnStep ==
  ASSUME HydrationInv, NEW w \in DOMAIN crew, crew[w].at \notin {"rest", "requeue"},
         NEW u, u = crew'[w], DOMAIN crew' = DOMAIN crew,
         \A v \in DOMAIN crew \ {w} : crew'[v] = crew[v],
         UNCHANGED <<placed, mirrored, line>>,
         u.kind = crew[w].kind, u.leased = crew[w].leased,
         TaskHasItsFields(u), PageIsReal(u), DetailIsReal(u), u.at = "store order" => u.leased
  PROVE  HydrationInv'
<1>1. AtWork(u) => AtWork(crew[w])
  BY DEF AtWork
<1>2. AtWork(crew[w]) => line[crew[w].kind] = "running"
  BY DEF HydrationInv, CrewInv
<1>3. line' \in [Kinds -> {"none", "waiting", "running"}]
  BY DEF HydrationInv
<1> QED
  BY <1>1, <1>2, <1>3, CrewStep

LEMMA TakesStep ==
  ASSUME HydrationInv, NEW w \in DOMAIN crew, crew[w].at \notin {"rest", "requeue"},
         NEW new, Takes(w, new), "at" \in DOMAIN new,
         "kind" \notin DOMAIN new, "leased" \notin DOMAIN new, "more" \notin DOMAIN new,
         UNCHANGED <<placed, mirrored, line>>,
         NEW u, u = crew'[w],
         TaskHasItsFields(u), PageIsReal(u), DetailIsReal(u), u.at = "store order" => u.leased
  PROVE  HydrationInv'
<1>1. {"kind", "leased", "more"} \subseteq DOMAIN crew[w]
  BY DEF HydrationInv, CrewInv, TaskHasItsFields
<1>2. u.kind = crew[w].kind /\ u.leased = crew[w].leased
  BY <1>1, WhatItTakes
<1>3. DOMAIN crew' = DOMAIN crew /\ \A v \in DOMAIN crew \ {w} : crew'[v] = crew[v]
  BY WhatItTakes
<1> QED
  BY <1>2, <1>3, OwnStep

LEMMA ListKeeps ==
  ASSUME HydrationInv, NEW w \in DOMAIN crew, List(w)
  PROVE  HydrationInv'
<1>1. PICK page, cursor, new :
        /\ page \subseteq MirrorOrders
        /\ new = [at |-> "read page", version |-> [o \in page |-> placed[o].version],
                  cursor |-> cursor]
        /\ Takes(w, new)
  BY DEF List
<1>2. crew[w].at = "list" /\ UNCHANGED <<placed, mirrored, line>>
  BY DEF List, IsAt, mirrorRows
<1>3. PICK u : u = crew'[w]
  OBVIOUS
<1>4. PICK t : t = crew[w] /\ TaskHasItsFields(t)
  BY DEF HydrationInv, CrewInv
<1>5. /\ u.at = "read page" /\ u.version = [o \in page |-> placed[o].version]
      /\ DOMAIN u = {"at", "version", "cursor"} \cup DOMAIN t
      /\ u.kind = t.kind /\ u.leased = t.leased
  <2>1. /\ DOMAIN new = {"at", "version", "cursor"} /\ new.at = "read page"
        /\ new.version = [o \in page |-> placed[o].version]
    BY <1>1
  <2>2. {"kind", "leased", "more"} \subseteq DOMAIN t
    BY <1>2, <1>4 DEF TaskHasItsFields
  <2>3. /\ DOMAIN u = DOMAIN new \cup DOMAIN t
        /\ \A f \in DOMAIN new : u[f] = new[f]
        /\ \A f \in DOMAIN t \ DOMAIN new : u[f] = t[f]
    <3>1. Takes(w, new)
      BY <1>1
    <3> QED
      BY <1>3, <1>4, <3>1, WhatItTakes
  <2> QED
    BY <2>1, <2>2, <2>3
<1>6. TaskHasItsFields(u)
  BY <1>2, <1>4, <1>5 DEF TaskHasItsFields, SyncPlaces, DetailPlaces, ItemPlaces, Places
<1>7. PageIsReal(u)
  <2>1. \A o \in MirrorOrders : placed[o].version \in Nat
    BY DEF HydrationInv
  <2>2. DOMAIN u.version = page /\ \A o \in page : u.version[o] = placed[o].version
    BY <1>5
  <2> SUFFICES ASSUME NEW o \in MirrorOrders, o \in page
               PROVE  u.version[o] \in Nat /\ u.version[o] <= placed[o].version
    BY <2>2 DEF PageIsReal
  <2>3. PICK n \in Nat : n = placed[o].version /\ n = u.version[o]
    BY <2>1, <2>2
  <2> QED
    BY <2>3
<1>8. DetailIsReal(u) /\ u.at # "store order"
  BY <1>5 DEF DetailIsReal, DetailPlaces
<1>9. "at" \in DOMAIN new /\ "kind" \notin DOMAIN new /\ "leased" \notin DOMAIN new
        /\ "more" \notin DOMAIN new
  BY <1>1
<1> QED
  BY <1>1, <1>2, <1>3, <1>6, <1>7, <1>8, <1>9, TakesStep

LEMMA ReadPageKeeps ==
  ASSUME HydrationInv, NEW w \in DOMAIN crew, ReadPage(w)
  PROVE  HydrationInv'
<1>1. PICK new : new = [at |-> "store page", seen |-> mirrored] /\ Takes(w, new)
  BY DEF ReadPage
<1>2. crew[w].at = "read page" /\ UNCHANGED <<placed, mirrored, line>>
  BY DEF ReadPage, IsAt, mirrorRows
<1>3. PICK u : u = crew'[w]
  OBVIOUS
<1>4. PICK t : t = crew[w] /\ TaskHasItsFields(t) /\ PageIsReal(t)
  BY DEF HydrationInv, CrewInv
<1>5. /\ u.at = "store page" /\ DOMAIN u = {"at", "seen"} \cup DOMAIN t
      /\ u.kind = t.kind /\ u.leased = t.leased /\ u.version = t.version
  <2>1. DOMAIN new = {"at", "seen"} /\ new.at = "store page"
    BY <1>1
  <2>2. {"kind", "leased", "more", "version"} \subseteq DOMAIN t
    BY <1>2, <1>4 DEF TaskHasItsFields
  <2>3. /\ DOMAIN u = DOMAIN new \cup DOMAIN t
        /\ \A f \in DOMAIN new : u[f] = new[f]
        /\ \A f \in DOMAIN t \ DOMAIN new : u[f] = t[f]
    <3>1. Takes(w, new)
      BY <1>1
    <3> QED
      BY <1>3, <1>4, <3>1, WhatItTakes
  <2> QED
    BY <2>1, <2>2, <2>3
<1>6. TaskHasItsFields(u)
  BY <1>2, <1>4, <1>5 DEF TaskHasItsFields, SyncPlaces, DetailPlaces, ItemPlaces, Places
<1>7. PageIsReal(u) /\ DetailIsReal(u) /\ u.at # "store order"
  BY <1>2, <1>4, <1>5 DEF PageIsReal, DetailIsReal, DetailPlaces
<1>9. "at" \in DOMAIN new /\ "kind" \notin DOMAIN new /\ "leased" \notin DOMAIN new
        /\ "more" \notin DOMAIN new
  BY <1>1
<1> QED
  BY <1>1, <1>2, <1>3, <1>6, <1>7, <1>9, TakesStep

LEMMA ChooseKeeps ==
  ASSUME HydrationInv, NEW w \in DOMAIN crew, Choose(w)
  PROVE  HydrationInv'
<1>1. PICK place, todo, new :
        /\ place \in {"finish", "get"}
        /\ new = [at |-> place, todo |-> todo, stored |-> FALSE]
        /\ Takes(w, new)
  BY DEF Choose
<1>2. crew[w].at = "choose" /\ UNCHANGED <<placed, mirrored, line>>
  BY DEF Choose, IsAt, mirrorRows
<1>3. PICK u : u = crew'[w]
  OBVIOUS
<1>4. PICK t : t = crew[w] /\ TaskHasItsFields(t)
  BY DEF HydrationInv, CrewInv
<1>5. /\ u.at = place /\ DOMAIN u = {"at", "todo", "stored"} \cup DOMAIN t
      /\ u.kind = t.kind /\ u.leased = t.leased
  <2>1. DOMAIN new = {"at", "todo", "stored"} /\ new.at = place
    BY <1>1
  <2>2. {"kind", "leased", "more"} \subseteq DOMAIN t
    BY <1>2, <1>4 DEF TaskHasItsFields
  <2>3. /\ DOMAIN u = DOMAIN new \cup DOMAIN t
        /\ \A f \in DOMAIN new : u[f] = new[f]
        /\ \A f \in DOMAIN t \ DOMAIN new : u[f] = t[f]
    <3>1. Takes(w, new)
      BY <1>1
    <3> QED
      BY <1>3, <1>4, <3>1, WhatItTakes
  <2> QED
    BY <2>1, <2>2, <2>3
<1>6. TaskHasItsFields(u)
  BY <1>1, <1>2, <1>4, <1>5 DEF TaskHasItsFields, SyncPlaces, DetailPlaces, ItemPlaces, Places
<1>7. PageIsReal(u) /\ DetailIsReal(u) /\ u.at # "store order"
  BY <1>1, <1>5 DEF PageIsReal, DetailIsReal, DetailPlaces
<1>9. "at" \in DOMAIN new /\ "kind" \notin DOMAIN new /\ "leased" \notin DOMAIN new
        /\ "more" \notin DOMAIN new
  BY <1>1
<1> QED
  BY <1>1, <1>2, <1>3, <1>6, <1>7, <1>9, TakesStep

(* What the origin has is no older than what the mirror ever had.          *)
LEMMA GetDetailKeeps ==
  ASSUME HydrationInv, NEW w \in DOMAIN crew, GetDetail(w)
  PROVE  HydrationInv'
<1>1. PICK new : /\ new = [at |-> "read order",
                           detail |-> placed[Head(crew[w].todo)].version]
                 /\ Takes(w, new)
  BY DEF GetDetail
<1>2. crew[w].at = "get" /\ UNCHANGED <<placed, mirrored, line>>
  BY DEF GetDetail, IsAt, mirrorRows
<1>3. PICK u : u = crew'[w]
  OBVIOUS
<1>4. PICK t : t = crew[w] /\ TaskHasItsFields(t)
  BY DEF HydrationInv, CrewInv
<1>5. /\ u.at = "read order" /\ DOMAIN u = {"at", "detail"} \cup DOMAIN t
      /\ u.kind = t.kind /\ u.leased = t.leased /\ u.todo = t.todo
      /\ u.detail = placed[Head(t.todo)].version
  <2>1. /\ DOMAIN new = {"at", "detail"} /\ new.at = "read order"
        /\ new.detail = placed[Head(t.todo)].version
    BY <1>1, <1>4
  <2>2. {"kind", "leased", "more", "todo"} \subseteq DOMAIN t
    BY <1>2, <1>4 DEF TaskHasItsFields
  <2>3. /\ DOMAIN u = DOMAIN new \cup DOMAIN t
        /\ \A f \in DOMAIN new : u[f] = new[f]
        /\ \A f \in DOMAIN t \ DOMAIN new : u[f] = t[f]
    <3>1. Takes(w, new)
      BY <1>1
    <3> QED
      BY <1>3, <1>4, <3>1, WhatItTakes
  <2> QED
    BY <2>1, <2>2, <2>3
<1>6. TaskHasItsFields(u)
  BY <1>2, <1>4, <1>5 DEF TaskHasItsFields, SyncPlaces, DetailPlaces, ItemPlaces, Places
<1>7. PageIsReal(u) /\ DetailIsReal(u) /\ u.at # "store order"
  <2>1. \A o \in MirrorOrders : placed[o].version \in Nat \ {0} /\ RowIsReal(o)
    BY DEF HydrationInv
  <2>2. PageIsReal(u) /\ u.at # "store order"
    BY <1>5 DEF PageIsReal
  <2>3. ASSUME NEW o \in MirrorOrders, o = Head(u.todo)
        PROVE  /\ u.detail \in Nat \ {0} /\ u.detail <= placed[o].version
               /\ mirrored[o].items <= u.detail
    <3>1. PICK n \in Nat \ {0} : n = placed[o].version /\ mirrored[o].items <= n
      BY <2>1 DEF RowIsReal
    <3>2. u.detail = n
      BY <1>5, <2>3, <3>1
    <3> QED
      BY <3>1, <3>2
  <2> QED
    BY <2>2, <2>3 DEF DetailIsReal
<1>9. "at" \in DOMAIN new /\ "kind" \notin DOMAIN new /\ "leased" \notin DOMAIN new
        /\ "more" \notin DOMAIN new
  BY <1>1
<1> QED
  BY <1>1, <1>2, <1>3, <1>6, <1>7, <1>9, TakesStep

(* The lease is asserted, and the row read, in the transaction that stores.*)
LEMMA ReadOrderKeeps ==
  ASSUME HydrationInv, NEW w \in DOMAIN crew, ReadOrder(w)
  PROVE  HydrationInv'
<1>2. crew[w].at = "read order" /\ UNCHANGED <<placed, mirrored, line>>
  BY DEF ReadOrder, IsAt, mirrorRows
<1>0. CASE Rests(w)
  BY <1>0, <1>2, RestKeeps DEF HydrationInv, LineTyped
<1>00. CASE /\ crew[w].leased
           /\ Takes(w, [at |-> "store order", seen |-> mirrored[Head(crew[w].todo)]])
  <2>1. PICK new : /\ new = [at |-> "store order", seen |-> mirrored[Head(crew[w].todo)]]
                   /\ Takes(w, new)
    BY <1>00
  <2>3. PICK u : u = crew'[w]
    OBVIOUS
  <2>4. PICK t : t = crew[w] /\ TaskHasItsFields(t) /\ DetailIsReal(t)
    BY DEF HydrationInv, CrewInv
  <2>5. /\ u.at = "store order" /\ DOMAIN u = {"at", "seen"} \cup DOMAIN t
        /\ u.kind = t.kind /\ u.leased = t.leased /\ u.todo = t.todo /\ u.detail = t.detail
        /\ u.seen = mirrored[Head(t.todo)]
    <3>1. /\ DOMAIN new = {"at", "seen"} /\ new.at = "store order"
          /\ new.seen = mirrored[Head(t.todo)]
      BY <2>1, <2>4
    <3>2. {"kind", "leased", "more", "todo", "detail"} \subseteq DOMAIN t
      BY <1>2, <2>4 DEF TaskHasItsFields, DetailPlaces
    <3>3. /\ DOMAIN u = DOMAIN new \cup DOMAIN t
          /\ \A f \in DOMAIN new : u[f] = new[f]
          /\ \A f \in DOMAIN t \ DOMAIN new : u[f] = t[f]
      <4>1. Takes(w, new)
        BY <2>1
      <4> QED
        BY <2>3, <2>4, <4>1, WhatItTakes
    <3> QED
      BY <3>1, <3>2, <3>3
  <2>6. TaskHasItsFields(u)
    BY <1>2, <2>4, <2>5 DEF TaskHasItsFields, SyncPlaces, DetailPlaces, ItemPlaces, Places
  <2>7. PageIsReal(u) /\ DetailIsReal(u) /\ u.leased
    BY <1>00, <1>2, <2>4, <2>5 DEF PageIsReal, DetailIsReal, DetailPlaces
  <2>9. "at" \in DOMAIN new /\ "kind" \notin DOMAIN new /\ "leased" \notin DOMAIN new
          /\ "more" \notin DOMAIN new
    BY <2>1
  <2> QED
    BY <1>2, <2>1, <2>3, <2>6, <2>7, <2>9, TakesStep
<1> QED
  BY <1>0, <1>00 DEF ReadOrder, MayStore

LEMMA CountPendingKeeps ==
  ASSUME HydrationInv, NEW w \in DOMAIN crew, CountPending(w)
  PROVE  HydrationInv'
<1>1. PICK kind, leased, more, u :
        /\ kind = crew[w].kind /\ leased = crew[w].leased
        /\ u = [at |-> "finish", kind |-> kind, leased |-> leased, more |-> more]
        /\ crew' = [crew EXCEPT ![w] = u]
  BY DEF CountPending
<1>2. crew[w].at = "pending" /\ UNCHANGED <<placed, mirrored, line>>
  BY DEF CountPending, IsAt, mirrorRows
<1>3. kind \in Kinds /\ leased \in BOOLEAN
  BY <1>1, <1>2 DEF HydrationInv, CrewInv, TaskHasItsFields
<1>4. /\ u.at = "finish" /\ u.kind = kind /\ u.leased = leased
      /\ {"at", "kind", "leased", "more"} \subseteq DOMAIN u
  BY <1>1
<1>5. TaskHasItsFields(u) /\ PageIsReal(u) /\ DetailIsReal(u) /\ u.at # "store order"
  BY <1>3, <1>4, SimpleTask
<1>6. /\ DOMAIN crew' = DOMAIN crew /\ u = crew'[w]
      /\ \A v \in DOMAIN crew \ {w} : crew'[v] = crew[v]
  BY <1>1
<1> QED
  BY <1>1, <1>2, <1>4, <1>5, <1>6, OwnStep

(* The steps that leave the rows to others.                                *)
LEMMA EndsKeep ==
  ASSUME HydrationInv, NEW w \in DOMAIN crew,
         LosePage(w) \/ AskForItems(w) \/ EndJob(w) \/ AskAgain(w) \/ Dies(w) \/ RequestFails(w)
  PROVE  HydrationInv'
<1>0. LineTyped /\ UNCHANGED <<placed, mirrored>>
  BY DEF HydrationInv, LineTyped, LosePage, AskForItems, EndJob, AskAgain, Dies,
         RequestFails, mirrorRows
<1>1. ASSUME Close(w), crew[w].kind \in Kinds, crew[w].at \notin {"rest", "requeue"}
      PROVE  /\ LineTyped'
             /\ \A k \in Kinds : line[k] = "running" =>
                  line'[k] = "running" \/ (AtWork(crew[w]) /\ crew[w].kind = k)
  <2>1. CASE crew[w].leased
    <3>1. Line!End(crew[w].kind) /\ AtWork(crew[w])
      BY <1>1, <2>1 DEF Close, AtWork
    <3> QED
      BY <1>0, <1>1, <3>1, Ended
  <2>2. CASE ~crew[w].leased
    <3>1. UNCHANGED line
      BY <1>1, <2>2 DEF Close
    <3> QED
      BY <1>0, <3>1 DEF LineTyped
  <2> QED
    BY <2>1, <2>2
<1>2. crew[w].at # "rest" => crew[w].kind \in Kinds
  BY DEF HydrationInv, CrewInv, TaskHasItsFields
<1>3. CASE LosePage(w)
  <2>1. crew[w].at = "store page" /\ UNCHANGED line /\ Goes(w, "ask")
    BY <1>3 DEF LosePage, IsAt
  <2> QED
    BY <1>0, <2>1, GoKeeps DEF LineTyped
<1>4. CASE AskForItems(w)
  <2>1. crew[w].at = "ask" /\ Goes(w, "finish") /\ \E S : Line!Ask(S)
    BY <1>4 DEF AskForItems, IsAt
  <2>2. LineTyped' /\ \A k \in Kinds : line'[k] = "running" <=> line[k] = "running"
    BY <1>0, <2>1, Asked
  <2> QED
    BY <1>0, <2>1, <2>2, GoKeeps
<1>5. CASE EndJob(w)
  <2>1. crew[w].at = "finish" /\ Close(w) /\ (Goes(w, "requeue") \/ Rests(w))
    BY <1>5 DEF EndJob, IsAt
  <2>2. /\ LineTyped'
        /\ \A k \in Kinds : line[k] = "running" =>
             line'[k] = "running" \/ (AtWork(crew[w]) /\ crew[w].kind = k)
    BY <1>1, <1>2, <2>1
  <2> QED
    BY <1>0, <2>1, <2>2, GoKeeps, RestKeeps
<1>6. CASE AskAgain(w)
  <2>1. Rests(w) /\ \E S : Line!Ask(S)
    BY <1>6 DEF AskAgain
  <2>2. LineTyped' /\ \A k \in Kinds : line'[k] = "running" <=> line[k] = "running"
    BY <1>0, <2>1, Asked
  <2> QED
    BY <1>0, <2>1, <2>2, RestKeeps
<1>7. CASE Dies(w)
  <2>1. Rests(w) /\ UNCHANGED line
    BY <1>7 DEF Dies
  <2> QED
    BY <1>0, <2>1, RestKeeps DEF LineTyped
<1>8. CASE RequestFails(w)
  <2>0. crew[w].at \in {"list", "get"}
    BY <1>8 DEF RequestFails
  <2>1. CASE Line!GoBack({crew[w].kind} \cap {kind \in Kinds : crew[w].leased}) /\ Rests(w)
    <3>1. PICK S : /\ S = {crew[w].kind} \cap {kind \in Kinds : crew[w].leased}
                   /\ Line!GoBack(S)
      BY <2>1
    <3>2. LineTyped' /\ \A k \in Kinds : line[k] = "running" => line'[k] = "running" \/ k \in S
      <4>1. Line!GoBack(S)
        BY <3>1
      <4> QED
        BY <1>0, <4>1, WentBack
    <3>3. \A k \in S : AtWork(crew[w]) /\ crew[w].kind = k
      BY <2>0, <3>1 DEF AtWork
    <3> QED
      BY <1>0, <2>1, <3>2, <3>3, RestKeeps
  <2>2. CASE Close(w) /\ Rests(w)
    <3>1. /\ LineTyped'
          /\ \A k \in Kinds : line[k] = "running" =>
               line'[k] = "running" \/ (AtWork(crew[w]) /\ crew[w].kind = k)
      BY <1>1, <1>2, <2>0, <2>2
    <3> QED
      BY <1>0, <2>2, <3>1, RestKeeps
  <2>3. CASE UNCHANGED line /\ Goes(w, "ask")
    BY <1>0, <2>0, <2>3, GoKeeps DEF LineTyped
  <2> QED
    BY <1>8, <2>1, <2>2, <2>3 DEF RequestFails
<1> QED
  BY <1>3, <1>4, <1>5, <1>6, <1>7, <1>8

(* Who is released loses its lease, and is not in the transaction that     *)
(* holds the row of its job.                                               *)
LEMMA ReleasedKeeps ==
  ASSUME HydrationInv, NEW kind \in Kinds, Released(kind)
  PROVE  HydrationInv'
<1>0. /\ LineTyped' /\ UNCHANGED <<placed, mirrored>>
      /\ \A k \in Kinds : line[k] = "running" => line'[k] = "running" \/ k = kind
  <2>1. PICK S : S = {kind} /\ Line!GoBack(S)
    BY DEF Released
  <2>2. LineTyped /\ UNCHANGED <<placed, mirrored>>
    BY DEF Released, mirrorRows, HydrationInv, LineTyped
  <2>3. LineTyped' /\ \A k \in Kinds : line[k] = "running" => line'[k] = "running" \/ k \in S
    <3>1. Line!GoBack(S)
      BY <2>1
    <3> QED
      BY <2>2, <3>1, WentBack
  <2> QED
    BY <2>1, <2>2, <2>3
<1>1. DOMAIN crew' = DOMAIN crew
  BY DEF Released
<1>2. ASSUME NEW v \in DOMAIN crew
      PROVE  \E t, u : /\ t = crew[v] /\ u = crew'[v]
                       /\ TaskHasItsFields(u) /\ PageIsReal(u) /\ DetailIsReal(u)
                       /\ u.at = "store order" => u.leased
                       /\ AtWork(u) =>
                            AtWork(t) /\ u.kind = t.kind /\ line'[u.kind] = "running"
  <2>0. PICK t, u : t = crew[v] /\ u = crew'[v]
    OBVIOUS
  <2>1. /\ TaskHasItsFields(t) /\ PageIsReal(t) /\ DetailIsReal(t)
        /\ t.at = "store order" => t.leased
        /\ AtWork(t) => line[t.kind] = "running"
    BY <2>0 DEF HydrationInv, CrewInv
  <2>2. ASSUME v \in Holders(kind)
        PROVE  /\ TaskHasItsFields(u) /\ PageIsReal(u) /\ DetailIsReal(u)
               /\ u.at = "store order" => u.leased
               /\ AtWork(u) => AtWork(t) /\ u.kind = t.kind /\ line'[u.kind] = "running"
    <3>1. u = [t EXCEPT !.leased = FALSE] /\ t.at # "store order" /\ t.at # "rest"
      BY <2>0, <2>2 DEF Released, Holders, IsAt
    <3>2. /\ DOMAIN u = DOMAIN t /\ u.leased = FALSE
          /\ \A f \in DOMAIN t \ {"leased"} : u[f] = t[f]
      BY <2>1, <3>1 DEF TaskHasItsFields
    <3>3. /\ u.at = t.at /\ u.kind = t.kind
          /\ t.at \in {"read page", "store page"} => u.version = t.version
          /\ t.at \in DetailPlaces => u.todo = t.todo /\ u.detail = t.detail
      BY <2>1, <3>1, <3>2 DEF TaskHasItsFields, DetailPlaces
    <3>4. TaskHasItsFields(u)
      BY <2>1, <3>2, <3>3 DEF TaskHasItsFields
    <3>5. PageIsReal(u)
      BY <2>1, <3>3 DEF PageIsReal
    <3>6. DetailIsReal(u)
      BY <2>1, <3>1, <3>2, <3>3 DEF DetailIsReal
    <3>7. ~AtWork(u) /\ u.at # "store order"
      BY <3>1, <3>2, <3>3 DEF AtWork
    <3> QED
      BY <3>4, <3>5, <3>6, <3>7
  <2>3. ASSUME v \notin Holders(kind)
        PROVE  /\ TaskHasItsFields(u) /\ PageIsReal(u) /\ DetailIsReal(u)
               /\ u.at = "store order" => u.leased
               /\ AtWork(u) => AtWork(t) /\ u.kind = t.kind /\ line'[u.kind] = "running"
    <3>1. u = t
      BY <2>0, <2>3 DEF Released
    <3>2. AtWork(t) => t.kind # kind /\ t.kind \in Kinds
      BY <2>0, <2>1, <2>3 DEF AtWork, Holders, IsAt, TaskHasItsFields
    <3> QED
      BY <1>0, <2>1, <3>1, <3>2
  <2>4. /\ TaskHasItsFields(u) /\ PageIsReal(u) /\ DetailIsReal(u)
        /\ u.at = "store order" => u.leased
        /\ AtWork(u) => AtWork(t) /\ u.kind = t.kind /\ line'[u.kind] = "running"
    BY <2>2, <2>3
  <2> QED
    BY <2>0, <2>4
<1>3. \A t : (PageIsReal(t) => PageIsReal(t)') /\ (DetailIsReal(t) => DetailIsReal(t)')
  BY <1>0 DEF PageIsReal, DetailIsReal, MirrorOrders
<1>4. ASSUME NEW v \in DOMAIN crew'
      PROVE  /\ TaskHasItsFields(crew'[v]) /\ PageIsReal(crew[v])' /\ DetailIsReal(crew[v])'
             /\ AtWork(crew'[v]) => line'[crew'[v].kind] = "running"
             /\ crew'[v].at = "store order" => crew'[v].leased
  <2>1. PICK t, u : /\ t = crew[v] /\ u = crew'[v]
                    /\ TaskHasItsFields(u) /\ PageIsReal(u) /\ DetailIsReal(u)
                    /\ u.at = "store order" => u.leased
                    /\ AtWork(u) =>
                         AtWork(t) /\ u.kind = t.kind /\ line'[u.kind] = "running"
    BY <1>1, <1>2
  <2>2. TaskHasItsFields(u) /\ PageIsReal(u)' /\ DetailIsReal(u)'
          /\ (AtWork(u) => line'[u.kind] = "running") /\ (u.at = "store order" => u.leased)
    BY <1>3, <2>1
  <2> QED
    BY <2>1, <2>2 DEF PageIsReal, DetailIsReal
<1>45. ASSUME NEW v \in DOMAIN crew, AtWork(crew'[v])
      PROVE  AtWork(crew[v]) /\ crew'[v].kind = crew[v].kind
  <2>1. PICK t, u : /\ t = crew[v] /\ u = crew'[v]
                    /\ AtWork(u) =>
                         AtWork(t) /\ u.kind = t.kind /\ line'[u.kind] = "running"
    BY <1>2
  <2> QED
    BY <1>45, <2>1
<1>5. ASSUME NEW a \in DOMAIN crew', NEW b \in DOMAIN crew',
             AtWork(crew'[a]), AtWork(crew'[b]), crew'[a].kind = crew'[b].kind
      PROVE  a = b
  <2>1. AtWork(crew[a]) /\ crew'[a].kind = crew[a].kind
    BY <1>1, <1>5, <1>45
  <2>2. AtWork(crew[b]) /\ crew'[b].kind = crew[b].kind
    BY <1>1, <1>5, <1>45
  <2> QED
    BY <1>1, <1>5, <2>1, <2>2 DEF HydrationInv, CrewInv
<1>6. CrewInv'
  BY <1>4, <1>5 DEF CrewInv, AtWork
<1>7. \A o \in MirrorOrders' : placed'[o].version \in Nat \ {0} /\ RowIsReal(o)'
  BY <1>0 DEF HydrationInv, RowIsReal, MirrorOrders
<1> QED
  BY <1>0, <1>6, <1>7 DEF HydrationInv, MirrorOrders, LineTyped

(* The schedule, and the origin: what was real stays so.                   *)
LEMMA ScheduleKeeps ==
  ASSUME HydrationInv, AskForOrders
  PROVE  HydrationInv'
<1>1. /\ LineTyped' /\ UNCHANGED <<placed, mirrored, crew>>
      /\ \A k \in Kinds : line'[k] = "running" <=> line[k] = "running"
  <2>1. Line!Ask({"sync"}) /\ UNCHANGED <<placed, mirrored, crew>>
    BY DEF AskForOrders, mirrorRows
  <2> QED
    BY <2>1, Asked DEF HydrationInv, LineTyped
<1>2. CrewInv'
  <2>1. \A w \in DOMAIN crew : AtWork(crew[w]) => crew[w].kind \in Kinds
    BY DEF HydrationInv, CrewInv, TaskHasItsFields, AtWork
  <2>2. \A w \in DOMAIN crew : AtWork(crew[w]) => line'[crew[w].kind] = "running"
    BY <1>1, <2>1 DEF HydrationInv, CrewInv
  <2>3. \A w \in DOMAIN crew : PageIsReal(crew[w])' /\ DetailIsReal(crew[w])'
    BY <1>1 DEF HydrationInv, CrewInv, PageIsReal, DetailIsReal, MirrorOrders
  <2> QED
    BY <1>1, <2>2, <2>3 DEF HydrationInv, CrewInv, AtWork, TaskHasItsFields
<1> QED
  BY <1>1, <1>2 DEF HydrationInv, RowIsReal, MirrorOrders, LineTyped

LEMMA EditKeeps ==
  ASSUME HydrationInv, NEW o \in MirrorOrders, Edit(o)
  PROVE  HydrationInv'
<1>1. /\ UNCHANGED <<mirrored, line, crew>> /\ DOMAIN placed' = DOMAIN placed
      /\ \A x \in MirrorOrders : x # o => placed'[x] = placed[x]
      /\ placed'[o].version = placed[o].version + 1
  BY DEF Edit, mirrorRows, MirrorOrders
<1>2. \A x \in MirrorOrders : /\ placed[x].version \in Nat \ {0}
                              /\ placed'[x].version \in Nat \ {0}
                              /\ placed[x].version <= placed'[x].version
  <2>1. \A x \in MirrorOrders : placed[x].version \in Nat \ {0}
    BY DEF HydrationInv
  <2> QED
    BY <1>1, <2>1
<1>3. MirrorOrders' = MirrorOrders
  BY <1>1 DEF MirrorOrders
<1>4. ASSUME NEW x \in MirrorOrders PROVE RowIsReal(x)'
  <2>1. RowIsReal(x)
    BY DEF HydrationInv
  <2>2. PICK n \in Nat, m \in Nat :
          n = placed[x].version /\ m = placed'[x].version /\ n <= m
    BY <1>2
  <2> QED
    BY <1>1, <2>1, <2>2 DEF RowIsReal
<1>5. ASSUME NEW w \in DOMAIN crew, NEW t, t = crew[w] PROVE PageIsReal(t)' /\ DetailIsReal(t)'
  <2>1. PageIsReal(t) /\ DetailIsReal(t)
    BY <1>5 DEF HydrationInv, CrewInv
  <2>2. \A x \in MirrorOrders, v \in Nat : v <= placed[x].version => v <= placed'[x].version
    BY <1>2
  <2>3. PageIsReal(t)'
    BY <1>3, <2>1, <2>2 DEF PageIsReal
  <2>4. DetailIsReal(t)'
    BY <1>1, <1>3, <2>1, <2>2 DEF DetailIsReal
  <2> QED
    BY <2>3, <2>4
<1>6. CrewInv'
  <2>1. \A w \in DOMAIN crew : PageIsReal(crew[w])' /\ DetailIsReal(crew[w])'
    BY <1>1, <1>5 DEF PageIsReal, DetailIsReal
  <2> QED
    BY <1>1, <2>1 DEF HydrationInv, CrewInv, AtWork, TaskHasItsFields
<1> QED
  BY <1>1, <1>2, <1>3, <1>4, <1>6 DEF HydrationInv

(* A listing brings a row without its items, as old as it was listed.      *)
LEMMA ListedRow ==
  ASSUME NEW o, NEW seen, NEW n, NEW r, r = Persisted(o, seen, "listing", n)
  PROVE  /\ r.items = mirrored[o].items /\ r.complete = mirrored[o].complete
         /\ r.version = n \/ r.version = mirrored[o].version
BY DEF Persisted

LEMMA StorePageKeeps ==
  ASSUME HydrationInv, NEW w \in DOMAIN crew, StorePage(w)
  PROVE  /\ HydrationInv'
         /\ \A o \in MirrorOrders : mirrored'[o].items = mirrored[o].items
<1>0. PICK t : t = crew[w] /\ TaskHasItsFields(t) /\ PageIsReal(t)
  BY DEF HydrationInv, CrewInv
<1>1. /\ t.at = "store page" /\ Goes(w, "ask") /\ UNCHANGED <<placed, line>>
      /\ PageIsReal(t)
  BY <1>0 DEF StorePage, IsAt
<1>2. PICK outcome :
        /\ DOMAIN outcome = DOMAIN t.version
        /\ mirrored' = [o \in MirrorOrders |->
             IF o \in DOMAIN outcome /\ outcome[o] = "persisted"
               THEN Persisted(o, t.seen[o], "listing", t.version[o]) ELSE mirrored[o]]
  BY <1>0 DEF StorePage, Store
<1>3. MirrorOrders' = MirrorOrders /\ DOMAIN mirrored' = DOMAIN mirrored
  BY <1>1, <1>2 DEF HydrationInv, MirrorOrders
<1>4. ASSUME NEW o \in MirrorOrders
      PROVE  /\ mirrored'[o].items = mirrored[o].items
             /\ mirrored'[o].complete = mirrored[o].complete
             /\ \/ mirrored'[o].version = mirrored[o].version
                \/ o \in DOMAIN t.version /\ mirrored'[o].version = t.version[o]
  <2>1. CASE o \in DOMAIN outcome /\ outcome[o] = "persisted"
    <3>1. PICK seen, n, r : /\ seen = t.seen[o] /\ n = t.version[o]
                            /\ r = Persisted(o, seen, "listing", n) /\ r = mirrored'[o]
      BY <1>2, <2>1
    <3>2. /\ r.items = mirrored[o].items /\ r.complete = mirrored[o].complete
          /\ r.version = n \/ r.version = mirrored[o].version
      BY <3>1, ListedRow
    <3> QED
      BY <1>2, <2>1, <3>1, <3>2
  <2>2. CASE ~(o \in DOMAIN outcome /\ outcome[o] = "persisted")
    BY <1>2, <2>2
  <2> QED
    BY <2>1, <2>2
<1>5. ASSUME NEW o \in MirrorOrders PROVE RowIsReal(o)'
  <2>1. RowIsReal(o)
    BY DEF HydrationInv
  <2>2. o \in DOMAIN t.version => t.version[o] \in Nat /\ t.version[o] <= placed[o].version
    BY <1>1 DEF PageIsReal
  <2>3. PICK row, new : row = mirrored[o] /\ new = mirrored'[o]
    OBVIOUS
  <2>4. /\ row.version \in Nat /\ row.items \in Nat
        /\ row.items <= placed[o].version /\ row.version <= placed[o].version
        /\ row.complete \in BOOLEAN
        /\ row.complete <=> row.items > 0 /\ Sent(o, row.items).items = "live"
    BY <2>1, <2>3 DEF RowIsReal
  <2>5. new.items = row.items /\ new.complete = row.complete /\ new.version \in Nat
          /\ new.version <= placed[o].version
    BY <1>4, <2>2, <2>3, <2>4
  <2>6. /\ new.version \in Nat /\ new.items \in Nat
        /\ new.items <= placed'[o].version /\ new.version <= placed'[o].version
        /\ new.complete \in BOOLEAN
        /\ new.complete <=> new.items > 0 /\ Sent(o, new.items).items = "live"
    BY <1>1, <2>4, <2>5
  <2> QED
    BY <2>3, <2>6 DEF RowIsReal
<1>6. \A v \in DOMAIN crew \ {w} : \A s : s = crew[v] => DetailIsReal(s)'
  <2>1. ASSUME NEW v \in DOMAIN crew, NEW s, s = crew[v] PROVE DetailIsReal(s)'
    <3>1. DetailIsReal(s)
      BY <2>1 DEF HydrationInv, CrewInv
    <3>2. ASSUME NEW o \in MirrorOrders, s.at \in DetailPlaces, o = Head(s.todo)
          PROVE  /\ s.detail \in Nat \ {0} /\ s.detail <= placed'[o].version
                 /\ s.leased => mirrored'[o].items <= s.detail
                 /\ s.at = "store order" => s.seen.complete = mirrored'[o].complete
      BY <1>1, <1>4, <3>1, <3>2 DEF DetailIsReal
    <3> QED
      BY <1>3, <3>2 DEF DetailIsReal
  <2> QED
    BY <2>1
<1>7. PICK u, kind, leased : u = crew'[w] /\ kind = t.kind /\ leased = t.leased
  OBVIOUS
<1>8. kind \in Kinds /\ leased \in BOOLEAN
  BY <1>0, <1>1, <1>7 DEF TaskHasItsFields
<1>9. /\ DOMAIN crew' = DOMAIN crew
      /\ \A v \in DOMAIN crew \ {w} : crew'[v] = crew[v]
      /\ {"at", "kind", "leased", "more"} \subseteq DOMAIN u
      /\ u.at = "ask" /\ u.kind = kind /\ u.leased = leased
  BY <1>0, <1>1, <1>7, GoesWhere
<1>10. TaskHasItsFields(u) /\ PageIsReal(u) /\ DetailIsReal(u)' /\ u.at # "store order"
  <2>1. TaskHasItsFields(u) /\ PageIsReal(u) /\ u.at # "store order"
    BY <1>8, <1>9, SimpleTask
  <2>2. DetailIsReal(u)'
    BY <1>9 DEF DetailIsReal, DetailPlaces
  <2> QED
    BY <2>1, <2>2
<1>11. AtWork(u) => AtWork(crew[w]) /\ line'[u.kind] = "running" /\ crew[w].kind = u.kind
  BY <1>0, <1>1, <1>7, <1>9 DEF AtWork, HydrationInv, CrewInv
<1>12. LineTyped'
  BY <1>1 DEF HydrationInv, LineTyped
<1>13. HydrationInv'
  BY <1>1, <1>3, <1>5, <1>6, <1>7, <1>9, <1>10, <1>11, <1>12, RowsStep DEF LineTyped
<1> QED
  BY <1>4, <1>13

(* The detail that is stored carries the items of the order as they were   *)
(* when it was asked for; only the worker whose job it is stores it.       *)
LEMMA DetailedRow ==
  ASSUME NEW o, NEW seen, NEW n, NEW r, r = Persisted(o, seen, "detail", n),
         seen.complete = mirrored[o].complete, mirrored[o].complete \in BOOLEAN
  PROVE  /\ r.items = n /\ r.complete \in BOOLEAN
         /\ r.complete <=> Sent(o, n).items = "live"
         /\ r.version = n \/ r.version = mirrored[o].version
<1>1. r.items = n /\ (r.version = n \/ r.version = mirrored[o].version)
  BY DEF Persisted
<1>2. PICK now : now = mirrored[o].complete /\ now \in BOOLEAN /\ seen.complete = now
  OBVIOUS
<1>3. PICK new : new = Complete(o, n) /\ new \in BOOLEAN
  BY DEF Complete
<1>4. r.complete = IF new = now THEN now ELSE new
  BY <1>2, <1>3 DEF Persisted
<1> QED
  BY <1>1, <1>2, <1>3, <1>4 DEF Complete

LEMMA StoreOrderKeeps ==
  ASSUME HydrationInv, NEW w \in DOMAIN crew, StoreOrder(w)
  PROVE  /\ HydrationInv'
         /\ \A o \in MirrorOrders : mirrored'[o].items >= mirrored[o].items
<1>0. PICK t, o : /\ t = crew[w] /\ TaskHasItsFields(t) /\ DetailIsReal(t) /\ o = Head(t.todo)
                  /\ t.at = "store order" => t.leased
  BY DEF HydrationInv, CrewInv
<1>1. /\ t.at = "store order" /\ UNCHANGED <<placed, line>> /\ t.leased /\ t.kind = "hydrate"
      /\ t.kind \in Kinds
  BY <1>0 DEF StoreOrder, IsAt, TaskHasItsFields, ItemPlaces, DetailPlaces
<1>2. PICK outcome :
        mirrored' = [x \in MirrorOrders |->
          IF x \in {o} /\ outcome = "persisted"
            THEN Persisted(x, t.seen, "detail", t.detail) ELSE mirrored[x]]
  <2>1. PICK out, outs, seens, details :
          /\ outs = [x \in {o} |-> out] /\ seens = [x \in {o} |-> t.seen]
          /\ details = [x \in {o} |-> t.detail]
          /\ Store(outs, seens, "detail", details)
    BY <1>0 DEF StoreOrder
  <2>2. \A x \in {o} : outs[x] = out /\ seens[x] = t.seen /\ details[x] = t.detail
    BY <2>1
  <2>3. DOMAIN outs = {o}
    BY <2>1
  <2>4. mirrored' = [x \in MirrorOrders |->
          IF x \in DOMAIN outs /\ outs[x] = "persisted"
            THEN Persisted(x, seens[x], "detail", details[x]) ELSE mirrored[x]]
    BY <2>1 DEF Store
  <2> QED
    BY <2>2, <2>3, <2>4
<1>3. MirrorOrders' = MirrorOrders /\ DOMAIN mirrored' = DOMAIN mirrored
  BY <1>1, <1>2 DEF HydrationInv, MirrorOrders
<1>4. ASSUME NEW x \in MirrorOrders, x # o \/ outcome # "persisted"
      PROVE  mirrored'[x] = mirrored[x]
  BY <1>2, <1>4
<1>5. ASSUME o \in MirrorOrders, outcome = "persisted"
      PROVE  /\ RowIsReal(o)' /\ mirrored'[o].items >= mirrored[o].items
  <2>1. PICK row, new, seen, n :
          /\ row = mirrored[o] /\ new = mirrored'[o] /\ seen = t.seen /\ n = t.detail
          /\ new = Persisted(o, seen, "detail", n)
    BY <1>2, <1>5
  <2>2. /\ n \in Nat \ {0} /\ n <= placed[o].version /\ row.items <= n
        /\ seen.complete = row.complete
    BY <1>0, <1>1, <1>5, <2>1 DEF DetailIsReal, DetailPlaces
  <2>3. /\ row.version \in Nat /\ row.items \in Nat /\ row.version <= placed[o].version
        /\ row.complete \in BOOLEAN
    BY <1>5, <2>1 DEF HydrationInv, RowIsReal
  <2>4. /\ new.items = n /\ new.complete \in BOOLEAN
        /\ new.complete <=> Sent(o, n).items = "live"
        /\ new.version = n \/ new.version = row.version
    BY <2>1, <2>2, <2>3, DetailedRow
  <2>5. /\ new.version \in Nat /\ new.items \in Nat
        /\ new.items <= placed'[o].version /\ new.version <= placed'[o].version
        /\ new.complete \in BOOLEAN
        /\ new.complete <=> new.items > 0 /\ Sent(o, new.items).items = "live"
    <3>1. new.items = n /\ n > 0
      BY <2>2, <2>4
    <3>2. new.complete <=> new.items > 0 /\ Sent(o, new.items).items = "live"
      BY <2>4, <3>1
    <3>3. new.version \in Nat /\ new.version <= placed[o].version
      BY <2>2, <2>3, <2>4
    <3> QED
      BY <1>1, <2>2, <2>4, <3>1, <3>2, <3>3
  <2>6. RowIsReal(o)'
    BY <2>1, <2>5 DEF RowIsReal
  <2> QED
    BY <2>1, <2>2, <2>3, <2>4, <2>6
<1>6. ASSUME NEW x \in MirrorOrders
      PROVE  RowIsReal(x)' /\ mirrored'[x].items >= mirrored[x].items
  <2>1. CASE x # o \/ outcome # "persisted"
    <3>1. mirrored'[x] = mirrored[x] /\ RowIsReal(x)
      BY <1>4, <1>6, <2>1 DEF HydrationInv
    <3>2. RowIsReal(x)'
      BY <1>1, <3>1 DEF RowIsReal
    <3>3. mirrored'[x].items = mirrored[x].items /\ mirrored[x].items \in Nat
      BY <3>1 DEF RowIsReal
    <3> QED
      BY <3>2, <3>3
  <2>2. CASE ~(x # o \/ outcome # "persisted")
    BY <1>5, <2>2
  <2> QED
    BY <2>1, <2>2
<1>7. \A v \in DOMAIN crew \ {w} : \A s : s = crew[v] => DetailIsReal(s)'
  <2>1. ASSUME NEW v \in DOMAIN crew \ {w}, NEW s, s = crew[v] PROVE DetailIsReal(s)'
    <3>1. DetailIsReal(s) /\ TaskHasItsFields(s) /\ (s.at = "store order" => s.leased)
      BY <2>1 DEF HydrationInv, CrewInv
    <3>2. s.at \in DetailPlaces => ~s.leased
      <4>1. AtWork(t)
        BY <1>1 DEF AtWork
      <4>2. s.at \in DetailPlaces /\ s.leased => AtWork(s) /\ s.kind = t.kind
        BY <1>1, <3>1 DEF AtWork, DetailPlaces, TaskHasItsFields, ItemPlaces
      <4> QED
        BY <1>0, <2>1, <4>1, <4>2 DEF HydrationInv, CrewInv
    <3>3. ASSUME NEW x \in MirrorOrders, s.at \in DetailPlaces, x = Head(s.todo)
          PROVE  /\ s.detail \in Nat \ {0} /\ s.detail <= placed'[x].version
                 /\ ~s.leased /\ s.at # "store order"
      BY <1>1, <3>1, <3>2, <3>3 DEF DetailIsReal
    <3> QED
      BY <1>3, <3>3 DEF DetailIsReal
  <2> QED
    BY <2>1
<1>8. PICK place, kind, leased, todo, kept, u :
        /\ place \in {"pending", "get"} /\ kind = t.kind /\ leased = t.leased
        /\ u = [at |-> place, kind |-> kind, leased |-> leased, more |-> FALSE,
                todo |-> todo, stored |-> kept]
        /\ crew' = [crew EXCEPT ![w] = u]
  BY <1>0 DEF StoreOrder
<1>9. /\ DOMAIN crew' = DOMAIN crew /\ u = crew'[w]
      /\ \A v \in DOMAIN crew \ {w} : crew'[v] = crew[v]
  BY <1>8
<1>10. /\ DOMAIN u = {"at", "kind", "leased", "more", "todo", "stored"}
       /\ u.at = place /\ u.kind = kind /\ u.leased = leased
  BY <1>8
<1>11. leased \in BOOLEAN /\ kind = "hydrate" /\ kind \in Kinds
  BY <1>0, <1>1, <1>8 DEF TaskHasItsFields
<1>12. TaskHasItsFields(u)
  BY <1>8, <1>10, <1>11 DEF TaskHasItsFields, SyncPlaces, DetailPlaces, ItemPlaces, Places
<1>13. PageIsReal(u) /\ DetailIsReal(u)' /\ u.at # "store order"
  BY <1>8, <1>10 DEF PageIsReal, DetailIsReal, DetailPlaces
<1>14. AtWork(u) => AtWork(crew[w]) /\ line'[u.kind] = "running" /\ crew[w].kind = u.kind
  BY <1>0, <1>1, <1>8, <1>10 DEF AtWork, HydrationInv, CrewInv
<1>15. LineTyped'
  BY <1>1 DEF HydrationInv, LineTyped
<1>16. HydrationInv'
  BY <1>1, <1>3, <1>6, <1>7, <1>9, <1>12, <1>13, <1>14, <1>15, RowsStep DEF LineTyped
<1> QED
  BY <1>6, <1>16

LEMMA HydrationInitHolds == HydrationInit => HydrationInv
<1> SUFFICES ASSUME HydrationInit PROVE HydrationInv
  OBVIOUS
<1>1. PICK orders, workers :
        /\ DOMAIN placed = orders /\ \A o \in orders : placed[o].version = 1
        /\ mirrored = [o \in orders |-> NoOrder]
        /\ crew = [w \in workers |-> Resting]
  BY DEF HydrationInit
<1>0. line \in [Kinds -> {"none", "waiting", "running"}]
  BY DEF HydrationInit, Line!BoardInit
<1>2. MirrorOrders = orders /\ DOMAIN mirrored = orders /\ DOMAIN crew = workers
  BY <1>1 DEF MirrorOrders
<1>3. ASSUME NEW o \in orders PROVE placed[o].version \in Nat \ {0} /\ RowIsReal(o)
  <2>1. placed[o].version = 1 /\ mirrored[o] = NoOrder
    BY <1>1
  <2>2. NoOrder.version = 0 /\ NoOrder.items = 0 /\ NoOrder.complete = FALSE
    BY DEF NoOrder
  <2>3. PICK row : row = mirrored[o] /\ row.version = 0 /\ row.items = 0 /\ row.complete = FALSE
    BY <2>1, <2>2
  <2>4. /\ row.version \in Nat /\ row.items \in Nat
        /\ row.items <= placed[o].version /\ row.version <= placed[o].version
        /\ row.complete \in BOOLEAN
    <3>1. row.complete \in BOOLEAN
      BY <2>3
    <3>2. PICK n \in Nat : n = placed[o].version /\ n = 1
      BY <2>1
    <3> QED
      BY <2>3, <3>1, <3>2
  <2>5. row.complete <=> row.items > 0 /\ Sent(o, row.items).items = "live"
    BY <2>3
  <2> QED
    BY <2>1, <2>3, <2>4, <2>5 DEF RowIsReal
<1>4. \A w \in workers : crew[w] = Resting
  BY <1>1
<1>5. CrewInv
  BY <1>2, <1>4, RestingTask DEF CrewInv
<1> QED
  BY <1>0, <1>2, <1>3, <1>5 DEF HydrationInv

LEMMA HydrationInvInductive ==
  ASSUME HydrationInv, HydrationNext
  PROVE  HydrationInv' /\ \A o \in MirrorOrders : mirrored'[o].items >= mirrored[o].items
<1>0. \A o \in MirrorOrders : mirrored[o].items \in Nat
  BY DEF HydrationInv, RowIsReal
<1>1. ASSUME NEW w \in DOMAIN crew, Works(w) \/ RequestFails(w) \/ Dies(w)
      PROVE  HydrationInv' /\ \A o \in MirrorOrders : mirrored'[o].items >= mirrored[o].items
  <2>1. CASE StorePage(w)
    BY <1>0, <2>1, StorePageKeeps
  <2>2. CASE StoreOrder(w)
    BY <2>2, StoreOrderKeeps
  <2>3. ASSUME ~StorePage(w), ~StoreOrder(w)
        PROVE  HydrationInv' /\ UNCHANGED mirrored
    <3>1. UNCHANGED mirrored
      BY <1>1, <2>3 DEF Works, List, ReadPage, LosePage, AskForItems, Choose, GetDetail,
         ReadOrder, CountPending, EndJob, AskAgain, RequestFails, Dies, mirrorRows
    <3> QED
      BY <1>1, <2>3, <3>1, ListKeeps, ReadPageKeeps, ChooseKeeps, GetDetailKeeps,
         ReadOrderKeeps, CountPendingKeeps, EndsKeep DEF Works
  <2> QED
    BY <1>0, <2>1, <2>2, <2>3
<1>2. ASSUME NEW w \in DOMAIN crew, NEW kind \in Kinds, Begin(w, kind)
      PROVE  HydrationInv' /\ UNCHANGED mirrored
  BY <1>2, BeginKeeps DEF Begin, mirrorRows
<1>3. ASSUME NEW kind \in Kinds, ReleaseDead(kind) \/ ReleaseLive(kind)
      PROVE  HydrationInv' /\ UNCHANGED mirrored
  <2>1. Released(kind)
    BY <1>3 DEF ReleaseDead, ReleaseLive
  <2> QED
    BY <2>1, ReleasedKeeps DEF Released, mirrorRows
<1>4. CASE AskForOrders
  BY <1>0, <1>4, ScheduleKeeps DEF AskForOrders, mirrorRows
<1>5. ASSUME NEW o \in MirrorOrders, Edit(o)
      PROVE  HydrationInv' /\ UNCHANGED mirrored
  BY <1>5, EditKeeps DEF Edit, mirrorRows
<1> QED
  BY <1>0, <1>1, <1>2, <1>3, <1>4, <1>5 DEF HydrationNext

(* Whoever writes the row of an order, and in whatever order listings and  *)
(* details are asked for and stored, its items are a version the origin    *)
(* had, never an older one than before, and it counts as complete exactly  *)
(* when they are live (engine.py:487-500, rows.py:117-178).                *)
THEOREM MirrorsItemsAreHonest ==
  SynchronisationSafe => HydrationIsHonest
<1>1. HydrationInv /\ UNCHANGED hydrationVars => HydrationInv'
  <2> SUFFICES ASSUME HydrationInv, UNCHANGED <<placed, mirrored, line, crew>>
               PROVE  HydrationInv'
    BY DEF hydrationVars, mirrorRows
  <2>1. \A t : (PageIsReal(t) => PageIsReal(t)') /\ (DetailIsReal(t) => DetailIsReal(t)')
    BY DEF PageIsReal, DetailIsReal, MirrorOrders
  <2>2. \A w \in DOMAIN crew : PageIsReal(crew[w])' /\ DetailIsReal(crew[w])'
    <3>1. ASSUME NEW w \in DOMAIN crew, NEW t, t = crew[w] PROVE PageIsReal(t)' /\ DetailIsReal(t)'
      BY <2>1, <3>1 DEF HydrationInv, CrewInv
    <3> QED
      BY <3>1 DEF PageIsReal, DetailIsReal
  <2>3. CrewInv'
    BY <2>2 DEF HydrationInv, CrewInv, AtWork, TaskHasItsFields
  <2>4. \A o \in MirrorOrders' : placed'[o].version \in Nat \ {0} /\ RowIsReal(o)'
    BY DEF HydrationInv, RowIsReal, MirrorOrders
  <2> QED
    BY <2>3, <2>4 DEF HydrationInv, MirrorOrders
<1>2. HydrationInv /\ [SynchronisationNext]_synchronisation =>
        HydrationInv' /\ [CompleteIsReal' /\ ItemsGoForward]_hydrationVars
  <2> SUFFICES ASSUME HydrationInv, [SynchronisationNext]_synchronisation
               PROVE  HydrationInv' /\ [CompleteIsReal' /\ ItemsGoForward]_hydrationVars
    OBVIOUS
  <2>1. CASE UNCHANGED hydrationVars
    BY <1>1, <2>1
  <2>2. CASE HydrationNext
    <3>1. HydrationInv' /\ ItemsGoForward
      BY <2>2, HydrationInvInductive DEF ItemsGoForward
    <3>2. HydrationInv => CompleteIsReal
      BY DEF HydrationInv, RowIsReal, CompleteIsReal
    <3>3. CompleteIsReal'
      BY <3>1 DEF HydrationInv, RowIsReal, CompleteIsReal, MirrorOrders
    <3> QED
      BY <3>1, <3>3
  <2>3. HydrationNext \/ UNCHANGED hydrationVars
    BY DEF SynchronisationNext, ChangesMove, ItemsMove, synchronisation
  <2> QED
    BY <2>1, <2>2, <2>3
<1>3. SynchronisationInit => HydrationInv
  BY HydrationInitHolds DEF SynchronisationInit
<1> QED
  BY <1>2, <1>3, PTL DEF SynchronisationSafe, HydrationIsHonest

=============================================================================
