----------------------------- MODULE SyncEngine -----------------------------
(***************************************************************************)
(* The inbound synchronisation (app/erp/sync/engine.py) as the worker runs *)
(* it (app/erp/workers.py): a job of the queue reads the pages of its      *)
(* resources from the origin, and each page is stored in the mirror in one *)
(* transaction with the checkpoint of the resource and the progress of the *)
(* run, under the lease of the job.                                        *)
(*                                                                         *)
(* The changes of the origin are numbered in the order of their instants;  *)
(* a cursor is an instant, 0 when there is none.                           *)
(***************************************************************************)
EXTENDS JobQueue, Sequences

CONSTANTS
  Order,        (* the resources, in the order of their dependencies *)
  Last,         (* model bound: changes at the origin, of each resource *)
  At,           (* the instant of each change *)
  PageSize,     (* changes in a page of the origin *)
  Overlap,      (* erp_sync_overlap_seconds *)
  MaxPages,     (* erp_sync_max_pages *)
  Slicing,      (* whether a run yields after a slice of time *)
  Fragile,      (* changes whose row may fail to be mapped *)
  Outages,      (* how a request to the origin may fail *)
  MaxOutages,   (* model bound: failed requests *)
  MaxRuns       (* model bound: runs *)

Resources == {Order[i] : i \in 1..Len(Order)}
Changes == 1..Last
Modes == {"incremental", "full"}

(* A key of the queue: the resource, or all of them, and the mode.         *)
KeyOf(r, mode) == <<r, mode>>
SyncKeys == (Resources \cup {"all"}) \X Modes

ASSUME KeysAreSync == Keys \subseteq SyncKeys
ASSUME InstantsGrow ==
  /\ At \in [Changes -> Nat \ {0}]
  /\ \A p, q \in Changes : p < q => At[p] <= At[q]

VARIABLES
  head,         (* the changes the origin shows: 1..head *)
  runs,         (* erp_sync_runs, in the order of their ids *)
  checkpoint,   (* erp_sync_checkpoints: cursor and status of a resource *)
  mirror,       (* the changes each resource's mirror has *)
  quarantined,  (* the changes in quarantine, not resolved *)
  task,         (* what each worker holds in memory *)
  covered,      (* history: the changes each run has read, with those of the
                   runs it resumes *)
  outages       (* bounded number of failed requests *)

dataVars == <<head, runs, checkpoint, mirror, quarantined, covered, outages>>
syncVars == <<queueVars, dataVars, task>>

-----------------------------------------------------------------------------
(* Values *)

Failing == {"failed", "interrupted", "forbidden", "auth_failed"}
EndStatuses == Failing \cup {"success", "partial", "continuing", "cancelled",
                             "waiting_rate_limit"}
RunStatuses == EndStatuses \cup {"running"}
RESUMABLE_FULL_STATUSES == {"interrupted", "failed", "partial",
                            "waiting_rate_limit", "running", "continuing"}

Cursors == 0..(IF Last = 0 THEN 0 ELSE At[Last])
Runs == [job : Jobs, resource : Resources, mode : Modes,
         status : RunStatuses, before : Cursors, after : Cursors]
Checkpoints == [cursor : Cursors, status : RunStatuses \cup {"none"}]

Pcs == {"idle", "begin", "check", "fetch", "persist", "end", "close", "requeue"}
Tasks == [pc : Pcs, todo : Seq(Resources), run : 0..MaxRuns,
          cursor : Cursors, page : SUBSET Changes, more : BOOLEAN,
          pages : 0..MaxPages, status : EndStatuses \cup {"none", "busy"},
          results : SUBSET (EndStatuses \cup {"busy"}), upto : 0..Last,
          continue : SUBSET Keys, from : Jobs \cup {0}]
NoTask == [pc |-> "idle", todo |-> <<>>, run |-> 0, cursor |-> 0, page |-> {},
           more |-> FALSE, pages |-> 0,
           status |-> "none", results |-> {}, upto |-> 0, continue |-> {},
           from |-> 0]

SyncInit ==
  /\ QueueInit
  /\ head \in 0..Last
  /\ runs = <<>>
  /\ checkpoint = [r \in Resources |-> [cursor |-> 0, status |-> "none"]]
  /\ mirror = [r \in Resources |-> {}]
  /\ quarantined = [r \in Resources |-> {}]
  /\ covered = <<>>
  /\ task = [w \in Workers |-> NoTask]
  /\ outages = 0

ASSUME SyncConstants ==
  /\ Order \in Seq(Resources) /\ "all" \notin Resources
  /\ Last \in Nat /\ Overlap \in Nat /\ Slicing \in BOOLEAN
  /\ PageSize \in Nat \ {0} /\ MaxPages \in Nat \ {0}
  /\ MaxRuns \in Nat /\ MaxOutages \in Nat
  /\ Outages \subseteq Failing \cup {"waiting_rate_limit"}

-----------------------------------------------------------------------------
(* The job: run_sync_job *)

(* The resources of a job ...                                              *)
PlanOf(k) == IF k[1] = "all" THEN Order ELSE <<k[1]>>

(* ... without those it completed in an earlier claim ...                  *)
DoneBy(j) == {r \in Resources : \E i \in DOMAIN runs :
                /\ runs[i].job = j /\ runs[i].resource = r
                /\ runs[i].status = "success"}

(* ... and, when it is for all of them, without those denied of late.      *)
Denied(k) == IF k[1] = "all"
               THEN {r \in Resources : checkpoint[r].status = "forbidden"}
               ELSE {}

(* The elements of s that are not in S, in their order (what SelectSeq     *)
(* returns, by the ranks of their indices).                                *)
Skipping(s, S) ==
  LET I == {i \in 1..Len(s) : s[i] \notin S}
  IN [n \in 1..Cardinality(I) |->
        s[CHOOSE i \in I : Cardinality({l \in I : l <= i}) = n]]

(* The window of a denial may be over: some of Denied are tried again.     *)
Take(w, j) ==
  /\ task[w].pc = "idle"
  /\ Claim(w, j)
  /\ \E skip \in SUBSET Denied(job[j].key) :
       LET todo == Skipping(PlanOf(job[j].key), skip \cup DoneBy(j))
       IN task' = [task EXCEPT ![w] =
            [NoTask EXCEPT !.pc = IF todo = <<>> THEN "close" ELSE "begin",
                           !.todo = todo, !.from = j]]
  /\ UNCHANGED dataVars

(* What a step of the worker under its lease starts with, and its guard.   *)
AtPc(w, pc) == task[w].pc = pc
Held(w, pc) == AtPc(w, pc) /\ LeaseAlive(w)

(* A worker that lost its lease stops: the transaction is rolled back.     *)
LoseLease(w) ==
  /\ task[w].pc \in {"begin", "check", "persist", "end"}
  /\ ~LeaseAlive(w)
  /\ lease' = [lease EXCEPT ![w] = NoLease]
  /\ task' = [task EXCEPT ![w] = NoTask]
  /\ UNCHANGED <<job, ahead, cancelling, crashes, dataVars>>

-----------------------------------------------------------------------------
(* _begin_run *)

MaxOf(S) == CHOOSE x \in S : \A y \in S : y <= x

RunsOf(r) == {i \in DOMAIN runs : runs[i].resource = r}

(* The runs that count for a full load: those since the last complete one, *)
(* of any mode as long as no run of the resource was completed.            *)
FullPool(r) ==
  LET full == {i \in RunsOf(r) : runs[i].mode = "full"}
      done == MaxOf({0} \cup {i \in full : runs[i].status = "success"})
  IN {i \in (IF \E i \in RunsOf(r) : runs[i].status = "success"
               THEN full ELSE RunsOf(r)) : i > done}

(* Where a full load starts: at the highest cursor that its unfinished     *)
(* predecessors confirmed; at the beginning when the last one was          *)
(* completed or cancelled.                                                 *)
FullResume(r) ==
  LET pool == FullPool(r)
      open == {i \in pool : runs[i].status \in RESUMABLE_FULL_STATUSES}
  IN IF pool = {} \/ MaxOf(pool) \notin open
       THEN 0
       ELSE MaxOf({runs[i].after : i \in open} \cup {runs[i].before : i \in open})

RunningElsewhere(w, r) ==
  \E i \in RunsOf(r) :
    LET j == runs[i].job IN
      /\ runs[i].status = "running"
      /\ j # lease[w].job
      /\ job[j].status = "processing" /\ ~job[j].expired

ModeOf(w) == job[lease[w].job].key[2]

(* Mutant: an empty cursor is moved back as well.                          *)
BackByAlways(c) == c - Overlap

BackBy(c) == IF c > Overlap THEN c - Overlap ELSE 0

(* The run is refused while another job runs on the resource ...           *)
BeginBusy(w) ==
  /\ Held(w, "begin")
  /\ RunningElsewhere(w, Head(task[w].todo))
  /\ task' = [task EXCEPT ![w].pc = "close", ![w].status = "busy",
                          ![w].results = @ \cup {"busy"}]
  /\ UNCHANGED <<queueVars, dataVars>>

(* ... else orphans are interrupted and a run starts from the checkpoint   *)
(* or from where the full load stands.                                     *)
BeginRun(w) ==
  LET r == Head(task[w].todo)
      start == IF ModeOf(w) = "full" THEN FullResume(r)
                                     ELSE checkpoint[r].cursor
      closed == [i \in DOMAIN runs |->
                   IF i \in RunsOf(r) /\ runs[i].status = "running"
                     THEN [runs[i] EXCEPT !.status = "interrupted"]
                     ELSE runs[i]]
  IN
    /\ Held(w, "begin")
    /\ ~RunningElsewhere(w, r)
    /\ Len(runs) < MaxRuns
    /\ runs' = Append(closed, [job |-> lease[w].job, resource |-> r,
                               mode |-> ModeOf(w), status |-> "running",
                               before |-> start, after |-> 0])
    /\ covered' = Append(covered, IF start = 0 THEN {}
                                  ELSE UNION {covered[i] : i \in FullPool(r)})
    /\ checkpoint' = [checkpoint EXCEPT ![r].status = "running"]
    /\ task' = [task EXCEPT ![w].pc = "check", ![w].run = Len(runs) + 1,
                            ![w].cursor = BackBy(start), ![w].pages = 0]
    /\ UNCHANGED <<queueVars, head, mirror, quarantined, outages>>

-----------------------------------------------------------------------------
(* sync_resource: the loop over the pages *)

Ending(w, status) ==
  task' = [task EXCEPT ![w].pc = "end", ![w].status = status]

Check(w) ==
  /\ Held(w, "check")
  /\ IF job[lease[w].job].cancel
       THEN Ending(w, "cancelled")
       ELSE task' = [task EXCEPT ![w].pc = "fetch"]
  /\ UNCHANGED <<queueVars, dataVars>>

(* The origin's changes from the cursor on, a page of them, its instant.   *)
From(c) == {p \in 1..head : At[p] >= c}
PageFrom(c) ==
  {p \in From(c) : Cardinality({q \in From(c) : q < p}) < PageSize}
PageCursor(page) == At[MaxOf(page)]

(* The request, outside any transaction.  No rows: the load is complete.   *)
Fetch(w) ==
  LET page == PageFrom(task[w].cursor) IN
    /\ AtPc(w, "fetch")
    /\ IF page = {}
         THEN task' = [task EXCEPT ![w].pc = "end", ![w].status = "success",
                                   ![w].upto = head]
         ELSE task' = [task EXCEPT ![w].pc = "persist", ![w].page = page,
                                   ![w].more = (page # From(task[w].cursor)),
                                   ![w].upto = head]
    /\ UNCHANGED <<queueVars, dataVars>>

FetchFails(w, status) ==
  /\ AtPc(w, "fetch")
  /\ outages < MaxOutages
  /\ outages' = outages + 1
  /\ Ending(w, status)
  /\ UNCHANGED <<queueVars, head, runs, checkpoint, mirror, quarantined,
                 covered>>

(* What follows a page: the last one ends the run, a slice yields, a       *)
(* repeated cursor fails, the limit of pages stops, else the next page.    *)
NextStatus(w, slice) ==
  LET next == PageCursor(task[w].page) IN
    CASE ~task[w].more                     -> "success"
      [] task[w].more /\ slice             -> "continuing"
      [] task[w].more /\ ~slice /\ next = task[w].cursor -> "failed"
      [] OTHER -> IF task[w].pages + 1 = MaxPages THEN "partial" ELSE "none"

(* _persist_page: the rows of the page, those that fail to map in          *)
(* quarantine, the checkpoint and the progress of the run, all or nothing, *)
(* if the lease is still held.  Every page updates the field inventory of  *)
(* its resource before it reads the checkpoint: its row locks put the      *)
(* transactions of two pages of one resource in sequence.                  *)
(* Mutant: only the page's own quarantine holds the checkpoint back.       *)
PendingOfPage(r, page, bad) == bad

Pending(r, page, bad) == (quarantined[r] \ page) \cup bad

(* Mutant: the checkpoint follows whatever page is read.                   *)
NextCheckpointAnyPage(r, next, advance) ==
  IF advance THEN next ELSE checkpoint[r].cursor

NextCheckpoint(r, next, advance) ==
  IF advance /\ next >= checkpoint[r].cursor THEN next ELSE checkpoint[r].cursor

PersistPage(w, bad, slice) ==
  LET t == task[w]
      r == Head(t.todo)
      next == PageCursor(t.page)
      status == NextStatus(w, slice)
      advance == Pending(r, t.page, bad) = {}
  IN
    /\ Held(w, "persist")
    /\ slice => Slicing
    /\ bad \subseteq (t.page \cap Fragile) \ mirror[r]
    /\ mirror' = [mirror EXCEPT ![r] = @ \cup (t.page \ bad)]
    /\ quarantined' = [quarantined EXCEPT ![r] = Pending(r, t.page, bad)]
    /\ checkpoint' = [checkpoint EXCEPT
         ![r].cursor = NextCheckpoint(r, next, advance)]
    /\ runs' = [runs EXCEPT ![t.run].after = IF advance THEN next ELSE @]
    /\ covered' = [covered EXCEPT ![t.run] = @ \cup t.page]
    /\ task' = [task EXCEPT
         ![w] = [t EXCEPT !.pc = IF status = "none" THEN "check" ELSE "end",
                          !.status = status, !.cursor = next,
                          !.pages = t.pages + 1, !.page = {}]]
    /\ UNCHANGED <<queueVars, head, outages>>

-----------------------------------------------------------------------------
(* _finish_run, and what the job does next *)

StopsTheJob == {"auth_failed", "waiting_rate_limit", "cancelled",
                "interrupted", "continuing"}

(* Mutant: only the resources after the one that yields return.            *)
ContinueAfter(w) ==
  {KeyOf(task[w].todo[i], ModeOf(w)) : i \in 2..Len(task[w].todo)}

(* What a run that yields leaves to do: its resource and those after it.   *)
ContinueWith(w) ==
  {KeyOf(task[w].todo[i], ModeOf(w)) : i \in 1..Len(task[w].todo)}

EndRun(w) ==
  LET t == task[w]
      r == Head(t.todo)
      stop == t.status \in StopsTheJob \/ Len(t.todo) = 1
  IN
    /\ Held(w, "end")
    /\ runs' = [runs EXCEPT ![t.run].status = t.status]
    /\ checkpoint' = [checkpoint EXCEPT ![r].status = t.status]
    /\ task' = [task EXCEPT ![w] =
         [NoTask EXCEPT
            !.pc = IF stop THEN "close" ELSE "begin",
            !.todo = IF stop THEN <<>> ELSE Tail(t.todo),
            !.status = t.status,
            !.results = t.results \cup {t.status},
            !.continue = IF t.status = "continuing" THEN ContinueWith(w) ELSE {},
            !.from = t.from]]
    /\ UNCHANGED <<queueVars, head, mirror, quarantined, covered, outages>>

(* Mutant: a refused credential does not count as a failure.               *)
JobStatusAuthIgnored(t) ==
  IF t.status \in {"busy", "waiting_rate_limit"} THEN "queued"
  ELSE IF t.results \cap {"failed", "interrupted", "forbidden"} # {} THEN "failed"
  ELSE IF "cancelled" \in t.results THEN "cancelled"
  ELSE "succeeded"

(* process_next_job: how the job ends.                                     *)
JobStatus(t) ==
  IF t.status \in {"busy", "waiting_rate_limit"} THEN "queued"
  ELSE IF t.results \cap Failing # {} THEN "failed"
  ELSE IF "cancelled" \in t.results THEN "cancelled"
  ELSE "succeeded"

CloseJob(w) ==
  /\ AtPc(w, "close")
  /\ Finish(w, JobStatus(task[w]))
  /\ task' = [task EXCEPT ![w] =
       IF task[w].continue = {}
         THEN NoTask
         ELSE [NoTask EXCEPT !.pc = "requeue", !.from = task[w].from,
                             !.continue = task[w].continue]]
  /\ UNCHANGED dataVars

(* _requeue_continuations, in a transaction of its own.                    *)
Requeue(w) ==
  /\ AtPc(w, "requeue")
  /\ EnqueueAll(task[w].continue)
  /\ task' = [task EXCEPT ![w] = NoTask]
  /\ UNCHANGED <<lease, cancelling, crashes, dataVars>>

-----------------------------------------------------------------------------
(* The surroundings *)

Crash(w) ==
  /\ task[w].pc # "idle"
  /\ crashes < MaxCrashes
  /\ crashes' = crashes + 1
  /\ lease' = [lease EXCEPT ![w] = NoLease]
  /\ task' = [task EXCEPT ![w] = NoTask]
  /\ UNCHANGED <<job, ahead, cancelling, dataVars>>

(* _keep_lease runs as long as run_sync_job does.                          *)
Renew(w) ==
  /\ task[w].pc \notin {"idle", "close", "requeue"}
  /\ Heartbeat(w, lease[w].job)
  /\ UNCHANGED <<task, dataVars>>

Change ==
  /\ head < Last
  /\ head' = head + 1
  /\ UNCHANGED <<queueVars, task, runs, checkpoint, mirror, quarantined,
                 covered, outages>>

-----------------------------------------------------------------------------
SyncStep(w) ==
  \/ task[w].pc = "idle" /\ ReleaseExpired(w) /\ UNCHANGED <<task, dataVars>>
  \/ \E j \in Jobs : Take(w, j)
  \/ LoseLease(w)
  \/ BeginBusy(w) \/ BeginRun(w)
  \/ Check(w)
  \/ Fetch(w) \/ \E status \in Outages : FetchFails(w, status)
  \/ \E bad \in SUBSET Fragile, slice \in BOOLEAN : PersistPage(w, bad, slice)
  \/ EndRun(w) \/ CloseJob(w) \/ Requeue(w)

Request(k) == Enqueue(k) /\ UNCHANGED <<task, dataVars>>

Passing(j) == LeaseExpires(j) /\ UNCHANGED <<task, dataVars>>
Due(j) == BecomesDue(j) /\ UNCHANGED <<task, dataVars>>

(* While the worker processes live; that one dies is Crash.                *)
SyncNext ==
  \/ \E k \in Keys : Request(k)
  \/ \E w \in Workers : SyncStep(w) \/ Renew(w)
  \/ \E c \in Cancellers :
       /\ CancelWrite(c) \/ \E j \in Jobs : CancelRead(c, j)
       /\ UNCHANGED <<task, dataVars>>
  \/ \E j \in Jobs : Passing(j) \/ Due(j)
  \/ Change

SyncSpec == SyncInit /\ [][SyncNext]_syncVars

-----------------------------------------------------------------------------
(* Properties *)

(* Each table row and each task has its shape.                             *)
SyncTypeOK ==
  /\ QueueTypeOK
  /\ head \in 0..Last
  /\ runs \in Seq(Runs)
  /\ checkpoint \in [Resources -> Checkpoints]
  /\ mirror \in [Resources -> SUBSET Changes]
  /\ quarantined \in [Resources -> SUBSET Changes]
  /\ covered \in Seq(SUBSET Changes)
  /\ task \in [Workers -> Tasks]
  /\ outages \in 0..MaxOutages

(* Nothing before the checkpoint is missing from the mirror, so that an    *)
(* incremental run from it misses nothing: not after a quarantine, a       *)
(* crash, a lost lease or a full load in between (engine.py:263-267).      *)
NoGap ==
  \A r \in Resources : \A p \in Changes :
    At[p] < checkpoint[r].cursor => p \in mirror[r]

(* The checkpoint never moves back, whatever is read again                 *)
(* (diagnostico-carga-pedidos.md:44, engine.py:264-266).                   *)
CursorNeverRegresses ==
  [][\A r \in Resources :
       checkpoint'[r].cursor >= checkpoint[r].cursor]_syncVars

(* A full load that ends in success read every change the origin had, in   *)
(* however many runs it resumed, or all by itself when it started at the   *)
(* beginning (engine.py:110-119: the resume point is contiguous).          *)
FullLoadIsComplete ==
  \A w \in Workers :
    LET t == task[w] IN
      (/\ t.pc = "end" /\ t.status = "success"
       /\ runs[t.run].mode = "full" /\ LeaseAlive(w))
        => 1..t.upto \subseteq covered[t.run]

(* When a run ends in success, the mirror has every change the origin had  *)
(* at its last request, but for those in quarantine: whatever run wrote    *)
(* the checkpoint it started from (engine.py:399-400, 427-428, 468).       *)
SuccessIsCurrent ==
  \A w \in Workers :
    LET t == task[w]
        r == Head(t.todo)
    IN (t.pc = "end" /\ t.status = "success" /\ LeaseAlive(w))
         => 1..t.upto \subseteq mirror[r] \cup quarantined[r]

(* The checkpoint is honest: it hides nothing, and a success is one        *)
(* (engine.py:110-119, 249-267).                                           *)
CheckpointIsHonest == SyncTypeOK /\ NoGap /\ FullLoadIsComplete /\ SuccessIsCurrent

(* A job that succeeded and left no continuation read every resource of    *)
(* its plan, but for those the account denies and those that hit the limit *)
(* of pages (workers.py:155-169).                                          *)
ReadBy(j, r) == \E i \in RunsOf(r) :
                  runs[i].job = j /\ runs[i].status \in {"success", "partial"}
JobSuccessIsComplete ==
  \A w \in Workers :
    LET t == task[w] IN
      (t.pc = "close" /\ JobStatus(t) = "succeeded" /\ t.continue = {})
        => \A i \in 1..Len(PlanOf(job[t.from].key)) :
             LET r == PlanOf(job[t.from].key)[i]
             IN ReadBy(t.from, r) \/ checkpoint[r].status = "forbidden"

(* A job taken again after a crash or a lost lease does not run again on a *)
(* resource it completed (diagnostico-carga-pedidos.md:117).               *)
NothingDoneTwice ==
  \A i, j \in DOMAIN runs :
    (/\ i < j /\ runs[i].job = runs[j].job
     /\ runs[i].resource = runs[j].resource)
      => runs[i].status # "success"

(* The plan of a job is read, once (workers.py:41-60, 155-169).            *)
PlanIsRead == JobSuccessIsComplete /\ NothingDoneTwice

(* What the origin has before the first run reaches the mirror: a crash, a *)
(* lost lease, a slice or a lost continuation only delays it, unless they  *)
(* used up the model's claims (workers.py:211-222: the periodic schedule). *)
ChangesArrive ==
  \A r \in Resources : \A p \in Changes :
    (runs = <<>> /\ p <= head)
      ~> (p \in mirror[r] \/ \E j \in Jobs : job[j].claims = MaxClaims)

(* A slice yields with its page confirmed: the next one starts further on  *)
(* (engine.py:430-431).                                                    *)
SlicesMoveForward ==
  \A i, j \in DOMAIN runs :
    (/\ i < j /\ runs[i].status = "continuing"
     /\ runs[i].resource = runs[j].resource /\ runs[i].mode = runs[j].mode
     /\ \A l \in i+1..j-1 : runs[l].resource # runs[i].resource)
      => runs[j].before > runs[i].before

(* What a slice leaves of a full load is not forgotten while workers live:  *)
(* the job runs, or its worker holds the continuation, or a job for it is   *)
(* in the queue, whoever owns the lease (engine.py:430-431,                 *)
(* workers.py:174-189).  A crash between the two transactions of the worker *)
(* loses it, and the schedule only asks for incremental runs.  So does a    *)
(* job for all the resources that yields while the resource's own job is    *)
(* about to end: the continuation meets an active equivalent (queue.py:33). *)
(* Who cancels the continuation gives the load up.                          *)
Sliced(r) ==
  LET full == {i \in RunsOf(r) : runs[i].mode = "full"}
  IN full # {} /\ runs[MaxOf(full)].status = "continuing"
ContinuationKept ==
  \A r \in Resources : Sliced(r) =>
    \/ \E j \in Jobs : IsActive(j) /\ job[j].key = KeyOf(r, "full")
    \/ \E w \in Workers : KeyOf(r, "full") \in task[w].continue

=============================================================================
