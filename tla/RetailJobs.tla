------------------------------ MODULE RetailJobs ------------------------------
(***************************************************************************)
(* The analysis jobs of the BI (app/services/retail_jobs.py): a lot of     *)
(* products is claimed one by one by the threads of a pool, inside the     *)
(* only web process; a lot of mode "all" is followed by another while      *)
(* products are pending, and whoever asks for the status starts again what *)
(* a restart of the process left lying.                                    *)
(*                                                                         *)
(* Rows are read without a lock and written back: what was read before a   *)
(* write is kept in the reader (runner, pool, caller).  The cooldown of    *)
(* the automatic resume only delays it and is left out.                    *)
(***************************************************************************)
EXTENDS Naturals, Sequences, FiniteSets

CONSTANTS
  Products,      (* active products, numbers in the order of their revenue *)
  ChunkSize,     (* products of a lot of mode "all" (_job_chunk_size) *)
  BatchSize,     (* products of a lot of mode "batch" *)
  RetailJobIds,  (* ids of jobs *)
  PoolThreads,   (* threads of a pool (_concurrency) *)
  Callers,       (* requests that may be under way at the same time *)
  MaxMishaps,    (* model bound: failed analyses and restarts *)
  MaxRequests    (* model bound *)

ASSUME RetailBounds ==
  /\ Products \subseteq Nat /\ IsFiniteSet(Products)
  /\ RetailJobIds \subseteq Nat \ {0}
  /\ IsFiniteSet(PoolThreads) /\ PoolThreads # {}
  /\ {ChunkSize, BatchSize} \subseteq Nat \ {0}
  /\ {MaxMishaps, MaxRequests} \subseteq Nat

VARIABLES
  analyzed,   (* the products with an analysis *)
  lot,        (* retail_analysis_jobs *)
  spawned,    (* jobs whose worker thread was started and did not run yet *)
  runner,     (* the worker of each job in _running_job_ids *)
  pool,       (* the threads of each worker *)
  caller,     (* the requests *)
  retailCount (* bounded numbers of mishaps and requests *)

retailVars == <<analyzed, lot, spawned, runner, pool, caller, retailCount>>

ActiveLot == {"queued", "running"}
Resumable == {"interrupted", "failed"}

NoCall == [do |-> "none"]
NoThread == [do |-> "none"]
At(pc, ids) == [pc |-> pc, ids |-> ids]
NoRunner == At("none", <<>>)
NoLot == [status |-> "absent", mode |-> "batch", ids |-> <<>>, cursor |-> 0,
          processed |-> 0, failed |-> 0, stale |-> FALSE,
          lost |-> 0, calledOff |-> FALSE]

RetailInit ==
  /\ analyzed = {}
  /\ lot = [j \in RetailJobIds |-> NoLot]
  /\ spawned = {}
  /\ runner = [j \in RetailJobIds |-> NoRunner]
  /\ pool = [j \in RetailJobIds |-> [t \in PoolThreads |-> NoThread]]
  /\ caller = [c \in Callers |-> NoCall]
  /\ retailCount = [mishaps |-> 0, requests |-> 0]

Lots == {j \in RetailJobIds : lot[j].status # "absent"}
LastOfLots(S) == CHOOSE j \in S : \A k \in S : k <= j
ActiveLots(rows) == {j \in RetailJobIds : rows[j].status \in ActiveLot}
(* _running_job_ids                                                        *)
HasRunner(j) == runner[j] # NoRunner

PendingProducts == Products \ analyzed
(* pending_candidate_ids: the most sold first.                             *)
FirstPending(n) ==
  LET Rank(p) == Cardinality({q \in PendingProducts : q <= p})
      pending == Cardinality(PendingProducts)
  IN [i \in 1..(IF pending < n THEN pending ELSE n) |->
        CHOOSE p \in PendingProducts : Rank(p) = i]

-----------------------------------------------------------------------------
(* reclaim_stale_jobs: what shows no heartbeat and has no worker here.     *)
Reclaimed(rows) ==
  [j \in RetailJobIds |->
     IF rows[j].status \in ActiveLot /\ ~HasRunner(j) /\ rows[j].stale
       THEN [rows[j] EXCEPT !.status = "interrupted"]
       ELSE IF rows[j].status \in ActiveLot /\ HasRunner(j)
              THEN [rows[j] EXCEPT !.stale = FALSE] ELSE rows[j]]

Touched(r, status) == [r EXCEPT !.status = status, !.stale = FALSE]

(* start_job after reclaiming: an active lot wins, then one to be resumed, *)
(* then a new one is decided on, with the products pending now.            *)
ResumableLots(rows) ==
  {j \in RetailJobIds : rows[j].status \in Resumable}

Decision(rows, mode, resume) ==
  LET last == LastOfLots(ResumableLots(rows))
      ids  == FirstPending(IF mode = "all" THEN ChunkSize ELSE BatchSize)
  IN CASE ActiveLots(rows) # {} ->
            [do |-> "spawn", job |-> LastOfLots(ActiveLots(rows))]
       [] /\ ActiveLots(rows) = {} /\ resume /\ ResumableLots(rows) # {}
          /\ rows[last].cursor < Len(rows[last].ids) ->
            [do |-> "resume", job |-> last]
       [] OTHER -> IF ids = <<>> THEN NoCall
                     ELSE [do |-> "insert", mode |-> mode, ids |-> ids]

(* ensure_catalog_pipeline after reclaiming.                               *)
NextOfPipeline(rows) ==
  LET last == LastOfLots(Lots)
      rest == rows[last].cursor < Len(rows[last].ids)
  IN CASE ActiveLots(rows) # {} ->
            LET active == LastOfLots(ActiveLots(rows))
            IN IF HasRunner(active) THEN NoCall ELSE [do |-> "spawn", job |-> active]
       [] ActiveLots(rows) = {} /\ (Lots = {} \/ rows[last].mode # "all") -> NoCall
       [] OTHER ->
            CASE rows[last].status \in Resumable /\ rest ->
                   [do |-> "resume", job |-> last]
              [] /\ rows[last].status \in {"completed"} \cup Resumable
                 /\ PendingProducts # {}
                 /\ ~(rows[last].status \in Resumable /\ rest) ->
                   Decision(rows, "all", FALSE)
              [] OTHER -> NoCall

(* Mutant: the status starts nothing that is still called active.          *)
PipelineTrustsActive(rows) ==
  IF ActiveLots(rows) # {} THEN NoCall ELSE NextOfPipeline(rows)

Pipeline(rows) == NextOfPipeline(rows)

(* What the answer's own poll starts.                                      *)
Wakes(rows) == LET call == Pipeline(rows) IN IF call.do = "spawn" THEN {call.job} ELSE {}

(* The write that follows a decision; what is spawned runs later.          *)
NewLot == {j \in RetailJobIds : /\ lot[j].status = "absent"
                                /\ \A k \in RetailJobIds :
                                     k < j => lot[k].status # "absent"}

Inserted(mode, ids) ==
  [NoLot EXCEPT !.status = "queued", !.mode = mode, !.ids = ids]

Carries(call, j) ==
  CASE call.do = "resume" -> /\ j = call.job
                             /\ lot' = [lot EXCEPT ![j] = Touched(@, "queued")]
    [] call.do = "insert" -> /\ j \in NewLot
                             /\ lot' = [lot EXCEPT ![j] = Inserted(call.mode, call.ids)]
    [] OTHER -> FALSE

-----------------------------------------------------------------------------
(* Requests                                                                *)

Counted(what) == retailCount' = [retailCount EXCEPT ![what] = @ + 1]

(* What was decided is spawned at once or remembered until it is written.  *)
Proceeds(c, call) ==
  /\ spawned' = IF call.do = "spawn" THEN spawned \cup {call.job} ELSE spawned
  /\ caller' = [caller EXCEPT ![c] = IF call.do = "spawn" THEN NoCall ELSE call]

(* POST analyze-jobs, analyze-batch and resume.                            *)
AskForLot(c, mode, resume) ==
  /\ caller[c] = NoCall
  /\ retailCount.requests < MaxRequests
  /\ lot' = Reclaimed(lot)
  /\ Proceeds(c, Decision(Reclaimed(lot), mode, resume))
  /\ Counted("requests")
  /\ UNCHANGED <<analyzed, runner, pool>>

(* GET: status_snapshot begins with ensure_catalog_pipeline.               *)
PollStatus(c) ==
  /\ caller[c] = NoCall
  /\ lot' = Reclaimed(lot)
  /\ Proceeds(c, Pipeline(Reclaimed(lot)))
  /\ UNCHANGED <<analyzed, runner, pool, retailCount>>

(* The row is written, its worker started; the answer polls again.         *)
CallWrites(c) ==
  /\ \E j \in RetailJobIds :
       /\ Carries(caller[c], j)
       /\ spawned' = spawned \cup {j} \cup Wakes(lot')
  /\ caller' = [caller EXCEPT ![c] = NoCall]
  /\ UNCHANGED <<analyzed, runner, pool, retailCount>>

CancelLotRead(c, j) ==
  /\ caller[c] = NoCall
  /\ retailCount.requests < MaxRequests
  /\ lot[j].status \in ActiveLot \cup Resumable
  /\ caller' = [caller EXCEPT ![c] = [do |-> "cancel", job |-> j]]
  /\ Counted("requests")
  /\ UNCHANGED <<analyzed, lot, spawned, runner, pool>>

(* Whatever the row has become, it is cancelled; the answer polls.         *)
CancelLotWrite(c) ==
  LET called == [lot EXCEPT ![caller[c].job].calledOff = TRUE]
      rows == [called EXCEPT ![caller[c].job] = Touched(@, "cancelled")] IN
    /\ caller[c].do = "cancel"
    /\ lot' = Reclaimed(rows)
    /\ Proceeds(c, Pipeline(Reclaimed(rows)))
    /\ UNCHANGED <<analyzed, runner, pool, retailCount>>

-----------------------------------------------------------------------------
(* run_job_worker                                                          *)

Leaves(j) == runner' = [runner EXCEPT ![j] = NoRunner]
GoesTo(j, pc) == runner' = [runner EXCEPT ![j] = At(pc, <<>>)]

(* A second worker of one job returns at once.                             *)
WorkerEnters(j) ==
  /\ j \in spawned
  /\ spawned' = spawned \ {j}
  /\ IF HasRunner(j) THEN UNCHANGED runner ELSE GoesTo(j, "entered")
  /\ UNCHANGED <<analyzed, lot, pool, caller, retailCount>>

WorkerReads(j) ==
  /\ runner[j].pc = "entered"
  /\ CASE lot[j].status = "running" -> GoesTo(j, "refreshing")
       [] lot[j].status \in {"queued"} \cup Resumable -> GoesTo(j, "starting")
       [] OTHER -> Leaves(j)
  /\ UNCHANGED <<analyzed, lot, spawned, pool, caller, retailCount>>

(* The row is written as running, although it may be cancelled by now; a   *)
(* status that was read as running is not written.                         *)
WorkerStarts(j) ==
  /\ runner[j].pc \in {"starting", "refreshing"}
  /\ GoesTo(j, "pool")
  /\ lot' = [lot EXCEPT ![j] =
       Touched(@, IF runner[j].pc = "starting" THEN "running" ELSE @.status)]
  /\ pool' = [pool EXCEPT ![j] = [t \in PoolThreads |-> [do |-> "ready"]]]
  /\ UNCHANGED <<analyzed, spawned, caller, retailCount>>

(* Mutant: the threads do not take turns.                                  *)
Unserialised(j) == TRUE

(* _job_db_lock is free: no thread is between a read and its write.        *)
LockIsFree(j) ==
  \A k \in RetailJobIds : \A t \in PoolThreads :
    pool[k][t].do \notin {"claiming", "recording"}

Thread(j, t, state) == pool' = [pool EXCEPT ![j][t] = state]

(* worker_loop looks at the row first, without the lock.                   *)
ThreadStops(j, t) ==
  /\ pool[j][t].do = "ready"
  /\ lot[j].status = "cancelled"
  /\ Thread(j, t, NoThread)
  /\ UNCHANGED <<analyzed, lot, spawned, runner, caller, retailCount>>

(* _claim_next reads the row under the lock ...                            *)
ClaimReads(j, t) ==
  /\ pool[j][t].do = "ready"
  /\ LockIsFree(j)
  /\ Thread(j, t,
       IF lot[j].status = "cancelled" \/ lot[j].cursor >= Len(lot[j].ids)
         THEN NoThread
         ELSE [do |-> "claiming", cursor |-> lot[j].cursor, saw |-> lot[j].status])
  /\ UNCHANGED <<analyzed, lot, spawned, runner, caller, retailCount>>

(* ... and writes what changed: the status only if it was not "running".   *)
ClaimWrites(j, t) ==
  LET th == pool[j][t] IN
    /\ th.do = "claiming"
    /\ lot' = [lot EXCEPT ![j].cursor = th.cursor + 1, ![j].stale = FALSE,
                          ![j].status = IF th.saw = "running" THEN @ ELSE "running"]
    /\ Thread(j, t, [do |-> "analyzing", product |-> lot[j].ids[th.cursor + 1]])
    /\ UNCHANGED <<analyzed, spawned, runner, caller, retailCount>>

(* _analyze_one: minutes, and it may raise.                                *)
Analyzes(j, t, ok) ==
  /\ pool[j][t].do = "analyzing"
  /\ \/ ok /\ analyzed' = analyzed \cup {pool[j][t].product} /\ UNCHANGED retailCount
     \/ /\ ~ok /\ pool[j][t].product \notin analyzed
        /\ retailCount.mishaps < MaxMishaps
        /\ Counted("mishaps")
        /\ UNCHANGED analyzed
  /\ Thread(j, t, [do |-> "analyzed", ok |-> ok])
  /\ UNCHANGED <<lot, spawned, runner, caller>>

(* _record_result, under the lock like the claim.                          *)
RecordReads(j, t) ==
  /\ pool[j][t].do = "analyzed"
  /\ LockIsFree(j)
  /\ Thread(j, t, [do |-> "recording", ok |-> pool[j][t].ok,
                   processed |-> lot[j].processed, failed |-> lot[j].failed])
  /\ UNCHANGED <<analyzed, lot, spawned, runner, caller, retailCount>>

RecordWrites(j, t) ==
  LET th == pool[j][t] IN
    /\ th.do = "recording"
    /\ lot' = [lot EXCEPT
         ![j].processed = IF th.ok THEN th.processed + 1 ELSE @,
         ![j].failed = IF th.ok THEN @ ELSE th.failed + 1, ![j].stale = FALSE]
    /\ Thread(j, t, [do |-> "ready"])
    /\ UNCHANGED <<analyzed, spawned, runner, caller, retailCount>>

PoolEnded(j) == \A t \in PoolThreads : pool[j][t] = NoThread

(* The pool is empty: the row is read, and completed unless cancelled.     *)
WorkerSeesEnd(j) ==
  /\ runner[j].pc = "pool"
  /\ PoolEnded(j)
  /\ IF lot[j].status = "cancelled" THEN Leaves(j) ELSE GoesTo(j, "closing")
  /\ UNCHANGED <<analyzed, lot, spawned, pool, caller, retailCount>>

WorkerCloses(j) ==
  /\ runner[j].pc = "closing"
  /\ lot' = [lot EXCEPT ![j] = Touched(@, "completed")]
  /\ IF lot[j].mode = "all" THEN GoesTo(j, "chaining") ELSE Leaves(j)
  /\ UNCHANGED <<analyzed, spawned, pool, caller, retailCount>>

(* The next lot of the catalog: an active one, or a new one.               *)
WorkerChains(j) ==
  LET rows == IF PendingProducts = {} THEN lot ELSE Reclaimed(lot)
      next == IF PendingProducts = {} THEN NoCall ELSE Decision(rows, "all", FALSE)
  IN /\ runner[j].pc = "chaining"
     /\ lot' = rows
     /\ spawned' = IF next.do = "spawn" THEN spawned \cup {next.job} ELSE spawned
     /\ IF next.do = "insert" THEN runner' = [runner EXCEPT ![j] = At("inserting", next.ids)]
                              ELSE Leaves(j)
     /\ UNCHANGED <<analyzed, pool, caller, retailCount>>

WorkerInserts(j) ==
  /\ runner[j].pc = "inserting"
  /\ \E k \in NewLot : /\ lot' = [lot EXCEPT ![k] = Inserted("all", runner[j].ids)]
                        /\ spawned' = spawned \cup {k}
  /\ Leaves(j)
  /\ UNCHANGED <<analyzed, pool, caller, retailCount>>

-----------------------------------------------------------------------------
(* Time and failures                                                       *)

(* Twelve minutes without a heartbeat: a worker refreshes its own.         *)
LotAges(j) ==
  /\ lot[j].status \in ActiveLot /\ ~lot[j].stale
  /\ ~HasRunner(j) /\ j \notin spawned
  /\ lot' = [lot EXCEPT ![j].stale = TRUE]
  /\ UNCHANGED <<analyzed, spawned, runner, pool, caller, retailCount>>

(* The threads that claimed a product and did not record its result.       *)
InHand(j) == {t \in PoolThreads : pool[j][t].do \in {"analyzing", "analyzed", "recording"}}

(* The process dies: threads, requests and _running_job_ids are gone.      *)
ProcessRestarts ==
  /\ retailCount.mishaps < MaxMishaps
  /\ Counted("mishaps")
  /\ lot' = [j \in RetailJobIds |-> [lot[j] EXCEPT !.lost = @ + Cardinality(InHand(j))]]
  /\ spawned' = {}
  /\ runner' = [j \in RetailJobIds |-> NoRunner]
  /\ pool' = [j \in RetailJobIds |-> [t \in PoolThreads |-> NoThread]]
  /\ caller' = [c \in Callers |-> NoCall]
  /\ UNCHANGED analyzed

-----------------------------------------------------------------------------
WorkerStep(j) ==
  \/ WorkerReads(j) \/ WorkerStarts(j) \/ WorkerSeesEnd(j)
  \/ WorkerCloses(j) \/ WorkerChains(j) \/ WorkerInserts(j)

ThreadStep(j, t) ==
  \/ ThreadStops(j, t) \/ ClaimReads(j, t) \/ ClaimWrites(j, t)
  \/ RecordReads(j, t) \/ RecordWrites(j, t)
  \/ \E ok \in BOOLEAN : Analyzes(j, t, ok)

(* What the threads of the process do, and what its requests do.           *)
RetailWork ==
  \E j \in RetailJobIds :
    \/ WorkerEnters(j) \/ WorkerStep(j)
    \/ \E t \in PoolThreads : ThreadStep(j, t)

RetailAnswers ==
  \E c \in Callers : PollStatus(c) \/ CallWrites(c) \/ CancelLotWrite(c)

RetailNext ==
  \/ \E c \in Callers :
       \/ \E mode \in {"batch", "all"}, resume \in BOOLEAN : AskForLot(c, mode, resume)
       \/ \E j \in RetailJobIds : CancelLotRead(c, j)
  \/ RetailAnswers \/ RetailWork
  \/ \E j \in RetailJobIds : LotAges(j)
  \/ ProcessRestarts

(* Threads run, and the page that shows a job asks for its status.         *)
RetailSpec ==
  /\ RetailInit /\ [][RetailNext]_retailVars
  /\ WF_retailVars(RetailWork) /\ WF_retailVars(RetailAnswers)

-----------------------------------------------------------------------------
(* Properties *)

(* No product of a lot is claimed twice and no result is lost: what was    *)
(* claimed is in the hand of one thread, counted, or was in hand when the  *)
(* process died, whoever cancels, resumes or starts at the same time       *)
(* (_claim_next, _record_result).                                          *)
ClaimsAddUp ==
  \A j \in RetailJobIds :
    lot[j].cursor = lot[j].processed + lot[j].failed + lot[j].lost + Cardinality(InHand(j))

(* A lot that says it is completed has nothing in hand, and it left nothing *)
(* unclaimed unless somebody cancelled it (run_job_worker: completed only   *)
(* after the pool, cancelled otherwise).  A cancellation may be overwritten *)
(* by whoever decided to resume the lot before it (start_job and cancel_job *)
(* read, and write later), when the threads have already obeyed it: the     *)
(* worker then completes what it did not finish.                            *)
CompletedIsWhole ==
  \A j \in RetailJobIds :
    lot[j].status = "completed" =>
      /\ InHand(j) = {}
      /\ \/ lot[j].calledOff
         \/ lot[j].processed + lot[j].failed + lot[j].lost = Len(lot[j].ids)

(* No product of a lot is lost or taken twice on the way to its end.       *)
LotsAddUp == ClaimsAddUp /\ CompletedIsWhole

(* Once the catalog is being analysed, it is analysed to its end, although *)
(* analyses fail and the process restarts, and without a person            *)
(* (ensure_catalog_pipeline: resume and chain): unless one cancels a lot,  *)
(* or asks for a lot of mode "batch", after which the pipeline rests.      *)
CatalogIsFinished ==
  (\E j \in Lots : lot[j].mode = "all")
    ~> \/ PendingProducts = {}
       \/ \E j \in Lots : lot[j].status = "cancelled"
       \/ Lots # {} /\ lot[LastOfLots(Lots)].mode = "batch"

===============================================================================
