-------------------------------- MODULE BiSync --------------------------------
(***************************************************************************)
(* The synchronisation of the older BI (app/sync.py, app/adaptor.py and    *)
(* the routes of app/main.py): one resource of the origin at a time, under *)
(* a lease kept in sync_states, one transaction per page.  The scheduler   *)
(* and people start it, an operator cancels it, the process restarts.      *)
(*                                                                         *)
(* The changes of a resource are numbered in the order of their instants;  *)
(* a cursor is a change, 0 when there is none.                             *)
(***************************************************************************)
EXTENDS Integers, Sequences, FiniteSets

CONSTANTS
  Resources,    (* SYNC_RESOURCES *)
  Orders,       (* the resource whose rows have details *)
  Changes,      (* of each resource: the rows changed, in order *)
  AtFirst,      (* model bound: of each resource, the changes of the past *)
  Bare,         (* orders that the list shows without their items *)
  PageSize,     (* rows in a page of the origin *)
  MaxPages,     (* MAX_PAGES *)
  MaxBatches,   (* MISSING_DETAIL_MAX_BATCHES *)
  BatchSize,    (* MISSING_DETAIL_BATCH *)
  Scheduled,    (* the scheduled jobs, and the resources of each *)
  Manuals,      (* background tasks of run_sync *)
  Plans,        (* what a person may ask for: [resources, full] *)
  Tokens        (* model bound: lease tokens in use at the same time *)

Jobs == DOMAIN Scheduled
Runners == Jobs \cup Manuals

RowsOf(r) == {Changes[r][c] : c \in DOMAIN Changes[r]}

ASSUME OrdersIsAResource == Orders \in Resources
ASSUME BoundsTyped ==
  /\ PageSize \in Nat \ {0}
  /\ {MaxPages, MaxBatches, BatchSize} \subseteq Nat
ASSUME PlansTyped ==
  \A plan \in Plans : /\ plan.resources \in Seq(Resources) \ {<<>>}
                       /\ plan.full \in BOOLEAN
ASSUME OriginTyped ==
  /\ \A r \in Resources : Changes[r] \in Seq(RowsOf(r))
  /\ AtFirst \in [Resources -> Nat]
  /\ \A r \in Resources : AtFirst[r] <= Len(Changes[r])
ASSUME SchedulesTyped == \A p \in Jobs : Scheduled[p] \subseteq Resources
ASSUME ManualsAreNoJobs == Manuals \cap Jobs = {}
ASSUME TokensAreNumbers ==
  /\ Tokens \subseteq Nat \ {0}
  /\ IsFiniteSet(Tokens) /\ IsFiniteSet(Resources) /\ IsFiniteSet(Runners)
  /\ Cardinality(Tokens) > Cardinality(Resources) + Cardinality(Runners)

VARIABLES
  state,        (* sync_states: whether it is running, and then under which
                   token, with a heartbeat within the TTL or not *)
  open,         (* sync_runs: token and resource of those that are running *)
  stored,       (* the rows of the BI: the change each shows, and its items *)
  origin,       (* how many changes the origin has *)
  runner,       (* what a job or a background task holds in memory *)
  busy,         (* _sync_busy *)
  cancelled,    (* _cancel *)
  cancelling,   (* cancel_sync is between its event and its transaction *)
  blocked       (* _order_detail_blocked *)

tables == <<state, open, stored>>
flags == <<busy, cancelled, cancelling, blocked>>
biVars == <<tables, origin, runner, flags>>

-----------------------------------------------------------------------------
(* Values *)

NoToken == 0
Row(id, version, items) == [id |-> id, version |-> version, items |-> items]
Resting == [pc |-> "idle", plan |-> <<>>, full |-> FALSE, token |-> NoToken,
            cursor |-> 0, pages |-> 0, batches |-> 0, rows |-> {},
            more |-> FALSE, result |-> "none"]

BiInit ==
  /\ state = [r \in Resources |->
       [cursor |-> 0, running |-> FALSE, token |-> NoToken, fresh |-> FALSE]]
  /\ open = {}
  /\ stored = [r \in Resources |->
       [id \in RowsOf(r) |-> [version |-> 0, items |-> FALSE]]]
  /\ origin = AtFirst
  /\ runner = [p \in Runners |-> Resting]
  /\ busy = FALSE /\ cancelled = FALSE /\ cancelling = FALSE /\ blocked = FALSE

ResourceOf(p) == Head(runner[p].plan)
At(p, pc) == runner[p].pc = pc

(* The origin changes.                                                     *)
Edit(r) ==
  /\ origin[r] < Len(Changes[r])
  /\ origin' = [origin EXCEPT ![r] = @ + 1]
  /\ UNCHANGED <<tables, runner, flags>>

(* The changes that are the last of their row: what a list can show.       *)
Current(r) ==
  {c \in 1..origin[r] :
     \A d \in (c + 1)..origin[r] : Changes[r][d] # Changes[r][c]}
VersionOf(r, id) == CHOOSE c \in Current(r) : Changes[r][c] = id

-----------------------------------------------------------------------------
(* The end of what a runner does *)

(* A job or a task ends; the task gives the flags back, whoever took them. *)
Rests(p) ==
  /\ runner' = [runner EXCEPT ![p] = Resting]
  /\ IF p \in Manuals THEN busy' = FALSE /\ cancelled' = FALSE
                      ELSE UNCHANGED <<busy, cancelled>>
  /\ UNCHANGED <<cancelling, blocked>>

Goes(p, changes) == runner' = [runner EXCEPT ![p] = changes]

(* _should_stop_pipeline.                                                  *)
Stops == {"running", "interrupted"}

(* Mutant: the last resource is not looked for.                            *)
NextResourceAlways(p, result) ==
  /\ Goes(p, [Resting EXCEPT !.pc = "claim", !.full = runner[p].full,
                             !.plan = Tail(runner[p].plan)])
  /\ UNCHANGED flags

NextResource(p, result) ==
  IF result \in Stops \/ Len(runner[p].plan) = 1
    THEN Rests(p)
    ELSE /\ Goes(p, [Resting EXCEPT !.pc = "claim", !.full = runner[p].full,
                                    !.plan = Tail(runner[p].plan)])
         /\ UNCHANGED flags

(* The status of a run that an exception ends, as far as the pipeline      *)
(* cares: interrupted is also waiting, error is also unavailable.          *)
Failures == {"interrupted", "error"}

(* The pages are over: what the loop held is of no use any more.           *)
Leaves(p, pc, result) ==
  [runner[p] EXCEPT !.pc = pc, !.result = result, !.rows = {}, !.cursor = 0,
                    !.pages = 0, !.more = FALSE]

Fails(p, status) ==
  /\ Goes(p, [Leaves(p, "finish", status) EXCEPT !.batches = 0])
  /\ UNCHANGED <<tables, origin, flags>>

-----------------------------------------------------------------------------
(* sync_orders_job, sync_catalog_job and run_sync *)

Schedule(p, r) ==
  /\ p \in Jobs /\ At(p, "idle")
  /\ r \in Scheduled[p]
  /\ Goes(p, [Resting EXCEPT !.pc = "claim", !.plan = <<r>>])
  /\ UNCHANGED <<tables, origin, flags>>

RunSync(p, plan) ==
  /\ p \in Manuals /\ At(p, "idle")
  /\ ~busy
  /\ \A r \in Resources : ~state[r].running
  /\ busy' = TRUE
  /\ cancelled' = FALSE
  /\ Goes(p, [Resting EXCEPT !.pc = "claim", !.plan = plan.resources,
                                  !.full = plan.full])
  /\ UNCHANGED <<tables, origin, cancelling, blocked>>

-----------------------------------------------------------------------------
(* _claim_sync *)

(* Mutant: only the status counts, not the heartbeat.                      *)
LeaseIsRunning(r) == state[r].running

LeaseIsActive(r) == state[r].running /\ state[r].fresh

(* uuid4: a token that nobody has; it also names the run.                  *)
Unused == {t \in Tokens : /\ \A r \in Resources : state[r].token # t
                          /\ \A p \in Runners : runner[p].token # t
                          /\ \A run \in open : run[1] # t}
NewToken == CHOOSE t \in Unused : \A u \in Unused : t <= u

(* Mutant: the run of the holder that expired is left alone.               *)
StaleRunsKept(r) == {}

(* The runs of a holder that expired.                                      *)
StaleRuns(r) ==
  {run \in open : run[2] = r /\ state[r].running}

ClaimSync(p) ==
  LET r == ResourceOf(p)
      t == NewToken
  IN /\ At(p, "claim")
     /\ \A other \in Resources : ~LeaseIsActive(other)
     /\ state' = [state EXCEPT ![r].running = TRUE, ![r].token = t,
                               ![r].fresh = TRUE]
     /\ open' = (open \ StaleRuns(r)) \cup {<<t, r>>}
     /\ Goes(p, [runner[p] EXCEPT !.pc = "list", !.token = t,
                   !.cursor = IF runner[p].full THEN 0 ELSE state[r].cursor])
     /\ UNCHANGED <<stored, origin, flags>>

ClaimRefused(p) ==
  /\ At(p, "claim")
  /\ \E other \in Resources : LeaseIsActive(other)
  /\ NextResource(p, "running")
  /\ UNCHANGED <<tables, origin>>

-----------------------------------------------------------------------------
(* The pages: adaptor.list, _hydrate_order_details, _persist_sync_page *)

ToRow(r, c) == Row(Changes[r][c], c, Changes[r][c] \notin Bare)

(* The next changes after x, in their order, as many as fit in a page.     *)
PageAfter(r, x) ==
  LET after == {c \in Current(r) : c > x}
  IN {c \in after : Cardinality({d \in after : d < c}) < PageSize}

LastOf(page) == CHOOSE c \in page : \A d \in page : d <= c

WithoutItems(rows) == {row \in rows : ~row.items}
NeedsDetails(r, rows) == r = Orders /\ ~blocked /\ WithoutItems(rows) # {}

AfterPages(r) == IF r = Orders THEN "backfill" ELSE "finish"

ListPage(p) ==
  LET r    == ResourceOf(p)
      page == PageAfter(r, runner[p].cursor)
      rows == {ToRow(r, c) : c \in page}
  IN /\ At(p, "list")
     /\ ~cancelled
     /\ Goes(p, IF page = {} THEN Leaves(p, AfterPages(r), "success")
          ELSE [runner[p] EXCEPT
                  !.pc = IF NeedsDetails(r, rows) THEN "hydrate" ELSE "persist",
                  !.rows = rows, !.cursor = LastOf(page),
                  !.more = (Cardinality(page) = PageSize)])
     /\ UNCHANGED <<tables, origin, flags>>

(* The rows when the details of some of them were read.                    *)
Detailed(rows, some) ==
  (rows \ some) \cup {Row(row.id, VersionOf(Orders, row.id), TRUE) : row \in some}

(* Row by row, until one whose detail is forbidden or not found: the       *)
(* others are stored as they were listed.                                  *)
Hydrate(p) ==
  LET bare == WithoutItems(runner[p].rows)
  IN /\ At(p, "hydrate")
     /\ ~cancelled
     /\ \E some \in SUBSET bare :
          /\ \A x \in some, y \in bare \ some : x.version < y.version
          /\ Goes(p, [runner[p] EXCEPT !.pc = "persist",
                                       !.rows = Detailed(@, some)])
          /\ blocked' = (blocked \/ some # bare)
     /\ UNCHANGED <<tables, origin, busy, cancelled, cancelling>>

(* _upsert_rows.                                                           *)
Upserted(rows, r) ==
  [stored EXCEPT ![r] = [id \in RowsOf(r) |->
     IF \E row \in rows : row.id = id
       THEN LET row == CHOOSE row \in rows : row.id = id
            IN [version |-> row.version, items |-> row.items]
       ELSE stored[r][id]]]

(* Mutant: nobody asks whose lease it is.                                  *)
AnyLease(p) == TRUE

HasLease(p) == state[ResourceOf(p)].token = runner[p].token

(* Mutant: the cursor is the next page's, where the list now ends.         *)
CursorAhead(p) == origin[ResourceOf(p)]

PageCursor(p) == runner[p].cursor

PersistPage(p) ==
  LET r     == ResourceOf(p)
      pages == runner[p].pages + 1
  IN /\ At(p, "persist")
     /\ HasLease(p)
     /\ stored' = Upserted(runner[p].rows, r)
     /\ state' = [state EXCEPT ![r].cursor = PageCursor(p),
                               ![r].running = TRUE, ![r].fresh = TRUE]
     /\ Goes(p, CASE ~runner[p].more -> Leaves(p, AfterPages(r), "success")
                  [] runner[p].more /\ pages = MaxPages ->
                       Leaves(p, "finish", "partial")
                  [] OTHER -> [runner[p] EXCEPT !.pc = "list", !.rows = {},
                                                !.pages = pages])
     /\ UNCHANGED <<open, origin, flags>>

(* The lease is lost, or the transaction fails.                            *)
PersistFails(p) == At(p, "persist") /\ Fails(p, "error")

-----------------------------------------------------------------------------
(* _backfill_missing_order_details: after the pages, without the lease *)

(* _orders_missing_items; the orders count as sales.                       *)
Missing == {id \in RowsOf(Orders) : /\ stored[Orders][id].version > 0
                                    /\ ~stored[Orders][id].items}

CanBackfill(p) ==
  /\ At(p, "backfill")
  /\ ~blocked
  /\ runner[p].batches < MaxBatches
  /\ Missing # {}

BackfillEnds(p) ==
  /\ At(p, "backfill")
  /\ ~CanBackfill(p)
  /\ Goes(p, [runner[p] EXCEPT !.pc = "finish", !.batches = 0])
  /\ UNCHANGED <<tables, origin, flags>>

(* What is asked for is only the id; the rows after one whose detail is    *)
(* forbidden or not found are still nothing else.                          *)
BackfillRead(p) ==
  /\ CanBackfill(p)
  /\ ~cancelled
  /\ \E ids \in SUBSET Missing :
       /\ Cardinality(ids) <= BatchSize
       /\ Cardinality(ids) = BatchSize \/ ids = Missing
       /\ LET asked == {Row(id, 0, FALSE) : id \in ids}
          IN \E some \in SUBSET asked :
               /\ Goes(p, IF some = {}
                    THEN [runner[p] EXCEPT !.pc = "finish", !.batches = 0]
                    ELSE [runner[p] EXCEPT !.pc = "repair",
                                           !.rows = Detailed(asked, some)])
               /\ blocked' = (some # asked)
  /\ UNCHANGED <<tables, origin, busy, cancelled, cancelling>>

BackfillWrite(p) ==
  /\ At(p, "repair")
  /\ stored' = Upserted(runner[p].rows, Orders)
  /\ Goes(p, [runner[p] EXCEPT !.pc = "backfill", !.rows = {},
                               !.batches = @ + 1])
  /\ UNCHANGED <<state, open, origin, flags>>

BackfillFails(p) == At(p, "repair") /\ Fails(p, "error")

(* A request fails: the operator's event raises 409, the origin anything.  *)
RequestFails(p) ==
  /\ runner[p].pc \in {"list", "hydrate"} \/ CanBackfill(p)
  /\ IF cancelled THEN Fails(p, "interrupted")
     ELSE \E status \in Failures : Fails(p, status)

-----------------------------------------------------------------------------
(* _finish_sync_run: the state when the lease is still ours, the run always *)

Released(row) ==
  [row EXCEPT !.running = FALSE, !.token = NoToken, !.fresh = FALSE]

FinishSync(p) ==
  LET r == ResourceOf(p)
  IN /\ At(p, "finish")
     /\ state' = IF HasLease(p) THEN [state EXCEPT ![r] = Released(@)] ELSE state
     /\ open' = open \ {<<runner[p].token, r>>}
     /\ NextResource(p, runner[p].result)
     /\ UNCHANGED <<stored, origin>>

(* The transaction itself fails: an end that was good is tried once more,   *)
(* as an error; after that the state stays running.                        *)
FinishFails(p) ==
  /\ At(p, "finish")
  /\ IF runner[p].result \in {"success", "partial"}
       THEN Goes(p, [runner[p] EXCEPT !.result = "error"]) /\ UNCHANGED flags
       ELSE Rests(p)
  /\ UNCHANGED <<tables, origin>>

-----------------------------------------------------------------------------
(* cancel_sync, and a restart of the process *)

Interrupted(row) == IF row.running THEN Released(row) ELSE row

InterruptRunningSyncs ==
  /\ state' = [r \in Resources |-> Interrupted(state[r])]
  /\ open' = {}
  /\ UNCHANGED stored

RequestCancel ==
  /\ ~cancelling
  /\ cancelling' = TRUE
  /\ cancelled' = TRUE
  /\ busy' = FALSE
  /\ UNCHANGED <<tables, origin, runner, blocked>>

CancelSync ==
  /\ cancelling
  /\ cancelling' = FALSE
  /\ InterruptRunningSyncs
  /\ UNCHANGED <<origin, runner, busy, cancelled, blocked>>

Restart ==
  /\ InterruptRunningSyncs
  /\ runner' = [p \in Runners |-> Resting]
  /\ busy' = FALSE /\ cancelled' = FALSE /\ cancelling' = FALSE /\ blocked' = FALSE
  /\ UNCHANGED origin

(* SYNC_LEASE_TTL goes by without a page.                                  *)
HeartbeatAges(r) ==
  /\ LeaseIsActive(r)
  /\ state' = [state EXCEPT ![r].fresh = FALSE]
  /\ UNCHANGED <<open, stored, origin, runner, flags>>

-----------------------------------------------------------------------------
RunnerStep(p) ==
  \/ ClaimSync(p) \/ ClaimRefused(p)
  \/ ListPage(p) \/ RequestFails(p) \/ Hydrate(p)
  \/ PersistPage(p) \/ PersistFails(p)
  \/ BackfillRead(p) \/ BackfillWrite(p) \/ BackfillFails(p) \/ BackfillEnds(p)
  \/ FinishSync(p) \/ FinishFails(p)

BiNext ==
  \/ \E r \in Resources : Edit(r) \/ HeartbeatAges(r)
  \/ \E p \in Runners :
       \/ RunnerStep(p)
       \/ \E r \in Resources : Schedule(p, r)
       \/ \E plan \in Plans : RunSync(p, plan)
  \/ RequestCancel \/ CancelSync \/ Restart

BiSpec == BiInit /\ [][BiNext]_biVars

(* Nobody renews the lease of a run that is gone.                          *)
Abandoned(r) == \A p \in Runners : runner[p].token # state[r].token

(* The event loop runs every task, and time passes.                        *)
FairBiSpec ==
  /\ BiSpec
  /\ \A p \in Runners : WF_biVars(RunnerStep(p))
  /\ \A r \in Resources : WF_biVars(Abandoned(r) /\ HeartbeatAges(r))

-----------------------------------------------------------------------------
(* Properties *)

Pcs == {"idle", "claim", "list", "hydrate", "persist", "backfill", "repair",
        "finish"}

BiTypeOK ==
  /\ \A r \in Resources :
       /\ state[r] \in [cursor : 0..Len(Changes[r]), running : BOOLEAN,
                        token : Tokens \cup {NoToken}, fresh : BOOLEAN]
       /\ origin[r] \in 0..Len(Changes[r])
       /\ stored[r] \in [RowsOf(r) ->
                          [version : 0..origin[r], items : BOOLEAN]]
  /\ open \subseteq Tokens \X Resources
  /\ \A p \in Runners :
       /\ runner[p].pc \in Pcs
       /\ runner[p].pc # "idle" => runner[p].plan # <<>>
       /\ runner[p].token \in Tokens \cup {NoToken}
  /\ {busy, cancelled, cancelling, blocked} \subseteq BOOLEAN

(* A resource has at most one run in progress, and it is the one that      *)
(* holds the lease, through expiries, takeovers, cancellations, late       *)
(* finishes and restarts (_claim_sync, _finish_sync_run,                   *)
(* interrupt_running_syncs).                                               *)
RunsFollowLeases ==
  open = {<<state[r].token, r>> : r \in {r \in Resources : state[r].running}}

(* The cursor never passes a row, as it is now at the origin, that the BI  *)
(* does not show: not when a page fails, a full load starts over or a lost *)
(* lease comes back with a page it read long ago (_persist_sync_page: rows *)
(* and cursor together).  Rows whose items are listed: the others are also *)
(* written by the backfill, without a lease (NothingIsInvented).           *)
Shows(r, id) ==
  \A c \in 1..state[r].cursor :
    c \in Current(r) /\ Changes[r][c] = id => stored[r][id].version = c
CursorIsBacked ==
  \A r \in Resources : \A id \in RowsOf(r) \ Bare : Shows(r, id)

(* A row of the BI never goes back to an older version of itself, and a    *)
(* page is only committed for a run that is still open, whoever read it    *)
(* when: nothing of a sync that was interrupted arrives after it was       *)
(* reported as such (_persist_sync_page asks for the lease under lock;     *)
(* interrupt_running_syncs, main.py:396-409).  Rows that the backfill      *)
(* writes are not among them.                                              *)
PagesAreCurrent ==
  [][\A r \in Resources :
       /\ \A id \in RowsOf(r) \ Bare :
            stored'[r][id].version >= stored[r][id].version
       /\ (\/ state'[r].cursor # state[r].cursor
           \/ \E id \in RowsOf(r) \ Bare : stored'[r][id] # stored[r][id])
            => <<state[r].token, r>> \in open]_<<state, stored>>

(* No lease keeps the other syncs out for ever, whether its holder ends,   *)
(* is cancelled, dies or cannot write its end (sync.py:473-481, 527-568).  *)
NoLeaseBlocksForever ==
  \A r \in Resources : []<>~LeaseIsActive(r)

(* What the source did not send is not written over what it sent: every    *)
(* order shows what the cursor says was read                               *)
(* (_backfill_missing_order_details, docs/mercos-limitations.md).          *)
NothingIsInvented == \A id \in RowsOf(Orders) : Shows(Orders, id)

===============================================================================
