# Xnamai BI Backend in TLA+

Models of the parts of this backend that keep state under concurrency and of the
figures it computes, the TLC runs that check them on small instances, and TLAPS
proofs for every value of the constants. The code is the reference: each definition
of a module stands for the lines that `PROJECT.json` ("map") names.

## 1. Inventory

The backend is one FastAPI process with a PostgreSQL database (READ COMMITTED), a
scheduler that runs the worker loop, and one external system, Mercos, reached through
an HTTP adaptor. It has two generations that share the database and the adaptor but
no table: the ERP (`app/erp`) and the older BI (`app/sync.py`, `app/analytics.py`,
`app/services`).

| Component | State | Operations | Interactions | What is hard | What makes it correct |
|---|---|---|---|---|---|
| Outbox (`erp/outbox.py`) | `erp_integration_operations`, `erp_conflicts` | submit, dispatch, recover_stale, reconcile, resolve_conflict | API requests insert, the worker sends through the client, the mirror confirms | the call is outside any transaction; timeouts leave the result unknown; rows are read without locks and written back by key | an intention takes effect at most once; a recorded result is true; nothing hangs |
| Job queue (`erp/queue.py`) | `erp_jobs`, partial unique index | enqueue, claim_next, heartbeat, release_expired, finish, cancel | everybody enqueues; workers claim | leases expire and revive, cancellations write by key | one live lease per job; one active job per kind, resource and mode; every job ends |
| Sync engine (`erp/sync/engine.py`) | `erp_sync_runs`, `erp_sync_checkpoints`, `erp_quarantine`, the mirror | sync_resource, hydrate_orders, resume | runs under a job's lease; reads pages and details from the adaptor | resumption over many runs, quarantine, slices, lost leases; pages and details write the same rows | the checkpoint never passes a missing change; full loads are complete; items arrive |
| Worker (`erp/workers.py`) | memory only | process_next_job, process_outbox, process_inbox, schedule_periodic | drives the three above | crash between two transactions; what several results make of a job | success means the plan was read; continuations return, and end |
| Row projection (`erp/sync/rows.py`) | the mirror tables | process_row, persist_rows | called by the engine; confirms the outbox | a row that fails to map; a listing without items after a detail with them | the mirror shows the origin; complete means that the items are there |
| Webhook inbox (`erp/inbox.py`) | `erp_webhook_inbox` | receive, process, record_failure | enqueues jobs | two deliveries of one event; a poisonous body; two workers on one row | what was acknowledged is stored and ends; a row and its jobs are committed together |
| Inventory (`erp/services/inventory.py`) | balances, movements, reservations, authority | apply_movement, adjust_to, transfer, reserve, release, reverse | called by purchasing | conditional updates, causal keys, lock order | balance equals the sum of its movements; reserved never above on hand |
| Finance (`erp/services/finance.py`) | titles, installments, settlements | create_title, settle, reverse, cancel_title | called by purchasing, refunds, order receivables | status derived from rows others change | installments equal their settlements; no settlement of a cancelled title |
| Purchasing (`erp/services/purchasing.py`) | purchase orders, receipts | approve, receive, reverse_receipt, cancel | inventory and finance in one transaction | the order is read without a lock | stock, payable and receipts agree |
| Order receivables and refunds (`order_finance.py`, `refunds.py`) | titles of orders, refund requests | create_receivable, cancel_receivable; request, approve, confirm, reverse | finance; the list of orders | money returned by two ways; one order, two requests for its receivable | one active title per order; never more returned than paid |
| Shipping, invoice drafts (`shipping.py`, `invoice_drafts.py`) | quotes and options; drafts and items | create, select, cancel, expire; items, target, organise, rebase, review | the mirror's orders | the order changes under them; versions; a partial unique index in a savepoint | one selection stands; no quantity is allotted twice; no edit is lost |
| BI sync (`app/sync.py`) | `sync_state`, `sync_runs`, BI tables | claim, persist page, finish, interrupt | scheduler and API | a lease that expires under its holder | one holder; the cursor follows the rows |
| Retail jobs (`services/retail_jobs.py`) | `retail_analysis_jobs` | start, claim next, record, cancel, next lot, reclaim | threads of a pool | double claims, restarts, automatic chaining | counts agree; the catalogue is analysed to its end |
| BI reports (`analytics_v2.py`, `analytics.py`, `price_savings.py`, `b2b_carts.py`, `data_quality.py`) | none of their own: the BI tables | some forty queries | read while the synchronisation writes | one figure, several queries; windows, filters, ties, orders without lines, customers without rows | what a reader sees on one screen adds up |
| CRM leads (`services/crm.py`) | attendances, AI scores | lists, claim, finish, scores | orders of the BI; the AI | reads before awaits, columns written back | each lead in one list; an end is not undone |
| Exports (`services/exports.py`) | `export_runs` | create, page by page, close | the list of orders | pages by offset over a table that changes | an undisturbed export is the list |
| Operator sessions (`erp/sessions.py`) | `erp_sessions` | login, refresh, revoke, revoke_all | HTTP | renewals that overlap each other or the end; a lost answer | an end is final; nobody is put out who asks one thing at a time |
| Routers, serializers, registry, HTTP glue | none of their own | formatting | | | not modelled, see section 7 |

`PROJECT.json` lists every part with its status, and under "hazards" what is hard to
test at its line.

## 2. Modules

```
WriteContract     what the outbox promises                    <- Outbox implements it
Outbox            erp/outbox.py and its users                 -> DeploymentProofs
JobBoard          what the queue promises to those who ask    <- JobQueue implements it
JobQueue          erp/queue.py                                -> JobQueueProofs
Inbox             erp/inbox.py, over JobBoard                 -> DeploymentProofs
RetailJobs        services/retail_jobs.py                     -> DeploymentProofs
MCDeployment      Outbox, Inbox and RetailJobs as deployed

SyncEngine        erp/sync/engine.py + workers.py, EXTENDS JobQueue -> SyncEngineProofs
Hydration         hydrate_orders and sync/rows.py, over JobBoard
Synchronisation   SyncEngine and Hydration

Transactions      what the ledgers take from PostgreSQL
Inventory, Finance, Purchasing     the ledgers
SalesOrders       the mirrored orders and erp/services/order_rules.py
OrderFinance, Refunds              receivables and refunds, over Finance
Shipping, InvoiceDrafts            quotes and drafts, over SalesOrders
OperatorSessions                   erp/sessions.py
ErpServices       all of them over one database               -> ErpServicesProofs,
                                                               LedgerProofs

BiSync            app/sync.py, app/adaptor.py, app/main.py    -> BiAppProofs
OrderMirror       what an order's row and lines become, carts observed
Filters           analytics_filters.py
Overview, EntityReports, Dashboards, Savings    the reports
Reports           what they have to agree on
Crm, Exports      services/crm.py, services/exports.py
BiApp             BiSync, the reports, Crm and Exports as one process
                                                              -> BiAppProofs,
                                                                 ReportsProofs
SumTheorems       sums over finite sets, for LedgerProofs, BiAppProofs and ReportsProofs

MC<module>        instances for TLC
```

Components that share no row are composed by a variable `focus`, chosen in the initial
state: a behaviour is about one of them, so their state spaces add up instead of
multiplying. Nothing is lost by it, since no step of one reads or writes what a step
of another does. Where components do interact (the queue and the engine, the inbox and
the queue, receipts with stock and titles, refunds with titles, reports and exports
with the mirror) they are composed step by step.

### Outbox

`row` is the table, one entry per (operator, kind, idempotency key). `worker` is
what a dispatcher holds in memory between two transactions, `session` what an API
request holds between its reads and its write. `executed` is history: how often
Mercos really did it. A transaction that reads without a lock and writes by primary
key is two actions (`PersistRead`/`PersistFlush`, `RecoverRead`/`RecoverFlush`,
`SubmitRead`/`SubmitInsert`, `ReconcileRead`/`ReconcileWrite`,
`ResolveRead`/`ResolveWrite`); the claim, a conditional UPDATE, is one. `Call` is the
single HTTP attempt: only the outcome `unknown` leaves open whether Mercos did it.
`lease_token` is the number of the attempt; `leased_until` and `next_attempt_at` are
the booleans `expired` and `due`. A refused submission changes nothing and is no
step. The three tries of `_persist_outcome` are one: their net effect is success or
`PersistGiveUp`.

`WriteContract` is the abstract specification: an intention is registered, executed
at most once while open, and ends done, refused or uncertain; uncertain is decided
by a person and never tried again. `KeepsThePromise` maps the statuses of the
outbox to these phases.

### JobQueue and JobBoard

`job` is the table. The token is the number of the claim. `ahead` abstracts
`run_after` and `id` to what the claim needs: the relation "comes before in the
line". `lease` is the job and token a worker holds in memory, and survives in
memory when the database has given the job to somebody else: that is where the
hazards are. `CancelRead`/`CancelWrite` are the two halves of `cancel`.

`JobBoard` is what the queue looks like to who enqueues: per key at most one active
job, waiting or running; asking again changes nothing. `KeepsTheBoard` is the
refinement. Inbox and Hydration are written over the board, so what they rely on is
what the queue was shown to do.

### Inbox

`inbox` is the table, `handling` what a worker has in hand, `receiving` what a request
has read. `receive` looks for a duplicate before it inserts, `process` reads the row,
asks for the jobs and writes both in one transaction, `record_failure` counts in another:
each is two steps, and any commit may fail. An event is its catalogued keys and whether its
body can be read or raises. The signature and the limit of size come before it.

### RetailJobs

`lot` is the table of jobs, `pool` the threads that claim products one by one and record their
results, each with a read and a write of the row under `_job_db_lock`, `runner` the background task of a lot, `caller` a
request that starts, cancels or asks for the status. A restart empties the memory;
`reclaim` and the automatic resume start again what it left. `lost` is history: the
products in hand when the process ended, which no resumption takes again; so is `calledOff`, a
cancellation that was written once. `start_job` writes a row back long after it looked: a
resume decided on before a cancellation overwrites it after the threads have obeyed it, and the
worker completes a lot with products unclaimed. `LotsAddUp` allows that of lots with
`calledOff` and of no other.

### SyncEngine

Extends the queue: the keys of jobs are `<<resource, mode>>`. The changes of the
origin are numbered in the order of their instants; `mirror`, `quarantined` and
`checkpoint` are the tables of the resource; `runs` is `erp_sync_runs` in the order
of ids; `task` is the local state of a worker inside `process_next_job`, with a
program counter per transaction: begin, check, fetch, persist, end, close, requeue.
Every step with a database commit is one action; the fetch is outside. `covered` is
history: per run, the changes it read together with those of the runs it resumes. A job
that is taken again passes over the resources it completed (`Skipping`). A page transaction is
one action: every page first updates the field inventory rows of its resource
(`rows.py:421-475`), whose locks put the pages of one resource in sequence.
Left out: the times of `due_resources` (the scheduler may ask at any time), changes
that become visible late at the origin, the status `unavailable` (treated like
`forbidden`), `partial_quarantine` (the checkpoint's display of a success).

### Hydration

The listing of the orders brings no items. `placed` is the origin: each order with its
version and the instant of its last change; `mirrored` is the row of the mirror with
the version its header shows, the version its items come from and `items_complete`;
`withheld` is the quarantine and `listedTo` the checkpoint. A worker (`crew`) runs a
job of kind "sync", which lists a page, or "hydrate", which asks for the details of the
newest incomplete orders one by one, each written after a read without a lock and under
`assert_lease`, which locks the job's row until the commit. What a row becomes
(`Outcome`) is `process_row`: unchanged, stale, persisted, or in quarantine because an
item does not map. `run_sync_job` asks for another hydration when it stored something
and orders are still incomplete. A listing is one page here; SyncEngine has its pages.

### Transactions and the services

A request of the local services runs in one transaction together with its
idempotency key (`routers/idem.py`). `tx[s]` is what the transaction of request
handler `s` has read, what it will write and which rows it has locked; the tables
change only when it commits. Requests are named by their idempotency keys, so a key
stands for its payload and its effect happens at most once; the comparison of the
payload's hash is left out. `Rollback` is a refusal, a lost connection or a
transaction that PostgreSQL aborts in a deadlock.

- *Inventory*: `AdjustRead`, `TransferRead`, `ReserveRead`, `ReleaseRead` and
  `ReverseMovementRead` read without locks and decide the movements; `StockWrite`
  is `apply_movement` (the unique causal key and the conditional UPDATE of the
  balance) with the commit. `release` asks for no authority, as in the code.
- *Finance*: `Settle`, `ReversePayment` and `CancelTitle` lock the title and the
  installment first, so what they read is current; `CommitMoney` publishes it.
  `HasMoney` stands for "the sum of the settled amounts is positive", which is the
  same because no settled amount is negative.
- *Purchasing*: a receipt or its reversal is three actions: the order and the receipt
  are read without a lock (`ReceiveRead`), the lines, the stock and the title are
  worked on and stay locked (`ReceiveWork`), and the commit publishes all of it
  (`CommitReceipt`). The lines are one action, although the code takes their locks one
  by one: until the commit nobody sees what they wrote, and nobody changes a row between
  its lock and the commit, so the order of the locks decides only who waits (or is
  aborted: `Rollback`). The status of the order is computed from the status read at the
  beginning and written only when it changes, because the session writes changed
  columns only.
- *SalesOrders, OrderFinance, Refunds*: an order has a content, which the
  synchronisation replaces whole; `order_rules` says what a content allows. A title of
  an order has a causal key with a number, so a cancelled one may be followed by a new
  one. A refund request moves by updates that ask for its status; its confirmation
  locks the title, checks what is still refundable and reverses the settlement, or
  records that the money was returned outside. The financial state of an order is
  computed twice, as the provider of a page and as the filter of the list.
- *Shipping*: a selection reads quote, order, option and the other quotes, then
  supersedes the selected one and claims its own by version inside a savepoint under
  the partial unique index.
- *InvoiceDrafts*: the draft is read, then the order is locked, then the draft is
  claimed by its version. `organise` is the code's algorithm: whole units in the order
  of the items while they fit in the target and in what the other drafts leave.
- *OperatorSessions*: `access` is the table, `cookie` the token each browser holds; a
  renewal reads the row, writes the columns it changes and answers, three steps. Tokens are
  the numbers of the commits that made them. `disturbed` is history: the sessions whose
  requests overlapped or whose answer was lost, for which the code promises nothing.

Left out: documents, dates and descriptions, titles made by hand, accounts, suppliers
and warehouses, which are tables of names; addresses, packages and prices of freight;
passwords, roles, the lock after failed logins and the age of a session.

### BiSync

`state` and `open` are the tables `sync_states` and `sync_runs` (only the runs in
progress), `stored` the rows of the BI, each with the change it shows and whether it
has items. `runner` is what a scheduled job or a background task of `run_sync` holds
in memory, with a program counter: claim, list, hydrate, persist, backfill, repair,
finish. `busy`, `cancelled` and `blocked` are the globals `_sync_busy`, `_cancel` and
`_order_detail_blocked`. Each transaction is one action, as its advisory lock makes it;
the listing and the details are outside. `RequestCancel`/`CancelSync` are the two
halves of `cancel_sync`; `Restart` is the end of the process, which empties its
memory, with the release of leases at the next start.

A cursor is the number of a change. The statuses are `running` or not; `interrupted`
also stands for `waiting` and `error` for `unavailable`, which the pipeline treats
alike. `Tokens` is a bound on the tokens in use at once: a token nobody holds may be
taken again, as a new UUID would be. Left out: changes that share an instant, orders
that do not count as sales (the backfill passes them over), the choice of the catalogue
resource (any may be next), two service instances at a time.

### The read models

`OrderMirror` says what the tables hold of an order that the origin sent: the header
columns that `_upsert_rows` derives from the lines, and the observation of a shopping
cart (`record_cart_observation`), under the deduplication by version. On top of it each
report is an operator with the joins, filters, groupings and clamps of its query:
inner and outer joins differ in the customers, products and sellers that have no row;
a value is that of the header or of the lines that pass the product filter; a period is
open, given, or counted back from today, with the previous one next to it. A nullable
column is a set of at most one element. `Reports` compares what is computed twice:

- a series, the breakdowns, the pages and the ABC classes add up to the key figures of the
  same filter; the current and the previous month meet; drill-downs show what the list does;
- cohorts keep their customers, retention is a share of who could have come back;
- the older dashboard agrees with its own insights, segments are a partition of the
  customers, dead stock and movers of the products in stock;
- the savings of the club are the same by order, product, customer, week and size;
- the stages of carts are a partition, and the history of a cart ends with the order;
- an export that nothing disturbed is the list (`ExportIsExact`).

The model has whole money and a small calendar (months of 4 and 3 days). Texts, colours,
forecasts in words, the scoring of text in `retail_analysis.py` are left out.

`Crm` has the lists (buyers by what is at stake, newcomers by name, by the AI's score),
their pages, the profile and the dashboard of attendances, and the requests on
attendances: each reads the row, waits or computes, and writes the columns it changed.

## 3. Runs

All runs stop where the system has nothing left to do within the bounds, so deadlock is
not checked. There are as many runs as there are distinct instances: a run that has room
for it checks several components one after the other (`focus`).

| Run | Bounds | Shows |
|---|---|---|
| `outbox_overlap` | outbox: one update, 2 dispatchers, 2 request handlers, 1 resolver, 3 claims, 1 crash, 1 capability change. Retail jobs: 2 products, lots of 2 and 1, 2 jobs, 2 threads, 2 overlapping requests, 1 restart or failure | `TypeOK`, `AtMostOnce`, `ResultsAreKnown`; `LotsAddUp` |
| `outbox_single` | outbox: two cancellations of an order, 1 of each process, 2 claims, 1 crash. Inbox: 2 rows, 4 kinds of events, 2 deliveries, 2 handlers, 2 workers, 2 attempts, 1 failed commit, 1 crash. Retail jobs: 2 products, 4 jobs, 1 thread, 1 request at a time, 1 restart or failure | `KeepsThePromise` (refinement), `OneInFlight`, `ConfirmedCancelIsReal`, `EventuallyDecided`; `AcknowledgedIsStored`, `ProcessedWithItsJobs`, `EveryEventEnds`; `CatalogIsFinished` |
| `outbox_double_resolve` | two people resolve | violates `AtMostOnce` |
| `queue` | 2 workers, 2 jobs, 2 kinds, 2 claims, 1 crash, 1 cancellation at a time | `QueueTypeOK`, `ExclusiveLease`, `UniqueActive`, `EveryJobEnds`, `KeepsTheBoard` (refinement) |
| `sync_engine` | 2 workers, 2 jobs, 3 changes, two of them at first, pages of 2, 3 runs, one fragile row, slices | `CheckpointIsHonest` (`NoGap`, `FullLoadIsComplete`, `SuccessIsCurrent` and the types), `ContinuationKept`, `CursorNeverRegresses` |
| `sync_plan` | changes: 1 job for 2 resources, 2 failed requests, 1 crash, a cancellation, two changes of one instant. Items: 2 workers, 2 orders of two versions, 1 mishap | `PlanIsRead` (`JobSuccessIsComplete`, `NothingDoneTwice`); `HydrationIsHonest` (`CompleteIsReal`, `ItemsGoForward`) |
| `sync_arrives` | changes: 1 worker, 2 jobs, 3 claims, 5 runs, 1 crash. Items: 1 worker, 3 orders of two versions, batches of 2, 1 mishap. Fairness | `ChangesArrive`; `HydrationServes` (`ItemsArrive`, `MirrorCatchesUp`, `HydrationRests`) |
| `sync_slice_stuck` | a fragile row and slices | violates `SlicesMoveForward` |
| `ledgers` | 2 overlapping requests; an order with 2 receipts, a payable with 2 installments, 2 balances, an adjustment, a transfer, a reservation (6 commits); a sale with 2 titles, 2 payments, 3 refund requests (7); 2 quotes with 3 options (3); 2 drafts of 2 items, 3 contents of the order (4); 2 sessions of an operator (4) | `GoodsAddUp` (`ReservationsCovered`, `EveryCauseCountsOnce`, `ReceivedMatchesReceipts`, `ReversalIsWhole`), `TitlesAddUp` (`SettledIsPaid`, `TitleStatusIsCurrent`, `CancelledOwesNothing`), `AdjustmentIsAbsolute`; `SaleMoneyAddsUp` (`OneObligation`, `MoneyAddsUp`, `RefundsWithinPayment`, `LocalReversalIsReal`), `PagesAgree`; `SelectionStands`; `NeverAllottedTwice`, `EditsAreSound`; `SessionsLast` (`EndedStaysEnded`, `UndisturbedStaysIn`) |
| `receipt_split_lines` | a receipt with two lines of one item | violates `StockMatchesReceipts` |
| `bi_sync` | synchronisation: 2 resources, 2 orders with 3 changes (the last one arrives while it runs), one without items, pages of 1, 2 pages per run, the orders job and one manual full load, any number of cancellations, expiries and restarts, fairness. Reports: 3 orders of 3 contents each, 9 filters, 3 numbers of days. Leads: 2 requests on one attendance. Exports: 3 orders, pages of 2 | `BiTypeOK`, `RunsFollowLeases`, `CursorIsBacked`, `PagesAreCurrent`, `NoLeaseBlocksForever`; `ReadModelsAgree`; `LeadsHold` |
| `bi_backfill` | 2 orders without items in a batch of 2 | violates `NothingIsInvented` |

Why the bounds are enough: the lost-update races need two processes on one row; a
lease story needs an expiry and a second claim; a resumption needs a complete load,
a full load cut short and its successor, hence three runs; two pages need three
changes with pages of two, and a page full of one instant two changes that share it.
The services race between two requests; the commits of a group suffice to bring it to
the state the race is about and to have one more in between (approve, hand the balance to
the ERP, receive, pay or reserve, reverse; charge, pay, ask twice for a refund, approve,
confirm). A starved order needs a batch full of newer hopeless ones, hence a batch of two
and three orders. In `bi_sync` nothing of the synchronisation is counted. The contents of
the orders were chosen for the reports to differ where they could: no customer, no
seller, one of each that has no row, a line struck out, a product that is unknown, no
lines, an outlier, a cancellation, each side of every window, days that fall in two
months. The figures are sums over orders, so an error in how one order is counted shows
in a book of few.
`MaxClaims`, `MaxCrashes`, `MaxAttempts`, `MaxToggles`, `MaxRuns`, `MaxOutages`,
`MaxCommits`, `Budget`, `MaxDeliveries`, `MaxFaults`, `MaxMishaps`, `MaxRequests`,
`MaxExports`, `Desks`, `FirstDay`, `LastDay`, `Scenes` and `Seen` are bounds; liveness
properties say so where a bound may stop the system (`OutOfClaims`, `MaxClaims`).
`sync_engine` uses the symmetry of the workers and `ledgers` that of the request
handlers: they check invariants and action properties only.

### Departures from the documentation

The runs that expect a violation exhibit four, each with its line under "findings": two
people resolving a conflict send it twice; a slice with an unresolved quarantine is
repeated from the same place for ever; a receipt with two lines of one item puts only the
first in the stock; a backfill batch with a refused detail writes an empty order over a
good one.

### What the models also contain

Behaviours that no property forbids, because the code allows them; the exceptions written
into the properties are these.

- *Queue and engine*: a heartbeat revives an expired lease which another job has already
  judged dead, so that two workers synchronise one resource; a crash after a sliced job,
  before its continuation is in the queue, loses it (`sync_engine` checks
  `ContinuationKept` without crashes for this reason); a cancellation is overwritten by the
  worker's `finish`.
- *Items of orders*: an order that was hydrated and later edited keeps its old items with
  `items_complete` still true, since the listing brings none and the order is not asked for
  again (`CompleteIsReal` says "of some version"). Orders whose items do not map, or that
  have none, are asked for first each time and starve the ones behind them when they fill a
  batch (`Reached`). A detail that does not map holds the checkpoint of the orders until
  that order is listed again. With two worker processes a detail may overwrite the header of
  a newer page (`ScheduleGoesOn` asks for the one documented worker).
- *Outbox*: a late `recover_stale` overwrites a stored outcome (two dispatchers); two
  overlapping cancellations of one order (two handlers).
- *Inbox*: two deliveries of one event without an id may both be stored; an event processed
  while an equivalent job is past its page asks for nothing, and is read when the schedule
  asks again.
- *Services*: a purchase order is cancelled while a receipt commits; an approval overwrites a
  cancellation; two receipts each see the other's item pending, so the order stays
  `partially_received`; a refund is confirmed as paid outside after its settlement was
  reversed here; transfers A to B and B to A lock in opposite orders and PostgreSQL aborts one.
- *Retail jobs*: the products in hand at a restart are lost to their lot; a lot of mode
  "batch" stops the automatic pipeline (`CatalogIsFinished`); a cancellation between the
  runner's read and its write is overwritten; a chained and a requested lot may hold the same
  products.
- *BI sync*: a cancelled sync whose flag stays set interrupts every scheduled run until a
  person starts one or the process restarts; the backfill, which holds no lease, writes the
  details it read over newer ones. `CursorIsBacked` and `PagesAreCurrent` speak of the rows
  that are listed with their items: the others are what the backfill may write.
- *Reports*: the series drops the cancellations of buckets without a sale; the mix of
  buyers ignores the end of a period that has no start; ABC classes differ between pages
  on ties and where revenue is zero, and an item above 80 % alone is never class A; breakdowns
  use header values under a product filter; the exclusion of customers drops orders that have
  none (NOT IN with NULL); the legacy rankings count totals the dashboard leaves out; the
  quality report takes its totals from PostgreSQL's estimate, so shares may pass 100 %. A
  report is several statements at READ COMMITTED: what the synchronisation stores between
  them is in some of its figures only, so agreement is stated for a book at rest.
- *Leads and exports*: a first claim that read the lead open before a colleague finished it
  reopens it (`OnlyTheFirstClaimReopens`); won and lost at the same time may leave the outcome
  of one and the sale of the other; an order that changes between two pages of an export may be
  missing or there twice; a killed export stays "running".

The installments of the runs are positive. `split_amount` can make a last
installment of zero (0.02 in three parts), which never becomes `settled`, or a
negative one (10.00 in sixty parts), which the table refuses; both are outside what
`TitleStatusIsCurrent` says.

## 4. Fairness

The scheduler in `main.py` runs the worker loop again and again, so every worker step
is weakly fair (`WF(Dispatch(w))`, `WF(WorkerStep(w))`, `WF(SyncStep(w))`, the work of
`Hydration`, `EmptyInbox(w)`). Time passes: a lease that nobody renews expires and a row
becomes due. The periodic schedule asks for incremental runs (`WF(Request(k))`); for the
orders of `Hydration` this is a premise of the properties (`ScheduleGoesOn`), because
`HydrationRests` is about the time after it stopped. The queue gives jobs out in the order
of `run_after` and `id`, so a hydration that waits is not passed for ever by newer jobs:
strong fairness of `Begin(w, "hydrate")`, which JobQueue has as the relation `ahead`. In
RetailJobs the threads and the runner go on, and the page that shows a job keeps asking for
its status, which is what resumes a lot after a restart. In BiSync every task of the event
loop goes on, and the heartbeat of a lease that nobody holds any more ages. People are never
fair: nothing depends on a reconciliation, a resolution, a claim or a confirmation. A crash,
a failed request or an edit may happen or not.

## 5. Proofs

The proofs hold for any numbers of operations, jobs, workers, changes, resources,
requests and rows, where the runs have two or three. "theorems" in `PROJECT.json`
lists the results. Each module begins with its inductive invariant; TLC checked each
on an instance before it was proved. Typing and safety go together: the invariant
contains the type invariant, and a step is proved per action.

*Outbox* (`DeploymentProofs`). `TypeCorrect` and `ConfirmationsAreReal` have no hypothesis.
`NoBlindRepeat` and `RecordedResultsAreTrue` assume `OneResolver`: at most one conflict
resolution in progress (`outbox_double_resolve` shows that it is needed). `AtMostOnce`
is not inductive: it needs to know that an operation in a state from which it could be
sent (queued, waiting, in conflict) was not executed, that a worker about to call holds
the only unexecuted attempt, that a row in processing is marked as sent, so that
recovery never re-queues it (`MarkedBeforeCall`), that a resolver's open conflict
stays unexecuted until it writes (`ResolverMayRequeue`), and that nobody is left to
change a recorded result (`ResultsAreSettled`). `IInv` is the conjunction of these.

`OutboxKeepsThePromise`, the refinement of `WriteContract`, and `OneCancellationInFlight`
assume `OneAtATime`: one dispatcher (as documented), one request handler and one resolver.
Both are false without it, as section 3 says: a recovery that wrote back an old row loses a
recorded result, and two overlapping requests both find no rival. The hypothesis is what
`outbox_single` has; the invariant says that what a process read of a row is still so
when it writes the row (`ReadsAreCurrent`), and that nobody inserts against an open rival
(`NoRivalAtInsert`).

*Queue* (`JobQueueProofs`). `QueueInv` = types, `FreshTokens` (a token in memory is at most
the number of claims, so a claim's token is new), `AbsentUnclaimed` and `UniqueActive`.
`LeasesAreExclusive` follows: two live leases of a job carry its token, and a token was
given to one worker. `QueueKeepsTheBoard` is the refinement of `JobBoard`, without a
hypothesis: per key the one active job decides what the board shows, and each step moves
one key, or several in a release or a request.

*Inbox* (`DeploymentProofs`). `InboxInv` says that a stored row names the event it was stored
for, that what a handler's look-up found is there, and that a worker at work has a stored row
in hand. Rows are never deleted and never change their event, so
`AcknowledgedEventsAreStored`; `EventsComeWithTheirJobs` is about the one transaction that
writes the row and the jobs.

*Sync engine* (`SyncEngineProofs`). The theorems but the last are about `CrashingSpec`, the steps
of the engine with workers that die at any moment, and assume `ContinuationsAreKeys`: the
key a job for all resources asks for when it yields is one of the queue's keys
(`KeyOf` in the code always makes one). The heart of `SyncInv` is one fact, kept for each
cursor that is stored or held in memory: what lies below it is in the mirror or in
quarantine, and the runs of its load read it (`RunIsBacked`, `CheckpointIsBacked`,
`TaskIsBacked`). A page is the next changes after its cursor, so the fact passes over a
page. That there is one run per resource at a time is not needed, which matters because a
revived lease breaks it: two runs that overlap store what is true of both.
`NothingIsDoneTwice` also assumes that the order of resources names each once
(`NoRepeats(Order)`; `SYNC_ORDER` does); `DoneInv` says that the owner of a job, live or
about to be revived, is the last that ran for it, and has no completed resource ahead.
`PlanInv` adds where each resource of a worker's plan stands: left to do, read by its job, or
denied by the origin in some run, unless the job is bound to fail, to be cancelled or to
return. From it `PlansAreReadOrDenied`, for any number of workers, and `PlansAreRead`, which
states the whole of `PlanIsRead` and assumes `OneWorker`, as the documentation deploys
(`docs/erp/status.md:65`): with two, another job may be trying a denied resource again when
this one ends, and its checkpoint does not show the denial then. TLC finds that run with two
workers, and checked `PlanInv` with one and with two.

`ContinuationsAreKept` is about `SyncSpec`, the engine without crashes (a worker that dies between
the end of its job and the enqueueing of the continuation leaves none), and states the whole of
`ContinuationKept`. `KeptInv` says of the owner of a full load that its run is the last full run of
the resource, and that what it is about to end is over, goes back to the line, or has a
continuation in the worker's hands (`OwnerCarriesOn`); of a job that is active and has completed its
resource, that no slice is left (`DoneIsDone`). Its hypothesis, `LoadsAreSingle`, is what makes the
property true: nobody cancels, since who cancels the continuation gives the load up; and no full
load is for all resources at once, since a job for all that yields while the resource's own job is
about to end finds that one active (`queue.py:33`), asks for nothing, and the rest of the load is
left to the next full load. TLC checked `KeptInv` on the instance of `sync_engine` and with a job for
all resources' changes beside it.

*Items of the orders* (the end of `SyncEngineProofs`), without a hypothesis, about
`SynchronisationSafe`. `HydrationInv` says of each row of the mirror that its items are a version
that the origin had, and that it counts as complete exactly when they are live; and of each worker
what it holds. A worker at work under its lease is the only one with a job of its kind
(`AtWork`), so of the details in memory only one may still be stored, none of the others'
matters, and it is not older than the items in the mirror. What a listing writes in between leaves items and
completeness alone (`ListedRow`); hence `MirrorsItemsAreHonest`, the whole of
`HydrationIsHonest`. TLC checked `HydrationInv` in the instance of `sync_plan`, with three mishaps.

*BI sync* (`BiAppProofs`), without a hypothesis. A token that a runner works under is its
own (`OwnTokens`), so who finds its token in `sync_states` has held the lease since its
claim, and nobody else wrote pages of the resource meanwhile. `HolderIsCurrent` follows the holder
from the listing to the commit: its pages and what is stored leave nothing out up to its
cursor, and the page in its hand is not older than what is stored. Of a runner that lost
its lease nothing is claimed: its page is refused. From `BiInv` follow all four
properties of the synchronisation that are not liveness. They are theorems about `BiSpec`;
`AppSynchronises` says that a behaviour of the application, which `bi_sync` checks, is one of it.

*Mirror of the orders, leads and exports* (the rest of `BiAppProofs`), about `FairBiAppSpec`.
`MirrorInv`: an observed cart has its present fingerprint among the observations, which is
`CartHistoriesAreCurrent`, and what is stored of an order are numbers. `LeadsAlwaysHold` states
the whole of `LeadsHold`. It has three parts:

- *Lists.* A list is sorted by keys of several columns, compared in order (`Precedes`). Keys that
  tell the members apart make a strict order, so the number of those before a member is its place, and
  places are a bijection with `0..n-1`. A page is an interval of places: consecutive pages share
  no lead, leave none out, and what is loaded plus what is to come is the total.
- *Commits.* A request writes the columns it changed (`Updated`) over the row that is there by then.
  `CrmInv` says what a request read and is about to write (`DeskFits`): a column it found filled is
  still filled (`StillKnown`), whoever wrote in between. So a row keeps its story
  (`StoryIsWhole`), and only a first claim that read an open lead can take an end back.
- *Totals.* The dashboard's sums by seller, by month and by outcome are one sum, split by classes
  (`GroupsSum`, `GroupsCount`); what open and finished leads bought is what all customers did.

`ExportsAreExact` states the whole of `ExportIsExact`. `ExportInv` says that what a quiet export
wrote are the first orders of the list, up to the page it is at (`WrittenInOrder`): a page in order is the
piece of the list that comes next, and the pages that were counted reach its end. Of an export
that something disturbed it keeps only the types.

Two assumptions are not the code's. `NamesTellApart`: the lists break their last tie by the name
(`crm.py:45-53`), so customers who tie in all else and share a name come in any order, and a page of
them could repeat one. `HeuristicIsANumber` is the hypothesis that the score computed from
revenue, orders and days is a number, which TLC cannot evaluate for all numbers. The others
(`MirrorConstants`, `VersionsTyped`, `CustomersTyped`, `AnswersTyped`, `PagesTyped`, `SeenIsSent`,
`ExportConstants`) type
the tables and what the origin sends.

*Reports* (`ReportsProofs`), about `FairBiAppSpec`. `ReadModelsDoAgree` states the whole of
`ReadModelsAgree`, for any history of orders, any catalogue, filters, numbers of days and sizes
of tiers: with the carts and the exports above, that in every state the reports agree
(`ReportsAgree`). Its invariant is `MirrorInv /\ ExportInv /\ BookFits /\ BookIsSound`:

- `BookFits` says what the columns of a stored order and of its lines can hold: a nullable column
  has one value or none, amounts are whole, the lines are a finite list. `BookIsSound`: no revenue of
  an order or a line is negative, no order is dated after today. Both are needed of every row a query may
  meet, and kept because a row is written whole from one message (`RowOfFits`, `RowOfSound`).
- *Sums.* A report is a sum over the orders a filter finds or over their lines. Two reports agree
  because they are one sum, regrouped (`SumByGroups`, `SumInClasses`): by order (`LinesByOrder`), by
  bucket of the calendar, the empty ones adding nothing (`SeriesSum`), by status and band of value,
  by seller or customer, where rows without one are in no group (`SumByColumn`), by class, stock,
  segment, cohort and month. A drill-down agrees with its list since the filter for one more thing
  finds its part of the orders (`SellerNarrows`, `CustomerNarrows`, `ProductNarrows`).
- *Rankings.* `Sorted` chooses a list in order; that there is one is `RankingExists`, and that it
  has each once is `RankingIsAll`. The tiers are runs of it, and runs that meet are the list
  (`RunsAddUp`, `TiersOf`).
- *Comparisons.* Where one figure counts some orders of another (today within the window,
  sellers within revenue, the curve within its cohort), less is earned by fewer (`SumOfFewer`), which needs
  amounts that are not negative.

Its assumptions: `VersionsTyped`, `CatalogueTyped` and `QuestionsTyped` give the tables, the messages
and the filters the types of their columns; `TiersGrow` is `Tiers`, as the code has it, in order. `OriginIsSound`
is not the code's: it stores what the origin sends. An order sent with a negative amount, or with an
issue date after its last change, would break the comparisons with `<=` and the equality of the dashboard
and its insight, whose windows end today in the one and nowhere in the other.

*Services* (`ErpServicesProofs`), without a hypothesis, about the composition
`ServicesSpec`. `AccessInv`, for `SessionsAreLasting`: of a session that nothing disturbed,
an open request is the only one, what it read is what the row has, and with none open the
browser holds the token of the row. `ShippingInv`, for `SelectionsStand`: two transactions
hold no row in common, the entry of the partial unique index counted as one, and a choice about to
be stored holds its entry and every choice it replaces. Who gave no reason saw no
selection of another option; if one was stored since, the version moved and the claim is refused.
`OrdersAreFound` is the part of `PagesAgree` about freight: at most one quote
is selected, so the page and the filter speak of the same one.

*Ledgers* (`LedgerProofs`), about the same composition, over a theory of sums
(`SumTheorems`): `SumFunction` folds a set in an order nobody knows, so it is first shown
that a fold of a finite set exists and that the order does not matter; then that a sum
changes by what one entry changes, and splits along a partition. These are inductions over
the cardinality of subsets, with a set of subsets in the place of the predicate. `LedgerInv` says:

- `Books`: the committed rows agree, each installment with its payments (`SettledIsPaid`),
  each title with its installments, and no money on a title that is not active.
- `MoneyReady` and `ReceiptReady`: what a transaction is about to write was computed from rows
  that still are what it read. `LocksHold` is why: what it read it has locked, and another
  transaction commits only rows that it has locked itself.
- `RefundsStand`: the requests of a payment do not ask for more than it, and a
  request about to be confirmed has the payment's title or its own row locked.

`GoodsInv` adds, for stock and purchasing:

- A causal key names one place (`OnePlaced`, `BelongsTo`), so a balance changes by the sum of
  the moves that were accepted for it, and each of them is new (`MovesAccepted`).
- A reservation is active or released exactly when its two causes are known
  (`ReservationsKnown`): of two releases that read it as active, the second finds its cause.
- A request that read without a lock (`StockReady`) promises only the shape of its moves;
  what it read may be stale, and `MovesAccepted` is asked again when it writes. A receipt or
  reversal about to commit (`GoodsReady`) has its items and balances locked, so no other
  commit changes the sums it computed (`ReadyStays`).
- `NothingLeft`: every movement of a reversed receipt has its reversal, and its payable is not active;
  nothing brings that payable back (`TitlesRest`).

`AdjustmentsWait` says of a request that adjusts that its one move is the difference to the
balance it expects. It is written only if that balance is there (`ExpectedStillThere`), so
what it leaves is absolute (`AdjustmentsAreAbsolute`).

`DraftInv` is about the planning of invoices:

- `NotTwice`: the live drafts made from one content allot together no more of an item than it has.
- `RowFits`: a row about to be committed has room beside what the other live drafts of that
  content hold. What was computed from all the order's other drafts (`Modest`: `_organize`, `_rebase`,
  the check of an edited quantity) fits the more so beside those of one content. The order's lock
  keeps it true until the commit (`RoomStays`), so `_claim` need only compare the draft's own version.
- `OrganizedFits`: `_organize` takes of each item what fits in what remains of the target,
  after rounding, whole lines included. It is an induction over the items
  (`CountingUp`), with the rounding of one item in `HalfUpTyped`, `FitsTyped` and `TakeFits`.

From them follow `GoodsAlwaysAddUp`, `SaleMoneyAlwaysAddsUp`, `PaymentsAddUp`,
`AdjustmentsAreAbsolute`, `DraftsNeverAllotTwice` and `DraftEditsAreSound` without a hypothesis, and
`TitlesAlwaysAddUp` and `PagesAlwaysAgree` under `TitlesArePayable`: a title that exists has
installments, and each is worth something. The
schemas ask for a positive total and for one installment at least (`commands.py:229`), but
`split_amount` may leave the last installment at zero (end of section 3): it never becomes
settled, and its title and order stay partially settled. `TitlesHaveOneCause`
and `OrderTitlesTyped`, assumptions of the models, are the causal keys: a receipt and an
order never ask for the same title, nor two orders. `OrderItemsTyped` is what `current_items` makes of an
order: a source key names one item; that no quantity or total is negative is taken from the source.
`DraftsAreFinite` bounds nothing: there are finitely many drafts in any table.

*Retail jobs* (the end of `DeploymentProofs`), without a hypothesis. `RetailInv`: one thread holds
`_job_db_lock`, what it read there is what the row has, and the cursor of a lot is what was
processed, failed, lost and is in hand. When a thread has left its pool, all products were
claimed or the lot was cancelled once (`AllClaimed`); a lot is called completed only from
there. The proof found the overwritten cancellation described in section 3, which needs two
overlapping requests; the runs had one, and now have two.

Only model-checked:

- *Liveness* (`EventuallyDecided`, `EveryJobEnds`, `EveryEventEnds`, `CatalogIsFinished`,
  `ChangesArrive`, `HydrationServes`, `NoLeaseBlocksForever`): fairness and enabledness are out
  of the provers' reach.

Nothing else: every invariant and every action property of the passing runs is proved, under
the hypotheses named above.

## 6. Plan

Written and checked: every module above; proved: what section 5 says. What would come next is
in section 7: the exports of the other kinds and the comparison of the reconciliation.

## 7. Not modelled

- *Access control*: credentials, roles and signatures are outside of this project.
- *Retail search and analysis* beyond success or failure of a step: the matching of listings
  and packs is scoring of text, where a model would be the program again.
- *Registry, field mapping, migrations, serializers, labels, routers, command line*: data and
  formatting; the unique indexes and columns that decide something are in the modules of
  their components.
- *Adaptor client*: retries and the cooldown after a 429 are abstracted to the outcome of a
  request. (In the BI's client a 429 on a detail does not extend the cooldown, one on a listing
  does.)
- *Reconciliation and diagnostics*: reports that compare and change nothing.
- *Exports of the other kinds*, which page by (value, name) and write the same run row.
- *Two instances of the service*, except for the ERP's workers: the documentation deploys one.
