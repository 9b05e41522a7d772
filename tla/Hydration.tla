------------------------------ MODULE Hydration ------------------------------
(***************************************************************************)
(* The items of the mirrored orders (app/erp/sync/engine.py,               *)
(* app/erp/sync/rows.py): the listing brings no items, so what a job of    *)
(* the orders stores is completed by a job of another kind, which asks for *)
(* one order after another.  Both write the same rows, each after reading  *)
(* them without a lock, and the quarantine both fill holds the cursor of   *)
(* the listing back.  How a listing goes on from page to page is           *)
(* SyncEngine's; a listing is one page here.                               *)
(***************************************************************************)
EXTENDS Integers, Sequences, FiniteSets
Sets == INSTANCE FiniteSetsExt

CONSTANTS
  Issued,                (* the orders, the newest first *)
  Content,               (* order -> what the origin has of it, one after another:
                            [items, deleted], items "live", "none" or "bad" *)
  HYDRATE_BATCH_LIMIT,   (* orders a job asks for: 50 in the code *)
  Scenes,                (* model bound: the orders and the workers there may be *)
  MaxMishaps             (* model bound: failed requests, crashes, expiries *)

Placeable == DOMAIN Content
Newer(x, o) == \E i, j \in DOMAIN Issued : Issued[i] = x /\ Issued[j] = o /\ i < j

ASSUME HydrationConstants ==
  /\ HYDRATE_BATCH_LIMIT \in Nat \ {0} /\ MaxMishaps \in Nat
  /\ {Issued[i] : i \in DOMAIN Issued} = Placeable
  /\ \A o \in Placeable : Content[o] \in
       Seq([items : {"live", "none", "bad"}, deleted : BOOLEAN]) \ {<< >>}
  /\ \A scene \in Scenes : scene.orders \subseteq Placeable /\ scene.crew # {}

VARIABLES
  placed,       (* order -> the version the origin has, and its instant *)
  mirrored,     (* erp_sales_orders with their items: order -> row *)
  withheld,     (* erp_quarantine: the orders in it, not resolved *)
  listedTo,     (* the cursor of the orders' checkpoint *)
  line,         (* erp_jobs, as JobBoard: the active job of each kind *)
  crew,         (* what each worker holds in memory *)
  mishaps

hydrationVars == <<placed, mirrored, withheld, listedTo, line, crew, mishaps>>
mirrorRows == <<mirrored, withheld, listedTo>>

Kinds == {"sync", "hydrate"}
Line == INSTANCE JobBoard WITH Keys <- Kinds, board <- line

NoOrder == [version |-> 0, print |-> << >>, items |-> 0, complete |-> FALSE]
Resting == [at |-> "rest"]

HydrationInit ==
  \E scene \in Scenes :
    /\ placed = [o \in scene.orders |-> [version |-> 1,
         instant |-> Cardinality({x \in scene.orders : ~Newer(x, o)})]]
    /\ mirrored = [o \in scene.orders |-> NoOrder]
    /\ withheld = {} /\ listedTo = 0
    /\ Line!BoardInit
    /\ crew = [w \in scene.crew |-> Resting]
    /\ mishaps = 0

MirrorOrders == DOMAIN placed

-----------------------------------------------------------------------------
(* A row of the origin: process_row *)

Sent(o, version) == Content[o][version]

(* The hash of the row: the same version listed and detailed are two.      *)
fingerprint(source, version) == <<source, version>>

(* _order_finalize, of a row that brings its list of items.                *)
Complete(o, version) == Sent(o, version).items = "live"

Outcome(o, seen, source, version) ==
  CASE seen.print = fingerprint(source, version) -> "unchanged"
    [] seen.print # fingerprint(source, version)
       /\ source = "detail" /\ Sent(o, version).items = "bad" -> "quarantined"
    [] OTHER -> IF version < seen.version THEN "stale" ELSE "persisted"

(* What the row becomes: an UPDATE carries the columns that differ from    *)
(* what was read; the items are replaced if the row brings a list.         *)
Persisted(o, seen, source, version) ==
  LET row == mirrored[o]
      changed(old, new, now) == IF new = old THEN now ELSE new
      detailed == source = "detail"
  IN [version  |-> changed(seen.version, version, row.version),
      print    |-> changed(seen.print, fingerprint(source, version), row.print),
      items    |-> IF detailed THEN version ELSE row.items,
      complete |-> IF detailed
                     THEN changed(seen.complete, Complete(o, version), row.complete)
                     ELSE row.complete]

(* The quarantine after rows of some orders came out so.                   *)
Withheld(outcome) ==
  LET with(kinds) == {o \in DOMAIN outcome : outcome[o] \in kinds}
  IN (withheld \ with({"unchanged", "persisted"})) \cup with({"quarantined"})

Store(outcome, seen, source, version) ==
  /\ mirrored' = [o \in MirrorOrders |->
       IF o \in DOMAIN outcome /\ outcome[o] = "persisted"
         THEN Persisted(o, seen[o], source, version[o]) ELSE mirrored[o]]
  /\ withheld' = Withheld(outcome)

(* Without items as far as the mirror knows, and not deleted.              *)
Incomplete ==
  {o \in MirrorOrders : LET row == mirrored[o] IN
     row.version > 0 /\ ~row.complete /\ ~Sent(o, row.version).deleted}

-----------------------------------------------------------------------------
(* The job of the orders *)

Goes(w, place) ==
  crew' = [crew EXCEPT ![w] = [at |-> place, kind |-> @.kind, leased |-> @.leased,
                               more |-> @.more]]
(* It goes on with what it holds, some of it new.                          *)
Takes(w, new) ==
  crew' = [crew EXCEPT ![w] =
    [field \in DOMAIN new \cup DOMAIN crew[w] |->
      IF field \in DOMAIN new THEN new[field] ELSE crew[w][field]]]
Rests(w) == crew' = [crew EXCEPT ![w] = Resting]
IsAt(w, place) == w \in DOMAIN crew /\ crew[w].at = place

(* claim_next: the job is the worker's until the lease expires.            *)
Begin(w, kind) ==
  /\ IsAt(w, "rest")
  /\ Line!Start(kind)
  /\ crew' = [crew EXCEPT ![w] =
       [at |-> IF kind = "sync" THEN "list" ELSE "choose",
        kind |-> kind, leased |-> TRUE, more |-> FALSE]]
  /\ UNCHANGED <<placed, mirrorRows, mishaps>>

List(w) ==
  LET page == {o \in MirrorOrders : placed[o].instant >= listedTo}
  IN /\ IsAt(w, "list")
     /\ Takes(w, [at |-> "read page", version |-> [o \in page |-> placed[o].version],
                  cursor |-> Sets!Max({placed[o].instant : o \in page} \cup {listedTo})])
     /\ UNCHANGED <<placed, mirrorRows, line, mishaps>>

ReadPage(w) ==
  /\ IsAt(w, "read page")
  /\ Takes(w, [at |-> "store page", seen |-> mirrored])
  /\ UNCHANGED <<placed, mirrorRows, line, mishaps>>

(* The cursor stands while anything is in quarantine.                      *)
Advanced(cursor) ==
  IF withheld' = {} /\ cursor >= listedTo THEN cursor ELSE listedTo

StorePage(w) ==
  LET task == crew[w]
      outcome == [o \in DOMAIN task.version |->
                    Outcome(o, task.seen[o], "listing", task.version[o])]
  IN /\ IsAt(w, "store page")
     /\ task.leased
     /\ Store(outcome, task.seen, "listing", task.version)
     /\ listedTo' = Advanced(task.cursor)
     /\ Goes(w, "ask")
     /\ UNCHANGED <<placed, line, mishaps>>

(* A page without its lease is rolled back; what follows it is not.        *)
LosePage(w) ==
  /\ IsAt(w, "store page") /\ ~crew[w].leased
  /\ Goes(w, "ask")
  /\ UNCHANGED <<placed, mirrorRows, line, mishaps>>

AskForItems(w) ==
  /\ IsAt(w, "ask")
  /\ Line!Ask(IF Incomplete = {} THEN {} ELSE {"hydrate"})
  /\ Goes(w, "finish")
  /\ UNCHANGED <<placed, mirrorRows, mishaps>>

(* finish, without effect if the lease is another's.                       *)
Close(w) == IF crew[w].leased THEN Line!End(crew[w].kind) ELSE UNCHANGED line

EndJob(w) ==
  /\ IsAt(w, "finish")
  /\ Close(w)
  /\ IF crew[w].more THEN Goes(w, "requeue") ELSE Rests(w)
  /\ UNCHANGED <<placed, mirrorRows, mishaps>>

(* _requeue_continuations *)
AskAgain(w) ==
  /\ IsAt(w, "requeue")
  /\ Line!Ask({"hydrate"})
  /\ Rests(w)
  /\ UNCHANGED <<placed, mirrorRows, mishaps>>

-----------------------------------------------------------------------------
(* The job of the items: hydrate_orders *)

incomplete_order_ids ==
  LET ids == SelectSeq(Issued, LAMBDA o : o \in Incomplete)
  IN SubSeq(ids, 1, IF Len(ids) < HYDRATE_BATCH_LIMIT THEN Len(ids)
                                                      ELSE HYDRATE_BATCH_LIMIT)

Choose(w) ==
  /\ IsAt(w, "choose")
  /\ Takes(w, [at |-> IF incomplete_order_ids = << >> THEN "finish" ELSE "get",
               todo |-> incomplete_order_ids, stored |-> FALSE])
  /\ UNCHANGED <<placed, mirrorRows, line, mishaps>>

GetDetail(w) ==
  /\ IsAt(w, "get")
  /\ Takes(w, [at |-> "read order", detail |-> placed[Head(crew[w].todo)].version])
  /\ UNCHANGED <<placed, mirrorRows, line, mishaps>>

(* Mutant: whose lease it is is not asked.                                 *)
MayStoreAnyway(w) == TRUE

(* assert_lease, which locks the job until the commit.                     *)
MayStore(w) == crew[w].leased

ReadOrder(w) ==
  /\ IsAt(w, "read order")
  /\ IF MayStore(w)
       THEN Takes(w, [at |-> "store order", seen |-> mirrored[Head(crew[w].todo)]])
       ELSE Rests(w)
  /\ UNCHANGED <<placed, mirrorRows, line, mishaps>>

(* _persist_detail *)
StoreOrder(w) ==
  LET task == crew[w]
      o == Head(task.todo)
      outcome == Outcome(o, task.seen, "detail", task.detail)
      rest == Tail(task.todo)
  IN /\ IsAt(w, "store order")
     /\ Store([x \in {o} |-> outcome], [x \in {o} |-> task.seen], "detail",
              [x \in {o} |-> task.detail])
     /\ crew' = [crew EXCEPT ![w] =
          [at |-> IF rest = << >> THEN "pending" ELSE "get",
           kind |-> @.kind, leased |-> @.leased, more |-> FALSE, todo |-> rest,
           stored |-> task.stored \/ outcome = "persisted"]]
     /\ UNCHANGED <<placed, listedTo, line, mishaps>>

(* Mutant: another job follows while an order has no items.                *)
FollowsAlways(w) == Incomplete # {}

(* run_sync_job: another job follows if this one got somewhere.            *)
Follows(w) == crew[w].stored /\ Incomplete # {}

CountPending(w) ==
  /\ IsAt(w, "pending")
  /\ crew' = [crew EXCEPT ![w] = [at |-> "finish", kind |-> @.kind,
                                  leased |-> @.leased, more |-> Follows(w)]]
  /\ UNCHANGED <<placed, mirrorRows, line, mishaps>>

-----------------------------------------------------------------------------
(* What fails, and the surroundings *)

Mishap == mishaps < MaxMishaps /\ mishaps' = mishaps + 1

(* A request is limited: the job returns to the line; or it is refused or  *)
(* answers for another order: the job ends.                                *)
RequestFails(w) ==
  /\ crew[w].at \in {"list", "get"} /\ Mishap
  /\ \/ Line!GoBack({crew[w].kind} \cap {kind \in Kinds : crew[w].leased})
        /\ Rests(w)
     \/ IsAt(w, "get") /\ Close(w) /\ Rests(w)
     \/ IsAt(w, "list") /\ UNCHANGED line /\ Goes(w, "ask")
  /\ UNCHANGED <<placed, mirrorRows>>

Dies(w) ==
  /\ ~IsAt(w, "rest") /\ Mishap
  /\ Rests(w)
  /\ UNCHANGED <<placed, mirrorRows, line>>

Holders(kind) ==
  {w \in DOMAIN crew : ~IsAt(w, "rest") /\ crew[w].kind = kind /\ crew[w].leased}

(* release_expired, which waits for a job that is locked.                  *)
Released(kind) ==
  /\ Line!GoBack({kind})
  /\ \A w \in Holders(kind) : ~IsAt(w, "store order")
  /\ crew' = [w \in DOMAIN crew |-> IF w \in Holders(kind)
                               THEN [crew[w] EXCEPT !.leased = FALSE] ELSE crew[w]]
  /\ UNCHANGED <<placed, mirrorRows>>

ReleaseDead(kind) == Holders(kind) = {} /\ Released(kind) /\ UNCHANGED mishaps
ReleaseLive(kind) == Holders(kind) # {} /\ Mishap /\ Released(kind)

(* schedule_periodic *)
AskForOrders ==
  /\ Line!Ask({"sync"})
  /\ UNCHANGED <<placed, mirrorRows, crew, mishaps>>

Edit(o) ==
  /\ placed[o].version < Len(Content[o])
  /\ placed' = [placed EXCEPT ![o] =
       [version |-> @.version + 1,
        instant |-> 1 + Sets!Max({placed[x].instant : x \in MirrorOrders})]]
  /\ UNCHANGED <<mirrorRows, line, crew, mishaps>>

-----------------------------------------------------------------------------
Works(w) ==
  \/ List(w) \/ ReadPage(w) \/ StorePage(w) \/ LosePage(w) \/ AskForItems(w)
  \/ Choose(w) \/ GetDetail(w) \/ ReadOrder(w) \/ StoreOrder(w) \/ CountPending(w)
  \/ EndJob(w) \/ AskAgain(w)

HydrationNext ==
  \/ \E w \in DOMAIN crew : \/ Works(w) \/ RequestFails(w) \/ Dies(w)
                     \/ \E kind \in Kinds : Begin(w, kind)
  \/ \E kind \in Kinds : ReleaseDead(kind) \/ ReleaseLive(kind)
  \/ AskForOrders
  \/ \E o \in MirrorOrders : Edit(o)

-----------------------------------------------------------------------------
(* Properties *)

(* An order counts as complete exactly when the items the mirror has of it *)
(* are a list of the origin's with live items in it, whoever wrote the     *)
(* other columns in between (registry.py:450-455).                         *)
CompleteIsReal ==
  \A o \in MirrorOrders :
    LET row == mirrored[o] IN
      /\ row.items <= placed[o].version /\ row.version <= placed[o].version
      /\ row.complete <=> row.items > 0 /\ Sent(o, row.items).items = "live"

(* A worker that lost its lease does not put older items over newer ones   *)
(* (queue.py:78-93, engine.py:492).                                        *)
ItemsGoForward ==
  \A o \in MirrorOrders : mirrored'[o].items >= mirrored[o].items

(* What the mirror says of the items of an order is true and current for   *)
(* who wrote it, although two workers write its row                        *)
(* (engine.py:487-500, rows.py:117-178).                                   *)
HydrationIsHonest == [][CompleteIsReal' /\ ItemsGoForward]_hydrationVars

(* What an order still lacks at the end ...                                *)
Wanted(o) == LET sent == Sent(o, placed[o].version)
             IN sent.items = "live" /\ ~sent.deleted
Hopeless(o) == LET sent == Sent(o, placed[o].version)
               IN sent.items # "live" /\ ~sent.deleted
Reached(o) == Cardinality({x \in MirrorOrders : Newer(x, o) /\ Hopeless(x)})
                < HYDRATE_BATCH_LIMIT

(* One worker, as deployed, and the schedule keeps asking for the orders   *)
(* (workers.py:211-222).                                                   *)
ScheduleGoesOn == Cardinality(DOMAIN crew) = 1 /\ []<>(line["sync"] # "none")

(* While it does, an order whose items the origin has becomes complete,    *)
(* whatever is edited, fails or dies in between, unless a whole batch of   *)
(* newer ones never will (engine.py:471-484).                              *)
ItemsArrive ==
  ScheduleGoesOn =>
    \A o \in Placeable :
      <>[](o \in MirrorOrders /\ Wanted(o) /\ Reached(o))
        => <>[](o \in MirrorOrders /\ mirrored[o].complete)

(* And the mirror comes to show the origin, although details that do not   *)
(* map hold the cursor back; in the quarantine stays only what cannot be   *)
(* mapped as it is (engine.py:249-267, rows.py:49-59).  With two workers a *)
(* detail may be written over a newer page: it was read before it.         *)
MirrorCatchesUp ==
  ScheduleGoesOn =>
    <>[](/\ \A o \in MirrorOrders : mirrored[o].version = placed[o].version
         /\ \A o \in withheld : Sent(o, placed[o].version).items = "bad")

(* The jobs of the items do not follow one another for ever: when nobody   *)
(* asks for the orders any more, they come to an end, though orders        *)
(* without items remain (diagnostico-carga-pedidos.md:114-115).            *)
HydrationRests ==
  <>[](line["sync"] = "none") => <>[](line["hydrate"] = "none")

(* The hydration gets everything, everywhere, and then stops               *)
(* (engine.py:503-571, workers.py:33-41).                                  *)
HydrationServes == ItemsArrive /\ MirrorCatchesUp /\ HydrationRests

=============================================================================
