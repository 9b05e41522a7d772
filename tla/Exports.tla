------------------------------- MODULE Exports -------------------------------
(***************************************************************************)
(* The export of the list of orders (src/app/services/exports.py): page    *)
(* after page of the report, two statements each -- how many there are,    *)
(* and which -- while the synchronisation goes on, under a run recorded    *)
(* before the first and closed after the last.                             *)
(***************************************************************************)
EXTENDS Crm

CONSTANTS
  RowId,           (* the ids of the orders' rows, which break ties *)
  PageLength,      (* orders in a page: 100 in the code *)
  ExportFilters,   (* the filters an instance exports with *)
  MaxExports       (* model bound: exports asked for *)

(* The ids are the primary key of the orders.                              *)
ASSUME ExportConstants ==
  /\ PageLength \in Nat \ {0} /\ DOMAIN RowId = BookOrders
  /\ \A o \in BookOrders : RowId[o] \in Int
  /\ \A o, p \in BookOrders : o # p => RowId[o] # RowId[p]

VARIABLES
  export,       (* what the export under way has written and counted *)
  exportRuns    (* the export_runs table *)

exportVars == <<export, exportRuns>>

NoExport == [at |-> "rest"]

ExportInit == export = NoExport /\ exportRuns = << >>

(* The row of the run is committed before anything is read.  Ghost: from   *)
(* here on the mirror is quiet until it changes.                           *)
CreateRun(f) ==
  /\ export = NoExport /\ Len(exportRuns) < MaxExports
  /\ exportRuns' = Append(exportRuns, [status |-> "running", rows |-> 0])
  /\ export' = [at |-> "count", filters |-> f, page |-> 1, pages |-> 0,
                written |-> << >>, quiet |-> TRUE]

CountOrders ==
  /\ export.at = "count"
  /\ LET total == Cardinality(Matching(export.filters, date_bounds(export.filters)))
     IN export' = [export EXCEPT !.at = "list",
                     !.pages = (total + PageLength - 1) \div PageLength]
  /\ UNCHANGED exportRuns

(* Mutant: the last page is left out.                                      *)
LastPageEarly(page, pages) == page + 1 >= pages

LastPage(page, pages) == page >= pages

InOrder(orders) ==
  [n \in 1..Cardinality(orders) |-> CHOOSE o \in orders : PlaceIn(o, orders, RowId) = n - 1]

CloseRun(status, rows) ==
  /\ exportRuns' = [exportRuns EXCEPT ![Len(exportRuns)] = [status |-> status, rows |-> rows]]
  /\ export' = [export EXCEPT !.at = status]

(* The rows of the page go to the file; the run ends after the last page.  *)
ListOrders ==
  /\ export.at = "list"
  /\ LET rows == OrdersPage(export.filters, RowId, export.page, PageLength)
     IN export' = [export EXCEPT !.written = @ \o InOrder(rows), !.page = @ + 1,
                     !.at = IF LastPage(export.page, export.pages) THEN "close" ELSE "count"]
  /\ UNCHANGED exportRuns

FinishRun ==
  export.at = "close" /\ CloseRun("success", Len(export.written))

(* A statement or the writing of the file fails.                           *)
ExportFails ==
  export.at \in {"count", "list", "close"} /\ CloseRun("error", Len(export.written))

(* The file is downloaded and removed, or the process is killed: a run     *)
(* that was going on stays "running".                                      *)
ExportEnds == export # NoExport /\ export' = NoExport /\ UNCHANGED exportRuns

ExportNext ==
  \/ \E f \in ExportFilters : CreateRun(f)
  \/ CountOrders \/ ListOrders \/ FinishRun \/ ExportFails \/ ExportEnds

(* The synchronisation stores an order meanwhile, or midnight passes.      *)
MirrorMovesOn(Moves) ==
  /\ Moves
  /\ export' = IF export = NoExport \/ <<book', today'>> = <<book, today>> THEN export
               ELSE [export EXCEPT !.quiet = FALSE]
  /\ UNCHANGED exportRuns

-----------------------------------------------------------------------------
(* An export that succeeded while nothing changed has every order of the   *)
(* filters once, the later first, and says how many they are.  With a      *)
(* change between two pages an order may be missing or there twice         *)
(* (exports.py, _iter_rows).                                               *)
ExportIsExact ==
  export.at = "success" /\ export.quiet =>
    LET all == Matching(export.filters, date_bounds(export.filters))
    IN /\ export.written = InOrder(all)
       /\ exportRuns[Len(exportRuns)].rows = Cardinality(all)

===============================================================================
