--------------------------------- MODULE BiApp ---------------------------------
(***************************************************************************)
(* The older BI as one process: its synchronisation, the reports over what *)
(* it stored, the attendances of the leads and the exports.  The reports   *)
(* read the tables that the synchronisation writes; of a page of it,       *)
(* committed as a whole, what they can see is an order at a time or more   *)
(* (OrderMirror).  A behaviour is about one of the parts (focus): they     *)
(* share the mirror of the orders and no other row.                        *)
(***************************************************************************)
EXTENDS BiSync, Reports, Exports

CONSTANT Seen   (* model bound: of each focus, the versions of orders it sees *)

Parts == {"sync", "reports", "leads", "exports"}

ASSUME SeenIsSent ==
  /\ DOMAIN Seen = Parts
  /\ \A part \in Parts : \A o \in DOMAIN Seen[part] :
       o \in BookOrders /\ Seen[part][o] \subseteq DOMAIN Versions[o]

VARIABLE focus   (* the part of the BI this behaviour is about *)

biApp == <<focus, biVars, mirrorTables, crmVars, exportVars>>

BiAppInit ==
  /\ focus \in Parts
  /\ BiInit /\ MirrorInit /\ CrmInit /\ ExportInit

SyncMoves(A) ==
  focus = "sync" /\ A /\ UNCHANGED <<focus, mirrorTables, crmVars, exportVars>>

MirrorMoves ==
  \/ \E o \in DOMAIN Seen[focus] : \E v \in Seen[focus][o] : StoreOrder(o, Versions[o][v])
  \/ DayPasses

ReadersMove ==
  /\ focus \in {"reports", "leads"} /\ MirrorMoves
  /\ UNCHANGED <<focus, biVars, crmVars, exportVars>>

LeadsMove ==
  focus = "leads" /\ CrmNext /\ UNCHANGED <<focus, biVars, mirrorTables, exportVars>>

ExportMoves ==
  /\ focus = "exports"
  /\ \/ ExportNext /\ UNCHANGED mirrorTables
     \/ MirrorMovesOn(MirrorMoves)
  /\ UNCHANGED <<focus, biVars, crmVars>>

BiAppNext == SyncMoves(BiNext) \/ ReadersMove \/ LeadsMove \/ ExportMoves

(* The event loop runs every task, and time passes.                        *)
FairBiAppSpec ==
  /\ BiAppInit /\ [][BiAppNext]_biApp
  /\ \A p \in Runners : WF_biApp(SyncMoves(RunnerStep(p)))
  /\ \A r \in Resources : WF_biApp(SyncMoves(Abandoned(r) /\ HeartbeatAges(r)))

-----------------------------------------------------------------------------
(* What one reader can compare agrees: the reports among each other, the   *)
(* history of a cart with the order, an export with the list               *)
(* (analytics_v2.py, analytics.py, price_savings.py, b2b_carts.py,         *)
(* exports.py: each figure by a query of its own).                         *)
ReadModelsAgree ==
  focus # "sync" =>
    /\ MirrorTypeOK /\ HistoryIsCurrent /\ ExportIsExact
    /\ focus = "reports" => ReportsAgree

(* The lists of leads and the dashboard of attendances agree, and an end   *)
(* is undone by no one but a first claim that was under way (crm.py).      *)
LeadsHold ==
  /\ [](focus = "leads" => LeadsAreSound)
  /\ [][OnlyTheFirstClaimReopens]_crmVars

===============================================================================
