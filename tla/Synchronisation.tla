--------------------------- MODULE Synchronisation ---------------------------
(***************************************************************************)
(* The two kinds of jobs of the ERP's mirror: those that read the changes  *)
(* of a resource page by page (SyncEngine) and those that complete the     *)
(* items of orders one by one (Hydration).  Each is detailed where the     *)
(* other is coarse, so a behaviour is about one of them (focus).           *)
(***************************************************************************)
EXTENDS SyncEngine, Hydration

VARIABLE focus   (* what this behaviour is about *)

synchronisation == <<focus, syncVars, hydrationVars>>

SynchronisationInit ==
  /\ focus \in {"changes", "items"}
  /\ SyncInit /\ HydrationInit
  /\ focus = "items" => head = 0
  /\ focus = "changes" => DOMAIN placed = {}

ChangesMove(A) == focus = "changes" /\ A /\ UNCHANGED <<focus, hydrationVars>>
ItemsMove(A) == focus = "items" /\ A /\ UNCHANGED <<focus, syncVars>>

SynchronisationNext ==
  \/ ChangesMove(SyncNext \/ \E w \in Workers : Crash(w))
  \/ ItemsMove(HydrationNext)

SynchronisationSafe ==
  SynchronisationInit /\ [][SynchronisationNext]_synchronisation

(* The scheduler runs the workers again and again, time passes, and jobs   *)
(* are taken in the order they were asked for (queue.py:124-150), so none  *)
(* waits for ever.  The schedule asks for changes; whether it keeps asking *)
(* for orders is left to the properties.                                   *)
SynchronisationFairness ==
  /\ \A w \in Workers : WF_synchronisation(ChangesMove(SyncStep(w)))
  /\ WF_synchronisation(ChangesMove(\E j \in Jobs : Orphan(j) /\ Passing(j)))
  /\ WF_synchronisation(ChangesMove(\E j \in Jobs : Due(j)))
  /\ \A k \in {k \in Keys : k[2] = "incremental"} :
       WF_synchronisation(ChangesMove(Request(k)))
  /\ WF_synchronisation(ItemsMove(\E w \in DOMAIN crew :
       Works(w) \/ \E kind \in Kinds : Begin(w, kind)))
  /\ SF_synchronisation(ItemsMove(\E w \in DOMAIN crew : Begin(w, "hydrate")))
  /\ WF_synchronisation(ItemsMove(\E kind \in Kinds : ReleaseDead(kind)))

SynchronisationSpec == SynchronisationSafe /\ SynchronisationFairness

=============================================================================
