----------------------------- MODULE MCScreens ------------------------------
(* Every view of the application, with at most two of its calling handlers.   *)
EXTENDS Screens, ViewCalls, DataViews, OversightViews, StudioViews
MCViews == ViewCatalog @@ DataCatalog @@ OversightCatalog @@ StudioCatalog

(* A run of the pipeline or of a calculation ends with pipeline_done, which   *)
(* the server never sends.                                                    *)
MCTold == {"running"}
MCLeftStale == {"quarantineSummary", "selectedDataset", "compliance", "crossRefs", "validation"}
MCLeftBehind == {"settingsPreview", "reconcileResult", "resolved"}
MCCancelled == {"traceData", "fields"}

(* What the theorems about any catalogue of views ask for holds of this one:  *)
(* the handlers answer for their flags, read again what they change, and load *)
(* what belongs to the selected item for that item, whichever are played.     *)
ASSUME CatalogAccountable == \A v \in DOMAIN Views : Accountable(Views[v])
ASSUME CatalogRefreshing == \A v \in DOMAIN Views : \A p \in Plays(Views[v]) : Refreshing(p)
ASSUME CatalogFollowsChosen == \A v \in DOMAIN Views : \A p \in Plays(Views[v]) : FollowsChosen(p)
=============================================================================
