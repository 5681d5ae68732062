--------------------------- MODULE OversightViews ---------------------------
(* The views that watch and govern: the pipeline, roles and masking, the      *)
(* observability log, the glossary and the map of regulations.  As in ViewCalls,   *)
(* each is its effects, controls and parts.                                   *)
EXTENDS StoreCalls

LoadedUnless(name, call) == Effect(Unless({name}, call))

(* Pipeline monitor: a stage and the whole run have buttons of their own; the *)
(* panels below are read when the view is entered.                            *)
RunButton == Off({"running"}, PipelineCalls.runPipeline)
StageButton == Off({"stageRunning"}, PipelineCalls.runStage)
StagesPanel == Part({"stages"})
ContractValidation == Part({"stageResult"})
StepsTable == Part({"steps"})
MetricsPanel == Part({"execution", "completeness", "validity", "sla"})
EventTimeline == Part({"events"})
PipelineRunsPanel == Part({"runs"})
PipelineMonitor == View({"fetchStages", "fetchMetrics", "fetchEvents", "fetchRuns"}, {},
    [stages |-> StagesPanel, validation |-> ContractValidation, steps |-> StepsTable,
     metrics |-> MetricsPanel, events |-> EventTimeline, runs |-> PipelineRunsPanel],
    Effects(Only(PipelineCalls, {"fetchStages", "fetchMetrics", "fetchEvents", "fetchRuns"}))
    @@ [runPipeline |-> RunButton, runStage |-> StageButton])

-----------------------------------------------------------------------------
(* Governance: roles and policies are loaded once, by the view and by the tab *)
(* that shows them.                                                           *)
MaskingPoliciesTab == HiddenBy({"loading"}, Part({"policies"}))
RoleManagementTab == Part({"roles", "currentRole"})
(* The audit log is read again when the role has changed.                     *)
ReadAuditLog == Effect(Patient(Busy("auditLoading", Handler(<<Read({Into("entries", "role")})>>))))
SwitchRole == Then(GovernanceCalls.switchRole, Handler(<<Read({Into("entries", "role")})>>))
AuditLogTab == HiddenBy({"auditLoading"}, Part({"entries"}))
DataGovernance == View({"fetchRoles", "fetchPolicies", "audit"}, {},
    [policies |-> MaskingPoliciesTab, roles |-> RoleManagementTab, audit |-> AuditLogTab],
    [fetchRoles |-> LoadedUnless("roles", GovernanceCalls.fetchRoles),
     fetchPolicies |-> LoadedUnless("policies", GovernanceCalls.fetchPolicies),
     audit |-> ReadAuditLog, switchRole |-> SwitchRole])

(* What each role sees of an entity, one being selected from the start.        *)
FetchComparison == Patient(Effect(OfChosen(Busy("loading", Handler(<<Read({Into("comparison", "tables")})>>)))))
DataPreviewTab == About(HiddenBy({"loading"}, Part({"comparison"})))
DataPreview == View({"start"}, {"comparison"}, [fields |-> DataPreviewTab],
    [start |-> Effect(Select({})), comparison |-> FetchComparison, setEntity |-> Select({})])

(* The event log under a filter, the check of the log's chain day by day, and *)
(* the counts of the events.                                                  *)
FetchFiltered == Patient(Effect(OfChosen(Busy("eventsLoading", Handler(<<Read({Into("eventLog", "eventLog")})>>)))))
VerifyChain == Patient(Effect(Busy("chainLoading", Fetch({"chain"}))))
FetchCounts == Patient(Effect(Busy("statsLoading", Fetch({"counts"}))))
EventLog == About(HiddenBy({"eventsLoading"}, Part({"eventLog"})))
ChainIntegrity == HiddenBy({"chainLoading"}, Part({"chain"}))
EventChart == HiddenBy({"statsLoading"}, Part({"counts"}))
ObservabilityTab == View({"start", "chain", "counts"}, {"events"},
    [log |-> EventLog, integrity |-> ChainIntegrity, chart |-> EventChart],
    [start |-> Effect(Select({})), events |-> FetchFiltered, chain |-> VerifyChain, counts |-> FetchCounts,
     setFilter |-> Select({})])

-----------------------------------------------------------------------------
(* Glossary.  A category is selected and its terms asked for; every key typed *)
(* in the search box asks again.                                              *)
FetchTermsOfCategory == Effect(GlossaryCalls.fetchTerms)
HandleSearch == GlossaryCalls.fetchTerms
TermsPart == About(Part({"terms"}))
TermsTab == View({"categories", "start"}, {"terms"}, [categories |-> Part({"categories"}), list |-> TermsPart],
    [categories |-> Effect(GlossaryCalls.fetchCategories), start |-> Effect(Select({})),
     terms |-> FetchTermsOfCategory, handleCategoryClick |-> Select({}), handleSearch |-> HandleSearch])

MetricsPart == Part({"metrics", "dimensions"})
MetricsTab == View({"metrics", "dimensions"}, {}, [metrics |-> MetricsPart],
    [metrics |-> Effect([GlossaryCalls.fetchMetrics EXCEPT !.ofChosen = FALSE]),
     dimensions |-> Effect(GlossaryCalls.fetchDimensions)])

OwnershipMatrix == Effect(Busy("loading", Fetch({"matrix"})))
DmbokPart == Part({"dmbok"})
OwnershipPart == HiddenBy({"loading"}, Part({"matrix"}))
StandardsPart == Part({"standards", "gapStandards"})
GapsPart == Part({"entityGaps"})
GlossaryTabs == View({"dmbok", "matrix", "standards", "gaps"}, {},
    [dmbok |-> DmbokPart, ownership |-> OwnershipPart, standards |-> StandardsPart, gaps |-> GapsPart],
    [dmbok |-> LoadedUnless("dmbok", GlossaryCalls.fetchDMBOK), matrix |-> OwnershipMatrix,
     standards |-> LoadedUnless("standards", GlossaryCalls.fetchStandards),
     gaps |-> LoadedUnless("entityGaps", GlossaryCalls.fetchEntityGaps)])

-----------------------------------------------------------------------------
(* Map of regulations.  The compliance matrix is read when its tab is opened  *)
(* first, and kept.                                                           *)
ComplianceMatrix == LoadedUnless("complianceMatrix", RegulatoryCalls.fetchComplianceData)
TraceabilityGraph == HiddenBy({"loading"}, Part({"regulations", "graph"}))
ArticleGrid == HiddenBy({"loading"}, Part({"regulations", "graph"}))
SuggestionsPanel == HiddenBy({"loading"}, Part({"suggestions"}))
StandardsComplianceContent == HiddenBy({"loading"}, Part({"complianceMatrix", "bcbs239"}))
RegulatoryMap == View({"fetchAll", "compliance"}, {},
    [graph |-> TraceabilityGraph, details |-> ArticleGrid, suggestions |-> SuggestionsPanel,
     standards |-> StandardsComplianceContent],
    [fetchAll |-> Effect(RegulatoryCalls.fetchAll), compliance |-> ComplianceMatrix])

OversightCatalog == [pipeline |-> PipelineMonitor, governance |-> DataGovernance, preview |-> DataPreview,
    observability |-> ObservabilityTab, terms |-> TermsTab, metrics |-> MetricsTab, glossary |-> GlossaryTabs,
    regulatory |-> RegulatoryMap]
=============================================================================
