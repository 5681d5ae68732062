----------------------------- MODULE StoreCalls -----------------------------
(* The calls of the front end's stores (frontend/src/stores), one definition  *)
(* per store: what each of its methods asks of the server and what it does    *)
(* with the answer.                                                           *)
EXTENDS Calls, TLC

AlertCalls == Store([
    fetchAlerts    |-> Busy("loading", Fetch({"alerts"})),
    fetchAlert     |-> OfChosen(Busy("loading", Handler(<<Read({Into("selectedAlert", "traces")})>>))),
    generateAlerts |-> Busy("loading", ChangeAndFetch("alerts"))])

(* The next three put the selected case in place only if it is the one they   *)
(* were about.                                                                *)
ReadCases == Read({Into("cases", "cases"), Replaced("selectedCase", "cases")})
UpdateCase == OfChosen(Handler(<<Change({"cases"}), ReadCases>>))
DeleteCase == OfChosen(Forgets({"selectedCase"}, ChangeAndFetch("cases")))
CaseCalls == Store([
    fetchCases    |-> Busy("loading", Fetch({"cases"})),
    fetchCase     |-> OfChosen(Busy("loading", Handler(<<Read({Into("selectedCase", "cases")})>>))),
    createCase    |-> ChangeAndFetch("cases"),
    updateStatus  |-> UpdateCase,
    addAnnotation |-> UpdateCase,
    deleteCase    |-> DeleteCase,
    fetchStats    |-> Handler(<<Read({Into("stats", "cases")})>>)])

DashboardCalls == Store([
    fetchStats        |-> Busy("loading", Handler(<<Read({Into("stats", "alerts")})>>)),
    fetchWidgetConfig |-> Fetch({"widgetConfig"})])

(* The checkpoint is asked for again after a step, except after a jump: the   *)
(* store then assumes that the server went where it was told to.              *)
Checkpoint == {Into("checkpoint", "demo")}
DemoStep == Busy("loading", Handler(<<Change({"demo"}), Read(Checkpoint)>>))
DemoCalls == Store([
    fetchState |-> Handler(<<Read(Checkpoint)>>),
    reset      |-> DemoStep,
    step       |-> DemoStep,
    skipToEnd  |-> DemoStep,
    jumpTo     |-> Busy("loading", Handler(<<Exchange({"demo"}, Checkpoint)>>))])

GlossaryCalls == Store([
    fetchTerms      |-> OfChosen(Busy("loading", Fetch({"terms"}))),
    fetchCategories |-> Fetch({"categories"}),
    fetchMetrics    |-> OfChosen(Busy("loading", Fetch({"metrics"}))),
    fetchDimensions |-> Fetch({"dimensions"}),
    fetchDMBOK      |-> Fetch({"dmbok"}),
    fetchStandards  |-> Handler(<<Read({Into(s, "standards") : s \in {"standards", "gapStandards"}})>>),
    fetchEntityGaps |-> Fetch({"entityGaps"})])

(* switchRole does not wait for the registry it asks for at its end.          *)
GovernanceCalls == Store([
    fetchRoles       |-> Busy("loading", Handler(<<Read({Into("currentRole", "role"), Into("roles", "roles")})>>)),
    fetchPolicies    |-> Busy("loading", Fetch({"policies"})),
    fetchPiiRegistry |-> Handler(<<Read({Into("piiRegistry", "role")})>>),
    switchRole       |-> Handler(<<Exchange({"role"}, {Into("currentRole", "role")}),
                                   Read({Into("piiRegistry", "role")})>>)])

Traced(slots) == Busy("loading", OfChosen(Handler(<<Read({Into(s, "lineage") : s \in slots})>>)))
LineageCalls == Store([
    fetchUnifiedGraph      |-> Traced({"unifiedGraph"}),
    fetchTierLineage       |-> Traced({"tierGraph"}),
    fetchFieldLineage      |-> Traced({"fieldTraces"}),
    traceField             |-> Traced({"fieldTraces", "selectedField"}),
    fetchImpact            |-> Traced({"impactResult"}),
    fetchAlertLineage      |-> Traced({"alertLineage"}),
    fetchCoverage          |-> Busy("loading", Fetch({"coverage"})),
    previewThresholdChange |-> Traced({"settingsPreview"}),
    fetchQualityOverlay    |-> Fetch({"qualityOverlay"})])

FetchAll == Busy("loading", Fetch({"entities", "calculations", "settings", "detectionModels"}))
SaveAndFetch(name) == ChangeAndFetch(name)
EntityCalls == [fetchEntities |-> Fetch({"entities"}), saveEntity |-> SaveAndFetch("entities"),
                deleteEntity |-> ChangeAndFetch("entities")]
CalculationCalls == [fetchCalculations |-> Fetch({"calculations"}), saveCalculation |-> SaveAndFetch("calculations"),
                     deleteCalculation |-> ChangeAndFetch("calculations")]
SettingCalls == [fetchSettings |-> Fetch({"settings"}), saveSetting |-> SaveAndFetch("settings"),
                 deleteSetting |-> ChangeAndFetch("settings")]
ModelCalls == [fetchDetectionModels |-> Fetch({"detectionModels"}), saveDetectionModel |-> SaveAndFetch("detectionModels"),
               updateDetectionModel |-> SaveAndFetch("detectionModels"),
               deleteDetectionModel |-> ChangeAndFetch("detectionModels")]
PatternCalls == [fetchMatchPatterns |-> Fetch({"matchPatterns"}), saveMatchPattern |-> SaveAndFetch("matchPatterns"),
                 deleteMatchPattern |-> ChangeAndFetch("matchPatterns")]
TemplateCalls == [fetchScoreTemplates |-> OfChosen(Fetch({"scoreTemplates"})), saveScoreTemplate |-> SaveAndFetch("scoreTemplates"),
                  deleteScoreTemplate |-> ChangeAndFetch("scoreTemplates")]
(* A reset of an item to its shipped version is not followed by a read.       *)
ResetToOob(name) == Handler(<<Change({name})>>)

MetadataCalls == Store([fetchAll |-> FetchAll]
    @@ EntityCalls @@ CalculationCalls @@ SettingCalls @@ ModelCalls @@ PatternCalls @@ TemplateCalls)

NavigationCalls == Store([fetchNavigation |-> Unless({"groups"}, Busy("loading", Fetch({"groups"})))])

(* The flag of a run is reset by the socket's pipeline_done, or by an error.   *)
RunCalls == [
    runPipeline    |-> OnlyOnError(Busy("running", Handler(<<Exchange({"run"}, {Into("steps", "run")})>>))),
    runCalculation |-> OnlyOnError(Busy("running", Handler(<<Change({"run"})>>)))]
RunStage == Drops({"stageResult"}, Busy("stageRunning",
                Handler(<<Exchange({"stageRun"}, {Into("stageResult", "stageRun")})>>)))
FetchMetrics == Patient(Fetch({"execution", "completeness", "validity", "sla"}))
PipelineCalls == Store(RunCalls @@ [
    fetchStages  |-> Fetch({"stages"}),
    runStage     |-> RunStage,
    fetchMetrics |-> FetchMetrics,
    fetchEvents  |-> Fetch({"events"}),
    fetchRuns    |-> Fetch({"runs"})])

RegulatoryCalls == Store([
    fetchAll            |-> Busy("loading", Fetch({"regulations", "graph", "suggestions"})),
    fetchSuggestions    |-> Fetch({"suggestions"}),
    fetchComplianceData |-> Fetch({"complianceMatrix", "bcbs239"})])

SubmissionCalls == Store([
    fetchSubmissions      |-> Busy("loading", Fetch({"submissions"})),
    createSubmission      |-> ChangeAndFetch("submissions"),
    updateStatus          |-> ChangeAndFetch("submissions"),
    deleteSubmission      |-> ChangeAndFetch("submissions"),
    rerunRecommendations  |-> ChangeAndFetch("submissions")])

UseCaseCalls == Store([
    fetchUseCases |-> Busy("loading", Fetch({"useCases"})),
    saveUseCase   |-> ChangeAndFetch("useCases"),
    deleteUseCase |-> ChangeAndFetch("useCases"),
    runUseCase    |-> Handler(<<Change({"useCaseRuns"})>>)])

(* The hooks that load once and keep what they loaded for all components.     *)
HookCalls == Store([
    useFormatRules   |-> Unless({"formatRules"}, Fetch({"formatRules"})),
    useWorkflowStates |-> Unless({"workflow"}, Fetch({"workflow"}))])
=============================================================================
