----------------------------- MODULE DataViews ------------------------------
(* The views of the data: tables and queries, reference data, quality, the    *)
(* tiers of the medallion, lineage.  As in ViewCalls, each view is the        *)
(* effects, controls and parts of its components.                             *)
EXTENDS StoreCalls

(* Schema and data explorer: what is shown of a table is loaded when it is    *)
(* selected, and what was shown of another stays until then.                  *)
Loaded(flag, names) == Effect(Busy(flag, Fetch(names)))
TableList == Loaded("loading", {"tables"})
TableSchema == Patient(Effect(OfChosen(Handler(<<Read({Into("columns", "tables")})>>))))
TablePreview == Patient(Effect(OfChosen(Handler(<<Read({Into("preview", "tables")})>>))))
TablesPart == HiddenBy({"loading"}, Part({"tables"}))
ColumnsPart == About(HiddenBy({"loading"}, Part({"columns"})))
PreviewPart == About(HiddenBy({"loading"}, Part({"preview"})))
SchemaExplorer == View({"tables"}, {"schema", "preview"},
    [tables |-> TablesPart, columns |-> ColumnsPart, preview |-> PreviewPart],
    [tables |-> TableList, schema |-> TableSchema, preview |-> TablePreview, setSelectedTable |-> Select({})])
DataManager == View({"tables", "gridColumns"}, {"preview"},
    [tables |-> TablesPart, preview |-> PreviewPart],
    [tables |-> TableList, gridColumns |-> Effect(Fetch({"gridColumns"})), preview |-> TablePreview,
     setSelected |-> Select({})])

(* The SQL console and the assistant.  An error is shown in place of a result.*)
Presets == Effect(Fetch({"presets"}))
Execute(flag) == Patient(Off({flag}, Busy(flag, Handler(<<Read({Into("result", "tables")})>>))))
Chat == Off({"aiLoading"}, Busy("aiLoading", Handler(<<Read({Into("messages", "assistant")})>>)))
ResultsPart == Part({"result"})
ChatPart == Part({"messages"})
SQLConsole == View({"presets"}, {}, [results |-> ResultsPart, chat |-> ChatPart, presets |-> Part({"presets"})],
    [presets |-> Presets, execute |-> Execute("loading"), handleAiSend |-> Chat])
Mode == Effect(Fetch({"mode"}))
Sequences == Effect(Fetch({"sequences"}))
LoadSequence == Handler(<<Read({Into("messages", "assistant")})>>)
AIAssistant == View({"mode", "sequences"}, {}, [chat |-> ChatPart, query |-> ResultsPart],
    [mode |-> Mode, sequences |-> Sequences, handleSend |-> Chat, loadSequence |-> LoadSequence,
     execute |-> Execute("executing")])

-----------------------------------------------------------------------------
(* Reference data.  A reconciliation reads the records of its entity again,   *)
(* without waiting for them.                                                  *)
Configs == Picks(Loaded("loading", {"configs"}))
GoldenRecords == Drops({"crossRefs"}, Effect(OfChosen(Handler(<<Read({Into("recordSet", "golden")})>>))))
CrossReferences == Needs({"recordSet"}, OfChosen(Handler(<<Read({Into("crossRefs", "golden")})>>)))
\* Mutant: the records are not read again.
ReconcileAlone == OfChosen(Off({"reconciling"}, Busy("reconciling",
                      Handler(<<Exchange({"golden"}, {Into("reconcileResult", "golden")})>>))))
Reconcile == UntilFirst(OfChosen(Off({"reconciling"}, Busy("reconciling",
                 Handler(<<Exchange({"golden"}, {Into("reconcileResult", "golden")}),
                           Read({Into("recordSet", "golden")})>>)))))
RecordList == About(Part({"recordSet"}))
RecordDetail == About(Part({"crossRefs"}))
ReconciliationBanner == About(Part({"reconcileResult"}))
ReferenceData == View({"configs"}, {"records"},
    [entities |-> HiddenBy({"loading"}, Part({"configs"})), records |-> RecordList, detail |-> RecordDetail,
     dashboard |-> ReconciliationBanner],
    [configs |-> Configs, records |-> GoldenRecords, setSelectedEntity |-> Select({}),
     setSelectedRecord |-> CrossReferences, handleReconcile |-> Reconcile])

-----------------------------------------------------------------------------
(* Data quality.  The profile is of an entity in a tier, selected from the    *)
(* start.                                                                     *)
QualityBoard == Effect(Busy("loading", Handler(<<Read(Copies({"dimensions", "scores", "quarantine"})
                    \cup {Into("quarantineSummary", "quarantine")})>>)))
Profile == Patient(Effect(OfChosen(Busy("profileLoading", Handler(<<Read({Into("profile", "tables")})>>)))))
Resolve == Handler(<<Exchange({"quarantine"}, Copies({"quarantine"}))>>)
QualityScores == HiddenBy({"loading"}, Part({"scores"}))
QualitySpider == HiddenBy({"loading"}, Part({"scores", "dimensions"}))
QuarantineQueue == HiddenBy({"loading"}, Part({"quarantine", "quarantineSummary"}))
DataProfiling == About(HiddenBy({"loading", "profileLoading"}, Part({"profile"})))
DataQuality == View({"start", "board"}, {"profile"},
    [scores |-> QualityScores, spider |-> QualitySpider, queue |-> QuarantineQueue, profiling |-> DataProfiling],
    [start |-> Effect(Select({})), board |-> QualityBoard, profile |-> Profile, setProfileEntity |-> Select({}),
     handleRetry |-> Resolve, handleOverride |-> Resolve])

-----------------------------------------------------------------------------
(* Analytics tiers, a view per tab.                                           *)
Platinum == Picks(Loaded("loading", {"platinumConfig", "datasets"}))
SelectedKpi == Patient(Effect(OfChosen(Handler(<<Read({Into("selectedDataset", "datasets")})>>))))
GenerateAll == Opens(Off({"generating"}, Busy("generating", Handler(<<Exchange({"datasets"}, Copies({"datasets"}))>>))))
KpiCards == HiddenBy({"loading"}, Part({"datasets", "platinumConfig"}))
KpiDetail == About(HiddenBy({"loading"}, Part({"selectedDataset"})))
PlatinumTab == View({"platinum"}, {"kpi"}, [cards |-> KpiCards, detail |-> KpiDetail],
    [platinum |-> Platinum, kpi |-> SelectedKpi, setSelectedKpi |-> Select({}), handleGenerateAll |-> GenerateAll])

Sandboxes == Loaded("loading", {"sandboxes"})
Comparison == Patient(Effect(OfChosen(Handler(<<Read({Into("comparison", "sandboxes")})>>))))
SandboxAnswer == Handler(<<Exchange({"sandboxes"}, Copies({"sandboxes"}))>>)
CreateSandbox == Anew(Off({"creating"}, Busy("creating", SandboxAnswer)))
RunSandbox == OfChosen(Anew(Off({"runningSandbox"}, Busy("runningSandbox", SandboxAnswer))))
DiscardSandbox == OfChosen(Leaves(Forgets({"comparison"}, SandboxAnswer)))
SandboxList == HiddenBy({"loading"}, Part({"sandboxes"}))
SandboxDetail == About(HiddenBy({"loading"}, Part({"comparison"})))
SandboxTab == View({"sandboxes"}, {"comparison"}, [list |-> SandboxList, detail |-> SandboxDetail],
    [sandboxes |-> Sandboxes, comparison |-> Comparison, setSelectedSandbox |-> Select({}),
     handleCreateSandbox |-> CreateSandbox, handleRunSandbox |-> RunSandbox, handleDiscardSandbox |-> DiscardSandbox])

Archive == Effect(Busy("loading", Handler(<<Read({Into("archiveConfig", "archiveConfig"),
               Into("archiveEntries", "archive"), Into("compliance", "archive")})>>)))
Export == Off({"exporting"}, Busy("exporting", Handler(<<Exchange({"archive"}, {Into("archiveEntries", "archive")})>>)))
ArchivePart == HiddenBy({"loading"}, Part({"archiveEntries", "compliance"}))
ArchiveTab == View({"archive"}, {}, [archive |-> ArchivePart],
    [archive |-> Archive, handleExport |-> Export])

-----------------------------------------------------------------------------
(* Medallion overview.  The lakehouse is loaded when its tab is opened first. *)
Architecture == Loaded("loading", {"tiers", "contracts", "stages"})
(* Five of the lists it loads are only read: they are one slot here.          *)
Lakehouse == Patient(Effect(Unless({"lakehouse"}, Busy("lhLoading",
                 Handler(<<Read({Into("lakehouse", "lakehouse"), Into("mvStatus", "mvs")})>>)))))
RunTierStage == Busy("runningStage", Handler(<<Exchange({"tables"}, {Into("stageStatus", "tables")})>>))
RefreshViews == Handler(<<Exchange({"mvs"}, {Into("mvStatus", "mvs")})>>)
ArchitectureTab == HiddenBy({"loading"}, Part({"tiers", "contracts", "stages", "stageStatus"}))
LakehousePanels == HiddenBy({"loading", "lhLoading"}, Part({"lakehouse"}))
MaterializedViewsPanel == HiddenBy({"loading", "lhLoading"}, Part({"mvStatus"}))
MedallionOverview == View({"architecture", "lakehouse"}, {},
    [architecture |-> ArchitectureTab, lakehouse |-> LakehousePanels,
     views |-> MaterializedViewsPanel],
    [architecture |-> Architecture, lakehouse |-> Lakehouse, handleRunStage |-> RunTierStage,
     handleMVRefresh |-> RefreshViews])

-----------------------------------------------------------------------------
(* Lineage, a view per tab.  While the store is loading the tab is not there: *)
(* a trace, an analysis or a preview starts it anew.                          *)
UnifiedGraph == Effect(LineageCalls.fetchUnifiedGraph)
CoverageCall == LineageCalls.fetchCoverage
LineageGraphPart == About(HiddenBy({"loading"}, Part({"unifiedGraph"})))
CoverageModal == Part({"coverage"})
LineageExplorer == View({"graph"}, {"graph"}, [graph |-> LineageGraphPart, coverage |-> CoverageModal],
    [graph |-> UnifiedGraph, handleEntityToggle |-> Select({}), fetchCoverage |-> CoverageCall])

FieldsOfEntity == Drops({"fields"}, Guarded(Effect(OfChosen(Busy("fieldsLoading",
                      Handler(<<Read({Into("fields", "lineage")})>>))))))
TraceField == Restarts(LineageCalls.traceField)
FieldList == About(HiddenBy({"loading", "fieldsLoading"}, Part({"fields"})))
FieldChains == HiddenBy({"loading"}, Part({"fieldTraces"}))
FieldTracing == View({"start"}, {"fields"}, [list |-> FieldList, chains |-> FieldChains],
    [start |-> Effect(Select({})), fields |-> FieldsOfEntity, setEntity |-> Off({"loading"}, Select({})),
     handleTrace |-> TraceField])

SettingsList == Picks(Guarded(Effect(Busy("loadingSettings", Fetch({"settingsList"})))))
Analyze == Restarts(LineageCalls.fetchImpact)
PreviewThreshold == Restarts(LineageCalls.previewThresholdChange)
ImpactGraph == HiddenBy({"loading"}, Part({"impactResult"}))
PreviewResults == About(HiddenBy({"loading"}, Part({"settingsPreview"})))
ImpactAnalysis == View({"settings"}, {}, [impact |-> ImpactGraph, preview |-> PreviewResults],
    [settings |-> SettingsList, setSelectedSetting |-> Off({"loading"}, Select({})), handleAnalyze |-> Analyze,
     handlePreview |-> PreviewThreshold])

DataCatalog == [schema |-> SchemaExplorer, data |-> DataManager, sql |-> SQLConsole, assistant |-> AIAssistant,
    reference |-> ReferenceData, quality |-> DataQuality, platinum |-> PlatinumTab, sandboxes |-> SandboxTab,
    archive |-> ArchiveTab, medallion |-> MedallionOverview, lineage |-> LineageExplorer,
    fields |-> FieldTracing, impact |-> ImpactAnalysis]
=============================================================================
