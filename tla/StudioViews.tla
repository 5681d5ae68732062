---------------------------- MODULE StudioViews -----------------------------
(* The views that define things: entities, calculations, settings, models,    *)
(* use cases, mappings and uploads.  Here are their calls; what their forms   *)
(* hold meanwhile is the business of Editors.                                 *)
EXTENDS StoreCalls

(* The controls of a store's list: the item that is selected is saved from a  *)
(* form, or deleted, after which none is selected.                            *)
Saved(call) == OfChosen(call)
SavedAndClosed(call) == Leaves(OfChosen(call))
Deleted(call) == Leaves(OfChosen(call))
MatchKeys == Fetch({"matchKeys"})

(* Calculations and settings: what depends on the selected item is asked for  *)
(* before it is deleted.                                                      *)
Dependents(of) == OfChosen(Handler(<<Read({Into("deleteWarning", of)})>>))
CalculationList == HiddenBy({"loading"}, Part({"calculations"}))
CalculationDag == HiddenBy({"loading"}, Part({"calculations"}))
MetadataExplorer == View({"fetchCalculations"}, {}, [list |-> CalculationList, dag |-> CalculationDag],
    [fetchCalculations |-> Effect(MetadataCalls.fetchCalculations), setSelected |-> Select({}),
     handleSave |-> SavedAndClosed(MetadataCalls.saveCalculation),
     handleRequestDelete |-> Dependents("calculations"),
     handleDelete |-> Deleted(MetadataCalls.deleteCalculation)])

SettingsGrid == HiddenBy({"loading"}, Part({"settings"}))
HandleResolve == OfChosen(Busy("resolving", Handler(<<Read({Into("resolved", "settings")})>>)))
ResolutionTester == About(Part({"resolved"}))
SettingsManager == View({"fetchSettings", "matchKeys"}, {}, [list |-> SettingsGrid, tester |-> ResolutionTester],
    [fetchSettings |-> Effect(MetadataCalls.fetchSettings), setSelected |-> Select({}),
     matchKeys |-> Effect(MatchKeys), handleResolve |-> HandleResolve,
     handleSave |-> Drops({"resolved"}, SavedAndClosed(MetadataCalls.saveSetting)),
     handleRequestDelete |-> Dependents("settings"),
     handleDelete |-> Drops({"resolved"}, Deleted(MetadataCalls.deleteSetting))])

-----------------------------------------------------------------------------
(* Entities.  The values of a field are saved with the whole entity.           *)
EntityGrid == HiddenBy({"loading"}, Part({"entities"}))
RelationshipGraph == HiddenBy({"loading"}, Part({"entities"}))
EntityDesigner == View({"fetchEntities", "tabs"}, {}, [list |-> EntityGrid, graph |-> RelationshipGraph],
    [fetchEntities |-> Effect(MetadataCalls.fetchEntities), tabs |-> Effect(Fetch({"tabs"})),
     setSelected |-> Select({}), handleSave |-> SavedAndClosed(MetadataCalls.saveEntity),
     handleUpdateDomainValues |-> Saved(MetadataCalls.saveEntity),
     handleDelete |-> Deleted(MetadataCalls.deleteEntity)])

(* The values that are suggested for a field, also as the user types.          *)
FetchValues == OfChosen(Busy("isLoading", Handler(<<Read({Into("values", "tables")})>>)))
Suggestions == About(HiddenBy({"isLoading"}, Part({"values"})))
SuggestionInput == View({}, {"values"}, [suggestions |-> Suggestions],
    [setField |-> Select({}), values |-> Effect(FetchValues), search |-> FetchValues])

-----------------------------------------------------------------------------
(* Detection models.  A saved model's list is read once by the store and once *)
(* by the view; a run of the selected model makes alerts.                     *)
Composed(call) == Saved(Then(call, MetadataCalls.fetchDetectionModels))
HandleDeploy == Patient(OfChosen(Off({"deploying"}, Drops({"deployResult"}, Busy("deploying",
                    Handler(<<Exchange({"alerts"}, {Into("deployResult", "alerts")})>>))))))
(* A test run shows its result in the form, which is gone with it.             *)
TestRun == Drops({"dryRun"}, Off({"testing"}, Busy("testing", OfChosen(Handler(<<Read({Into("dryRun", "tables")})>>)))))
ModelList == HiddenBy({"loading"}, Part({"detectionModels"}))
ModelDetail == About(HiddenBy({"loading"}, Part({"deployResult"})))
TestResult == About(HiddenBy({"loading", "testing"}, Part({"dryRun"})))
FormLists == Handler(<<Read(Copies({"timeWindows", "matchKeys", "thresholds", "scoreSettings"}))>>)
FormFields == Part({"timeWindows", "matchKeys", "thresholds", "scoreSettings"})
AskAssistant == Busy("aiLoading", Handler(<<Read({Into("messages", "assistant")})>>))
ModelComposer == View({"fetchCalculations", "fetchDetectionModels"}, {},
    [list |-> ModelList, detail |-> ModelDetail, test |-> TestResult, form |-> FormFields],
    [fetchCalculations |-> Effect(MetadataCalls.fetchCalculations),
     fetchDetectionModels |-> Effect(MetadataCalls.fetchDetectionModels),
     setSelectedModel |-> Select({"deployResult", "dryRun"}), openForm |-> FormLists,
     handleModelCreated |-> Composed(MetadataCalls.saveDetectionModel),
     handleModelEdited |-> Composed(MetadataCalls.updateDetectionModel),
     handleDelete |-> Deleted(MetadataCalls.deleteDetectionModel),
     handleDeploy |-> HandleDeploy, handleRun |-> TestRun, handleAiSend |-> AskAssistant])

(* What is picked in the forms: patterns, score templates and match keys are  *)
(* read when the picker opens; a new one is saved from it.                    *)
PatternPicker == Part({"matchPatterns", "matchKeys"})
TemplatePicker == Part({"scoreTemplates"})
Pickers == View({}, {}, [patterns |-> PatternPicker, templates |-> TemplatePicker],
    [openPatterns |-> MetadataCalls.fetchMatchPatterns, openKeys |-> MatchKeys,
     setCategory |-> Select({}), openTemplates |-> MetadataCalls.fetchScoreTemplates,
     savePattern |-> MetadataCalls.saveMatchPattern, saveTemplate |-> MetadataCalls.saveScoreTemplate])

-----------------------------------------------------------------------------
(* Use cases: a run of the selected one and its result.                        *)
HandleRun == Patient(OfChosen(Off({"running"}, Drops({"runResult"}, Busy("running",
                 Handler(<<Exchange({"useCaseRuns"}, {Into("runResult", "useCaseRuns")})>>))))))
UseCaseList == Part({"useCases"})
RunResult == About(Part({"runResult"}))
UseCaseStudio == View({"fetchUseCases"}, {}, [list |-> UseCaseList, result |-> RunResult],
    [fetchUseCases |-> Effect(UseCaseCalls.fetchUseCases), setSelected |-> Select({"runResult"}),
     setCreate |-> Back({"runResult"}), handleCreate |-> FromList(Opens(UseCaseCalls.saveUseCase)),
     handleSave |-> OfChosen(Opens(UseCaseCalls.saveUseCase)), handleDelete |-> Deleted(UseCaseCalls.deleteUseCase),
     handleRun |-> HandleRun])

-----------------------------------------------------------------------------
(* The editor of all metadata: one list of each type, and the shipped         *)
(* versions.  Its panel of versions uses one flag for two calls.              *)
SaveItem == OfChosen(Off({"saving"}, Busy("saving", MetadataCalls.saveCalculation)))
ResetItem == OfChosen(Then(ResetToOob("calculations"), MetadataCalls.fetchAll))
FetchSummary == Unless({"summary"}, Off({"loadingVersions"}, Busy("loadingVersions", Fetch({"summary"}))))
HandleSimulate == Off({"loadingVersions"}, Busy("loadingVersions",
                      Handler(<<Read({Into("manifest", "manifest")}), Read({Into("report", "manifest")})>>)))
ItemList == Part({"entities", "calculations", "settings", "detectionModels"})
OobVersionPanel == Part({"summary", "report"})
MetadataEditor == View({"fetchAll"}, {}, [items |-> ItemList, versions |-> OobVersionPanel],
    [fetchAll |-> Effect(MetadataCalls.fetchAll), setSelectedIndex |-> Select({}), handleSave |-> SaveItem,
     onReset |-> ResetItem, fetchSummary |-> FetchSummary, handleSimulate |-> HandleSimulate])

-----------------------------------------------------------------------------
(* Mappings.  After a save or a delete the whole catalogue is loaded, behind  *)
(* a spinner; only then.  The fields on both sides are those of the mapping   *)
(* that is open.                                                              *)
LoadCatalogue == Effect(Busy("loading", Fetch({"mappings", "entities"})))
Reloaded == Late(Busy("loading", Handler(<<Change({"mappings"}), Read(Copies({"mappings", "entities"}))>>)))
FieldsOf(side) == Patient(Effect(OfChosen(Handler(<<Read({Into(side, "entities")})>>))))
HandleValidate == Off({"loading"}, OfChosen(Handler(<<Read({Into("validation", "mappings")})>>)))
MappingList == HiddenBy({"loading"}, Part({"mappings", "entities"}))
FieldPickers == About(HiddenBy({"loading"}, Part({"sourceFields", "targetFields"})))
ValidationResult == About(HiddenBy({"loading"}, Part({"validation"})))
MappingStudio == View({"catalogue"}, {"sourceFields", "targetFields"},
    [list |-> MappingList, fields |-> FieldPickers, validation |-> ValidationResult],
    [catalogue |-> LoadCatalogue, sourceFields |-> FieldsOf("sourceFields"), targetFields |-> FieldsOf("targetFields"),
     selectMapping |-> Off({"loading"}, Select({"validation"})),
     handleSave |-> Saved(Off({"loading"}, Reloaded)), handleValidate |-> HandleValidate,
     handleDelete |-> Forgets({"validation"}, Deleted(Off({"loading"}, Reloaded)))])

(* Onboarding: a file becomes a job, the job is profiled, mapped and          *)
(* confirmed.  The fields of the entity that is mapped are asked for again    *)
(* when the job has changed.                                                  *)
ToJob(changes) == Exchange({"jobs"} \cup changes, {Into("job", "jobs")})
HandleUpload == Off({"loading"}, Busy("loading", Handler(<<ToJob({})>>)))
HandleProfile == Needs({"job"}, HandleUpload)
HandleConfirmMapping == Needs({"job"}, OfChosen(Anew(Off({"loading"}, Busy("loading",
                            Handler(<<Change({"mappings"}), ToJob({})>>))))))
EntityFields == Effect(OfChosen(Handler(<<Read({Into("entityFields", "entities")})>>)))
JobSteps == HiddenBy({"loading"}, Part({"job"}))
MappingStep == About(HiddenBy({"loading"}, Part({"entityFields"})))
DataOnboarding == View({"connectors"}, {"entityFields"},
    [source |-> Part({"connectors"}), profile |-> JobSteps, mapping |-> MappingStep],
    [connectors |-> Effect(Fetch({"connectors"})), entityFields |-> EntityFields,
     handleUpload |-> HandleUpload, handleProfile |-> HandleProfile, setSelectedEntity |-> Needs({"job"}, Select({})),
     handleConfirmMapping |-> HandleConfirmMapping, handleReset |-> Back({"job", "entityFields"})])

StudioCatalog == [calculations |-> MetadataExplorer, settings |-> SettingsManager, entities |-> EntityDesigner,
    suggestions |-> SuggestionInput, models |-> ModelComposer, pickers |-> Pickers, useCases |-> UseCaseStudio,
    metadata |-> MetadataEditor, mappings |-> MappingStudio, onboarding |-> DataOnboarding]
=============================================================================
