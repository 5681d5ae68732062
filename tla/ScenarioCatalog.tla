-------------------------- MODULE ScenarioCatalog --------------------------
(***************************************************************************)
(* The scenarios and tours the front end ships, as the engine reads them:  *)
(* a scenario's category, difficulty and prerequisites and, of each step,  *)
(* the route it opens, the automatic action and whether try mode waits for *)
(* an element; of a tour's steps, the routes.  Texts and selectors are     *)
(* left out.                                                               *)
(***************************************************************************)
EXTENDS Naturals, Sequences, TLC

Here == ""   \* a step that stays on the page

Step(act)       == [act |-> act, checks |-> FALSE, route |-> Here]
Checked(act)    == [act |-> act, checks |-> TRUE, route |-> Here]
On(route, step) == [step EXCEPT !.route = route]
Navigate == Step("navigate")
Click    == Step("click")
Type     == Step("type")
Select   == Step("select")
Wait     == Step("wait")

Entry(category, difficulty, requires, steps) ==
    [category |-> category, difficulty |-> difficulty,
     requires |-> requires, steps |-> steps]

S1 == Entry("settings", "beginner", {},
    <<On("settings", Navigate), Checked("click"), Wait, Click, Wait, Wait>>)
S2 == Entry("settings", "beginner", {"s1_view_settings"},
    <<On("settings", Navigate), Checked("click"), Wait, On("editor",
    Navigate), Checked("click"), Wait, Type, Click, On("settings",
    Navigate)>>)
S3 == Entry("settings", "intermediate", {"s1_view_settings"},
    <<On("settings", Navigate), Checked("click"), Wait, Click, Click, Type,
    Type, Click, Checked("wait"), Wait>>)
S4 == Entry("settings", "intermediate", {"s1_view_settings"},
    <<On("settings", Navigate), Checked("click"), Wait, Wait, Click, Click,
    Wait, Wait, Click>>)
S5 == Entry("settings", "intermediate", {"s1_view_settings"},
    <<On("settings", Navigate), Checked("click"), Click, Click, Wait, Click,
    Wait, Wait, Click>>)
S6 == Entry("settings", "advanced", {"s1_view_settings", "s3_product_override"},
    <<On("settings", Navigate), Checked("click"), Wait, Click,
    Checked("wait"), Wait, Wait, Wait, Wait, Wait>>)
\* Mutant: each of two scenarios waits for the other.
S7Circular == Entry("calculations", "beginner", {"s8_create_manual_calc"}, <<Navigate>>)
S7 == Entry("calculations", "beginner", {},
    <<On("metadata", Navigate), Click, Wait, Click, Wait, Wait, Click,
    Click>>)
S8 == Entry("calculations", "intermediate", {"s7_explore_calc_dag"},
    <<On("editor", Navigate), Checked("click"), Wait, On("metadata",
    Navigate), Click, Type, Select, Wait, Type, Click>>)
S9 == Entry("calculations", "intermediate", {"s7_explore_calc_dag"},
    <<On("assistant", Navigate), Wait, Wait, Wait, Wait, Wait,
    On("metadata", Navigate), Wait>>)
S10 == Entry("calculations", "advanced", {"s7_explore_calc_dag"},
    <<On("metadata", Navigate), Click, Wait, On("editor", Navigate),
    Checked("click"), Wait, On("settings", Navigate), Wait, On("pipeline",
    Navigate), Wait>>)
S11 == Entry("detection_models", "intermediate", {},
    <<On("models", Navigate), Click, Type, Click, Wait, Click, Wait, Click,
    Wait, Click>>)
S12 == Entry("detection_models", "beginner", {"s11_full_model_wizard"},
    <<On("models", Navigate), Checked("click"), Wait, Click, Wait, Click,
    Wait, Click, Click>>)
S13 == Entry("detection_models", "intermediate", {"s11_full_model_wizard"},
    <<On("models", Navigate), Checked("click"), Click, Click, Wait, Click,
    Click, Click, Click>>)
S14 == Entry("detection_models", "advanced", {"s11_full_model_wizard"},
    <<On("models", Navigate), Click, Wait, Click, Click, Click, Click,
    Click, Wait, Wait>>)
S15 == Entry("use_cases", "beginner", {},
    <<On("use-cases", Navigate), Click, Type, Click, Wait, Click, Wait,
    Click, Wait, Click>>)
S16 == Entry("use_cases", "intermediate", {"s15_create_use_case"},
    <<On("use-cases", Navigate), Click, Wait, Click, Click, Wait,
    On("submissions", Navigate)>>)
S17 == Entry("use_cases", "intermediate", {"s16_submit_use_case"},
    <<On("submissions", Navigate), Checked("click"), Click, Click, Click,
    Click, Type, Click>>)
S18 == Entry("use_cases", "advanced", {"s17_review_submission"},
    <<On("submissions", Navigate), Checked("click"), Click, Click,
    On("use-cases", Navigate), Click, Click, Wait, Wait, On("submissions",
    Navigate)>>)
S19 == Entry("entities", "beginner", {},
    <<On("entities", Navigate), Checked("click"), Wait, Wait,
    Checked("click"), Wait, Wait, Wait>>)
S20 == Entry("entities", "beginner", {"s19_explore_entity_model"},
    <<On("data", Navigate), Checked("click"), Wait, Checked("click"), Wait,
    On("sql", Navigate), Click, Wait>>)
S21 == Entry("investigation", "beginner", {},
    <<On("dashboard", Navigate), Wait, Wait, On("alerts", Navigate), Click,
    Click, Wait, Wait, Wait, Wait, Wait, Wait>>)
S22 == Entry("investigation", "intermediate", {"s21_alert_investigation"},
    <<On("alerts", Navigate), Click, Wait, On("sql", Navigate), Wait,
    On("assistant", Navigate), Wait, Wait>>)
S23 == Entry("investigation", "advanced", {"s21_alert_investigation"},
    <<On("regulatory", Navigate), Wait, Wait, Click, Wait, Wait,
    On("models", Navigate), Wait, On("regulatory", Wait), On("regulatory",
    Navigate)>>)
S40 == Entry("investigation", "intermediate", {"s21_alert_investigation"},
    <<On("cases", Navigate), Click, Wait, Wait, Wait, Wait, Wait>>)
S24 == Entry("admin", "intermediate", {},
    <<On("editor", Navigate), Wait, Wait, Type, Click, Wait, Click, Wait,
    Wait>>)
S25 == Entry("admin", "advanced", {"s21_alert_investigation", "s24_oob_metadata_review"},
    <<On("data", Navigate), Checked("click"), On("entities", Navigate),
    Wait, On("pipeline", Navigate), Click, On("alerts", Navigate), Click,
    On("settings", Navigate), On("models", Navigate), On("regulatory",
    Navigate), Wait, On("dashboard", Navigate), Wait>>)
S26 == Entry("admin", "beginner", {},
    <<On("dashboard", Click), On("dashboard", Click), On("dashboard", Wait),
    On("entities", Navigate), On("entities", Click)>>)
S27 == Entry("admin", "beginner", {},
    <<On("medallion", Navigate), On("medallion", Click), On("medallion",
    Wait)>>)
S28 == Entry("admin", "beginner", {},
    <<On("onboarding", Navigate), Click, Wait, Click>>)
S29 == Entry("admin", "beginner", {},
    <<On("mappings", Navigate), Click, Wait, Click, Wait>>)
S30 == Entry("pipeline", "intermediate", {},
    <<On("pipeline", Navigate), Wait, Click, Wait, On("medallion",
    Navigate), Wait>>)
S31 == Entry("governance", "intermediate", {},
    <<On("quality", Navigate), Wait, Wait, Wait, Wait>>)
S32 == Entry("governance", "intermediate", {},
    <<On("reference", Navigate), Click, Wait, Click, Wait, Click>>)
S34 == Entry("governance", "intermediate", {},
    <<On("governance", Wait), Click, Click, Click, Click, Wait, Click,
    Wait>>)
S35 == Entry("governance", "beginner", {},
    <<Click, Type, Click, Wait, Click, Click, Wait>>)
S33 == Entry("lakehouse", "intermediate", {},
    <<On("medallion", Click), Wait, Wait, Wait, Wait, Wait>>)
S36 == Entry("lineage", "beginner", {},
    <<On("lineage", Navigate), Wait, Wait, Click, Click>>)
S37 == Entry("lineage", "intermediate", {},
    <<On("lineage", Navigate), Wait, Wait>>)
S38 == Entry("lineage", "advanced", {},
    <<On("lineage", Navigate), Wait, Wait, Wait>>)
S39 == Entry("lineage", "intermediate", {},
    <<On("alerts", Navigate), Wait, Wait>>)

SCENARIOS ==
    [ s1_view_settings |-> S1,
      s2_modify_threshold |-> S2,
      s3_product_override |-> S3,
      s4_score_steps |-> S4,
      s5_match_patterns |-> S5,
      s6_resolution_deep_dive |-> S6,
      s7_explore_calc_dag |-> S7,
      s8_create_manual_calc |-> S8,
      s9_ai_calc_builder |-> S9,
      s10_parameterize_calc |-> S10,
      s11_full_model_wizard |-> S11,
      s12_clone_modify_model |-> S12,
      s13_add_calc_to_model |-> S13,
      s14_model_best_practices |-> S14,
      s15_create_use_case |-> S15,
      s16_submit_use_case |-> S16,
      s17_review_submission |-> S17,
      s18_implement_feedback |-> S18,
      s19_explore_entity_model |-> S19,
      s20_import_preview_data |-> S20,
      s21_alert_investigation |-> S21,
      s22_cross_alert_analysis |-> S22,
      s23_regulatory_audit |-> S23,
      s40_case_management |-> S40,
      s24_oob_metadata_review |-> S24,
      s25_full_platform_demo |-> S25,
      s26_architecture_trace |-> S26,
      s27_medallion_architecture |-> S27,
      s28_data_onboarding |-> S28,
      s29_mapping_studio |-> S29,
      s30_pipeline_orchestration |-> S30,
      s31_data_quality_investigation |-> S31,
      s32_reference_data_reconciliation |-> S32,
      s34_role_based_data_masking |-> S34,
      s35_explore_business_glossary |-> S35,
      s33_lakehouse_data_governance |-> S33,
      s36_explore_lineage |-> S36,
      s37_trace_regulatory_field |-> S37,
      s38_analyze_impact |-> S38,
      s39_alert_explainability |-> S39 ]

OverviewTour == <<Here, Here, Here, Here>>
DashboardTour == <<"dashboard", Here, Here, Here>>
EntitiesTour == <<"entities", Here, Here>>
SettingsTour == <<"settings", Here, Here>>
ModelsTour == <<"models", Here>>
AlertsTour == <<"alerts", Here>>
SqlTour == <<"sql", Here, Here>>
PipelineTour == <<"pipeline", Here, Here>>
SchemaTour == <<"schema", Here>>
MappingsTour == <<"mappings", Here, Here, Here, Here>>
DataTour == <<"data", Here>>
AssistantTour == <<"assistant", Here>>
EditorTour == <<"editor", Here, Here, Here>>
RegulatoryTour == <<"regulatory", Here, Here, Here, Here, Here>>
Act1GuideTour == <<Here, "data", "entities", "pipeline", "schema", "sql", "settings",
    "models", "alerts">>
Act2GuideTour == <<"models", Here, "settings", "mappings", "editor">>
OobTour == <<"editor", Here, Here, Here, Here, Here, Here>>
UxFeaturesTour == <<"entities", Here, "metadata", "editor", "alerts">>
Act3GuideTour == <<"alerts", "dashboard", "assistant">>
MedallionTour == <<"medallion", "medallion", Here>>
OnboardingTour == <<"onboarding", "onboarding", "onboarding">>
DataQualityTour == <<Here, Here, Here, Here>>
AnalyticsTiersTour == <<"analytics-tiers", Here, Here, Here>>
ReferenceDataTour == <<Here, Here, Here, Here>>
LakehouseExplorerTour == <<"medallion", "medallion", "medallion", "medallion", "medallion",
    "medallion", "medallion">>
GovernanceTour == <<"governance", "governance", "governance", "governance",
    "governance", "governance", "governance">>
GlossaryTour == <<"glossary", "glossary", "glossary", "glossary", "glossary">>
LineageTour == <<"lineage", "lineage", "lineage", "lineage", "lineage">>
CasesTour == <<"cases", "cases", "cases", "cases", "cases">>

TOURS ==
    "overview" :> OverviewTour
    @@ "dashboard" :> DashboardTour
    @@ "entities" :> EntitiesTour
    @@ "settings" :> SettingsTour
    @@ "models" :> ModelsTour
    @@ "alerts" :> AlertsTour
    @@ "sql" :> SqlTour
    @@ "pipeline" :> PipelineTour
    @@ "schema" :> SchemaTour
    @@ "mappings" :> MappingsTour
    @@ "data" :> DataTour
    @@ "assistant" :> AssistantTour
    @@ "editor" :> EditorTour
    @@ "regulatory" :> RegulatoryTour
    @@ "act1_guide" :> Act1GuideTour
    @@ "act2_guide" :> Act2GuideTour
    @@ "oob" :> OobTour
    @@ "ux_features" :> UxFeaturesTour
    @@ "act3_guide" :> Act3GuideTour
    @@ "medallion" :> MedallionTour
    @@ "onboarding" :> OnboardingTour
    @@ "data-quality" :> DataQualityTour
    @@ "analytics-tiers" :> AnalyticsTiersTour
    @@ "reference-data" :> ReferenceDataTour
    @@ "lakehouse-explorer" :> LakehouseExplorerTour
    @@ "governance" :> GovernanceTour
    @@ "glossary" :> GlossaryTour
    @@ "lineage" :> LineageTour
    @@ "cases" :> CasesTour

\* The order in which the selector lists categories, and with it the
\* categories it lists.
CATEGORY_ORDER ==
    <<"entities", "settings", "calculations", "detection_models", "use_cases",
      "investigation", "admin", "pipeline", "governance", "lakehouse", "lineage">>

\* The tour of a page's last path segment; pages without one get the overview.
PageTour ==
    "dashboard" :> "dashboard"
    @@ "entities" :> "entities"
    @@ "metadata" :> "overview"
    @@ "settings" :> "settings"
    @@ "mappings" :> "mappings"
    @@ "editor" :> "editor"
    @@ "pipeline" :> "pipeline"
    @@ "schema" :> "schema"
    @@ "sql" :> "sql"
    @@ "models" :> "models"
    @@ "use-cases" :> "overview"
    @@ "data" :> "data"
    @@ "alerts" :> "alerts"
    @@ "regulatory" :> "regulatory"
    @@ "submissions" :> "overview"
    @@ "assistant" :> "assistant"
    @@ "medallion" :> "medallion"
    @@ "onboarding" :> "onboarding"
    @@ "quality" :> "data-quality"
    @@ "analytics-tiers" :> "analytics-tiers"
    @@ "reference" :> "reference-data"
    @@ "governance" :> "governance"
    @@ "glossary" :> "glossary"
    @@ "lineage" :> "lineage"
    @@ "cases" :> "cases"

\* The router's paths and the views they show; data only redirects.
ROUTES ==
    "entities" :> "EntityDesigner"
    @@ "metadata" :> "MetadataExplorer"
    @@ "settings" :> "SettingsManager"
    @@ "reference" :> "ReferenceData"
    @@ "onboarding" :> "DataOnboarding"
    @@ "mappings" :> "MappingStudio"
    @@ "quality" :> "DataQuality"
    @@ "medallion" :> "MedallionOverview"
    @@ "lakehouse" :> "MedallionOverview"
    @@ "analytics-tiers" :> "AnalyticsTiers"
    @@ "governance" :> "DataGovernance"
    @@ "glossary" :> "BusinessGlossary"
    @@ "lineage" :> "DataLineage"
    @@ "models" :> "ModelComposer"
    @@ "use-cases" :> "UseCaseStudio"
    @@ "pipeline" :> "PipelineMonitor"
    @@ "dashboard" :> "Dashboard"
    @@ "alerts" :> "RiskCaseManager"
    @@ "cases" :> "CaseManagement"
    @@ "submissions" :> "Submissions"
    @@ "regulatory" :> "RegulatoryMap"
    @@ "schema" :> "SchemaExplorer"
    @@ "data" :> "SchemaExplorer"
    @@ "sql" :> "SQLConsole"
    @@ "editor" :> "MetadataEditor"
    @@ "assistant" :> "AIAssistant"

\* The scenarios the selector shows for a difficulty, or for "all".
Listed(difficulty) ==
    {s \in DOMAIN SCENARIOS :
        /\ difficulty \in {"all", SCENARIOS[s].difficulty}
        /\ \E i \in DOMAIN CATEGORY_ORDER : CATEGORY_ORDER[i] = SCENARIOS[s].category}

=============================================================================
