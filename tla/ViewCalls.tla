------------------------------ MODULE ViewCalls -----------------------------
(* The views of the front end (frontend/src/views): the effects, controls and *)
(* parts of each.  A view that needs a store takes its calls from StoreCalls. *)
EXTENDS StoreCalls

(* What every grid, chart and tab bar of a view asks for when it is mounted.   *)
GridColumns == Effect(Fetch({"columns"}))
ViewTabs == Effect(Fetch({"tabs"}))
Palette == Effect(Unless({"palette"}, Fetch({"palette"})))

-----------------------------------------------------------------------------
(* Dashboard.  The spinner is only there while nothing is loaded.             *)
SummaryCards == Part({"stats"})
ChartWidgets == Part({"widgetConfig", "stats"})
Dashboard == View({"fetchStats", "fetchWidgetConfig", "palette"}, {},
    [cards |-> SummaryCards, widgets |-> ChartWidgets],
    Effects(DashboardCalls) @@ [palette |-> Palette])

-----------------------------------------------------------------------------
(* Alerts.  An alert is opened from the grid when its trace has come, and the *)
(* detail view begins its own loads.                                          *)
OpenAlert == FromList(Opens(Handler(<<Read({Into("selectedTrace", "traces")})>>)))
Layout == Effect(OfChosen(Handler(<<Read({Into("apiLayout", "detectionModels")})>>)))
Trace == Guarded(Effect(OfChosen(Busy("traceLoading", Handler(<<Read({Into("traceData", "traces")})>>)))))
Orders == Patient(Effect(OfChosen(Busy("ordersLoading", Handler(<<Read({Into("orders", "tables")})>>)))))
Volume == Patient(Effect(OfChosen(Busy("volumeLoading", Handler(<<Read({Into("volume", "tables")})>>)))))
Chart == Effect(OfChosen(Busy("chartLoading", Handler(<<Read({Into("chart", "tables")})>>))))
(* The form of a new case: filled by the triage, sent, replaced by a link once *)
(* the store has read its list of cases, which is not shown here.             *)
Triage == OfChosen(Off({"triaging"}, Busy("triaging", Handler(<<Read({Into("suggestion", "traces")})>>))))
OpenCase == OfChosen(Off({"creating"}, Busy("creating", Handler(<<Change({"cases"}), Read({Into("created", "cases")})>>))))
AlertGrid == HiddenBy({"loading"}, Part({"alerts"}))
AlertDetail == About(Part({"selectedTrace", "apiLayout"}))
ExplainabilityPanel == About(HiddenBy({"traceLoading"}, Part({"traceData"})))
RelatedOrders == About(HiddenBy({"ordersLoading"}, Part({"orders"})))
TradeVolumeChart == About(HiddenBy({"volumeLoading"}, Part({"volume"})))
MarketDataChart == About(HiddenBy({"chartLoading"}, Part({"chart"})))
InvestigationActions == About(Part({"suggestion", "created"}))
LoadedOfAlert == {"apiLayout", "traceData", "orders", "volume", "chart", "suggestion", "created", "selectedTrace"}
RiskCaseManager == View({"fetchAlerts", "columns"}, {"layout", "trace", "orders", "volume", "chart"},
    [grid |-> AlertGrid, detail |-> AlertDetail, trace |-> ExplainabilityPanel, orders |-> RelatedOrders,
     volume |-> TradeVolumeChart, chart |-> MarketDataChart, actions |-> InvestigationActions],
    [fetchAlerts |-> Effect(AlertCalls.fetchAlerts), generateAlerts |-> FromList(AlertCalls.generateAlerts),
     columns |-> GridColumns, handleSelect |-> OpenAlert, onBack |-> Back(LoadedOfAlert),
     layout |-> Layout, trace |-> Trace, orders |-> Orders, volume |-> Volume, chart |-> Chart,
     handleTriage |-> Triage, handleCreate |-> OpenCase])

-----------------------------------------------------------------------------
(* Cases.  The selected case is looked up in the list after every read; the   *)
(* tabs of its detail load their own lists.                                   *)
LinkedAlerts == Patient(Effect(OfChosen(Busy("linkedLoading", Handler(<<Read({Into("linkedAlerts", "alerts")})>>)))))
LoadReports == Effect(OfChosen(Handler(<<Read({Into("reports", "reports")})>>)))
ReportTemplates == Effect(Fetch({"templates"}))
GenerateReport == UntilFirst(OfChosen(Off({"generating"}, Busy("generating",
                      Handler(<<Change({"reports"}), Read({Into("reports", "reports")})>>)))))
CaseGrid == Part({"cases"})
CaseStatus == Part({"workflow"})
LinkedAlertsTab == About(HiddenBy({"linkedLoading"}, Part({"linkedAlerts"})))
ReportGenerator == About(Part({"reports"}))
CaseManagement == View({"fetchCases", "workflow"}, {"linkedAlerts", "reports", "templates"},
    [list |-> CaseGrid, status |-> CaseStatus, linked |-> LinkedAlertsTab, reports |-> ReportGenerator],
    [fetchCases |-> Effect(CaseCalls.fetchCases), workflow |-> Effect(HookCalls.useWorkflowStates),
     handleRowClicked |-> Select({}), close |-> Back({"linkedAlerts", "reports", "templates"}),
     updateStatus |-> CaseCalls.updateStatus, linkedAlerts |-> LinkedAlerts, reports |-> LoadReports,
     templates |-> ReportTemplates, handleGenerate |-> GenerateReport])
CaseCharts == Part({"cases", "stats"})
ComplianceDashboard == View({"fetchCases", "fetchStats"}, {}, [charts |-> CaseCharts],
    Effects(Only(CaseCalls, {"fetchCases", "fetchStats"})))

(* Submissions: list and detail are one slot of the store.                    *)
SubmissionGrid == Part({"submissions"})
SubmissionDetail == Part({"submissions", "workflow"})
Submissions == View({"fetchSubmissions", "workflow"}, {}, [list |-> SubmissionGrid, detail |-> SubmissionDetail],
    [fetchSubmissions |-> Effect(SubmissionCalls.fetchSubmissions), workflow |-> Effect(HookCalls.useWorkflowStates),
     handleRowClicked |-> Select({}), close |-> Back({}),
     handleStatusUpdate |-> OfChosen(SubmissionCalls.updateStatus),
     handleRefreshRecommendations |-> OfChosen(SubmissionCalls.rerunRecommendations),
     handleDelete |-> SubmissionCalls.deleteSubmission])

ViewCatalog == [dashboard |-> Dashboard, riskCases |-> RiskCaseManager, cases |-> CaseManagement,
                compliance |-> ComplianceDashboard, submissions |-> Submissions]
=============================================================================
