-------------------------- MODULE AlertStoreProofs --------------------------
(***************************************************************************)
(* What holds of AlertStore, and of DemoFlow over it, for any number of    *)
(* alerts, workers, checkpoints and crashes.                               *)
(***************************************************************************)
EXTENDS DemoFlow, SequenceTheorems, TLAPS

LEMMA IdleIsJob == Idle \in Jobs
  BY DEF Idle, Jobs, Steps

LEMMA InitTypes == Init => TypeOK
<1> SUFFICES ASSUME Init PROVE TypeOK
  OBVIOUS
<1>1. summary \in Summaries /\ object \in Objects
  BY DEF Init, Summaries, Objects
<1>2. job \in [Workers -> Jobs]
  BY IdleIsJob DEF Init
<1>3. crashes \in 0 .. MaxCrashes
  BY CrashBound DEF Init
<1> QED BY <1>1, <1>2, <1>3 DEF Init, TypeOK

LEMMA GenerateTypes ==
  ASSUME TypeOK, NEW w \in Workers, Generate(w), UNCHANGED serial
  PROVE  TypeOK'
<1> USE DEF TypeOK
<1>0. job[w] \in Jobs
  OBVIOUS
<1>a. Fail(w) => job' \in [Workers -> Jobs]
  BY IdleIsJob DEF Fail
<1>b. ASSUME NEW step \in Steps, Goto(w, step) PROVE job' \in [Workers -> Jobs]
  BY <1>0, <1>b DEF Goto, Jobs
<1>c. Answer(w) => job' \in [Workers -> Jobs] /\ answered' \subseteq Alerts
  BY <1>0, IdleIsJob DEF Answer, Jobs
<1>1. CASE Evaluate(w)
  <2>1. PICK fired \in (SUBSET (Alerts \ minted)) \ {{}} :
          /\ minted' = minted \cup fired
          /\ job' = [job EXCEPT ![w] = [Idle EXCEPT !.at = "trace",
                                          !.fired = fired, !.todo = fired]]
    BY <1>1 DEF Evaluate
  <2>2. [Idle EXCEPT !.at = "trace", !.fired = fired, !.todo = fired] \in Jobs
    BY DEF Idle, Jobs, Steps
  <2> QED BY <1>1, <2>1, <2>2 DEF Evaluate
<1>2. CASE OpenTrace(w)
  <2>1. CASE "traces" \in dirs
    BY <1>0, <1>2, <2>1 DEF OpenTrace, Jobs, Steps, disk
  <2>2. CASE "traces" \notin dirs
    BY <1>a, <1>2, <2>2 DEF OpenTrace, disk
  <2> QED BY <2>1, <2>2
<1>3. CASE WriteTrace(w)
  <2>1. job[w].text \subseteq Alerts
    BY <1>0 DEF Jobs
  <2>2. job' \in [Workers -> Jobs]
    BY <1>0, <1>3 DEF WriteTrace, Jobs, Steps
  <2> QED BY <1>3, <2>1, <2>2 DEF WriteTrace
<1>4. CASE ReadSummary(w)
  <2>1. CASE summary.kind = "file"
    <3>1. summary.rows \subseteq Alerts
      BY DEF Summaries, Absent, Torn
    <3> QED BY <1>0, <1>4, <2>1, <3>1 DEF ReadSummary, Jobs, Steps
  <2>2. CASE summary.kind = "torn"
    BY <1>a, <1>4, <2>2 DEF ReadSummary
  <2>3. CASE summary.kind = "absent"
    BY <1>b, <1>4, <2>3 DEF ReadSummary, Steps
  <2> QED BY <1>4, <2>1, <2>2, <2>3 DEF ReadSummary
<1>5. CASE OpenSummary(w)
  <2>1. CASE "alerts" \in dirs
    <3>1. ASSUME NEW v \in Workers PROVE Opened(w, v) \in Jobs
      <4>1. job[v] \in Jobs
        OBVIOUS
      <4> QED BY <4>1 DEF Opened, Jobs, Steps
    <3>2. job' \in [Workers -> Jobs]
      BY <1>5, <2>1, <3>1 DEF OpenSummary, Truncate
    <3> QED BY <1>5, <2>1, <3>2 DEF OpenSummary, Truncate, Summaries
  <2>2. CASE "alerts" \notin dirs
    BY <1>a, <1>5, <2>2 DEF OpenSummary
  <2> QED BY <2>1, <2>2
<1>6. CASE WriteSummary(w)
  <2>1. File(Combined(w)) \in Summaries
    BY <1>0 DEF File, Combined, Summaries, Jobs
  <2>2. summary' \in Summaries
    BY <1>0, <1>6, <2>1 DEF WriteSummary, Written, Summaries, Jobs
  <2> QED BY <1>b, <1>6, <2>2 DEF WriteSummary, Steps
<1>7. CASE DropTable(w)
  BY <1>7, <1>a, <1>b, <1>c DEF DropTable, Steps, Objects, disk
<1>8. CASE CreateTable(w)
  <2>1. summary.rows \subseteq Alerts
    BY DEF Summaries, Absent, Torn
  <2>2. job' \in [Workers -> Jobs]
    BY <1>0, <1>8, <1>a, <2>1 DEF CreateTable, Jobs, Steps
  <2>3. behind' \in BOOLEAN
    BY <1>8 DEF CreateTable
  <2> QED BY <1>8, <2>2, <2>3 DEF CreateTable, disk
<1>9. CASE CommitTable(w)
  <2>1. ASSUME NEW t \in {File(job[w].held), summary} PROVE Table(t.rows) \in Objects
    BY <1>0 DEF Table, File, Objects, Summaries, Absent, Torn, Jobs
  <2>2. object' \in Objects /\ behind' \in BOOLEAN
    BY <1>9, <2>1 DEF CommitTable
  <2> QED BY <1>9, <1>a, <1>c, <2>2 DEF CommitTable, disk
<1> QED BY <1>1, <1>2, <1>3, <1>4, <1>5, <1>6, <1>7, <1>8, <1>9 DEF Generate

LEMMA NextTypes == TypeOK /\ [Next]_vars => TypeOK'
<1> SUFFICES ASSUME TypeOK, [Next]_vars PROVE TypeOK'
  OBVIOUS
<1>0. serial' = serial
  BY DEF Next, vars
<1>1. ASSUME NEW w \in Workers, Generate(w) PROVE TypeOK'
  BY <1>0, <1>1, GenerateTypes
<1>2. CASE Crash
  <2>1. crashes' \in 0 .. MaxCrashes
    BY <1>2, CrashBound DEF Crash, TypeOK
  <2>2. ASSUME NEW w \in Workers PROVE job[w].text \subseteq Alerts
    BY DEF TypeOK, Jobs
  <2>3. cut' \subseteq Alerts
    BY <1>2, <2>2 DEF Crash, Empty, TypeOK
  <2> QED BY <1>0, <1>2, <2>1, <2>3, IdleIsJob DEF Crash, TypeOK
<1>3. CASE Startup
  <2>1. Registered(summary) \in Objects
    BY DEF TypeOK, Registered, Objects, Summaries, Table, Absent, Torn
  <2> QED BY <1>0, <1>3, <2>1 DEF Startup, StartupObject, TypeOK, disk
<1>4. CASE UNCHANGED vars
  BY <1>4 DEF vars, disk, TypeOK
<1> QED BY <1>1, <1>2, <1>3, <1>4 DEF Next

\* Every variable keeps its type: the catalog entry is one of the three kinds,
\* and every request is at a step of generate_alerts.
THEOREM Typing == Spec => []TypeOK
  BY InitTypes, NextTypes, PTL DEF Spec

-----------------------------------------------------------------------------
(* Every row has its trace *)

\* What a request knows of the traces: those of the rows it holds are there,
\* and its own are written once it is past the loop.
Backed(w) ==
  /\ job[w].held \subseteq traces
  /\ job[w].at # "idle" => job[w].fired \ (job[w].todo \cup job[w].text) \subseteq traces
  /\ job[w].at # "text" => job[w].text = {}
  /\ job[w].at \notin {"idle", "trace", "text"} => job[w].todo = {}

Evidence == RowsHaveTraces /\ \A w \in Workers : Backed(w)

LEMMA GenerateKeepsEvidence ==
  ASSUME TypeOK, Evidence, NEW w \in Workers, Generate(w)
  PROVE  Evidence'
<1> USE DEF Evidence, RowsHaveTraces, SummaryHasTraces
<1>0. job \in [Workers -> Jobs]
  BY DEF TypeOK
\* Only the job of w changes and no trace goes away.
<1>a. ASSUME traces \subseteq traces', RowsHaveTraces',
             job' = [job EXCEPT ![w] = job'[w]], Backed(w)'
      PROVE  Evidence'
  BY <1>0, <1>a DEF Backed
<1>b. ASSUME Fail(w), UNCHANGED traces PROVE Backed(w)' /\ job' = [job EXCEPT ![w] = job'[w]]
  BY <1>0, <1>b DEF Fail, Backed, Idle
<1>1. CASE Evaluate(w)
  BY <1>0, <1>1, <1>a DEF Evaluate, Backed, Idle
<1>2. CASE OpenTrace(w)
  <2>1. CASE "traces" \in dirs
    BY <1>0, <1>2, <1>a, <2>1 DEF OpenTrace, Backed, Jobs, disk
  <2>2. CASE "traces" \notin dirs
    BY <1>2, <1>a, <1>b, <2>2 DEF OpenTrace, disk
  <2> QED BY <2>1, <2>2
<1>3. CASE WriteTrace(w)
  BY <1>0, <1>3, <1>a DEF WriteTrace, Backed, Jobs
<1>4. CASE ReadSummary(w)
  BY <1>0, <1>4, <1>a, <1>b DEF ReadSummary, Goto, Backed, Jobs
<1>5. CASE OpenSummary(w)
  <2>1. CASE "alerts" \in dirs
    <3>1. RowsHaveTraces'
      BY <1>5, <2>1 DEF OpenSummary, Truncate, Torn
    <3>2. ASSUME NEW v \in Workers PROVE Backed(v)'
      <4>1. job[v] \in Jobs /\ job'[v] = Opened(w, v) /\ traces' = traces
        BY <1>0, <1>5, <2>1 DEF OpenSummary, Truncate
      <4> QED BY <1>5, <4>1 DEF OpenSummary, Opened, Backed, Jobs
    <3> QED BY <3>1, <3>2
  <2>2. CASE "alerts" \notin dirs
    BY <1>5, <1>a, <1>b, <2>2 DEF OpenSummary
  <2> QED BY <2>1, <2>2
<1>6. CASE WriteSummary(w)
  <2>1. Combined(w) \subseteq traces
    BY <1>6 DEF WriteSummary, Combined, Backed
  <2>2. RowsHaveTraces'
    BY <1>0, <1>6, <2>1 DEF WriteSummary, Written, File, Torn, Jobs
  <2> QED BY <1>0, <1>6, <1>a, <2>2 DEF WriteSummary, Goto, Backed, Jobs
<1>7. CASE DropTable(w)
  BY <1>0, <1>7, <1>a, <1>b DEF DropTable, Answer, Goto, Backed, Idle, None, disk, Jobs
<1>8. CASE CreateTable(w)
  <2>1. UNCHANGED <<traces, summary, object>>
    BY <1>8 DEF CreateTable, disk
  <2>2. CASE Fail(w)
    BY <1>a, <1>b, <2>1, <2>2
  <2>3. CASE job' = [job EXCEPT ![w].at = "commit", ![w].held = summary.rows]
    BY <1>0, <1>8, <1>a, <2>1, <2>3 DEF CreateTable, Backed, Jobs
  <2> QED BY <1>8, <2>2, <2>3 DEF CreateTable
<1>9. CASE CommitTable(w)
  <2>1. UNCHANGED <<traces, summary>> /\ job' = [job EXCEPT ![w] = Idle]
    BY <1>9 DEF CommitTable, Answer, Fail, disk
  <2>2. object'.rows \subseteq traces
    BY <1>9 DEF CommitTable, Backed, File, Table
  <2>3. RowsHaveTraces'
    BY <2>1, <2>2
  <2> QED BY <1>0, <1>a, <2>1, <2>3 DEF Backed, Idle
<1> QED BY <1>1, <1>2, <1>3, <1>4, <1>5, <1>6, <1>7, <1>8, <1>9 DEF Generate

LEMMA EvidenceInvariant == Spec => []Evidence
<1>1. Init => Evidence
  BY DEF Init, Evidence, RowsHaveTraces, SummaryHasTraces, Backed, Absent, None, Idle
<1>2. TypeOK /\ Evidence /\ [Next]_vars => Evidence'
  <2> SUFFICES ASSUME TypeOK, Evidence, [Next]_vars PROVE Evidence'
    OBVIOUS
  <2> USE DEF Evidence, RowsHaveTraces, SummaryHasTraces, Backed
  <2>1. ASSUME NEW w \in Workers, Generate(w) PROVE Evidence'
    BY <2>1, GenerateKeepsEvidence
  <2>2. CASE Crash
    BY <2>2 DEF Crash, Idle
  <2>3. CASE Startup
    BY <2>3 DEF Startup, StartupObject, Registered, Table, None, disk
  <2>4. CASE UNCHANGED vars
    BY <2>4 DEF vars, disk
  <2> QED BY <2>1, <2>2, <2>3, <2>4 DEF Next
<1> QED BY Typing, <1>1, <1>2, PTL DEF Spec

\* An alert listed by the summary file or by the served table can be opened,
\* whatever requests overlapped and wherever the process was killed.
THEOREM RowsBacked == Spec => []RowsHaveTraces
<1>1. Evidence => RowsHaveTraces
  BY DEF Evidence
<1> QED BY EvidenceInvariant, <1>1, PTL

-----------------------------------------------------------------------------
(* The served table is the summary file *)

\* A request that will still register the file as it is: it writes it, will drop
\* and create the table, or is about to commit a table of it.
Republishing(w) == \/ job[w].at \in {"write", "drop", "create"}
                   \/ job[w].at = "commit" /\ summary = File(job[w].held)

\* The table is not the file, or may not stay it.
Unsettled == \/ object # Registered(summary)
             \/ object = None /\ \E w \in Workers : job[w].at = "commit"

\* Then such a request is on its way, or one has been refused its CREATE.  No
\* file means no table, no step of this module makes the entry a view, and a
\* process that is not running serves nothing.
Served ==
  /\ up /\ Unsettled => behind \/ \E w \in Workers : Republishing(w)
  /\ summary = Absent => object = None /\ \A w \in Workers : job[w].at # "commit"
  /\ object.kind # "view"
  /\ ~up => \A w \in Workers : job[w] = Idle

LEMMA GenerateKeepsServed ==
  ASSUME TypeOK, Served, up, NEW w \in Workers, Generate(w)
  PROVE  Served'
<1>0. job \in [Workers -> Jobs] /\ summary \in Summaries /\ object \in Objects
  BY DEF TypeOK
\* A step of w that is not at write, drop, create or commit leaves every witness.
<1>a. ASSUME UNCHANGED <<summary, object, behind>>,
             job[w].at \notin {"write", "drop", "create", "commit"},
             job'[w].at # "commit",
             \A v \in Workers \ {w} : job'[v] = job[v], up' = up
      PROVE  Served'
  BY <1>a DEF Served, Unsettled, Republishing
\* Whoever is at write, drop or create witnesses for all.
<1>b. ASSUME job'[w].at \in {"write", "drop", "create"}, object'.kind # "view",
             summary' = Absent => object' = None /\ \A v \in Workers : job'[v].at # "commit",
             up' = up
      PROVE  Served'
  BY <1>b DEF Served, Republishing
<1>1. CASE Evaluate(w)
  BY <1>0, <1>1, <1>a DEF Evaluate, Idle
<1>2. CASE OpenTrace(w)
  BY <1>0, <1>2, <1>a DEF OpenTrace, Fail, Idle, Jobs, disk
<1>3. CASE WriteTrace(w)
  BY <1>0, <1>3, <1>a DEF WriteTrace, Jobs
<1>4. CASE ReadSummary(w)
  BY <1>0, <1>4, <1>a DEF ReadSummary, Fail, Goto, Idle, Jobs
<1>5. CASE OpenSummary(w)
  <2>1. CASE "alerts" \in dirs
    <3>1. job'[w] = Opened(w, w) /\ summary' = Torn /\ UNCHANGED <<object, up>>
      BY <1>5, <2>1 DEF OpenSummary, Truncate
    <3>2. job[w] \in Jobs
      BY <1>0
    <3>3. job'[w].at = "write"
      BY <3>1, <3>2 DEF Opened, Jobs
    <3> QED BY <1>b, <3>1, <3>3 DEF Served, Torn, Absent
  <2>2. CASE "alerts" \notin dirs
    BY <1>0, <1>5, <1>a, <2>2 DEF OpenSummary, Fail, Idle
  <2> QED BY <2>1, <2>2
<1>6. CASE WriteSummary(w)
  <2>1. job'[w].at = "drop" /\ \A v \in Workers : v # w => job'[v] = job[v]
    BY <1>0, <1>6 DEF WriteSummary, Goto, Jobs
  <2>2. summary' = Absent => summary = Absent
    BY <1>0, <1>6 DEF WriteSummary, Written, File, Torn, Absent, Jobs
  <2>3. object' = object /\ up' = up
    BY <1>6 DEF WriteSummary
  <2> QED BY <1>b, <2>1, <2>2, <2>3 DEF Served
<1>7. CASE DropTable(w)
  <2>1. CASE summary.kind = "absent"
    <3>1. summary = Absent
      BY <1>0, <2>1 DEF Summaries, Absent, Torn
    <3>2. \A v \in Workers : job'[v].at # "commit"
      BY <1>0, <1>7, <2>1, <3>1 DEF DropTable, Answer, Idle, Served
    <3> QED BY <1>7, <2>1, <3>1, <3>2 DEF DropTable, Served, Unsettled, Registered, Absent, disk
  <2>2. CASE summary.kind # "absent"
    <3>1. object' = None /\ job'[w].at = "create" /\ summary' = summary /\ up' = up
      BY <1>0, <1>7, <2>2 DEF DropTable, Goto, Served, disk, Jobs
    <3> QED BY <1>b, <2>2, <3>1 DEF None, Absent
  <2> QED BY <2>1, <2>2
<1>8. CASE CreateTable(w)
  <2>0. UNCHANGED <<summary, object, up>>
    BY <1>8 DEF CreateTable, disk
  <2>1. CASE object = None /\ summary.kind = "file"
                 /\ job' = [job EXCEPT ![w].at = "commit", ![w].held = summary.rows]
    <3>1. job'[w].at = "commit" /\ job'[w].held = summary.rows
      BY <1>0, <2>1 DEF Jobs
    <3>2. summary = File(summary.rows)
      BY <1>0, <2>1 DEF Summaries, Absent, Torn, File
    <3>3. Republishing(w)'
      BY <2>0, <3>1, <3>2 DEF Republishing
    <3>4. summary # Absent
      BY <2>1 DEF Absent
    <3> QED BY <2>0, <3>3, <3>4 DEF Served
  <2>2. CASE (Taken \/ summary.kind # "file") /\ Fail(w) /\ behind' = (behind \/ Taken)
    <3>1. \A v \in Workers : job'[v] = IF v = w THEN Idle ELSE job[v]
      BY <1>0, <2>2 DEF Fail
    <3>2. \A v \in Workers : job'[v].at = "commit" => job[v].at = "commit"
      BY <3>1 DEF Idle
    <3>3. CASE Taken
      BY <2>0, <2>2, <3>2, <3>3 DEF Served
    <3>4. CASE ~Taken
      BY <2>0, <2>2, <3>2, <3>4 DEF Served, Taken, Unsettled, Registered
    <3> QED BY <3>3, <3>4
  <2> QED BY <1>8, <2>1, <2>2 DEF CreateTable
<1>9. CASE CommitTable(w)
  <2>0. /\ \A v \in Workers : job'[v] = IF v = w THEN Idle ELSE job[v]
        /\ summary' = summary /\ up' = up
    BY <1>0, <1>9 DEF CommitTable, Answer, Fail, disk
  <2>1. summary # Absent /\ \A v \in Workers : job'[v].at = "commit" => job[v].at = "commit"
    BY <1>9, <2>0 DEF CommitTable, Served, Idle
  <2>2. CASE behind' /\ object' = object
    BY <2>0, <2>1, <2>2 DEF Served
  <2>3. ASSUME object = None, behind' = behind, NEW rows, object' = Table(rows)
        PROVE  Served'
    <3>1. object' # None /\ object'.kind # "view"
      BY <2>3 DEF Table, None
    <3>2. CASE object' = Registered(summary)
      BY <2>0, <2>1, <3>1, <3>2 DEF Served, Unsettled, Registered
    <3>3. CASE behind
      BY <2>0, <2>1, <2>3, <3>1, <3>3 DEF Served
    <3>4. CASE object' # Registered(summary) /\ ~behind
      <4>1. PICK v \in Workers : Republishing(v)
        BY <1>9, <2>3, <3>4 DEF CommitTable, Served, Unsettled
      <4>2. v = w => summary = File(job[w].held)
        BY <1>9, <4>1 DEF CommitTable, Republishing
      <4>3. v # w
        BY <1>9, <2>3, <3>4, <4>2 DEF CommitTable, Registered, File, Table, None
      <4>4. job'[v] = job[v]
        BY <2>0, <4>3
      <4>5. Republishing(v)'
        BY <2>0, <4>1, <4>4 DEF Republishing
      <4> QED BY <2>0, <2>1, <3>1, <4>5 DEF Served
    <3> QED BY <3>2, <3>3, <3>4
  <2> QED BY <1>9, <2>2, <2>3 DEF CommitTable
<1> QED BY <1>1, <1>2, <1>3, <1>4, <1>5, <1>6, <1>7, <1>8, <1>9 DEF Generate

LEMMA ServedInvariant == Spec => []Served
<1>1. Init => Served
  BY DEF Init, Served, Unsettled, Registered, Absent, None, Idle
<1>2. TypeOK /\ Served /\ [Next]_vars => Served'
  <2> SUFFICES ASSUME TypeOK, Served, [Next]_vars PROVE Served'
    OBVIOUS
  <2>1. ASSUME up, NEW w \in Workers, Generate(w) PROVE Served'
    BY <2>1, GenerateKeepsServed
  <2>2. CASE Crash
    BY <2>2 DEF Crash, Served, Idle
  <2>3. CASE Startup
    <3>1. summary.kind = "absent" => summary = Absent
      BY DEF TypeOK, Summaries, Torn
    <3>2. object' = Registered(summary)
      BY <2>3, <3>1 DEF Startup, StartupObject, Served, Registered, Absent
    <3>3. \A w \in Workers : job'[w].at # "commit"
      BY <2>3 DEF Startup, Served, Idle
    <3>4. object'.kind # "view" /\ (summary = Absent => object' = None)
      BY <3>2 DEF Registered, Table, None, Absent
    <3>5. summary' = summary /\ up'
      BY <2>3 DEF Startup, disk
    <3>6. ~Unsettled'
      BY <3>2, <3>3, <3>5 DEF Unsettled, Registered
    <3> QED BY <3>3, <3>4, <3>5, <3>6 DEF Served
  <2>4. CASE UNCHANGED vars
    BY <2>4 DEF vars, disk, Served, Unsettled, Republishing
  <2> QED BY <2>1, <2>2, <2>3, <2>4 DEF Next
<1> QED BY Typing, <1>1, <1>2, PTL DEF Spec

-----------------------------------------------------------------------------
(* One request at a time *)

\* A caller is told of alerts whose traces have been written.
Answers == answered \subseteq traces

\* What a request has of the summary it rewrites: the rows of every alert that
\* was answered, a file that nobody else has open, and, once it is written, a
\* file with its own rows.
Rewriting(w) ==
  /\ job[w].at \in {"open", "write"} => answered \subseteq job[w].held
  /\ job[w].at = "write" => job[w].fh = "alone"
  /\ job[w].at \in {"drop", "create", "commit"} =>
       summary.kind = "file" /\ job[w].fired \subseteq summary.rows
  /\ job[w].at \in {"create", "commit"} => object = None
  /\ job[w].at = "commit" => summary = File(job[w].held)

\* The first crash leaves an empty trace or a torn summary, and not both.
Legible ==
  summary.kind = "torn" =>
    \/ \E w \in Workers : job[w].at = "write"
    \/ crashes = 1 /\ cut = {}
    \/ crashes > 1

Kept ==
  /\ summary.kind = "file" => answered \subseteq summary.rows
  /\ summary.kind = "absent" => answered = {}
  /\ object.kind = "table" => answered \subseteq object.rows
  /\ crashes = 0 => cut = {}
  /\ ~behind
  /\ Legible
  /\ \A w \in Workers : Rewriting(w)

Serially == serial => OneAtATime /\ Kept

LEMMA GenerateAnswers ==
  ASSUME TypeOK, Evidence, Answers, NEW w \in Workers, Generate(w)
  PROVE  Answers'
<1>1. job[w] \in Jobs
  BY DEF TypeOK
<1>2. job[w].at \in {"drop", "create", "commit"} => job[w].fired \subseteq traces
  BY DEF Evidence, Backed
<1>3. traces \subseteq traces'
  BY DEF Generate, Evaluate, OpenTrace, WriteTrace, ReadSummary, OpenSummary, WriteSummary,
         DropTable, CreateTable, CommitTable, disk
<1>4. CASE answered' = answered
  BY <1>3, <1>4 DEF Answers
<1>5. CASE job[w].at \in {"drop", "create", "commit"} /\ answered' = answered \cup job[w].fired
  BY <1>2, <1>3, <1>5 DEF Answers
<1> QED BY <1>4, <1>5 DEF Generate, Evaluate, OpenTrace, WriteTrace, ReadSummary, OpenSummary,
         WriteSummary, DropTable, CreateTable, CommitTable, Answer

LEMMA GenerateKeepsRows ==
  ASSUME TypeOK, Served, OneAtATime, Kept, NEW w \in Workers, Generate(w)
  PROVE  Kept'
<1>0. /\ job \in [Workers -> Jobs] /\ summary \in Summaries /\ object \in Objects
      /\ crashes \in Nat
  BY CrashBound DEF TypeOK
\* While w is at work nobody else is.
<1>1. ASSUME job[w].at # "idle", NEW v \in Workers, v # w PROVE job[v].at = "idle"
  BY <1>1 DEF OneAtATime
\* Only the job of w changes, and it had the summary not open.
<1>a. ASSUME UNCHANGED <<cut, summary, object, answered, behind, crashes>>,
             job' = [job EXCEPT ![w] = job'[w]], job[w].at # "write", Rewriting(w)'
      PROVE  Kept'
  <2>1. \A v \in Workers : v # w => job'[v] = job[v]
    BY <1>0, <1>a
  <2>2. \A v \in Workers : Rewriting(v)'
    BY <1>a, <2>1 DEF Kept, Rewriting
  <2>3. Legible'
    BY <1>a, <2>1 DEF Kept, Legible
  <2> QED BY <1>a, <2>2, <2>3 DEF Kept
<1>b. ASSUME Fail(w) PROVE Rewriting(w)' /\ job' = [job EXCEPT ![w] = job'[w]]
  BY <1>0, <1>b DEF Fail, Rewriting, Idle
<1>2. CASE Evaluate(w)
  BY <1>0, <1>2, <1>a DEF Evaluate, Rewriting, Idle
<1>3. CASE OpenTrace(w)
  <2>1. CASE "traces" \in dirs
    BY <1>0, <1>3, <1>a, <2>1 DEF OpenTrace, Rewriting, Jobs, disk
  <2>2. CASE "traces" \notin dirs
    BY <1>3, <1>a, <1>b, <2>2 DEF OpenTrace, disk
  <2> QED BY <2>1, <2>2
<1>4. CASE WriteTrace(w)
  BY <1>0, <1>4, <1>a DEF WriteTrace, Rewriting, Jobs
<1>5. CASE ReadSummary(w)
  <2>1. CASE summary.kind = "file"
    BY <1>0, <1>5, <1>a, <2>1 DEF ReadSummary, Rewriting, Kept, Jobs
  <2>2. CASE summary.kind = "torn"
    BY <1>5, <1>a, <1>b, <2>2 DEF ReadSummary
  <2>3. CASE summary.kind = "absent"
    BY <1>0, <1>5, <1>a, <2>3 DEF ReadSummary, Goto, Rewriting, Kept, Jobs
  <2> QED BY <1>5, <2>1, <2>2, <2>3 DEF ReadSummary
<1>6. CASE OpenSummary(w)
  <2>1. CASE "alerts" \in dirs
    <3>1. Writers = {}
      BY <1>1, <1>6 DEF OpenSummary, Writers
    <3>2. job'[w] = [job[w] EXCEPT !.at = "write", !.fh = "alone"]
      BY <1>6, <2>1, <3>1 DEF OpenSummary, Truncate, Opened
    <3>3. \A v \in Workers : v # w => job'[v] = job[v]
      BY <1>6, <2>1, <3>1 DEF OpenSummary, Truncate, Opened
    <3>4. job'[w].at = "write" /\ job'[w].fh = "alone" /\ job'[w].held = job[w].held
      BY <1>0, <3>2 DEF Jobs
    <3>5. \A v \in Workers : Rewriting(v)'
      BY <1>1, <1>6, <2>1, <3>3, <3>4 DEF OpenSummary, Truncate, Rewriting, Kept
    <3> QED BY <1>6, <2>1, <3>4, <3>5 DEF OpenSummary, Truncate, Kept, Legible, Torn
  <2>2. CASE "alerts" \notin dirs
    BY <1>6, <1>a, <1>b, <2>2 DEF OpenSummary
  <2> QED BY <2>1, <2>2
<1>7. CASE WriteSummary(w)
  <2>1. summary' = File(Combined(w)) /\ answered \subseteq Combined(w)
    BY <1>7 DEF WriteSummary, Written, Combined, Kept, Rewriting
  <2>2. /\ job'[w].at = "drop" /\ job'[w].fired = job[w].fired
        /\ \A v \in Workers : v # w => job'[v] = job[v]
    BY <1>0, <1>7 DEF WriteSummary, Goto, Jobs
  <2>3. \A v \in Workers : Rewriting(v)'
    BY <1>1, <1>7, <2>1, <2>2 DEF WriteSummary, Rewriting, File, Combined
  <2> QED BY <1>7, <2>1, <2>3 DEF WriteSummary, Kept, Legible, File
<1>8. CASE DropTable(w)
  <2>1. summary.kind = "file" /\ object.kind # "view"
    BY <1>8 DEF DropTable, Kept, Rewriting, Served
  <2>2. /\ object' = None /\ Goto(w, "create")
        /\ UNCHANGED <<cut, summary, answered, behind, crashes>>
    BY <1>8, <2>1 DEF DropTable, disk
  <2>3. /\ job'[w].at = "create" /\ job'[w].fired = job[w].fired
        /\ \A v \in Workers : v # w => job'[v] = job[v]
    BY <1>0, <2>2 DEF Goto, Jobs
  <2>4. \A v \in Workers : Rewriting(v)'
    BY <1>8, <2>2, <2>3 DEF DropTable, Rewriting, Kept
  <2> QED BY <2>1, <2>2, <2>4 DEF Kept, Legible, None
<1>9. CASE CreateTable(w)
  <2>0. object = None /\ summary.kind = "file"
    BY <1>9 DEF CreateTable, Kept, Rewriting
  <2>1. ~Taken
    BY <1>1, <1>9, <2>0 DEF CreateTable, Taken
  <2>2. /\ job' = [job EXCEPT ![w].at = "commit", ![w].held = summary.rows]
        /\ ~behind' /\ UNCHANGED <<cut, summary, object, answered, crashes>>
    BY <1>9, <2>0, <2>1 DEF CreateTable, disk
  <2>3. /\ job'[w] = [job[w] EXCEPT !.at = "commit", !.held = summary.rows]
        /\ \A v \in Workers : v # w => job'[v] = job[v]
    BY <1>0, <2>2
  <2>4. job'[w].at = "commit" /\ job'[w].held = summary.rows /\ job'[w].fired = job[w].fired
    BY <1>0, <2>3 DEF Jobs
  <2>5. summary = File(summary.rows)
    BY <1>0, <2>0 DEF Summaries, Absent, Torn, File
  <2>6. job[w].fired \subseteq summary.rows
    BY <1>9 DEF CreateTable, Kept, Rewriting
  <2>7. Rewriting(w)'
    BY <2>0, <2>2, <2>4, <2>5, <2>6 DEF Rewriting
  <2>8. \A v \in Workers : Rewriting(v)'
    BY <2>2, <2>3, <2>7 DEF Rewriting, Kept
  <2> QED BY <2>0, <2>2, <2>8 DEF Kept, Legible
<1>10. CASE CommitTable(w)
  <2>1. object = None /\ summary = File(job[w].held) /\ job[w].fired \subseteq summary.rows
    BY <1>10 DEF CommitTable, Kept, Rewriting
  <2>2. /\ object' = Table(summary.rows) /\ answered' = answered \cup job[w].fired
        /\ job' = [job EXCEPT ![w] = Idle] /\ UNCHANGED <<cut, summary, behind, crashes>>
    BY <1>10, <2>1 DEF CommitTable, Answer, disk
  <2>3. summary.kind = "file"
    BY <2>1 DEF File
  <2>4. answered' \subseteq summary.rows
    BY <2>1, <2>2, <2>3 DEF Kept
  <2>5. \A v \in Workers : job'[v].at = "idle"
    BY <1>0, <1>1, <1>10, <2>2 DEF CommitTable, Idle
  <2> QED BY <2>2, <2>3, <2>4, <2>5 DEF Kept, Legible, Rewriting, Table
<1> QED BY <1>2, <1>3, <1>4, <1>5, <1>6, <1>7, <1>8, <1>9, <1>10 DEF Generate

\* What the theorems below rest on, each part preserved with the help of those
\* before it.
Accounted == TypeOK /\ Evidence /\ Answers /\ Served /\ Serially

LEMMA CrashKeepsRows ==
  ASSUME TypeOK, Evidence, OneAtATime, Kept, Crash
  PROVE  OneAtATime' /\ Kept'
<1>1. /\ crashes \in Nat /\ crashes' = crashes + 1 /\ cut' = Empty
      /\ \A w \in Workers : job'[w].at = "idle"
  BY CrashBound DEF TypeOK, Crash, Idle
<1>2. OneAtATime'
  BY <1>1 DEF OneAtATime
<1>3. ASSUME NEW w \in Workers, job[w].at = "write" PROVE cut' = cut
  <2>1. \A v \in Workers : job[v].at # "text"
    BY <1>3 DEF OneAtATime
  <2>2. \A v \in Workers : job[v].text = {}
    BY <2>1 DEF Evidence, Backed
  <2> QED BY <1>1, <2>2 DEF Empty
<1>4. Legible'
  <2>1. crashes' = 1 => crashes = 0
    BY <1>1
  <2>2. crashes' # 1 => crashes' > 1
    BY <1>1
  <2>3. summary' = summary
    BY DEF Crash
  <2>4. summary.kind = "torn" /\ crashes = 0 => cut' = {}
    BY <1>3 DEF Kept, Legible
  <2> QED BY <2>1, <2>2, <2>3, <2>4 DEF Legible
<1> QED BY <1>1, <1>2, <1>4 DEF Crash, Kept, Rewriting

LEMMA StartupKeepsRows ==
  ASSUME TypeOK, Kept, Served, Startup
  PROVE  Kept'
<1>1. object' = StartupObject /\ ~behind' /\ UNCHANGED <<disk, answered, job, crashes>>
  BY DEF Startup
<1>2. object'.kind = "table" => answered \subseteq object'.rows
  BY <1>1 DEF StartupObject, Registered, Table, None, Kept
<1>3. \A w \in Workers : job'[w].at = "idle"
  BY <1>1 DEF Startup, Served, Idle
<1> QED BY <1>1, <1>2, <1>3 DEF Kept, Legible, Rewriting, disk

LEMMA AccountedInvariant == Spec => []Accounted
<1>1. Init => Answers /\ Serially
  <2> SUFFICES ASSUME Init PROVE Answers /\ Serially
    OBVIOUS
  <2>1. \A w \in Workers : job[w].at = "idle"
    BY DEF Init, Idle
  <2> QED BY <2>1 DEF Init, Answers, Serially, OneAtATime, Kept, Legible, Rewriting,
                      Absent, None
<1>2. TypeOK /\ Evidence /\ Answers /\ Served /\ Serially /\ [Next]_vars => Answers' /\ Serially'
  <2> SUFFICES ASSUME TypeOK, Evidence, Answers, Served, Serially, [Next]_vars
               PROVE  Answers' /\ Serially'
    OBVIOUS
  <2>0. CASE UNCHANGED vars
    BY <2>0 DEF vars, disk, Answers, Serially, OneAtATime, Kept, Legible, Rewriting
  <2>1. CASE Next
    <3>0. serial' = serial /\ (serial => OneAtATime')
      BY <2>1 DEF Next
    <3>1. ASSUME NEW w \in Workers, Generate(w) PROVE Answers' /\ Serially'
      <4>1. Answers'
        BY <3>1, GenerateAnswers
      <4>2. serial => Kept'
        BY <3>1, GenerateKeepsRows DEF Serially
      <4> QED BY <3>0, <4>1, <4>2 DEF Serially
    <3>2. CASE Crash
      <4>1. Answers'
        BY <3>2 DEF Crash, Answers
      <4> QED BY <3>0, <3>2, <4>1, CrashKeepsRows DEF Serially
    <3>3. CASE Startup
      <4>1. Answers'
        BY <3>3 DEF Startup, disk, Answers
      <4> QED BY <3>0, <3>3, <4>1, StartupKeepsRows DEF Serially
    <3> QED BY <2>1, <3>1, <3>2, <3>3 DEF Next
  <2> QED BY <2>0, <2>1
<1> QED BY Typing, EvidenceInvariant, ServedInvariant, <1>1, <1>2, PTL DEF Spec, Accounted

\* With no request in flight the table that is queried is the summary file, for
\* any interleaving of file writes, DROPs, CREATEs and commits and any crash, unless
\* a request was refused its CREATE since the file was last read for one; with one
\* request at a time that never is.
THEOREM ServedIsFile == Spec => []ServedMatchesFile
<1>1. Accounted => ServedMatchesFile
  <2> SUFFICES ASSUME Accounted, Quiet, serial \/ ~behind PROVE object = Registered(summary)
    BY DEF ServedMatchesFile
  <2>1. ~behind
    BY DEF Accounted, Serially, Kept
  <2> QED BY <2>1 DEF Accounted, Served, Unsettled, Quiet, Republishing
<1> QED BY <1>1, AccountedInvariant, PTL

\* With one request at a time, and crashes anywhere, what was answered stays in
\* the alert list, as long as the list can be asked at all (Listable).
THEOREM AnsweredStaysListed == Spec => []AnsweredListedSerially
<1>1. Accounted => AnsweredListedSerially
  <2> SUFFICES ASSUME Accounted, serial, Listable, up PROVE answered \subseteq Listing
    BY DEF AnsweredListedSerially, AnsweredListed
  <2> USE DEF Accounted
  <2>1. CASE Selected # {}
    <3>1. object.kind = "table" /\ Selected = object.rows
      BY <2>1 DEF Selected, Served, TypeOK, Objects, None, View
    <3> QED BY <2>1, <3>1 DEF Listing, Serially, Kept
  <2>2. CASE Selected = {} /\ Empty = {}
    BY <2>2 DEF Listing, Answers
  <2>3. CASE Selected = {} /\ Empty # {}
    <3>1. Quiet /\ crashes <= 1 /\ crashes \in Nat
      BY <2>3, CrashBound DEF Listable, TypeOK
    <3>2. cut # {}
      BY <2>3, <3>1 DEF Empty, Quiet, Evidence, Backed
    <3>3. summary.kind # "torn"
      BY <3>1, <3>2 DEF Serially, Kept, Legible, Quiet
    <3>4. object = Registered(summary)
      BY <3>1 DEF Served, Serially, Kept, Unsettled, Quiet, Republishing
    <3>5. answered = {}
      BY <2>3, <3>3, <3>4 DEF Selected, Registered, Table, Serially, Kept, TypeOK,
                              Summaries, Absent, Torn
    <3> QED BY <3>5
  <2> QED BY <2>1, <2>2, <2>3
<1> QED BY <1>1, AccountedInvariant, PTL

\* With one request at a time every rewrite of the summary keeps what was answered.
THEOREM SummaryKeepsAnswered == Spec => []SummaryAppendsSerially
<1>1. Accounted => SummaryAppendsSerially
  BY DEF Accounted, Serially, Kept, SummaryAppendsSerially, SummaryAppends
<1> QED BY <1>1, AccountedInvariant, PTL

-----------------------------------------------------------------------------
(* With a presenter: the types and the checkpoint shown *)

LEMMA CheckpointFacts ==
  /\ Len(CHECKPOINTS) \in Nat \ {0} /\ DOMAIN CHECKPOINTS = 1 .. Len(CHECKPOINTS)
  /\ \A i \in DOMAIN CHECKPOINTS : CHECKPOINTS[i] \in Named
  /\ Pristine = CHECKPOINTS[1] /\ Final = CHECKPOINTS[Len(CHECKPOINTS)]
  /\ 1 \in DOMAIN CHECKPOINTS /\ Len(CHECKPOINTS) \in DOMAIN CHECKPOINTS
<1>1. Len(CHECKPOINTS) \in Nat /\ DOMAIN CHECKPOINTS = 1 .. Len(CHECKPOINTS)
  BY Checkpoints
<1>2. Len(CHECKPOINTS) # 0
  BY Checkpoints, EmptySeq
<1> QED BY <1>1, <1>2 DEF Named, Pristine, Final

\* A label that step and jump may show: a checkpoint's goes with its position.
Label(s) == /\ s \in [checkpoint : Names, index : DOMAIN CHECKPOINTS]
            /\ s.checkpoint \in Named => CHECKPOINTS[s.index] = s.checkpoint

Presented == /\ snapshots \in [Names -> Trees] /\ Label(state)
             /\ whole \in BOOLEAN /\ demo \in Demos

LEMMA IndexLabels ==
  ASSUME NEW name \in Names
  PROVE  Label(State(name, IndexOf(name)))
<1>1. IndexOf(name) \in DOMAIN CHECKPOINTS
      /\ (name \in Named => CHECKPOINTS[IndexOf(name)] = name)
  BY CheckpointFacts DEF IndexOf, Named
<1> QED BY <1>1 DEF Label, State

LEMMA PlaceLabels ==
  ASSUME NEW i \in DOMAIN CHECKPOINTS
  PROVE  Label(State(CHECKPOINTS[i], i))
  BY CheckpointFacts DEF Label, State, Names

LEMMA RestingIsDemo == Resting \in Demos
  BY CheckpointFacts DEF Resting, Demos, Names

LEMMA TreesAre ==
  /\ Missing \in Trees /\ Bare \in Trees
  /\ TypeOK /\ Presented => /\ Workspace \in Trees
                            /\ snapshots[demo.name] \in Trees
                            /\ Entries(Workspace) \subseteq {"summary", "traces"}
                            /\ Files(Workspace) \subseteq Alerts
                            /\ Files(snapshots[demo.name]) \subseteq Alerts
<1>1. Missing \in Trees /\ Bare \in Trees
  BY DEF Missing, Bare, Trees, Summaries
<1>2. ASSUME TypeOK, Presented PROVE Workspace \in Trees /\ snapshots[demo.name] \in Trees
  <2>1. Empty \subseteq Alerts
    BY <1>2 DEF TypeOK, Jobs, Empty
  <2>2. dirs \subseteq {"snapshot", "alerts", "traces"}
    BY <1>2 DEF TypeOK
  <2>3. Workspace \in Trees
    BY <1>2, <2>1, <2>2 DEF TypeOK, Presented, Workspace, Trees
  <2> QED BY <1>2, <2>3 DEF Presented, Demos
<1> QED BY <1>1, <1>2 DEF Entries, Files, Trees

LEMMA RestorePresents ==
  ASSUME TypeOK, Presented, NEW name \in Names, NEW fallback, Label(fallback),
         Restore(name, fallback)
  PROVE  TypeOK' /\ Presented'
<1>1. UNCHANGED vars /\ snapshots' = snapshots /\ whole' \in BOOLEAN
  BY DEF Restore
<1>2. Label(state')
  BY DEF Restore, Presented
<1>3. demo' \in Demos
  BY DEF Restore, Resting, Demos
<1>4. Label(state)'
  BY <1>2 DEF Label
<1> QED BY <1>1, <1>3, <1>4 DEF vars, disk, TypeOK, Presented

LEMMA RemoveTypes ==
  ASSUME TypeOK, Presented, Remove, UNCHANGED serial
  PROVE  TypeOK' /\ Presented'
<1>0. /\ demo \in Demos /\ Doomed \in Trees
      /\ Entries(Doomed) \subseteq {"summary", "traces"} /\ Files(Doomed) \subseteq Alerts
  <2>1. Doomed \in Trees
    BY TreesAre DEF Doomed
  <2> QED BY <2>1 DEF Entries, Files, Trees, Presented
<1>1. UNCHANGED <<object, minted, answered, up, crashes, state, whole>>
  BY DEF Remove
<1>2. Label(state)'
  BY <1>1 DEF Presented, Label
<1>3. AfterRemoval \in Demos
  BY <1>0 DEF AfterRemoval, Demos
\* The tree is one, whatever was taken out of it.
<1>a. ASSUME NEW t \in Trees, t.dirs \subseteq Doomed.dirs, Becomes(t), demo' \in Demos,
             behind' \in BOOLEAN
      PROVE  TypeOK' /\ Presented'
  <2>1. CASE demo.at = "clear"
    <3>1. snapshots' \in [Names -> Trees] /\ UNCHANGED <<disk, job>>
      BY <1>a, <2>1 DEF Becomes, Presented
    <3> QED BY <1>1, <1>2, <1>a, <3>1 DEF TypeOK, Presented, disk
  <2>2. CASE demo.at # "clear"
    <3>1. job' \in [Workers -> Jobs]
      <4>1. ASSUME NEW w \in Workers
            PROVE  [job[w] EXCEPT !.text = @ \cap t.cut,
                      !.fh = IF job[w].at = "write" /\ t.summary = Absent
                               THEN "unlinked" ELSE @] \in Jobs
        BY DEF TypeOK, Jobs
      <4> QED BY <1>a, <2>2, <4>1 DEF Becomes
    <3>2. dirs' \subseteq {"alerts", "traces"}
      BY <1>a, <2>2 DEF Becomes, Doomed, Workspace, TypeOK
    <3>3. traces' \subseteq Alerts /\ cut' \subseteq Alerts /\ summary' \in Summaries
      BY <1>a, <2>2 DEF Becomes, Trees, TypeOK
    <3>4. snapshots' = snapshots
      BY <1>a, <2>2 DEF Becomes
    <3> QED BY <1>1, <1>2, <1>a, <3>1, <3>2, <3>3, <3>4 DEF TypeOK, Presented
  <2> QED BY <2>1, <2>2
<1>b. ASSUME UNCHANGED <<disk, job, snapshots>>, demo' \in Demos, behind' \in BOOLEAN
      PROVE  TypeOK' /\ Presented'
  BY <1>1, <1>2, <1>b DEF TypeOK, Presented, disk
<1>c. Raise => demo' \in Demos /\ behind' \in BOOLEAN
  BY RestingIsDemo DEF Raise
<1>d. behind \in BOOLEAN
  BY DEF TypeOK
<1>4. CASE ListDoomed
  <2>1. demo' \in Demos
    BY <1>0, <1>3, <1>4 DEF ListDoomed, Demos
  <2> QED BY <1>4, <1>b, <1>d, <2>1 DEF ListDoomed
<1>5. CASE UnlinkSummary
  <2>1. [Doomed EXCEPT !.summary = Absent] \in Trees /\ demo' \in Demos
    BY <1>0, <1>5 DEF UnlinkSummary, Trees, Demos, Summaries
  <2>2. [Doomed EXCEPT !.summary = Absent].dirs = Doomed.dirs
    BY <1>0 DEF Trees
  <2> QED BY <1>5, <1>a, <1>d, <2>1, <2>2 DEF UnlinkSummary
<1>6. CASE ListTraces
  <2>1. demo' \in Demos
    BY <1>0, <1>6 DEF ListTraces, Demos
  <2> QED BY <1>6, <1>b, <1>d, <2>1 DEF ListTraces
<1>7. CASE UnlinkTrace
  <2>1. PICK a \in demo.files :
          /\ Becomes([Doomed EXCEPT !.traces = @ \ {a}, !.cut = @ \ {a}])
          /\ demo' = [demo EXCEPT !.files = @ \ {a}]
    BY <1>7 DEF UnlinkTrace
  <2>2. [Doomed EXCEPT !.traces = @ \ {a}, !.cut = @ \ {a}] \in Trees /\ demo' \in Demos
    BY <1>0, <2>1 DEF Trees, Demos
  <2>3. [Doomed EXCEPT !.traces = @ \ {a}, !.cut = @ \ {a}].dirs = Doomed.dirs
    BY <1>0 DEF Trees
  <2> QED BY <1>7, <1>a, <1>d, <2>1, <2>2, <2>3 DEF UnlinkTrace
<1>8. CASE RemoveTraces
  <2>1. CASE Files(Doomed) = {}
    <3>1. [Doomed EXCEPT !.dirs = @ \ {"traces"}] \in Trees
      BY <1>0 DEF Trees
    <3>2. [Doomed EXCEPT !.dirs = @ \ {"traces"}].dirs \subseteq Doomed.dirs
      BY <1>0 DEF Trees
    <3>0. demo' = [demo EXCEPT !.place = "alerts", !.parts = @ \ {"traces"}]
      BY <1>8, <2>1 DEF RemoveTraces
    <3>3. demo' \in Demos
      BY <1>0, <3>0 DEF Demos
    <3> QED BY <1>8, <1>a, <1>d, <2>1, <3>1, <3>2, <3>3 DEF RemoveTraces
  <2>2. CASE Files(Doomed) # {}
    BY <1>8, <1>b, <1>c, <2>2 DEF RemoveTraces
  <2> QED BY <2>1, <2>2
<1>9. CASE RemoveAlerts
  <2>1. CASE Entries(Doomed) = {}
    <3>1. [Doomed EXCEPT !.dirs = @ \ {"alerts"}] \in Trees /\ demo' \in Demos
      BY <1>0, <1>3, <1>9, <2>1 DEF RemoveAlerts, Trees
    <3>2. [Doomed EXCEPT !.dirs = @ \ {"alerts"}].dirs \subseteq Doomed.dirs
      BY <1>0 DEF Trees
    <3> QED BY <1>9, <1>a, <1>d, <2>1, <3>1, <3>2 DEF RemoveAlerts
  <2>2. CASE Entries(Doomed) # {}
    BY <1>9, <1>b, <1>c, <2>2 DEF RemoveAlerts
  <2> QED BY <2>1, <2>2
<1> QED BY <1>4, <1>5, <1>6, <1>7, <1>8, <1>9 DEF Remove

LEMMA SaveTypes ==
  ASSUME TypeOK, Presented, Save, UNCHANGED serial
  PROVE  TypeOK' /\ Presented'
<1> DEFINE target == snapshots[demo.name]
<1>0. /\ demo \in Demos /\ target \in Trees
      /\ Entries(Workspace) \subseteq {"summary", "traces"} /\ Files(Workspace) \subseteq Alerts
  BY TreesAre DEF Presented
<1>1. UNCHANGED <<object, minted, answered, behind, up, crashes, state, whole>>
  BY DEF Save
<1>2. Label(state)'
  BY <1>1 DEF Presented, Label
<1>a. ASSUME UNCHANGED <<disk, job>>, snapshots' \in [Names -> Trees], demo' \in Demos
      PROVE  TypeOK' /\ Presented'
  BY <1>1, <1>2, <1>a DEF TypeOK, Presented, disk
<1>b. ASSUME NEW t \in Trees, Saved(t)
      PROVE  UNCHANGED <<disk, job>> /\ snapshots' \in [Names -> Trees]
  BY <1>0, <1>b DEF Saved, Presented, Demos
<1>c. traces \subseteq Alerts /\ summary \in Summaries /\ whole \in BOOLEAN
  BY DEF TypeOK, Presented
<1>3. CASE EnterSaved
  <2>1. [target EXCEPT !.dirs = @ \cup {"alerts"}] \in Trees /\ demo' \in Demos
    BY <1>0, <1>3 DEF EnterSaved, Trees, Demos
  <2> QED BY <1>3, <1>a, <1>b, <2>1 DEF EnterSaved
<1>4. CASE OpenSavedSummary
  <2>1. [target EXCEPT !.summary = Torn] \in Trees /\ demo' \in Demos
    BY <1>0, <1>4 DEF OpenSavedSummary, Trees, Demos, Summaries
  <2> QED BY <1>4, <1>a, <1>b, <2>1 DEF OpenSavedSummary
<1>5. CASE WriteSavedSummary
  <2>1. [target EXCEPT !.summary = summary] \in Trees /\ demo' \in Demos
    BY <1>0, <1>5, <1>c DEF WriteSavedSummary, Trees, Demos
  <2> QED BY <1>5, <1>a, <1>b, <2>1 DEF WriteSavedSummary
<1>6. CASE EnterSavedTraces
  <2>1. [target EXCEPT !.dirs = @ \cup {"traces"}] \in Trees /\ demo' \in Demos
    BY <1>0, <1>6 DEF EnterSavedTraces, Copied, Trees, Demos
  <2> QED BY <1>6, <1>a, <1>b, <2>1 DEF EnterSavedTraces
<1>7. CASE OpenSavedTrace
  <2>1. PICK a \in demo.files : /\ Saved([target EXCEPT !.cut = @ \cup {a}])
                                /\ demo' = [demo EXCEPT !.files = @ \ {a}, !.open = {a}]
    BY <1>7 DEF OpenSavedTrace
  <2>2. [target EXCEPT !.cut = @ \cup {a}] \in Trees /\ demo' \in Demos
    BY <1>0, <2>1 DEF Trees, Demos
  <2> QED BY <1>a, <1>b, <2>1, <2>2
<1>8. CASE WriteSavedTrace
  <2> DEFINE written == demo.open \cap traces
  <2>1. [target EXCEPT !.traces = @ \cup written, !.cut = @ \ written] \in Trees /\ demo' \in Demos
    BY <1>0, <1>8, <1>c DEF WriteSavedTrace, Trees, Demos
  <2> QED BY <1>8, <1>a, <1>b, <2>1 DEF WriteSavedTrace
<1>9. CASE EndSave
  <2>1. [target EXCEPT !.whole = whole] \in Trees
    BY <1>0, <1>c DEF Trees
  <2> QED BY <1>9, <1>a, <1>b, <2>1, RestingIsDemo DEF EndSave
<1>10. CASE LeaveTraces /\ UNCHANGED <<disk, job, snapshots>>
  <2>1. demo' \in Demos
    BY <1>0, <1>10 DEF LeaveTraces, Demos
  <2> QED BY <1>10, <1>a, <2>1 DEF Presented
<1> QED BY <1>3, <1>4, <1>5, <1>6, <1>7, <1>8, <1>9, <1>10 DEF Save

LEMMA CopyBackTypes ==
  ASSUME TypeOK, Presented, CopyBack, UNCHANGED serial
  PROVE  TypeOK' /\ Presented'
<1> DEFINE source == snapshots[demo.name]
<1>0. /\ demo \in Demos /\ source \in Trees
      /\ Entries(source) \subseteq {"summary", "traces"} /\ Files(source) \subseteq Alerts
  BY TreesAre DEF Presented, Entries
<1>1. UNCHANGED <<object, minted, answered, up, crashes, snapshots>>
  BY DEF CopyBack
<1>2. job \in [Workers -> Jobs] /\ Presenter \in Workers /\ behind \in BOOLEAN
  BY PresenterServes DEF TypeOK
<1>a. ASSUME dirs' \subseteq {"alerts", "traces"}, traces' \subseteq Alerts, cut' \subseteq Alerts,
             summary' \in Summaries, job' \in [Workers -> Jobs], behind' \in BOOLEAN,
             UNCHANGED <<state, whole>>, demo' \in Demos
      PROVE  TypeOK' /\ Presented'
  BY <1>1, <1>a DEF TypeOK, Presented, Label
<1>b. ASSUME UNCHANGED <<traces, cut, summary, job>>
      PROVE  /\ traces' \subseteq Alerts /\ cut' \subseteq Alerts
             /\ summary' \in Summaries /\ job' \in [Workers -> Jobs]
  BY <1>b DEF TypeOK
<1>c. dirs \subseteq {"alerts", "traces"} /\ traces \subseteq Alerts /\ cut \subseteq Alerts
      /\ summary \in Summaries
  BY DEF TypeOK
<1>d. Raise => demo' \in Demos /\ behind' \in BOOLEAN
  BY RestingIsDemo DEF Raise
<1>3. CASE EnterRestored
  <2>1. demo' \in Demos /\ behind' \in BOOLEAN
    BY <1>0, <1>2, <1>3, <1>d DEF EnterRestored, Demos
  <2> QED BY <1>3, <1>a, <1>b, <1>c, <2>1 DEF EnterRestored
<1>4. CASE OpenRestoredSummary
  <2>1. demo' \in Demos
    BY <1>0, <1>4 DEF OpenRestoredSummary, Demos
  <2>2. ASSUME NEW v \in Workers PROVE Opened(Presenter, v) \in Jobs
    <3>1. job[v] \in Jobs
      BY <1>2
    <3> QED BY <3>1 DEF Opened, Jobs, Steps
  <2>3. job' \in [Workers -> Jobs] /\ summary' \in Summaries
    BY <1>4, <2>2 DEF OpenRestoredSummary, Truncate, Summaries
  <2> QED BY <1>2, <1>4, <1>a, <1>c, <2>1, <2>3 DEF OpenRestoredSummary
<1>5. CASE WriteRestoredSummary
  <2>1. demo' \in Demos
    BY <1>0, <1>5 DEF WriteRestoredSummary, Demos
  <2>2. job' \in [Workers -> Jobs]
    BY <1>2, <1>5, IdleIsJob DEF WriteRestoredSummary
  <2>3. source.summary \in Summaries /\ job[Presenter].fh \in {"alone", "mixed", "unlinked"}
    BY <1>0, <1>2 DEF Trees, Jobs
  <2>4. summary' \in Summaries
    BY <1>5, <1>c, <2>3 DEF WriteRestoredSummary, Written, Summaries
  <2> QED BY <1>2, <1>5, <1>a, <1>c, <2>1, <2>2, <2>4 DEF WriteRestoredSummary
<1>6. CASE EnterRestoredTraces
  <2>1. demo' \in Demos
    BY <1>0, <1>6 DEF EnterRestoredTraces, Copied, Demos
  <2> QED BY <1>2, <1>6, <1>a, <1>b, <1>c, <2>1 DEF EnterRestoredTraces
<1>7. CASE OpenRestoredTrace
  <2>1. PICK a \in demo.files : /\ cut' = cut \cup {a}
                                /\ demo' = [demo EXCEPT !.files = @ \ {a}, !.open = {a}]
    BY <1>7 DEF OpenRestoredTrace
  <2>2. cut' \subseteq Alerts /\ demo' \in Demos
    BY <1>0, <1>c, <2>1 DEF Demos
  <2> QED BY <1>2, <1>7, <1>a, <1>c, <2>2 DEF OpenRestoredTrace
<1>8. CASE WriteRestoredTrace
  <2>1. demo' \in Demos /\ source.traces \subseteq Alerts
    BY <1>0, <1>8 DEF WriteRestoredTrace, Demos, Trees
  <2>2. traces' \subseteq Alerts /\ cut' \subseteq Alerts
    BY <1>8, <1>c, <2>1 DEF WriteRestoredTrace
  <2> QED BY <1>2, <1>8, <1>a, <1>c, <2>1, <2>2 DEF WriteRestoredTrace
<1>9. CASE EndRestore
  <2>1. CASE demo.bad
    BY <1>2, <1>9, <1>a, <1>c, <1>d, <2>1 DEF EndRestore, disk
  <2>2. CASE ~demo.bad
    <3>1. Label(State(demo.name, IndexOf(demo.name)))
      BY <1>0, IndexLabels DEF Demos
    <3>2. Label(state')
      BY <1>9, <2>2, <3>1 DEF EndRestore
    <3>3. Label(state)'
      BY <3>2 DEF Label
    <3>4. demo' \in Demos
      BY <1>9, <2>2, RestingIsDemo DEF EndRestore, Demos
    <3>5. whole' \in BOOLEAN
      BY <1>0, <1>9, <2>2 DEF EndRestore, Trees
    <3> QED BY <1>1, <1>9, <2>2, <3>3, <3>4, <3>5 DEF EndRestore, TypeOK, Presented, disk
  <2> QED BY <2>1, <2>2
<1>10. CASE LeaveTraces /\ UNCHANGED <<disk, job, behind, state, whole>>
  <2>1. demo' \in Demos
    BY <1>0, <1>10 DEF LeaveTraces, Demos
  <2> QED BY <1>2, <1>10, <1>a, <1>c, <2>1 DEF disk
<1> QED BY <1>3, <1>4, <1>5, <1>6, <1>7, <1>8, <1>9, <1>10 DEF CopyBack

LEMMA PresentTypes ==
  ASSUME TypeOK, Presented, Present, UNCHANGED serial
  PROVE  TypeOK' /\ Presented'
<1>1. CASE Reset \/ SkipToEnd \/ \E name \in Names : JumpTo(name)
  <2>1. /\ Pristine \in Names /\ Label(State(Pristine, 1))
        /\ Final \in Names /\ Label(State(Final, Len(CHECKPOINTS)))
    BY CheckpointFacts, PlaceLabels DEF Names
  <2> QED BY <1>1, <2>1, RestorePresents DEF Reset, SkipToEnd, JumpTo, Presented
<1>2. CASE Step
  <2>1. CASE state.index < Len(CHECKPOINTS)
    <3> DEFINE i == state.index + 1
    <3>1. i \in DOMAIN CHECKPOINTS
      BY <2>1, CheckpointFacts DEF Presented, Label
    <3>2. CHECKPOINTS[i] \in Names /\ Label(State(CHECKPOINTS[i], i))
      BY <3>1, CheckpointFacts, PlaceLabels DEF Names
    <3>3. Restore(CHECKPOINTS[i], State(CHECKPOINTS[i], i))
      BY <1>2, <2>1 DEF Step
    <3> HIDE DEF i
    <3> QED BY <3>2, <3>3, RestorePresents
  <2>2. CASE ~(state.index < Len(CHECKPOINTS))
    <3>1. demo' = [demo EXCEPT !.at = "reload"] /\ UNCHANGED <<vars, snapshots, state, whole>>
      BY <1>2, <2>2 DEF Step
    <3> QED BY <3>1 DEF vars, disk, TypeOK, Presented, Demos, Label
  <2> QED BY <2>1, <2>2
<1>3. ASSUME NEW name \in Names, SaveSnapshot(name) PROVE TypeOK' /\ Presented'
  <2>1. snapshots' \in [Names -> Trees]
    BY <1>3 DEF SaveSnapshot, Presented, Trees
  <2>2. demo' \in Demos
    BY <1>3 DEF SaveSnapshot, Resting, Demos
  <2> QED BY <1>3, <2>1, <2>2 DEF SaveSnapshot, vars, disk, TypeOK, Presented, Label
<1>4. CASE MakeSnapshot
  <2>1. snapshots' \in [Names -> Trees]
    BY <1>4, TreesAre DEF MakeSnapshot, Presented
  <2>2. demo' \in Demos
    BY <1>4 DEF MakeSnapshot, Presented, Demos
  <2> QED BY <1>4, <2>1, <2>2 DEF MakeSnapshot, vars, disk, TypeOK, Presented, Label
<1>5. CASE DropAny
  <2>1. None \in Objects
    BY DEF Objects
  <2> QED BY <1>5, <2>1, RestingIsDemo DEF DropAny, Dropped, disk, TypeOK, Presented, Demos, Label
<1>6. CASE CreateView
  <2>1. object' \in Objects /\ behind' \in BOOLEAN
    BY <1>6 DEF CreateView, Objects, TypeOK
  <2> QED BY <1>6, <2>1, RestingIsDemo DEF CreateView, disk, TypeOK, Presented, Label
<1> QED BY <1>1, <1>2, <1>3, <1>4, <1>5, <1>6, RemoveTypes, SaveTypes, CopyBackTypes
        DEF Present

\* A step is one of the presenter's, or one of the alert store's by itself.
LEMMA DemoSteps ==
  ASSUME [DemoNext]_allVars
  PROVE  \/ up /\ Present /\ UNCHANGED serial
         \/ [Next]_vars /\ UNCHANGED demoVars
         \/ Next /\ Crash /\ demo' = Resting /\ UNCHANGED <<snapshots, state, whole>>
<1>1. CASE DemoNext
  <2>1. serial => OneAtATime'
    BY <1>1 DEF DemoNext, DemoOneAtATime
  <2> QED BY <1>1, <2>1 DEF DemoNext, CrashAll, Next, Callers
<1>2. CASE UNCHANGED allVars
  BY <1>2 DEF allVars
<1> QED BY <1>1, <1>2

LEMMA DemoTypes == DemoSpec => [](TypeOK /\ Presented)
<1>1. DemoInit => TypeOK /\ Presented
  <2> SUFFICES ASSUME DemoInit PROVE TypeOK /\ Presented
    OBVIOUS
  <2>1. TypeOK
    BY InitTypes DEF DemoInit
  <2>2. snapshots \in [Names -> Trees]
    BY TreesAre DEF DemoInit
  <2>3. Label(state)
    BY CheckpointFacts, PlaceLabels DEF DemoInit
  <2> QED BY <2>1, <2>2, <2>3, RestingIsDemo DEF DemoInit, Presented
<1>2. TypeOK /\ Presented /\ [DemoNext]_allVars => TypeOK' /\ Presented'
  <2> SUFFICES ASSUME TypeOK, Presented, [DemoNext]_allVars PROVE TypeOK' /\ Presented'
    OBVIOUS
  <2>1. CASE Present /\ UNCHANGED serial
    BY <2>1, PresentTypes
  <2>2. CASE [Next]_vars /\ UNCHANGED demoVars
    BY <2>2, NextTypes DEF demoVars, Presented, Label
  <2>3. CASE Next /\ demo' = Resting /\ UNCHANGED <<snapshots, state, whole>>
    BY <2>3, RestingIsDemo, NextTypes DEF Presented, Label
  <2> QED BY <2>1, <2>2, <2>3, DemoSteps
<1> QED BY <1>1, <1>2, PTL DEF DemoSpec

\* Whatever is saved, restored and jumped to, and wherever a crash cuts it short,
\* step counts on from the position of the checkpoint that is shown.
THEOREM IndexShown == DemoSpec => []IndexMatchesCheckpoint
<1>1. Presented => IndexMatchesCheckpoint
  BY DEF Presented, Label, IndexMatchesCheckpoint
<1> QED BY <1>1, DemoTypes, PTL

-----------------------------------------------------------------------------
(* With a presenter, one request at a time: the trees are walked to their end *)

\* Files are in directories.
Shaped(t) == /\ "traces" \notin t.dirs => Files(t) = {}
             /\ "alerts" \notin t.dirs => "traces" \notin t.dirs /\ t.summary = Absent

\* rmtree has listed all that is left of tree t.
Removing(t) ==
  /\ demo.place # "summary"
  /\ demo.place # "outside" => Entries(t) \subseteq demo.parts
  /\ demo.place = "traces" => Files(t) \subseteq demo.files

\* copytree, at demo state d, makes tree `to` from nothing; it has listed all traces it has not
\* copied, and copies no rows but those there are.
Copying(d, from, to) ==
  /\ IF d.place = "outside" THEN "alerts" \notin to.dirs ELSE "alerts" \in to.dirs
  /\ to.summary.rows \subseteq from.summary.rows
  /\ d.place = "traces" =>
       /\ "traces" \in to.dirs /\ "traces" \notin d.parts
       /\ from.traces \subseteq to.traces \cup d.files \cup d.open
  /\ d.place \in {"alerts", "summary"} =>
       IF "traces" \in d.parts THEN "traces" \notin to.dirs
                               ELSE from.traces \subseteq to.traces

\* Until the walk is through, the tree it makes or removes is not whole.
Walk ==
  /\ demo.bad = FALSE
  /\ demo.at = "make" => demo.place = "outside"
  /\ demo.at = "clear" => Removing(snapshots[demo.name]) /\ ~snapshots[demo.name].whole
  /\ demo.at = "remove" => Removing(Workspace) /\ ~whole
  /\ demo.at = "save" => /\ Copying(demo, Workspace, snapshots[demo.name])
                         /\ ~snapshots[demo.name].whole
  /\ demo.at = "restore" => Copying(demo, snapshots[demo.name], Workspace) /\ ~whole

\* A caller that serves nothing holds nothing; one that writes the summary has it
\* to itself, and nobody takes the table's name before it.
Rester(w) ==
  /\ job[w].at = "idle" => job[w] = Idle
  /\ whole => Backed(w)
  /\ job[w].at = "write" => job[w].fh = "alone" /\ "alerts" \in dirs
  /\ job[w].at \in {"create", "commit"} => object = None
  /\ job[w].at = "commit" => summary = File(job[w].held)

PresenterJob == IF demo.at = "restore" /\ demo.place = "summary"
                  THEN [Idle EXCEPT !.at = "write", !.fh = "alone"] ELSE Idle

Kempt ==
  /\ ~behind
  /\ \A w \in Callers : Rester(w)
  /\ job[Presenter] = PresenterJob
  /\ demo.at = "view" => object = None
  /\ ~up => demo.at = "rest" /\ \A w \in Workers : job[w] = Idle
  /\ Shaped(Workspace) /\ \A n \in Names : Shaped(snapshots[n])
  /\ SnapshotsHaveTraces
  /\ Walk

Orderly == serial => DemoOneAtATime /\ Kempt

LEMMA IdleFacts ==
  /\ Idle.at = "idle" /\ Idle.text = {} /\ Idle.held = {} /\ Idle.fh = "alone" /\ Idle.todo = {}
  /\ \A w \in Workers : job[w] = Idle => Backed(w) /\ Rester(w)
  /\ \A w \in Workers : job'[w] = Idle => Backed(w)' /\ Rester(w)'
  BY DEF Idle, Backed, Rester

-----------------------------------------------------------------------------
(* ... a caller at work *)

LEMMA GenerateKempt ==
  ASSUME TypeOK, Presented, Kempt, NEW w \in Callers, Generate(w), UNCHANGED demoVars,
         up, demo.at = "rest", \A v \in Workers \ {w} : job[v] = Idle
  PROVE  Kempt'
<1> USE DEF Callers
<1>0. job \in [Workers -> Jobs] /\ w \in Workers /\ Presenter \in Workers /\ Presenter # w
      /\ summary \in Summaries /\ object \in Objects
  BY PresenterServes DEF TypeOK
<1>00. Rester(w) /\ ~behind /\ Shaped(Workspace) /\ (whole => SummaryHasTraces /\ Backed(w))
  BY DEF Kempt, SnapshotsHaveTraces, Closed, Workspace, SummaryHasTraces, Rester
<1>01. Empty = cut \cup job[w].text
  BY <1>0 DEF Empty, Idle
\* Only the job of w changes.
<1>a. ASSUME job' = [job EXCEPT ![w] = job'[w]], ~behind', up' = up, Rester(w)',
             Shaped(Workspace)', whole => SummaryHasTraces'
      PROVE  Kempt'
  <2>1. \A v \in Workers : v # w => job'[v] = Idle
    BY <1>0, <1>a
  <2>2. \A v \in Callers : Rester(v)'
    BY <1>a, <2>1, IdleFacts
  <2>3. job'[Presenter] = PresenterJob'
    BY <1>0, <2>1 DEF PresenterJob, demoVars
  <2>4. SnapshotsHaveTraces'
    BY <1>a DEF Kempt, SnapshotsHaveTraces, SummaryHasTraces, Closed, Workspace, demoVars
  <2>5. Walk'
    BY DEF Kempt, Walk, demoVars
  <2>6. \A n \in Names : Shaped(snapshots'[n])
    BY DEF Kempt, demoVars
  <2>7. demo'.at = "rest"
    BY DEF demoVars
  <2> QED BY <1>a, <2>2, <2>3, <2>4, <2>5, <2>6, <2>7 DEF Kempt
\* What w has open, and what is in the directories, is all there is.
<1>b. ASSUME job' = [job EXCEPT ![w] = job'[w]]
      PROVE  Empty' = cut' \cup job'[w].text
  BY <1>0, <1>b DEF Empty, Idle
<1>c. ASSUME job' = [job EXCEPT ![w] = Idle], UNCHANGED <<disk, up>>, ~behind'
      PROVE  Kempt'
  <2>1. job'[w] = Idle /\ job' = [job EXCEPT ![w] = job'[w]]
    BY <1>0, <1>c
  <2>2. Empty' \subseteq Empty
    BY <1>01, <1>b, <1>c, <2>1 DEF disk, Idle
  <2>3. Shaped(Workspace)'
    BY <1>00, <1>c, <2>2 DEF Shaped, Workspace, Files, disk
  <2> QED BY <1>0, <1>00, <1>a, <1>c, <2>1, <2>3, IdleFacts DEF SummaryHasTraces, disk
\* The directories and traces stay.
<1>d. ASSUME job' = [job EXCEPT ![w] = job'[w]], UNCHANGED <<traces, cut>>, dirs \subseteq dirs',
             job'[w].text \subseteq job[w].text,
             summary' # Absent => "alerts" \in dirs',
             "alerts" \in dirs \/ dirs' = dirs
      PROVE  Shaped(Workspace)'
  <2>1. Empty' \subseteq Empty
    BY <1>01, <1>b, <1>d
  <2> QED BY <1>00, <1>d, <2>1 DEF Shaped, Workspace, Files
<1>e. summary # Absent => "alerts" \in dirs
  BY <1>00 DEF Shaped, Workspace
<1>f. "alerts" \notin dirs => traces = {} /\ Empty = {} /\ "traces" \notin dirs
  BY <1>00 DEF Shaped, Workspace, Files
<1>1. CASE Evaluate(w)
  <2>1. PICK fired \in (SUBSET (Alerts \ minted)) \ {{}} :
          job' = [job EXCEPT ![w] = [Idle EXCEPT !.at = "trace",
                                       !.fired = fired, !.todo = fired]]
    BY <1>1 DEF Evaluate
  <2>2. /\ job'[w] = [Idle EXCEPT !.at = "trace", !.fired = fired, !.todo = fired]
        /\ job' = [job EXCEPT ![w] = job'[w]]
    BY <1>0, <2>1
  <2>3. /\ job'[w].at = "trace" /\ job'[w].text = {} /\ job'[w].held = {}
        /\ job'[w].fired = job'[w].todo
    BY <2>2 DEF Idle
  <2>4. /\ dirs' = {"alerts", "traces"} /\ ~behind' /\ up' = up
        /\ UNCHANGED <<traces, summary>>
    BY <1>00, <1>1 DEF Evaluate
  <2>5. Rester(w)'
    BY <2>3, <2>4 DEF Rester, Backed
  <2>6. Shaped(Workspace)'
    BY <2>4 DEF Shaped, Workspace
  <2> QED BY <1>00, <1>a, <2>2, <2>4, <2>5, <2>6 DEF SummaryHasTraces
<1>2. CASE OpenTrace(w)
  <2>1. CASE "traces" \in dirs
    <3>1. PICK a \in job[w].todo :
            job' = [job EXCEPT ![w].todo = @ \ {a}, ![w].text = {a}, ![w].at = "text"]
      BY <1>2, <2>1 DEF OpenTrace
    <3>2. job' = [job EXCEPT ![w] = job'[w]] /\ job'[w].at = "text"
          /\ job'[w].held = job[w].held /\ job'[w].fired = job[w].fired
          /\ job'[w].todo = job[w].todo \ {a} /\ job'[w].text = {a}
      BY <1>0, <3>1 DEF Jobs
    <3>3. UNCHANGED <<disk, up, behind, whole>> /\ job[w].at = "trace"
      BY <1>2 DEF OpenTrace, demoVars
    <3>4. Rester(w)'
      BY <1>00, <3>2, <3>3 DEF Rester, Backed, disk
    <3>5. Shaped(Workspace)'
      BY <1>e, <2>1, <1>f, <3>3 DEF Shaped, Workspace, disk
    <3> QED BY <1>00, <1>a, <3>2, <3>3, <3>4, <3>5 DEF SummaryHasTraces, disk
  <2>2. CASE "traces" \notin dirs
    BY <1>00, <1>2, <1>c, <2>2 DEF OpenTrace, Fail, disk
  <2> QED BY <2>1, <2>2
<1>3. CASE WriteTrace(w)
  <2>1. /\ job' = [job EXCEPT ![w] = job'[w]] /\ job'[w].text = {}
        /\ job'[w].at = (IF job[w].todo = {} THEN "read" ELSE "trace")
        /\ job'[w].held = job[w].held /\ job'[w].fired = job[w].fired
        /\ job'[w].todo = job[w].todo
    BY <1>0, <1>3 DEF WriteTrace, Jobs
  <2>2. /\ traces' = traces \cup job[w].text /\ job[w].at = "text"
        /\ UNCHANGED <<dirs, cut, summary, up, behind, whole>>
    BY <1>3 DEF WriteTrace, demoVars
  <2>3. Rester(w)'
    BY <1>00, <2>1, <2>2 DEF Rester, Backed
  <2>4. Empty' = cut'
    BY <1>b, <2>1
  <2>5. Shaped(Workspace)'
    BY <1>00, <1>01, <2>2, <2>4 DEF Shaped, Workspace, Files
  <2> QED BY <1>00, <1>a, <2>1, <2>2, <2>3, <2>5 DEF SummaryHasTraces
<1>4. CASE ReadSummary(w)
  <2>1. CASE summary.kind = "torn"
    BY <1>00, <1>4, <1>c, <2>1 DEF ReadSummary, Fail, disk
  <2>2. CASE summary.kind # "torn"
    <3>1. /\ job' = [job EXCEPT ![w] = job'[w]] /\ job'[w].text = job[w].text
          /\ job'[w].at = "open" /\ job'[w].fired = job[w].fired /\ job'[w].todo = job[w].todo
          /\ job'[w].held \in {job[w].held, summary.rows}
      BY <1>0, <1>4, <2>2 DEF ReadSummary, Goto, Jobs
    <3>2. /\ dirs' \in {dirs, dirs \cup {"alerts"}} /\ job[w].at = "read"
          /\ UNCHANGED <<traces, cut, summary, up, behind, whole>>
      BY <1>4 DEF ReadSummary, demoVars
    <3>3. Rester(w)'
      BY <1>00, <3>1, <3>2 DEF Rester, Backed, SummaryHasTraces
    <3>4. Empty' = Empty
      BY <1>01, <1>b, <3>1, <3>2
    <3>5. Shaped(Workspace)'
      BY <1>00, <3>2, <3>4 DEF Shaped, Workspace, Files
    <3> QED BY <1>00, <1>a, <3>1, <3>2, <3>3, <3>5 DEF SummaryHasTraces
  <2> QED BY <2>1, <2>2
<1>5. CASE OpenSummary(w)
  <2>1. CASE "alerts" \in dirs
    <3>1. job[w].at = "open" /\ Truncate(w) /\ UNCHANGED <<dirs, traces, cut, up, behind, whole>>
      BY <1>5, <2>1 DEF OpenSummary, demoVars
    <3>2. Writers = {}
      BY <3>1 DEF Writers, Idle
    <3>3. \A v \in Workers : job'[v] = IF v = w THEN [job[w] EXCEPT !.at = "write", !.fh = "alone"]
                                              ELSE job[v]
      BY <3>1, <3>2 DEF Truncate, Opened
    <3>4. job' = [job EXCEPT ![w] = job'[w]]
      <4>1. DOMAIN job' = Workers /\ job' = [v \in Workers |-> job'[v]]
        BY <3>1 DEF Truncate
      <4> QED BY <1>0, <3>3, <4>1
    <3>5. /\ job'[w].at = "write" /\ job'[w].fh = "alone" /\ job'[w].text = job[w].text
          /\ job'[w].held = job[w].held /\ job'[w].fired = job[w].fired
          /\ job'[w].todo = job[w].todo
      BY <1>0, <3>3 DEF Jobs
    <3>6. Rester(w)'
      BY <1>00, <2>1, <3>1, <3>5 DEF Rester, Backed
    <3>7. Shaped(Workspace)'
      BY <1>d, <2>1, <3>1, <3>4, <3>5
    <3>8. SummaryHasTraces'
      BY <3>1 DEF Truncate, Torn, SummaryHasTraces
    <3> QED BY <1>00, <1>a, <3>1, <3>4, <3>6, <3>7, <3>8
  <2>2. CASE "alerts" \notin dirs
    BY <1>00, <1>5, <1>c, <2>2 DEF OpenSummary, Fail, disk
  <2> QED BY <2>1, <2>2
<1>6. CASE WriteSummary(w)
  <2>1. /\ job' = [job EXCEPT ![w] = job'[w]] /\ job'[w].text = job[w].text
        /\ job'[w].at = "drop" /\ job'[w].fired = job[w].fired /\ job'[w].todo = job[w].todo
        /\ job'[w].held = job[w].held
    BY <1>0, <1>6 DEF WriteSummary, Goto, Jobs
  <2>2. /\ summary' = File(Combined(w)) /\ "alerts" \in dirs /\ job[w].at = "write"
        /\ UNCHANGED <<dirs, traces, cut, up, behind, whole>>
    BY <1>00, <1>6 DEF WriteSummary, Written, Rester, demoVars
  <2>3. Rester(w)'
    BY <1>00, <2>1, <2>2 DEF Rester, Backed
  <2>4. Shaped(Workspace)'
    BY <1>d, <2>1, <2>2
  <2>5. whole => SummaryHasTraces'
    BY <1>00, <2>2 DEF File, Combined, Backed, SummaryHasTraces
  <2> QED BY <1>00, <1>a, <2>1, <2>2, <2>3, <2>4, <2>5
<1>7. CASE DropTable(w)
  <2>1. CASE Goto(w, "create") /\ object' = None
    <3>1. /\ job' = [job EXCEPT ![w] = job'[w]] /\ job'[w].text = job[w].text
          /\ job'[w].at = "create" /\ job'[w].fired = job[w].fired /\ job'[w].todo = job[w].todo
          /\ job'[w].held = job[w].held
      BY <1>0, <2>1 DEF Goto, Jobs
    <3>2. UNCHANGED <<disk, up, behind, whole>> /\ job[w].at = "drop"
      BY <1>7 DEF DropTable, demoVars
    <3>3. Rester(w)'
      BY <1>00, <2>1, <3>1, <3>2 DEF Rester, Backed, disk
    <3>4. Shaped(Workspace)'
      BY <1>d, <1>e, <3>1, <3>2 DEF disk
    <3> QED BY <1>00, <1>a, <3>1, <3>2, <3>3, <3>4 DEF SummaryHasTraces, disk
  <2>2. CASE Answer(w) \/ Fail(w)
    BY <1>00, <1>7, <1>c, <2>2 DEF DropTable, Answer, Fail
  <2> QED BY <1>7, <2>1, <2>2 DEF DropTable
<1>8. CASE CreateTable(w)
  <2>0. object = None /\ ~Taken /\ job[w].at = "create" /\ UNCHANGED <<disk, object, up, whole>>
    <3>1. object = None /\ job[w].at = "create" /\ UNCHANGED <<disk, object, up, whole>>
      BY <1>00, <1>8 DEF CreateTable, Rester, demoVars
    <3> QED BY <3>1 DEF Taken, Idle
  <2>1. CASE Fail(w) /\ behind' = (behind \/ Taken)
    BY <1>00, <1>c, <2>0, <2>1 DEF Fail
  <2>2. CASE /\ job' = [job EXCEPT ![w].at = "commit", ![w].held = summary.rows]
             /\ summary.kind = "file" /\ behind' = FALSE
    <3>1. /\ job' = [job EXCEPT ![w] = job'[w]] /\ job'[w].text = job[w].text
          /\ job'[w].at = "commit" /\ job'[w].fired = job[w].fired /\ job'[w].todo = job[w].todo
          /\ job'[w].held = summary.rows
      BY <1>0, <2>2 DEF Jobs
    <3>2. summary = File(summary.rows)
      BY <1>0, <2>2 DEF Summaries, Absent, Torn, File
    <3>3. Rester(w)'
      BY <1>00, <2>0, <3>1, <3>2 DEF Rester, Backed, SummaryHasTraces, disk
    <3>4. Shaped(Workspace)'
      BY <1>d, <1>e, <2>0, <3>1 DEF disk
    <3> QED BY <1>00, <1>a, <2>0, <2>2, <3>1, <3>3, <3>4 DEF SummaryHasTraces, disk
  <2> QED BY <1>8, <2>1, <2>2 DEF CreateTable
<1>9. CASE CommitTable(w)
  <2>1. object = None /\ summary = File(job[w].held) /\ UNCHANGED <<disk, up>>
    BY <1>00, <1>9 DEF CommitTable, Rester
  <2>2. Answer(w) /\ UNCHANGED behind
    BY <1>9, <2>1 DEF CommitTable
  <2> QED BY <1>00, <1>c, <2>1, <2>2 DEF Answer
<1> QED BY <1>1, <1>2, <1>3, <1>4, <1>5, <1>6, <1>7, <1>8, <1>9 DEF Generate

-----------------------------------------------------------------------------
(* ... the presenter at work, the callers at rest *)

LEMMA Alone ==
  ASSUME TypeOK, Kempt, \A w \in Callers : job[w] = Idle
  PROVE  /\ job \in [Workers -> Jobs] /\ Presenter \in Workers
         /\ \A w \in Workers : w # Presenter => job[w] = Idle
         /\ \A w \in Workers : job[w].text = {} /\ job[w].at # "commit"
         /\ Empty = cut /\ (Taken <=> object # None)
         /\ PresenterJob = Idle => Writers = {} /\ job = [w \in Workers |-> Idle]
<1>1. job \in [Workers -> Jobs] /\ Presenter \in Workers /\ job[Presenter] = PresenterJob
  BY PresenterServes DEF TypeOK, Kempt
<1>2. \A w \in Workers : w # Presenter => job[w] = Idle
  BY DEF Callers
<1>3. \A w \in Workers : job[w].text = {} /\ job[w].at # "commit"
  <2>1. Idle.text = {} /\ Idle.at # "commit"
    BY DEF Idle
  <2>2. PresenterJob.text = {} /\ PresenterJob.at # "commit"
    BY DEF PresenterJob, Idle
  <2> QED BY <1>1, <1>2, <2>1, <2>2
<1>4. Empty = cut
  BY <1>3 DEF Empty
<1>5. ASSUME PresenterJob = Idle PROVE Writers = {} /\ job = [w \in Workers |-> Idle]
  <2>1. \A w \in Workers : job[w] = Idle
    BY <1>1, <1>2, <1>5
  <2> QED BY <1>1, <2>1 DEF Writers, Idle
<1> QED BY <1>1, <1>2, <1>3, <1>4, <1>5 DEF Taken

\* What is to be shown of a step of the presenter.
LEMMA PresenterKempt ==
  ASSUME TypeOK, Presented, Kempt, \A w \in Callers : job[w] = Idle, up,
         up' = up, ~behind', job' = [w \in Workers |-> IF w = Presenter THEN PresenterJob' ELSE Idle],
         demo'.at = "view" => object' = None,
         Shaped(Workspace)', \A n \in Names : Shaped(snapshots'[n]), SnapshotsHaveTraces', Walk'
  PROVE  Kempt'
<1>1. job'[Presenter] = PresenterJob'
  BY PresenterServes
<1>2. \A w \in Callers : job'[w] = Idle
  BY DEF Callers
<1>3. \A w \in Callers : Rester(w)'
  BY <1>2, IdleFacts DEF Callers
<1> QED BY <1>1, <1>3 DEF Kempt

\* The snapshot that the request is about becomes t, and the workspace stays.
LEMMA SnapshotBecomes ==
  ASSUME TypeOK, Presented, Kempt, NEW t \in Trees, Shaped(t), t.whole => Closed(t),
         snapshots' = [snapshots EXCEPT ![demo.name] = t], UNCHANGED <<disk, job, whole>>
  PROVE  /\ snapshots'[demo.name] = t /\ Workspace' = Workspace
         /\ Shaped(Workspace)' /\ \A n \in Names : Shaped(snapshots'[n])
         /\ SnapshotsHaveTraces'
<1>1. demo.name \in Names /\ snapshots \in [Names -> Trees]
  BY DEF Presented, Demos
<1>2. /\ snapshots'[demo.name] = t
      /\ \A n \in Names : snapshots'[n] = IF n = demo.name THEN t ELSE snapshots[n]
  BY <1>1
<1>3. Workspace' = Workspace
  BY DEF Workspace, disk, Empty
<1>4. Shaped(Workspace)' /\ (whole' => Closed(Workspace)')
  BY <1>3 DEF Kempt, SnapshotsHaveTraces, Shaped, Files, Closed
<1>5. \A n \in Names : Shaped(snapshots'[n]) /\ (snapshots'[n].whole => Closed(snapshots'[n]))
  BY <1>2 DEF Kempt, SnapshotsHaveTraces
<1> QED BY <1>2, <1>3, <1>4, <1>5 DEF SnapshotsHaveTraces

\* The workspace becomes t, and the snapshots stay.
LEMMA WorkspaceBecomes ==
  ASSUME TypeOK, Presented, Kempt, NEW t \in Trees, Shaped(t), t.whole => Closed(t),
         Workspace' = t, whole' = t.whole, UNCHANGED snapshots
  PROVE  /\ Shaped(Workspace)' /\ \A n \in Names : Shaped(snapshots'[n])
         /\ SnapshotsHaveTraces'
<1>1. Shaped(Workspace)' /\ (whole' => Closed(Workspace)')
  BY DEF Shaped, Files, Closed
<1> QED BY <1>1 DEF Kempt, SnapshotsHaveTraces

LEMMA RemoveKempt ==
  ASSUME TypeOK, Presented, Kempt, \A w \in Callers : job[w] = Idle, up, Remove
  PROVE  Kempt'
<1>0. /\ demo \in Demos /\ Doomed \in Trees /\ demo.at \in {"clear", "remove"}
      /\ UNCHANGED <<object, up, whole>> /\ PresenterJob = Idle
  BY TreesAre DEF Presented, Doomed, Remove, PresenterJob
<1>1. /\ Removing(Doomed) /\ ~Doomed.whole /\ Shaped(Doomed) /\ ~behind /\ demo.bad = FALSE
  BY <1>0 DEF Kempt, Walk, Doomed, Workspace, Presented, Demos
<1>2. /\ Empty = cut /\ job = [w \in Workers |-> Idle] /\ Presenter \in Workers
  BY <1>0, Alone
\* One of the trees becomes t, and the walk goes on or is through.
<1>a. ASSUME NEW t \in Trees, Shaped(t), ~t.whole, t.cut \subseteq Doomed.cut, Becomes(t),
             demo'.bad = FALSE, demo'.name = demo.name, UNCHANGED behind,
             \/ /\ demo'.at = demo.at /\ demo'.place # "summary"
                /\ demo'.place # "outside" => Entries(t) \subseteq demo'.parts
                /\ demo'.place = "traces" => Files(t) \subseteq demo'.files
             \/ demo' = AfterRemoval /\ "alerts" \notin t.dirs
      PROVE  Kempt'
  <2>0. PresenterJob' = Idle /\ demo'.at # "view" /\ AfterRemoval.place = "outside"
        /\ AfterRemoval.at = IF demo.at = "clear" THEN "make" ELSE "restore"
    BY <1>0, <1>a DEF PresenterJob, AfterRemoval, Demos
  <2>1. CASE demo.at = "clear"
    <3>1. snapshots' = [snapshots EXCEPT ![demo.name] = t] /\ UNCHANGED <<disk, job, whole>>
      BY <1>0, <1>a, <2>1 DEF Becomes
    <3>2. /\ snapshots'[demo.name] = t /\ Shaped(Workspace)' /\ SnapshotsHaveTraces'
          /\ \A n \in Names : Shaped(snapshots'[n])
      BY <1>a, <3>1, SnapshotBecomes
    <3>3. Walk'
      BY <1>a, <2>0, <2>1, <3>2 DEF Walk, Removing
    <3>4. job' = [w \in Workers |-> IF w = Presenter THEN PresenterJob' ELSE Idle]
      BY <1>2, <2>0, <3>1
    <3> QED BY <1>0, <1>1, <1>a, <2>0, <3>2, <3>3, <3>4, PresenterKempt
  <2>2. CASE demo.at = "remove"
    <3>1. /\ dirs' = t.dirs /\ traces' = t.traces /\ cut' = cut \cap t.cut
          /\ summary' = t.summary /\ UNCHANGED <<snapshots, whole>>
          /\ job' = [w \in Workers |->
                       [job[w] EXCEPT !.text = @ \cap t.cut,
                         !.fh = IF job[w].at = "write" /\ t.summary = Absent
                                  THEN "unlinked" ELSE @]]
      BY <1>0, <1>a, <2>2 DEF Becomes
    <3>2. \A w \in Workers : job[w] = Idle /\ Idle.text \cap t.cut = Idle.text
      BY <1>2 DEF Idle
    <3>3. \A w \in Workers : job'[w] = [Idle EXCEPT !.text = Idle.text, !.fh = Idle.fh]
      BY <3>1, <3>2, IdleFacts
    <3>4. job' = [w \in Workers |-> Idle]
      <4>1. [Idle EXCEPT !.text = Idle.text, !.fh = Idle.fh] = Idle
        BY DEF Idle
      <4> QED BY <3>1, <3>3, <4>1
    <3>5. Empty' = cut'
      BY <3>4, IdleFacts DEF Empty
    <3>6. Doomed = Workspace /\ Doomed.cut = cut /\ Doomed.whole = whole
      BY <1>2, <2>2 DEF Doomed, Workspace
    <3>7. cut' = t.cut /\ whole' = FALSE /\ t.whole = FALSE
      <4>1. t.whole \in BOOLEAN /\ whole \in BOOLEAN
        BY DEF Trees, Presented
      <4> QED BY <1>1, <1>a, <3>1, <3>6, <4>1
    <3>8. Workspace' = t
      <4>1. Workspace' = [dirs |-> t.dirs, traces |-> t.traces, cut |-> t.cut,
                          summary |-> t.summary, whole |-> t.whole]
        BY <3>1, <3>5, <3>7 DEF Workspace
      <4> QED BY <4>1 DEF Trees
    <3>9. Shaped(Workspace)' /\ SnapshotsHaveTraces' /\ \A n \in Names : Shaped(snapshots'[n])
      BY <1>a, <3>1, <3>7, <3>8, WorkspaceBecomes
    <3>10. CASE demo' = AfterRemoval /\ "alerts" \notin t.dirs
      <4>1. demo'.at = "restore" /\ demo'.place = "outside"
        BY <2>0, <2>2, <3>10
      <4>2. t.summary.rows = {}
        BY <1>a, <3>10 DEF Shaped, Absent
      <4>3. Copying(demo, snapshots[demo.name], Workspace)'
        BY <3>8, <3>10, <4>1, <4>2 DEF Copying
      <4>4. Walk'
        BY <1>a, <3>7, <4>1, <4>3 DEF Walk
      <4> QED BY <1>0, <1>1, <1>2, <1>a, <2>0, <3>4, <3>9, <4>4, PresenterKempt
    <3>11. CASE demo'.at = demo.at /\ ~(demo' = AfterRemoval)
      <4>1. Removing(Workspace)'
        BY <1>a, <3>8, <3>11 DEF Removing, Entries, Files
      <4>2. Walk'
        BY <1>a, <2>2, <3>7, <3>11, <4>1 DEF Walk
      <4> QED BY <1>0, <1>1, <1>2, <1>a, <2>0, <3>4, <3>9, <4>2, PresenterKempt
    <3>12. AfterRemoval.at # demo.at
      BY <2>0, <2>2
    <3> QED BY <1>a, <3>10, <3>11, <3>12
  <2> QED BY <1>0, <2>1, <2>2
\* A step that only lists: the tree becomes what it is.
<1>b. ASSUME UNCHANGED <<disk, job, snapshots>> PROVE Becomes(Doomed)
  <2>1. CASE demo.at = "clear"
    BY <1>b, <2>1 DEF Becomes, Doomed, Presented
  <2>2. CASE demo.at = "remove"
    <3>1. \A w \in Workers :
            [job[w] EXCEPT !.text = @ \cap cut,
               !.fh = IF job[w].at = "write" /\ summary = Absent THEN "unlinked" ELSE @]
            = Idle
      <4>1. \A w \in Workers : job[w] = Idle
        BY <1>2
      <4>2. Idle.text \cap cut = Idle.text /\ Idle.at # "write"
        BY DEF Idle
      <4>3. [Idle EXCEPT !.text = Idle.text, !.fh = Idle.fh] = Idle
        BY DEF Idle
      <4> QED BY <4>1, <4>2, <4>3
    <3>2. /\ Doomed.dirs = dirs /\ Doomed.traces = traces /\ Doomed.cut = cut
          /\ Doomed.summary = summary
      BY <1>2, <2>2 DEF Doomed, Workspace
    <3> QED BY <1>2, <1>b, <2>2, <3>1, <3>2 DEF Becomes, disk
  <2> QED BY <1>0, <2>1, <2>2
<1>3. CASE ListDoomed
  <2>1. Becomes(Doomed) /\ UNCHANGED behind /\ demo.place = "outside"
    BY <1>3, <1>b DEF ListDoomed
  <2>2. CASE "alerts" \in Doomed.dirs
    <3>1. /\ demo'.at = demo.at /\ demo'.place = "alerts" /\ demo'.parts = Entries(Doomed)
          /\ demo'.bad = FALSE /\ demo'.name = demo.name
      BY <1>0, <1>1, <1>3, <2>2 DEF ListDoomed, Demos
    <3> QED BY <1>0, <1>1, <1>a, <2>1, <3>1
  <2>3. CASE "alerts" \notin Doomed.dirs
    <3>1. demo' = AfterRemoval /\ demo'.bad = FALSE /\ demo'.name = demo.name
      BY <1>0, <1>1, <1>3, <2>3 DEF ListDoomed, AfterRemoval, Demos
    <3> QED BY <1>0, <1>1, <1>a, <2>1, <2>3, <3>1
  <2> QED BY <2>2, <2>3
<1>4. CASE UnlinkSummary
  <2> DEFINE t == [Doomed EXCEPT !.summary = Absent]
  <2>1. /\ t \in Trees /\ t.dirs = Doomed.dirs /\ t.cut = Doomed.cut /\ t.traces = Doomed.traces
        /\ t.whole = Doomed.whole /\ t.summary = Absent
    BY <1>0 DEF Trees, Summaries
  <2>2. /\ demo.place = "alerts" /\ Becomes(t) /\ UNCHANGED behind
        /\ demo' = [demo EXCEPT !.parts = @ \ {"summary"}]
    BY <1>4 DEF UnlinkSummary
  <2>3. /\ demo'.at = demo.at /\ demo'.place = "alerts" /\ demo'.parts = demo.parts \ {"summary"}
        /\ demo'.bad = FALSE /\ demo'.name = demo.name
    BY <1>0, <1>1, <2>2 DEF Demos
  <2>4. Shaped(t)
    BY <1>1, <2>1 DEF Shaped, Files
  <2>5. Entries(t) \subseteq demo'.parts
    BY <1>1, <2>1, <2>2, <2>3 DEF Removing, Entries
  <2> HIDE DEF t
  <2> QED BY <1>1, <1>a, <2>1, <2>2, <2>3, <2>4, <2>5
<1>5. CASE ListTraces
  <2>1. Becomes(Doomed) /\ UNCHANGED behind /\ demo.place = "alerts"
    BY <1>5, <1>b DEF ListTraces
  <2>2. /\ demo'.at = demo.at /\ demo'.place = "traces" /\ demo'.parts = demo.parts
        /\ demo'.files = Files(Doomed) /\ demo'.bad = FALSE /\ demo'.name = demo.name
    BY <1>0, <1>1, <1>5 DEF ListTraces, Demos
  <2> QED BY <1>0, <1>1, <1>a, <2>1, <2>2 DEF Removing
<1>6. CASE UnlinkTrace
  <2>1. PICK a \in demo.files :
          /\ Becomes([Doomed EXCEPT !.traces = @ \ {a}, !.cut = @ \ {a}])
          /\ demo' = [demo EXCEPT !.files = @ \ {a}]
    BY <1>6 DEF UnlinkTrace
  <2> DEFINE t == [Doomed EXCEPT !.traces = @ \ {a}, !.cut = @ \ {a}]
  <2>2. /\ t \in Trees /\ t.dirs = Doomed.dirs /\ t.cut = Doomed.cut \ {a}
        /\ t.traces = Doomed.traces \ {a} /\ t.whole = Doomed.whole
        /\ t.summary = Doomed.summary
    BY <1>0 DEF Trees
  <2>3. /\ demo'.at = demo.at /\ demo'.place = "traces" /\ demo'.parts = demo.parts
        /\ demo'.files = demo.files \ {a} /\ demo'.bad = FALSE /\ demo'.name = demo.name
        /\ demo.place = "traces" /\ UNCHANGED behind
    BY <1>0, <1>1, <1>6, <2>1 DEF UnlinkTrace, Demos
  <2>4. Shaped(t)
    BY <1>1, <2>2 DEF Shaped, Files
  <2>5. Entries(t) \subseteq demo'.parts /\ Files(t) \subseteq demo'.files
    BY <1>1, <2>2, <2>3 DEF Removing, Entries, Files
  <2>6. Becomes(t)
    BY <2>1
  <2> HIDE DEF t
  <2> QED BY <1>1, <1>a, <2>2, <2>3, <2>4, <2>5, <2>6
<1>7. CASE RemoveTraces
  <2>1. demo.place = "traces" /\ Files(Doomed) = {}
    BY <1>1, <1>7 DEF RemoveTraces, Removing
  <2> DEFINE t == [Doomed EXCEPT !.dirs = @ \ {"traces"}]
  <2>2. /\ t \in Trees /\ t.dirs = Doomed.dirs \ {"traces"} /\ t.cut = Doomed.cut
        /\ t.traces = Doomed.traces /\ t.whole = Doomed.whole /\ t.summary = Doomed.summary
    BY <1>0 DEF Trees
  <2>3. /\ demo' = [demo EXCEPT !.place = "alerts", !.parts = @ \ {"traces"}]
        /\ Becomes(t) /\ UNCHANGED behind
    BY <1>7, <2>1 DEF RemoveTraces
  <2>4. /\ demo'.at = demo.at /\ demo'.place = "alerts" /\ demo'.parts = demo.parts \ {"traces"}
        /\ demo'.bad = FALSE /\ demo'.name = demo.name
    BY <1>0, <1>1, <2>3 DEF Demos
  <2>5. Shaped(t)
    BY <1>1, <2>1, <2>2 DEF Shaped, Files
  <2>6. Entries(t) \subseteq demo'.parts
    BY <1>1, <2>1, <2>2, <2>4 DEF Removing, Entries
  <2> HIDE DEF t
  <2> QED BY <1>1, <1>a, <2>2, <2>3, <2>4, <2>5, <2>6
<1>8. CASE RemoveAlerts
  <2>1. demo.place = "alerts" /\ Entries(Doomed) = {}
    BY <1>1, <1>8 DEF RemoveAlerts, Removing
  <2> DEFINE t == [Doomed EXCEPT !.dirs = @ \ {"alerts"}]
  <2>2. /\ t \in Trees /\ t.dirs = Doomed.dirs \ {"alerts"} /\ t.cut = Doomed.cut
        /\ t.traces = Doomed.traces /\ t.whole = Doomed.whole /\ t.summary = Doomed.summary
    BY <1>0 DEF Trees
  <2>3. demo' = AfterRemoval /\ Becomes(t) /\ UNCHANGED behind
    BY <1>8, <2>1 DEF RemoveAlerts
  <2>4. demo'.bad = FALSE /\ demo'.name = demo.name
    BY <1>0, <1>1, <2>3 DEF AfterRemoval, Demos
  <2>5. Shaped(t)
    BY <1>1, <2>1, <2>2 DEF Shaped, Files, Entries
  <2> HIDE DEF t
  <2> QED BY <1>1, <1>a, <2>2, <2>3, <2>4, <2>5
<1> QED BY <1>3, <1>4, <1>5, <1>6, <1>7, <1>8 DEF Remove

\* One step of copytree: from state d to e, while tree `to` becomes t.
CopyStep(d, from, to, e, t) ==
  \/ /\ d.place = "outside"
     /\ t = [to EXCEPT !.dirs = @ \cup {"alerts"}]
     /\ e = [d EXCEPT !.place = "alerts", !.parts = Entries(from)]
  \/ /\ d.place = "alerts"
     /\ t = [to EXCEPT !.summary = Torn]
     /\ e = [d EXCEPT !.place = "summary", !.parts = @ \ {"summary"}]
  \/ /\ d.place = "summary"
     /\ t = [to EXCEPT !.summary = from.summary]
     /\ e = [d EXCEPT !.place = "alerts"]
  \/ /\ d.place = "alerts" /\ "traces" \in d.parts
     /\ t = [to EXCEPT !.dirs = @ \cup {"traces"}]
     /\ e = [d EXCEPT !.place = "traces", !.parts = @ \ {"traces"}, !.files = Files(from)]
  \/ /\ d.place = "traces" /\ d.open = {}
     /\ \E a \in d.files : /\ t = [to EXCEPT !.cut = @ \cup {a}]
                           /\ e = [d EXCEPT !.files = @ \ {a}, !.open = {a}]
  \/ /\ d.place = "traces"
     /\ t = [to EXCEPT !.traces = @ \cup (d.open \cap from.traces),
                       !.cut = @ \ (d.open \cap from.traces)]
     /\ e = [d EXCEPT !.open = {}]
  \/ /\ d.place = "traces" /\ d.files = {} /\ d.open = {}
     /\ t = to
     /\ e = [d EXCEPT !.place = "alerts"]

LEMMA CopyGoesOn ==
  ASSUME NEW d \in Demos, NEW e, NEW from \in Trees, NEW to \in Trees, NEW t,
         Shaped(from), Shaped(to), Copying(d, from, to), CopyStep(d, from, to, e, t)
  PROVE  /\ t \in Trees /\ Shaped(t) /\ t.whole = to.whole
         /\ Copying(e, from, t) /\ e.at = d.at /\ e.name = d.name /\ e.bad = d.bad
<1>1. CASE d.place = "outside"
  <2>1. /\ t = [to EXCEPT !.dirs = @ \cup {"alerts"}]
        /\ e = [d EXCEPT !.place = "alerts", !.parts = Entries(from)]
    BY <1>1 DEF CopyStep
  <2>2. /\ t \in Trees /\ t.dirs = to.dirs \cup {"alerts"} /\ t.cut = to.cut
        /\ t.traces = to.traces /\ t.whole = to.whole /\ t.summary = to.summary
    BY <2>1 DEF Trees
  <2>3. /\ e.place = "alerts" /\ e.parts = Entries(from)
        /\ e.at = d.at /\ e.name = d.name /\ e.bad = d.bad
    BY <2>1 DEF Demos
  <2>4. Shaped(t)
    BY <2>2 DEF Shaped, Files
  <2>5. "traces" \notin to.dirs /\ ("traces" \notin Entries(from) => from.traces = {})
    BY <1>1 DEF Copying, Shaped, Files, Entries
  <2> QED BY <1>1, <2>2, <2>3, <2>4, <2>5 DEF Copying
<1>2. CASE d.place = "alerts" /\ t = [to EXCEPT !.summary = Torn]
           /\ e = [d EXCEPT !.place = "summary", !.parts = @ \ {"summary"}]
  <2>2. /\ t \in Trees /\ t.dirs = to.dirs /\ t.cut = to.cut
        /\ t.traces = to.traces /\ t.whole = to.whole /\ t.summary = Torn
    BY <1>2 DEF Trees, Summaries
  <2>3. /\ e.place = "summary" /\ e.parts = d.parts \ {"summary"}
        /\ e.at = d.at /\ e.name = d.name /\ e.bad = d.bad
    BY <1>2 DEF Demos
  <2>4. Shaped(t)
    BY <1>2, <2>2 DEF Shaped, Files, Copying
  <2> QED BY <1>2, <2>2, <2>3, <2>4 DEF Copying, Torn
<1>3. CASE d.place = "summary"
  <2>1. /\ t = [to EXCEPT !.summary = from.summary] /\ e = [d EXCEPT !.place = "alerts"]
    BY <1>3 DEF CopyStep
  <2>2. /\ t \in Trees /\ t.dirs = to.dirs /\ t.cut = to.cut
        /\ t.traces = to.traces /\ t.whole = to.whole /\ t.summary = from.summary
    BY <2>1 DEF Trees
  <2>3. /\ e.place = "alerts" /\ e.parts = d.parts
        /\ e.at = d.at /\ e.name = d.name /\ e.bad = d.bad
    BY <2>1 DEF Demos
  <2>4. Shaped(t)
    BY <1>3, <2>2 DEF Shaped, Files, Copying
  <2> QED BY <1>3, <2>2, <2>3, <2>4 DEF Copying
<1>4. CASE d.place = "alerts" /\ "traces" \in d.parts
           /\ t = [to EXCEPT !.dirs = @ \cup {"traces"}]
           /\ e = [d EXCEPT !.place = "traces", !.parts = @ \ {"traces"}, !.files = Files(from)]
  <2>2. /\ t \in Trees /\ t.dirs = to.dirs \cup {"traces"} /\ t.cut = to.cut
        /\ t.traces = to.traces /\ t.whole = to.whole /\ t.summary = to.summary
    BY <1>4 DEF Trees
  <2>3. /\ e.place = "traces" /\ e.parts = d.parts \ {"traces"} /\ e.files = Files(from)
        /\ e.at = d.at /\ e.name = d.name /\ e.bad = d.bad
    BY <1>4 DEF Demos
  <2>4. Shaped(t)
    BY <1>4, <2>2 DEF Shaped, Files, Copying
  <2> QED BY <1>4, <2>2, <2>3, <2>4 DEF Copying, Files
<1>5. CASE d.place = "traces" /\ d.open = {}
           /\ \E a \in d.files : /\ t = [to EXCEPT !.cut = @ \cup {a}]
                                 /\ e = [d EXCEPT !.files = @ \ {a}, !.open = {a}]
  <2>1. PICK a \in d.files : /\ t = [to EXCEPT !.cut = @ \cup {a}]
                             /\ e = [d EXCEPT !.files = @ \ {a}, !.open = {a}]
    BY <1>5
  <2>2. /\ t \in Trees /\ t.dirs = to.dirs /\ t.cut = to.cut \cup {a}
        /\ t.traces = to.traces /\ t.whole = to.whole /\ t.summary = to.summary
    BY <2>1 DEF Trees, Demos
  <2>3. /\ e.place = "traces" /\ e.parts = d.parts /\ e.files = d.files \ {a} /\ e.open = {a}
        /\ e.at = d.at /\ e.name = d.name /\ e.bad = d.bad
    BY <1>5, <2>1 DEF Demos
  <2>4. Shaped(t)
    BY <1>5, <2>2 DEF Shaped, Files, Copying
  <2> QED BY <1>5, <2>2, <2>3, <2>4 DEF Copying
<1>6. CASE d.place = "traces"
           /\ t = [to EXCEPT !.traces = @ \cup (d.open \cap from.traces),
                             !.cut = @ \ (d.open \cap from.traces)]
           /\ e = [d EXCEPT !.open = {}]
  <2>2. /\ t \in Trees /\ t.dirs = to.dirs /\ t.whole = to.whole /\ t.summary = to.summary
        /\ t.traces = to.traces \cup (d.open \cap from.traces)
    BY <1>6 DEF Trees, Demos
  <2>3. /\ e.place = "traces" /\ e.parts = d.parts /\ e.files = d.files /\ e.open = {}
        /\ e.at = d.at /\ e.name = d.name /\ e.bad = d.bad
    BY <1>6 DEF Demos
  <2>4. Shaped(t)
    BY <1>6, <2>2 DEF Shaped, Files, Copying
  <2> QED BY <1>6, <2>2, <2>3, <2>4 DEF Copying
<1>7. CASE d.place = "traces" /\ d.files = {} /\ d.open = {} /\ t = to
           /\ e = [d EXCEPT !.place = "alerts"]
  <2>3. /\ e.place = "alerts" /\ e.parts = d.parts
        /\ e.at = d.at /\ e.name = d.name /\ e.bad = d.bad
    BY <1>7 DEF Demos
  <2> QED BY <1>7, <2>3 DEF Copying
<1>8. d.place \in {"outside", "alerts", "summary", "traces"}
  BY DEF Demos
<1> QED BY <1>1, <1>2, <1>3, <1>4, <1>5, <1>6, <1>7, <1>8 DEF CopyStep

\* A copy that is through has every row's trace, if what it was made from has.
LEMMA CopyIsClosed ==
  ASSUME NEW d \in Demos, NEW from \in Trees, NEW to \in Trees, Shaped(from),
         Copying(d, from, to), Closed(from),
         \/ d.place = "alerts" /\ d.parts = {}
         \/ d.place = "outside" /\ "alerts" \notin from.dirs
  PROVE  Closed(to)
<1>1. CASE d.place = "alerts" /\ d.parts = {}
  BY <1>1 DEF Copying, Closed
<1>2. CASE d.place = "outside" /\ "alerts" \notin from.dirs
  BY <1>2 DEF Copying, Closed, Shaped, Absent
<1> QED BY <1>1, <1>2

LEMMA SaveKempt ==
  ASSUME TypeOK, Presented, Kempt, \A w \in Callers : job[w] = Idle, up, Save
  PROVE  Kempt'
<1> DEFINE to == snapshots[demo.name]
<1>0. /\ demo \in Demos /\ to \in Trees /\ Workspace \in Trees /\ demo.at = "save"
      /\ UNCHANGED <<disk, job, whole, up, behind>> /\ PresenterJob = Idle
  BY TreesAre DEF Presented, Demos, Save, PresenterJob, Saved,
       EnterSaved, OpenSavedSummary, WriteSavedSummary, EnterSavedTraces, OpenSavedTrace,
       WriteSavedTrace, EndSave
<1>1. /\ Copying(demo, Workspace, to) /\ ~to.whole /\ Shaped(to) /\ Shaped(Workspace)
      /\ ~behind /\ demo.bad = FALSE
  BY <1>0 DEF Kempt, Walk, Presented, Demos
<1>2. Empty = cut /\ job = [w \in Workers |-> Idle] /\ snapshots \in [Names -> Trees]
  BY <1>0, Alone DEF Presented
<1>a. ASSUME NEW t \in Trees, Shaped(t), t.whole => Closed(t),
             snapshots' = [snapshots EXCEPT ![demo.name] = t],
             demo'.at # "view", PresenterJob' = Idle,
             snapshots'[demo.name] = t /\ Workspace' = Workspace => Walk'
      PROVE  Kempt'
  <2>1. /\ snapshots'[demo.name] = t /\ Workspace' = Workspace /\ Shaped(Workspace)'
        /\ SnapshotsHaveTraces' /\ \A n \in Names : Shaped(snapshots'[n])
    BY <1>0, <1>a, SnapshotBecomes
  <2>2. job' = [w \in Workers |-> IF w = Presenter THEN PresenterJob' ELSE Idle]
    BY <1>0, <1>2, <1>a
  <2> QED BY <1>0, <1>1, <1>a, <2>1, <2>2, PresenterKempt
<1>3. CASE EndSave
  <2> DEFINE t == [to EXCEPT !.whole = whole]
  <2>1. /\ t \in Trees /\ t.whole = whole /\ Closed(t) = Closed(to) /\ Shaped(t)
    BY <1>0, <1>1 DEF Trees, Presented, Closed, Shaped, Files
  <2>2. whole => Closed(Workspace)
    BY DEF Kempt, SnapshotsHaveTraces
  <2>3. \/ demo.place = "alerts" /\ demo.parts = {}
        \/ demo.place = "outside" /\ "alerts" \notin Workspace.dirs
    <3>1. Finished /\ (demo.place = "outside" => "alerts" \notin dirs)
      BY <1>3 DEF EndSave
    <3> QED BY <3>1 DEF Finished, Workspace
  <2>4. t.whole => Closed(t)
    BY <1>0, <1>1, <2>1, <2>2, <2>3, CopyIsClosed
  <2>5. demo' = Resting /\ snapshots' = [snapshots EXCEPT ![demo.name] = t]
    BY <1>3 DEF EndSave, Saved
  <2>6. PresenterJob' = Idle /\ Walk' /\ demo'.at # "view"
    BY <2>5 DEF PresenterJob, Walk, Resting
  <2> HIDE DEF t
  <2> QED BY <1>a, <2>1, <2>4, <2>5, <2>6
<1>4. CASE ~EndSave
  <2>1. PICK t : /\ CopyStep(demo, Workspace, to, demo', t)
                 /\ snapshots' = [snapshots EXCEPT ![demo.name] = t]
    <3>1. CASE EnterSaved
      BY <3>1 DEF EnterSaved, Saved, CopyStep
    <3>2. CASE OpenSavedSummary
      BY <3>2 DEF OpenSavedSummary, Saved, CopyStep
    <3>3. CASE WriteSavedSummary
      BY <3>3 DEF WriteSavedSummary, Saved, CopyStep, Workspace
    <3>4. CASE EnterSavedTraces
      BY <3>4 DEF EnterSavedTraces, Saved, CopyStep, Copied
    <3>5. CASE OpenSavedTrace
      <4>1. PICK a \in demo.files :
              /\ Saved([to EXCEPT !.cut = @ \cup {a}])
              /\ demo' = [demo EXCEPT !.files = @ \ {a}, !.open = {a}]
        BY <3>5 DEF OpenSavedTrace
      <4> QED BY <3>5, <4>1 DEF OpenSavedTrace, Saved, CopyStep
    <3>6. CASE WriteSavedTrace
      BY <3>6 DEF WriteSavedTrace, Saved, CopyStep, Workspace
    <3>7. CASE LeaveTraces /\ UNCHANGED <<disk, job, snapshots>>
      <4>1. snapshots' = [snapshots EXCEPT ![demo.name] = to]
        BY <1>2, <3>7
      <4> QED BY <3>7, <4>1 DEF LeaveTraces, CopyStep
    <3> QED BY <1>4, <3>1, <3>2, <3>3, <3>4, <3>5, <3>6, <3>7 DEF Save
  <2>2. /\ t \in Trees /\ Shaped(t) /\ ~t.whole /\ Copying(demo', Workspace, t)
        /\ demo'.at = "save" /\ demo'.name = demo.name /\ demo'.bad = FALSE
    BY <1>0, <1>1, <2>1, CopyGoesOn
  <2>3. snapshots'[demo.name] = t /\ Workspace' = Workspace => Walk'
    BY <2>2 DEF Walk
  <2> QED BY <1>a, <2>1, <2>2, <2>3 DEF PresenterJob
<1> QED BY <1>3, <1>4

LEMMA CopyBackKempt ==
  ASSUME TypeOK, Presented, Kempt, \A w \in Callers : job[w] = Idle, up, CopyBack
  PROVE  Kempt'
<1> DEFINE from == snapshots[demo.name]
<1>0. /\ demo \in Demos /\ from \in Trees /\ Workspace \in Trees /\ demo.at = "restore"
      /\ UNCHANGED <<snapshots, object, up>>
  BY TreesAre DEF Presented, Demos, CopyBack
<1>1. /\ Copying(demo, from, Workspace) /\ ~whole /\ Shaped(from) /\ Shaped(Workspace)
      /\ ~behind /\ demo.bad = FALSE /\ Workspace.whole = whole
  BY <1>0 DEF Kempt, Walk, Presented, Demos, Workspace
<1>2. /\ Empty = cut /\ job \in [Workers -> Jobs] /\ Presenter \in Workers
      /\ job[Presenter] = PresenterJob
      /\ \A w \in Workers : w # Presenter => job[w] = Idle
      /\ demo.place # "summary" => Writers = {} /\ job = [w \in Workers |-> Idle]
  <2>1. demo.place # "summary" => PresenterJob = Idle
    BY DEF PresenterJob
  <2> QED BY <2>1, Alone DEF Kempt
<1>3. Workspace.dirs = dirs /\ Workspace.cut = cut /\ Workspace.traces = traces
      /\ Workspace.summary = summary
  BY <1>2 DEF Workspace
\* The workspace becomes t.
<1>a. ASSUME NEW t \in Trees, Shaped(t), t.whole => Closed(t), whole' = t.whole,
             dirs' = t.dirs, traces' = t.traces, cut' = t.cut, summary' = t.summary,
             ~behind', demo'.at # "view", Workspace' = t => Walk',
             job' = [w \in Workers |-> IF w = Presenter THEN PresenterJob' ELSE Idle]
      PROVE  Kempt'
  <2>1. PresenterJob'.text = {} /\ Idle.text = {}
    BY DEF PresenterJob, Idle
  <2>2. \A w \in Workers : job'[w].text = {}
    BY <1>a, <2>1
  <2>3. Empty' = cut'
    BY <2>2 DEF Empty
  <2>4. Workspace' = [dirs |-> t.dirs, traces |-> t.traces, cut |-> t.cut,
                      summary |-> t.summary, whole |-> t.whole]
    BY <1>a, <2>3 DEF Workspace
  <2>5. Workspace' = t
    BY <2>4 DEF Trees
  <2>6. Shaped(Workspace)' /\ SnapshotsHaveTraces' /\ \A n \in Names : Shaped(snapshots'[n])
    BY <1>0, <1>a, <2>5, WorkspaceBecomes
  <2> QED BY <1>0, <1>1, <1>a, <2>5, <2>6, PresenterKempt
<1>4. CASE EndRestore
  <2>1. \/ demo.place = "alerts" /\ demo.parts = {}
        \/ demo.place = "outside" /\ "alerts" \notin from.dirs
    <3>1. Finished /\ (demo.place = "outside" => "alerts" \notin from.dirs)
      BY <1>4 DEF EndRestore
    <3> QED BY <3>1 DEF Finished
  <2>2. /\ demo' = [Resting EXCEPT !.at = "reload"] /\ whole' = from.whole
        /\ UNCHANGED <<disk, job, behind>>
    BY <1>1, <1>4 DEF EndRestore
  <2> DEFINE t == [Workspace EXCEPT !.whole = from.whole]
  <2>3. /\ t \in Trees /\ Shaped(t) /\ t.whole = from.whole /\ Closed(t) = Closed(Workspace)
        /\ t.dirs = dirs /\ t.cut = cut /\ t.traces = traces /\ t.summary = summary
    BY <1>0, <1>1, <1>3 DEF Trees, Shaped, Files, Closed
  <2>4. from.whole => Closed(from)
    BY <1>0 DEF Kempt, SnapshotsHaveTraces, Presented, Demos
  <2>5. t.whole => Closed(t)
    BY <1>0, <1>1, <2>1, <2>3, <2>4, CopyIsClosed
  <2>6. PresenterJob' = Idle /\ Walk' /\ demo'.at # "view"
    BY <2>2 DEF PresenterJob, Walk, Resting
  <2>7. job' = [w \in Workers |-> IF w = Presenter THEN PresenterJob' ELSE Idle]
    BY <1>2, <2>1, <2>2, <2>6
  <2> HIDE DEF t
  <2> QED BY <1>1, <1>a, <2>2, <2>3, <2>5, <2>6, <2>7 DEF disk
<1>5. CASE ~EndRestore
  <2>1. PICK t : /\ CopyStep(demo, from, Workspace, demo', t)
                 /\ dirs' = t.dirs /\ traces' = t.traces /\ cut' = t.cut /\ summary' = t.summary
                 /\ UNCHANGED <<whole, behind>>
                 /\ job' = [w \in Workers |-> IF w = Presenter THEN PresenterJob' ELSE Idle]
    <3>0. ASSUME UNCHANGED job, demo.place # "summary", demo'.place # "summary"
          PROVE  job' = [w \in Workers |-> IF w = Presenter THEN PresenterJob' ELSE Idle]
      BY <1>2, <3>0 DEF PresenterJob
    <3>1. CASE EnterRestored
      <4>1. /\ demo.place = "outside" /\ "alerts" \notin dirs
        BY <1>1, <1>3, <3>1 DEF EnterRestored, Copying
      <4>2. /\ dirs' = dirs \cup {"alerts"}
            /\ demo' = [demo EXCEPT !.place = "alerts", !.parts = Entries(from)]
            /\ UNCHANGED <<traces, cut, summary, job, behind, whole>>
        BY <3>1, <4>1 DEF EnterRestored
      <4>3. demo'.place = "alerts"
        BY <1>0, <4>2 DEF Demos
      <4> DEFINE t == [Workspace EXCEPT !.dirs = @ \cup {"alerts"}]
      <4>4. CopyStep(demo, from, Workspace, demo', t)
        BY <4>1, <4>2 DEF CopyStep
      <4>5. dirs' = t.dirs /\ traces' = t.traces /\ cut' = t.cut /\ summary' = t.summary
        BY <1>0, <1>3, <4>2 DEF Trees
      <4> HIDE DEF t
      <4> QED BY <3>0, <4>1, <4>2, <4>3, <4>4, <4>5
    <3>2. CASE OpenRestoredSummary
      <4>1. demo.place = "alerts" /\ Truncate(Presenter)
            /\ demo' = [demo EXCEPT !.place = "summary", !.parts = @ \ {"summary"}]
            /\ UNCHANGED <<dirs, traces, cut, behind, whole>>
        BY <3>2 DEF OpenRestoredSummary
      <4>2. demo'.place = "summary" /\ demo'.at = "restore"
        BY <1>0, <4>1 DEF Demos
      <4>3. summary' = Torn /\ job' = [v \in Workers |-> Opened(Presenter, v)]
        BY <4>1 DEF Truncate
      <4>4. \A v \in Workers : Opened(Presenter, v) = IF v = Presenter THEN PresenterJob' ELSE Idle
        <5>2. \A v \in Workers : job[v] = Idle
          BY <1>2, <4>1
        <5>3. Writers = {}
          BY <1>2, <4>1
        <5>4. PresenterJob' = [Idle EXCEPT !.at = "write", !.fh = "alone"]
          BY <4>2 DEF PresenterJob
        <5> QED BY <5>2, <5>3, <5>4 DEF Opened
      <4> DEFINE t == [Workspace EXCEPT !.summary = Torn]
      <4>5. CopyStep(demo, from, Workspace, demo', t)
        BY <4>1 DEF CopyStep
      <4>6. dirs' = t.dirs /\ traces' = t.traces /\ cut' = t.cut /\ summary' = t.summary
        BY <1>0, <1>3, <4>1, <4>3 DEF Trees
      <4> HIDE DEF t
      <4> QED BY <4>1, <4>3, <4>4, <4>5, <4>6
    <3>3. CASE WriteRestoredSummary
      <4>1. /\ demo.place = "summary" /\ summary' \in Written(Presenter, from.summary)
            /\ job' = [job EXCEPT ![Presenter] = Idle]
            /\ demo' = [demo EXCEPT !.place = "alerts"]
            /\ UNCHANGED <<dirs, traces, cut, behind, whole>>
        BY <3>3 DEF WriteRestoredSummary
      <4>2. demo'.place = "alerts"
        BY <1>0, <4>1 DEF Demos
      <4>3. summary' = from.summary
        <5>1. job[Presenter].fh = "alone"
          BY <1>2 DEF PresenterJob, Idle
        <5> QED BY <4>1, <5>1 DEF Written
      <4>4. job' = [w \in Workers |-> IF w = Presenter THEN PresenterJob' ELSE Idle]
        BY <1>2, <4>1, <4>2 DEF PresenterJob
      <4> DEFINE t == [Workspace EXCEPT !.summary = from.summary]
      <4>5. CopyStep(demo, from, Workspace, demo', t)
        BY <4>1 DEF CopyStep
      <4>6. dirs' = t.dirs /\ traces' = t.traces /\ cut' = t.cut /\ summary' = t.summary
        BY <1>0, <1>3, <4>1, <4>3 DEF Trees
      <4> HIDE DEF t
      <4> QED BY <4>1, <4>4, <4>5, <4>6
    <3>4. CASE EnterRestoredTraces
      <4>1. demo.place = "alerts" /\ "traces" \in demo.parts /\ "traces" \notin dirs
        BY <1>1, <1>3, <3>4 DEF EnterRestoredTraces, Copying
      <4>2. /\ dirs' = dirs \cup {"traces"}
            /\ demo' = [demo EXCEPT !.place = "traces", !.parts = @ \ {"traces"},
                                    !.files = Files(from)]
            /\ UNCHANGED <<traces, cut, summary, job, behind, whole>>
        BY <3>4, <4>1 DEF EnterRestoredTraces, Copied
      <4>3. demo'.place = "traces"
        BY <1>0, <4>2 DEF Demos
      <4> DEFINE t == [Workspace EXCEPT !.dirs = @ \cup {"traces"}]
      <4>4. CopyStep(demo, from, Workspace, demo', t)
        BY <4>1, <4>2 DEF CopyStep
      <4>5. dirs' = t.dirs /\ traces' = t.traces /\ cut' = t.cut /\ summary' = t.summary
        BY <1>0, <1>3, <4>2 DEF Trees
      <4> HIDE DEF t
      <4> QED BY <3>0, <4>1, <4>2, <4>3, <4>4, <4>5
    <3>5. CASE OpenRestoredTrace
      <4>1. PICK a \in demo.files : /\ cut' = cut \cup {a}
                                    /\ demo' = [demo EXCEPT !.files = @ \ {a}, !.open = {a}]
        BY <3>5 DEF OpenRestoredTrace
      <4>2. /\ demo.place = "traces" /\ demo.open = {}
            /\ UNCHANGED <<dirs, traces, summary, job, behind, whole>>
        BY <3>5 DEF OpenRestoredTrace
      <4>3. demo'.place = "traces"
        BY <1>0, <4>1, <4>2 DEF Demos
      <4> DEFINE t == [Workspace EXCEPT !.cut = @ \cup {a}]
      <4>4. CopyStep(demo, from, Workspace, demo', t)
        BY <4>1, <4>2 DEF CopyStep
      <4>5. dirs' = t.dirs /\ traces' = t.traces /\ cut' = t.cut /\ summary' = t.summary
        BY <1>0, <1>3, <4>1, <4>2 DEF Trees
      <4> HIDE DEF t
      <4> QED BY <3>0, <4>2, <4>3, <4>4, <4>5
    <3>6. CASE WriteRestoredTrace
      <4>1. /\ demo.place = "traces" /\ demo' = [demo EXCEPT !.open = {}]
            /\ traces' = traces \cup (demo.open \cap from.traces)
            /\ cut' = cut \ (demo.open \cap from.traces)
            /\ UNCHANGED <<dirs, summary, job, behind, whole>>
        BY <3>6 DEF WriteRestoredTrace
      <4>3. demo'.place = "traces"
        BY <1>0, <4>1 DEF Demos
      <4> DEFINE t == [Workspace EXCEPT !.traces = @ \cup (demo.open \cap from.traces),
                                        !.cut = @ \ (demo.open \cap from.traces)]
      <4>4. CopyStep(demo, from, Workspace, demo', t)
        BY <4>1 DEF CopyStep
      <4>5. dirs' = t.dirs /\ traces' = t.traces /\ cut' = t.cut /\ summary' = t.summary
        BY <1>0, <1>3, <4>1 DEF Trees
      <4> HIDE DEF t
      <4> QED BY <3>0, <4>1, <4>3, <4>4, <4>5
    <3>7. CASE LeaveTraces /\ UNCHANGED <<disk, job, behind, state, whole>>
      <4>1. /\ demo.place = "traces" /\ demo.files = {} /\ demo.open = {}
            /\ demo' = [demo EXCEPT !.place = "alerts"]
            /\ UNCHANGED <<dirs, traces, cut, summary, job, behind, whole>>
        BY <3>7 DEF LeaveTraces, disk
      <4>2. demo'.place = "alerts"
        BY <1>0, <4>1 DEF Demos
      <4>3. CopyStep(demo, from, Workspace, demo', Workspace)
        BY <4>1 DEF CopyStep
      <4> QED BY <1>3, <3>0, <4>1, <4>2, <4>3
    <3> QED BY <1>5, <3>1, <3>2, <3>3, <3>4, <3>5, <3>6, <3>7 DEF CopyBack
  <2>2. /\ t \in Trees /\ Shaped(t) /\ ~t.whole /\ Copying(demo', from, t)
        /\ demo'.at = "restore" /\ demo'.name = demo.name /\ demo'.bad = FALSE
    <3>1. /\ t \in Trees /\ Shaped(t) /\ t.whole = Workspace.whole /\ Copying(demo', from, t)
          /\ demo'.at = demo.at /\ demo'.name = demo.name /\ demo'.bad = demo.bad
      BY <1>0, <1>1, <2>1, CopyGoesOn
    <3> QED BY <1>0, <1>1, <3>1
  <2>3. whole' = t.whole
    <3>1. t.whole \in BOOLEAN /\ whole \in BOOLEAN
      BY <2>2 DEF Trees, Presented
    <3> QED BY <1>1, <2>1, <2>2, <3>1
  <2>4. Workspace' = t => Walk'
    BY <1>0, <2>2, <2>3 DEF Walk
  <2> QED BY <1>1, <1>a, <2>1, <2>2, <2>3, <2>4
<1> QED BY <1>4, <1>5

LEMMA PresentKempt ==
  ASSUME TypeOK, Presented, Kempt, \A w \in Callers : job[w] = Idle, up, Present
  PROVE  Kempt'
<1>0. /\ demo \in Demos /\ job \in [Workers -> Jobs] /\ Presenter \in Workers
      /\ Shaped(Workspace) /\ ~behind /\ demo.bad = FALSE /\ whole \in BOOLEAN
      /\ snapshots \in [Names -> Trees] /\ \A n \in Names : Shaped(snapshots[n])
  BY PresenterServes DEF Presented, Kempt, TypeOK, Walk
\* The trees stay, but for what is known of them.
<1>a. ASSUME UNCHANGED <<disk, job, up>>, ~behind', PresenterJob = Idle, PresenterJob' = Idle,
             demo'.at = "view" => object' = None,
             \A n \in Names : Shaped(snapshots'[n]), whole' => whole,
             \A n \in Names : snapshots'[n].whole => Closed(snapshots'[n]), Walk'
      PROVE  Kempt'
  <2>1. job' = [w \in Workers |-> IF w = Presenter THEN PresenterJob' ELSE Idle]
    BY <1>a, Alone
  <2>2. Empty' = Empty
    BY <1>a DEF Empty, disk
  <2>3. Shaped(Workspace)' /\ (whole' => Closed(Workspace)')
    BY <1>0, <1>a, <2>2 DEF Shaped, Files, Closed, Workspace, disk, Kempt, SnapshotsHaveTraces
  <2> QED BY <1>a, <2>1, <2>3, PresenterKempt DEF SnapshotsHaveTraces
<1>b. \A n \in Names : snapshots[n].whole => Closed(snapshots[n])
  BY DEF Kempt, SnapshotsHaveTraces
<1>1. ASSUME NEW name \in Names, NEW fallback, Restore(name, fallback) PROVE Kempt'
  <2> DEFINE missing == snapshots[name] = Missing
  <2>1. /\ demo.at = "rest" /\ UNCHANGED <<vars, snapshots>> /\ (whole' <=> whole /\ missing)
        /\ demo' = [Resting EXCEPT !.at = IF missing THEN "reload" ELSE "remove", !.name = name]
    BY <1>1 DEF Restore
  <2>2. /\ demo'.at = (IF missing THEN "reload" ELSE "remove") /\ demo'.place = "outside"
        /\ demo'.bad = FALSE
    BY <2>1 DEF Resting
  <2>3. Walk'
    BY <2>1, <2>2 DEF Walk, Removing
  <2>4. PresenterJob = Idle /\ PresenterJob' = Idle
    BY <2>1, <2>2 DEF PresenterJob
  <2> QED BY <1>0, <1>a, <1>b, <2>1, <2>2, <2>3, <2>4 DEF vars
<1>2. CASE Step /\ state.index >= Len(CHECKPOINTS)
  <2>1. demo.at = "rest" /\ demo' = [demo EXCEPT !.at = "reload"]
        /\ UNCHANGED <<vars, snapshots, whole>>
    BY <1>2, CheckpointFacts DEF Step, Presented, Label
  <2>2. demo'.at = "reload" /\ demo'.bad = FALSE
    BY <1>0, <2>1 DEF Demos
  <2>3. PresenterJob = Idle /\ PresenterJob' = Idle /\ Walk'
    BY <2>1, <2>2 DEF PresenterJob, Walk
  <2> QED BY <1>0, <1>a, <1>b, <2>1, <2>2, <2>3 DEF vars
<1>3. CASE Reset \/ SkipToEnd \/ \E name \in Names : JumpTo(name)
  <2>1. Pristine \in Names /\ Final \in Names
    BY CheckpointFacts DEF Names
  <2>2. CASE Reset
    BY <1>1, <2>1, <2>2 DEF Reset
  <2>3. CASE SkipToEnd
    BY <1>1, <2>1, <2>3 DEF SkipToEnd
  <2>4. CASE \E name \in Names : JumpTo(name)
    BY <1>1, <2>4 DEF JumpTo
  <2> QED BY <1>3, <2>2, <2>3, <2>4
<1>4. CASE Step /\ state.index < Len(CHECKPOINTS)
  <2>1. CHECKPOINTS[state.index + 1] \in Names
    <3>1. state.index \in 1 .. Len(CHECKPOINTS) /\ Len(CHECKPOINTS) \in Nat
      BY CheckpointFacts DEF Presented, Label
    <3>2. state.index + 1 \in DOMAIN CHECKPOINTS
      BY <1>4, <3>1, CheckpointFacts
    <3> QED BY <3>2, CheckpointFacts DEF Names
  <2> QED BY <1>1, <1>4, <2>1 DEF Step
<1>5. ASSUME NEW name \in Names, SaveSnapshot(name) PROVE Kempt'
  <2> DEFINE missing == snapshots[name] = Missing
  <2>1. /\ demo.at = "rest" /\ UNCHANGED <<vars, state, whole>>
        /\ demo' = [Resting EXCEPT !.at = IF missing THEN "make" ELSE "clear", !.name = name]
        /\ snapshots' = IF missing THEN snapshots ELSE [snapshots EXCEPT ![name].whole = FALSE]
    BY <1>5 DEF SaveSnapshot
  <2>2. /\ demo'.at = (IF missing THEN "make" ELSE "clear") /\ demo'.place = "outside"
        /\ demo'.bad = FALSE /\ demo'.name = name
    BY <2>1 DEF Resting
  <2> DEFINE t == [snapshots[name] EXCEPT !.whole = FALSE]
  <2>3. /\ ~t.whole /\ t.dirs = snapshots[name].dirs /\ t.traces = snapshots[name].traces
        /\ t.cut = snapshots[name].cut /\ t.summary = snapshots[name].summary
    BY <1>0 DEF Trees
  <2>4. Shaped(t)
    BY <1>0, <2>3 DEF Shaped, Files
  <2> HIDE DEF t
  <2>5. \A n \in Names : snapshots'[n] = IF n = name /\ ~missing THEN t ELSE snapshots[n]
    BY <1>0, <2>1 DEF t
  <2>6. Walk'
    BY <2>1, <2>2, <2>3, <2>5 DEF Walk, Removing
  <2>7. PresenterJob = Idle /\ PresenterJob' = Idle
    BY <2>1, <2>2 DEF PresenterJob
  <2>8. \A n \in Names : Shaped(snapshots'[n]) /\ (snapshots'[n].whole => Closed(snapshots'[n]))
    BY <1>0, <1>b, <2>3, <2>4, <2>5
  <2>9. UNCHANGED <<disk, job, up, behind, whole>> /\ demo'.at # "view"
    BY <2>1, <2>2 DEF vars
  <2> QED BY <1>0, <1>a, <2>6, <2>7, <2>8, <2>9
<1>6. CASE MakeSnapshot
  <2> DEFINE n0 == demo.name
  <2>1. /\ demo.at = "make" /\ demo.place = "outside" /\ UNCHANGED <<vars, state, whole>>
    BY <1>6 DEF MakeSnapshot, Kempt, Walk
  <2>2. n0 \in Names
    BY <1>0 DEF Demos
  <2>3. CASE snapshots[n0] = Missing
    <3>1. /\ snapshots' = [snapshots EXCEPT ![n0] = Bare]
          /\ demo' = [demo EXCEPT !.at = "save"]
      BY <1>6, <2>3 DEF MakeSnapshot
    <3>2. /\ demo'.at = "save" /\ demo'.place = "outside" /\ demo'.bad = FALSE
          /\ demo'.name = n0
      BY <1>0, <2>1, <3>1 DEF Demos
    <3>3. /\ Shaped(Bare) /\ ~Bare.whole /\ "alerts" \notin Bare.dirs /\ Bare.summary.rows = {}
      BY DEF Shaped, Files, Bare, Missing, Absent
    <3>4. \A n \in Names : snapshots'[n] = IF n = n0 THEN Bare ELSE snapshots[n]
      BY <1>0, <3>1
    <3>5. Walk'
      BY <2>2, <3>2, <3>3, <3>4 DEF Walk, Copying
    <3>6. PresenterJob = Idle /\ PresenterJob' = Idle
      BY <2>1, <3>2 DEF PresenterJob
    <3>7. \A n \in Names : Shaped(snapshots'[n]) /\ (snapshots'[n].whole => Closed(snapshots'[n]))
      BY <1>0, <1>b, <3>3, <3>4
    <3> QED BY <1>0, <1>a, <2>1, <3>2, <3>5, <3>6, <3>7 DEF vars
  <2>4. CASE snapshots[n0] # Missing
    <3>1. snapshots' = [snapshots EXCEPT ![n0] = Missing] /\ UNCHANGED demo
      BY <1>6, <2>4 DEF MakeSnapshot
    <3>2. Shaped(Missing) /\ Closed(Missing)
      BY DEF Shaped, Files, Missing, Absent, Closed
    <3>3. \A n \in Names : Shaped(snapshots'[n]) /\ (snapshots'[n].whole => Closed(snapshots'[n]))
      BY <1>0, <1>b, <3>1, <3>2
    <3>4. Walk' /\ PresenterJob = Idle /\ PresenterJob' = Idle
      BY <1>0, <2>1, <3>1 DEF Walk, PresenterJob
    <3> QED BY <1>0, <1>a, <2>1, <3>1, <3>3, <3>4 DEF vars
  <2> QED BY <2>3, <2>4
<1>7. CASE DropAny
  <2>1. /\ demo.at = "reload" /\ UNCHANGED <<disk, behind, job, up, snapshots, whole>>
        /\ \/ demo' = Resting
           \/ demo' = [demo EXCEPT !.at = "view"] /\ object' = None
    BY <1>7 DEF DropAny, Dropped
  <2>2. /\ demo'.at \in {"rest", "view"} /\ demo'.bad = FALSE
        /\ demo'.at = "view" => object' = None
    BY <1>0, <2>1 DEF Demos, Resting
  <2>3. PresenterJob = Idle /\ PresenterJob' = Idle /\ Walk'
    BY <2>1, <2>2 DEF PresenterJob, Walk
  <2> QED BY <1>0, <1>a, <1>b, <2>1, <2>2, <2>3
<1>8. CASE CreateView
  <2>1. /\ demo.at = "view" /\ UNCHANGED <<disk, job, up, snapshots, whole>> /\ demo' = Resting
    BY <1>8 DEF CreateView
  <2>2. ~Taken /\ ~behind'
    BY <1>0, <1>8, <2>1, Alone DEF CreateView, Kempt
  <2>3. PresenterJob = Idle /\ PresenterJob' = Idle /\ Walk' /\ demo'.at # "view"
    BY <2>1 DEF PresenterJob, Walk, Resting
  <2> QED BY <1>0, <1>a, <1>b, <2>1, <2>2, <2>3
<1>9. state.index < Len(CHECKPOINTS) \/ state.index >= Len(CHECKPOINTS)
  BY CheckpointFacts DEF Presented, Label
<1> QED BY <1>2, <1>3, <1>4, <1>5, <1>6, <1>7, <1>8, <1>9, RemoveKempt, SaveKempt, CopyBackKempt
        DEF Present

-----------------------------------------------------------------------------
(* ... and what follows *)

LEMMA OrderlyInvariant == DemoSpec => []Orderly
<1>1. DemoInit => Orderly
  <2> SUFFICES ASSUME DemoInit PROVE DemoOneAtATime /\ Kempt
    BY DEF Orderly
  <2>1. /\ dirs = {} /\ traces = {} /\ cut = {} /\ summary = Absent /\ object = None
        /\ ~behind /\ job = [w \in Workers |-> Idle] /\ up /\ whole
        /\ snapshots = [n \in Names |-> Missing] /\ demo = Resting
    BY DEF DemoInit, Init
  <2>2. demo.at = "rest" /\ demo.bad = FALSE /\ demo.place = "outside"
    BY <2>1 DEF Resting
  <2>3. Empty = {}
    BY <2>1, IdleFacts DEF Empty
  <2>4. Shaped(Workspace) /\ Closed(Workspace)
    BY <2>1, <2>3 DEF Shaped, Files, Closed, Workspace, Absent
  <2>5. Shaped(Missing) /\ Closed(Missing)
    BY DEF Shaped, Files, Closed, Missing, Absent
  <2>6. Walk /\ PresenterJob = Idle
    BY <2>2 DEF Walk, PresenterJob
  <2> QED BY <2>1, <2>2, <2>4, <2>5, <2>6, IdleFacts, PresenterServes
          DEF Kempt, SnapshotsHaveTraces, DemoOneAtATime, OneAtATime, Callers
<1>2. TypeOK /\ Presented /\ Orderly /\ [DemoNext]_allVars => Orderly'
  <2> SUFFICES ASSUME TypeOK, Presented, Orderly, [DemoNext]_allVars, serial'
               PROVE  DemoOneAtATime' /\ Kempt'
    BY DEF Orderly
  <2>0. serial /\ DemoOneAtATime /\ Kempt
    BY DEF DemoNext, allVars, vars, Orderly
  <2>1. CASE UNCHANGED allVars
    <3>1. Empty' = Empty
      BY <2>1 DEF allVars, vars, disk, Empty
    <3> QED BY <2>0, <2>1, <3>1
            DEF allVars, vars, disk, demoVars, DemoOneAtATime, OneAtATime, Kempt, Rester,
                Backed, PresenterJob, Shaped, Files, Workspace, SnapshotsHaveTraces, Closed,
                Walk, Removing, Entries, Copying
  <2>2. CASE DemoNext
    <3>0. DemoOneAtATime'
      BY <2>0, <2>2 DEF DemoNext
    <3>1. CASE up /\ Present
      <4>1. \A w \in Callers : job[w].at = "idle"
        <5>1. CASE demo.at # "rest"
          BY <2>0, <5>1 DEF DemoOneAtATime
        <5>2. CASE demo.at = "rest"
          <6>1. demo'.at # "rest" /\ UNCHANGED job
            <7>1. ASSUME NEW name, NEW fallback, Restore(name, fallback)
                  PROVE  demo'.at # "rest" /\ UNCHANGED job
              BY <7>1 DEF Restore, Resting, vars
            <7>2. CASE Step
              <8>1. CASE state.index < Len(CHECKPOINTS)
                BY <7>1, <7>2, <8>1 DEF Step
              <8>2. CASE ~(state.index < Len(CHECKPOINTS))
                BY <7>2, <8>2 DEF Step, vars, Presented, Demos
              <8> QED BY <8>1, <8>2
            <7>3. ASSUME NEW name, SaveSnapshot(name)
                  PROVE  demo'.at # "rest" /\ UNCHANGED job
              <8>1. demo' = [Resting EXCEPT !.at = IF snapshots[name] = Missing THEN "make"
                                                  ELSE "clear", !.name = name] /\ UNCHANGED job
                BY <7>3 DEF SaveSnapshot, vars
              <8> QED BY <8>1 DEF Resting
            <7>4. Reset \/ Step \/ SkipToEnd
                  \/ \E name \in Names : JumpTo(name) \/ SaveSnapshot(name)
              BY <3>1, <5>2 DEF Present, MakeSnapshot, Remove, Save, CopyBack, DropAny, CreateView
            <7> QED BY <7>1, <7>2, <7>3, <7>4 DEF Reset, SkipToEnd, JumpTo
          <6> QED BY <3>0, <6>1 DEF DemoOneAtATime
        <5> QED BY <5>1, <5>2
      <4>2. \A w \in Callers : job[w] = Idle
        BY <2>0, <4>1 DEF Kempt, Rester
      <4> QED BY <2>0, <3>0, <3>1, <4>2, PresentKempt
    <3>2. ASSUME up, NEW w \in Callers, Generate(w), UNCHANGED demoVars PROVE Kempt'
      <4>0. w \in Workers /\ job \in [Workers -> Jobs] /\ w # Presenter
        BY <3>2 DEF Callers, TypeOK
      <4>1. /\ \A v \in Workers \ {w} : job[v].at = "idle"
            /\ demo.at = "rest"
        <5>1. CASE job[w].at # "idle"
          BY <2>0, <3>2, <4>0, <5>1 DEF DemoOneAtATime, OneAtATime
        <5>2. CASE job[w].at = "idle"
          <6>1. PICK fired : job' = [job EXCEPT ![w] = [Idle EXCEPT !.at = "trace",
                                                !.fired = fired, !.todo = fired]]
            BY <3>2, <5>2 DEF Generate, Evaluate, OpenTrace, WriteTrace, ReadSummary,
                 OpenSummary, WriteSummary, DropTable, CreateTable, CommitTable
          <6>2. job'[w].at = "trace" /\ \A v \in Workers \ {w} : job'[v] = job[v]
            BY <4>0, <6>1 DEF Idle
          <6> QED BY <3>0, <3>2, <4>0, <6>2 DEF DemoOneAtATime, OneAtATime, demoVars
        <5> QED BY <5>1, <5>2
      <4>2. \A v \in Workers \ {w} : job[v] = Idle
        BY <2>0, <4>1 DEF Kempt, Rester, PresenterJob, Callers
      <4> QED BY <2>0, <3>2, <4>1, <4>2, GenerateKempt
    <3>3. CASE CrashAll
      <4>1. /\ job' = [w \in Workers |-> Idle] /\ cut' = Empty /\ ~up' /\ demo' = Resting
            /\ UNCHANGED <<dirs, traces, summary, object, behind, snapshots, whole>>
        BY <3>3 DEF CrashAll, Crash
      <4>2. Empty' = cut'
        BY <4>1, IdleFacts DEF Empty
      <4>3. demo'.at = "rest" /\ demo'.bad = FALSE
        BY <4>1 DEF Resting
      <4>4. Workspace' = Workspace
        BY <4>1, <4>2 DEF Workspace
      <4>5. Shaped(Workspace)' /\ SnapshotsHaveTraces' /\ \A n \in Names : Shaped(snapshots'[n])
        BY <2>0, <4>1, <4>4 DEF Kempt, SnapshotsHaveTraces, Shaped, Files, Closed
      <4>6. \A w \in Workers : job'[w] = Idle
        BY <4>1
      <4>7. \A w \in Callers : Rester(w)'
        BY <4>6, IdleFacts DEF Callers
      <4>8. Walk' /\ PresenterJob' = Idle
        BY <4>3 DEF Walk, PresenterJob
      <4> QED BY <2>0, <3>0, <4>1, <4>3, <4>5, <4>6, <4>7, <4>8, PresenterServes DEF Kempt
    <3>4. CASE Startup /\ UNCHANGED demoVars
      <4>1. /\ \A w \in Workers : job[w] = Idle
            /\ UNCHANGED <<job, disk>> /\ ~behind' /\ up' /\ demo.at = "rest"
        BY <2>0, <3>4 DEF Startup, Kempt
      <4>2. Workspace' = Workspace
        BY <3>4, <4>1 DEF Workspace, Empty, disk, demoVars
      <4>3. Shaped(Workspace)' /\ SnapshotsHaveTraces' /\ \A n \in Names : Shaped(snapshots'[n])
        BY <2>0, <3>4, <4>2 DEF Kempt, SnapshotsHaveTraces, Shaped, Files, Closed, demoVars
      <4>4. \A w \in Callers : Rester(w)'
        BY <4>1, IdleFacts DEF Callers
      <4>5. demo' = demo /\ Walk' /\ PresenterJob' = PresenterJob
        BY <2>0, <3>4, <4>1 DEF Walk, PresenterJob, Kempt, demoVars
      <4> QED BY <2>0, <3>0, <4>1, <4>3, <4>4, <4>5, PresenterServes DEF Kempt
    <3> QED BY <2>2, <3>0, <3>1, <3>2, <3>3, <3>4 DEF DemoNext
  <2> QED BY <2>1, <2>2
<1> QED BY <1>1, <1>2, DemoTypes, PTL DEF DemoSpec

\* With one request at a time, the presenter's among them: a row of the summary, in
\* the workspace or in a snapshot, has its trace beside it, whatever was saved and
\* restored and wherever a crash cut it short, unless the tree comes from a save or
\* a restore that was cut short itself.
THEOREM SnapshotsClosed == DemoSpec => []SnapshotsHaveTracesSerially
<1>1. Orderly => SnapshotsHaveTracesSerially
  BY DEF Orderly, Kempt, SnapshotsHaveTracesSerially
<1> QED BY <1>1, OrderlyInvariant, PTL

-----------------------------------------------------------------------------
(* With a presenter: what the alert list is read from *)

\* The list is not read from the file, or may not stay it.
Adrift == \/ Selected # summary.rows
          \/ object = None /\ \E w \in Workers : job[w].at = "commit"

Reloading == demo.at \in {"remove", "restore", "reload", "view"}

\* Then a request is on its way that registers the file, or one has been refused.
Presentable ==
  /\ up /\ summary.kind = "file" /\ Adrift =>
       behind \/ Reloading \/ \E w \in Callers : Republishing(w)
  /\ job[Presenter].at \in {"idle", "write"}
  /\ ~up => \A w \in Workers : job[w] = Idle

LEMMA GeneratePresents ==
  ASSUME TypeOK, Presentable, up, NEW w \in Callers, Generate(w), UNCHANGED demoVars
  PROVE  Presentable'
<1>0. /\ job \in [Workers -> Jobs] /\ summary \in Summaries /\ object \in Objects
      /\ w \in Workers /\ w # Presenter /\ Presenter \in Workers /\ demo' = demo
      /\ Callers \subseteq Workers
  BY PresenterServes DEF TypeOK, Callers, demoVars
<1>a. ASSUME UNCHANGED <<summary, object, behind, up>>,
             job[w].at \notin {"write", "drop", "create", "commit"},
             job'[w].at # "commit",
             \A v \in Workers \ {w} : job'[v] = job[v]
      PROVE  Presentable'
  <2>1. Selected' = Selected
    BY <1>a DEF Selected
  <2> QED BY <1>0, <1>a, <2>1 DEF Presentable, Reloading, Republishing, Adrift
<1>b. ASSUME job'[w].at \in {"write", "drop", "create"}, job'[Presenter].at \in {"idle", "write"},
             up' = up
      PROVE  Presentable'
  BY <1>b DEF Presentable, Republishing
<1>1. CASE Evaluate(w)
  BY <1>0, <1>1, <1>a DEF Evaluate, Idle
<1>2. CASE OpenTrace(w)
  BY <1>0, <1>2, <1>a DEF OpenTrace, Fail, Idle, Jobs, disk
<1>3. CASE WriteTrace(w)
  BY <1>0, <1>3, <1>a DEF WriteTrace, Jobs
<1>4. CASE ReadSummary(w)
  BY <1>0, <1>4, <1>a DEF ReadSummary, Fail, Goto, Idle, Jobs
<1>5. CASE OpenSummary(w)
  <2>1. CASE "alerts" \in dirs
    <3>1. /\ job'[w] = Opened(w, w) /\ job'[Presenter] = Opened(w, Presenter)
          /\ UNCHANGED <<object, up>>
      BY <1>0, <1>5, <2>1 DEF OpenSummary, Truncate
    <3>2. job[w] \in Jobs /\ job[Presenter] \in Jobs
      BY <1>0
    <3>3. job'[w].at = "write" /\ job'[Presenter].at = job[Presenter].at
      BY <1>0, <3>1, <3>2 DEF Opened, Jobs
    <3> QED BY <1>b, <3>1, <3>3 DEF Presentable
  <2>2. CASE "alerts" \notin dirs
    BY <1>0, <1>5, <1>a, <2>2 DEF OpenSummary, Fail, Idle
  <2> QED BY <2>1, <2>2
<1>6. CASE WriteSummary(w)
  <2>1. job'[w].at = "drop" /\ up' = up /\ \A v \in Workers : v # w => job'[v] = job[v]
    BY <1>0, <1>6 DEF WriteSummary, Goto, Jobs
  <2> QED BY <1>0, <1>b, <2>1 DEF Presentable
<1>7. CASE DropTable(w)
  <2>0. UNCHANGED <<summary, up>> /\ \A v \in Workers : v # w => job'[v] = job[v]
    BY <1>0, <1>7 DEF DropTable, Goto, Answer, Fail, disk
  <2>1. CASE summary.kind = "absent"
    BY <1>0, <2>0, <2>1 DEF Presentable
  <2>2. CASE summary.kind # "absent" /\ object.kind = "view"
    <3>1. object' = object
      BY <1>7, <2>2 DEF DropTable
    <3>2. Selected' = summary'.rows /\ object' # None
      BY <2>2, <3>1 DEF Selected, None
    <3> QED BY <1>0, <2>0, <3>2 DEF Presentable, Adrift
  <2>3. CASE summary.kind # "absent" /\ object.kind # "view"
    <3>1. job'[w].at = "create"
      BY <1>0, <1>7, <2>3 DEF DropTable, Goto, Jobs
    <3> QED BY <1>0, <1>b, <2>0, <3>1 DEF Presentable
  <2> QED BY <2>1, <2>2, <2>3
<1>8. CASE CreateTable(w)
  <2>0. UNCHANGED <<summary, object, up>> /\ \A v \in Workers : v # w => job'[v] = job[v]
    BY <1>0, <1>8 DEF CreateTable, disk, Fail
  <2>1. CASE summary.kind = "file"
                 /\ job' = [job EXCEPT ![w].at = "commit", ![w].held = summary.rows]
    <3>1. job'[w].at = "commit" /\ job'[w].held = summary.rows
      BY <1>0, <2>1 DEF Jobs
    <3>2. summary = File(summary.rows)
      BY <1>0, <2>1 DEF Summaries, Absent, Torn, File
    <3>3. Republishing(w)'
      BY <2>0, <3>1, <3>2 DEF Republishing
    <3> QED BY <1>0, <2>0, <3>3 DEF Presentable
  <2>2. CASE (Taken \/ summary.kind # "file") /\ behind' = (behind \/ Taken)
    BY <1>0, <2>0, <2>2 DEF Presentable
  <2> QED BY <1>8, <2>1, <2>2 DEF CreateTable
<1>9. CASE CommitTable(w)
  <2>0. /\ \A v \in Workers : job'[v] = IF v = w THEN Idle ELSE job[v]
        /\ summary' = summary /\ up' = up /\ job[w].at = "commit"
    BY <1>0, <1>9 DEF CommitTable, Answer, Fail, disk
  <2>1. CASE behind'
    BY <1>0, <2>0, <2>1 DEF Presentable
  <2>2. ASSUME object = None, behind' = behind, NEW s \in {File(job[w].held), summary},
               object' = Table(s.rows)
        PROVE  Presentable'
    <3>1. object' # None /\ Selected' = s.rows
      BY <2>2 DEF Table, None, Selected
    <3>2. CASE s = summary
      BY <1>0, <2>0, <3>1, <3>2 DEF Presentable, Adrift
    <3>3. CASE behind
      BY <1>0, <2>0, <2>2, <3>3 DEF Presentable
    <3>4. CASE Reloading
      BY <1>0, <2>0, <3>4 DEF Presentable, Reloading
    <3>5. ASSUME NEW v \in Callers, Republishing(v), s # summary PROVE Presentable'
      <4>1. v # w
        BY <2>0, <2>2, <3>5 DEF Republishing
      <4>2. Republishing(v)'
        BY <1>0, <2>0, <3>5, <4>1 DEF Republishing
      <4> QED BY <1>0, <2>0, <4>2 DEF Presentable
    <3>6. CASE summary.kind # "file"
      BY <1>0, <2>0, <3>6 DEF Presentable
    <3> QED BY <1>0, <2>0, <2>2, <3>2, <3>3, <3>4, <3>5, <3>6 DEF Presentable, Adrift
  <2> QED BY <1>9, <2>1, <2>2 DEF CommitTable
<1> QED BY <1>1, <1>2, <1>3, <1>4, <1>5, <1>6, <1>7, <1>8, <1>9 DEF Generate

LEMMA PresenterPresents ==
  ASSUME TypeOK, Presented, Presentable, up, Present
  PROVE  Presentable'
<1>0. /\ object \in Objects /\ job \in [Workers -> Jobs] /\ demo \in Demos
      /\ Presenter \in Workers
  BY PresenterServes DEF TypeOK, Presented
<1>a. ASSUME up', Reloading' \/ behind' \/ summary'.kind # "file",
             job'[Presenter].at \in {"idle", "write"}
      PROVE  Presentable'
  BY <1>a DEF Presentable
\* The presenter's handler begins, saves a snapshot, or skips the restore.
<1>b. ASSUME UNCHANGED <<disk, object, behind, job, up>>, ~Reloading PROVE Presentable'
  <2>1. Selected' = Selected /\ summary' = summary
    BY <1>b DEF disk, Selected
  <2> QED BY <1>b, <2>1 DEF Presentable, Adrift, Republishing
<1>1. CASE demo.at = "rest" /\ UNCHANGED vars
  BY <1>1, <1>b DEF vars, Reloading
<1>2. CASE MakeSnapshot
  BY <1>2, <1>b DEF MakeSnapshot, vars, Reloading
<1>3. CASE Save
  <2>1. UNCHANGED <<disk, object, behind, job, up>> /\ demo.at = "save"
    BY <1>3 DEF Save, EnterSaved, OpenSavedSummary, WriteSavedSummary, EnterSavedTraces,
         OpenSavedTrace, WriteSavedTrace, EndSave, Saved
  <2> QED BY <1>b, <2>1 DEF Reloading
<1>4. CASE Remove
  <2>1. /\ demo'.at \in {demo.at, "make", "restore"} \/ behind'
        /\ demo.at = "clear" => UNCHANGED <<disk, job>>
        /\ demo.at = "remove" => demo'.at \in {"remove", "restore"} \/ behind'
        /\ UNCHANGED <<object, up>>
        /\ UNCHANGED behind \/ behind'
    BY <1>0, <1>4 DEF Remove, ListDoomed, UnlinkSummary, ListTraces, UnlinkTrace, RemoveTraces,
         RemoveAlerts, Becomes, AfterRemoval, Raise, Demos
  <2>2. job'[Presenter].at = job[Presenter].at
    <3>1. CASE UNCHANGED job
      BY <3>1
    <3>2. ASSUME NEW t, Becomes(t) PROVE job'[Presenter].at = job[Presenter].at
      <4>1. job[Presenter] \in Jobs
        BY <1>0
      <4>2. CASE demo.at = "clear"
        BY <3>2, <4>2 DEF Becomes
      <4>3. CASE demo.at # "clear"
        <5>1. job'[Presenter] = [job[Presenter] EXCEPT !.text = @ \cap t.cut,
                 !.fh = IF job[Presenter].at = "write" /\ t.summary = Absent
                          THEN "unlinked" ELSE @]
          BY <1>0, <3>2, <4>3 DEF Becomes
        <5> QED BY <4>1, <5>1 DEF Jobs
      <4> QED BY <4>2, <4>3
    <3> QED BY <1>4, <3>1, <3>2 DEF Remove, ListDoomed, UnlinkSummary, ListTraces, UnlinkTrace,
                 RemoveTraces, RemoveAlerts
  <2>3. CASE demo.at = "clear"
    <3>1. CASE behind'
      BY <1>a, <2>1, <2>2, <3>1 DEF Presentable
    <3>2. CASE UNCHANGED behind
      BY <1>b, <2>1, <2>3, <3>2 DEF Reloading
    <3> QED BY <2>1, <3>1, <3>2
  <2>4. CASE demo.at = "remove"
    BY <1>a, <2>1, <2>2, <2>4 DEF Presentable, Reloading
  <2> QED BY <1>4, <2>3, <2>4 DEF Remove
<1>5. CASE CopyBack
  <2>1. (Reloading' \/ behind') /\ up'
    BY <1>0, <1>5 DEF CopyBack, EnterRestored, OpenRestoredSummary, WriteRestoredSummary,
         EnterRestoredTraces, OpenRestoredTrace, WriteRestoredTrace, EndRestore, LeaveTraces,
         Raise, Reloading, Demos, Resting
  <2>2. job'[Presenter].at \in {"idle", "write"}
    <3>1. CASE UNCHANGED job
      BY <3>1 DEF Presentable
    <3>2. CASE job' = [job EXCEPT ![Presenter] = Idle]
      BY <1>0, <3>2 DEF Idle
    <3>3. CASE Truncate(Presenter)
      <4>1. job'[Presenter] = Opened(Presenter, Presenter) /\ job[Presenter] \in Jobs
        BY <1>0, <3>3 DEF Truncate
      <4> QED BY <4>1 DEF Opened, Jobs
    <3> QED BY <1>5, <3>1, <3>2, <3>3
            DEF CopyBack, EnterRestored, OpenRestoredSummary, WriteRestoredSummary,
                EnterRestoredTraces, OpenRestoredTrace, WriteRestoredTrace, EndRestore
  <2> QED BY <1>a, <2>1, <2>2
<1>6. CASE DropAny
  <2>1. UNCHANGED <<summary, job, up>>
    BY <1>6 DEF DropAny, disk
  <2>2. summary.kind # "absent" => demo'.at = "view"
    BY <1>0, <1>6 DEF DropAny, Demos
  <2> QED BY <1>a, <2>1, <2>2 DEF Presentable, Reloading
<1>7. CASE CreateView
  <2>0. UNCHANGED <<summary, job, up>>
    BY <1>7 DEF CreateView, disk
  <2>1. CASE object' = View
    <3>1. Selected' = summary'.rows /\ object' # None
      BY <2>1 DEF Selected, View, None
    <3> QED BY <2>0, <3>1 DEF Presentable, Adrift
  <2>2. CASE (Taken \/ summary.kind # "file") /\ behind' = (behind \/ Taken)
    BY <1>a, <2>0, <2>2 DEF Presentable
  <2> QED BY <1>7, <2>1, <2>2 DEF CreateView
<1>8. Reset \/ Step \/ SkipToEnd \/ (\E name \in Names : JumpTo(name) \/ SaveSnapshot(name))
      => demo.at = "rest" /\ UNCHANGED vars
  BY DEF Reset, Step, SkipToEnd, JumpTo, Restore, SaveSnapshot
<1> QED BY <1>1, <1>2, <1>3, <1>4, <1>5, <1>6, <1>7, <1>8 DEF Present

LEMMA PresentableInvariant == DemoSpec => []Presentable
<1>1. DemoInit => Presentable
  BY IdleFacts, PresenterServes DEF DemoInit, Init, Presentable, Absent
<1>2. TypeOK /\ Presented /\ Presentable /\ [DemoNext]_allVars => Presentable'
  <2> SUFFICES ASSUME TypeOK, Presented, Presentable, [DemoNext]_allVars PROVE Presentable'
    OBVIOUS
  <2>1. CASE up /\ Present
    BY <2>1, PresenterPresents
  <2>2. ASSUME up, NEW w \in Callers, Generate(w), UNCHANGED demoVars PROVE Presentable'
    BY <2>2, GeneratePresents
  <2>3. CASE CrashAll
    BY <2>3, IdleFacts, PresenterServes DEF CrashAll, Crash, Presentable
  <2>4. CASE Startup /\ UNCHANGED demoVars
    <3>1. object' = StartupObject /\ UNCHANGED <<summary, job>>
      BY <2>4 DEF Startup, disk
    <3>2. \A w \in Workers : job'[w] = Idle
      BY <2>4, <3>1 DEF Startup, Presentable
    <3>3. summary.kind = "file" => object'.kind = "view" \/ object' = Table(summary.rows)
      BY <3>1 DEF StartupObject, Registered
    <3>4. summary'.kind = "file" => Selected' = summary'.rows
      BY <3>1, <3>3 DEF Selected, Table
    <3> QED BY <3>2, <3>4, IdleFacts, PresenterServes DEF Presentable, Adrift
  <2>5. CASE UNCHANGED allVars
    <3>1. Selected' = Selected
      BY <2>5 DEF allVars, vars, disk, Selected
    <3> QED BY <2>5, <3>1 DEF allVars, vars, disk, demoVars, Presentable, Adrift, Reloading,
                              Republishing
  <2> QED BY <2>1, <2>2, <2>3, <2>4, <2>5 DEF DemoNext
<1> QED BY <1>1, <1>2, DemoTypes, PTL DEF DemoSpec

\* Whatever mixture of tables and views the requests, restores, crashes and restarts
\* have left: at rest the alert list is read from the summary file, if there is one
\* and no registration of it has been refused or given up.
THEOREM ListIsSummary == DemoSpec => []ListedIsSummary
<1>1. Presentable /\ Orderly => ListedIsSummary
  BY DEF Presentable, Orderly, Kempt, ListedIsSummary, DemoQuiet, Quiet, Adrift, Reloading,
         Republishing, Callers
<1> QED BY <1>1, PresentableInvariant, OrderlyInvariant, PTL
=============================================================================
