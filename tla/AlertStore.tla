----------------------------- MODULE AlertStore -----------------------------
(***************************************************************************)
(* AlertService.generate_alerts and the two places that publish its        *)
(* result: the files under workspace/alerts and the DuckDB catalog entry   *)
(* alerts_summary.                                                         *)
(*                                                                         *)
(* The handlers of the API are plain functions, so the server runs each on *)
(* a thread of its pool: the requests of several Workers interleave        *)
(* between any two of their file or database calls.  Nothing locks the     *)
(* files; DuckDB commits each statement by itself and its database file,   *)
(* with the catalog, outlives the process.                                 *)
(***************************************************************************)
EXTENDS Naturals

CONSTANTS
  Alerts,      \* the alert ids detection may mint; each is minted once (uuid4)
  Workers,     \* threads that serve requests
  MaxCrashes   \* bound: how often the process is killed

ASSUME CrashBound == MaxCrashes \in Nat

VARIABLES
  dirs,      \* the directories there are of workspace/alerts and alerts/traces
  traces,    \* alerts with a JSON file in alerts/traces
  cut,       \* trace files that are empty though no request has them open
  summary,   \* alerts/summary.parquet: Absent, Torn, or the file with its rows
  object,    \* catalog entry alerts_summary: None, a table or a view
  minted,    \* alert ids handed out by detection so far
  answered,  \* alerts named by a successful response of generate_alerts
  behind,    \* history: has a registration of the file collided with another one,
             \* or been given up, since the file was last registered?
  job,       \* the request each worker is serving
  up,        \* is the process running?
  crashes,   \* how often it was killed
  serial     \* the way of use, which does not change: is there never a request
             \* before the one before it has been answered?

disk == <<dirs, traces, cut, summary>>
vars == <<disk, object, minted, answered, behind, job, up, crashes, serial>>

-----------------------------------------------------------------------------
(* The summary file and the catalog entry *)

Absent == [kind |-> "absent", rows |-> {}]
Torn   == [kind |-> "torn", rows |-> {}]      \* truncated, or two writers' bytes
File(rows) == [kind |-> "file", rows |-> rows]
Summaries == {Absent, Torn} \cup [kind : {"file"}, rows : SUBSET Alerts]

None == [kind |-> "none", rows |-> {}]
Table(rows) == [kind |-> "table", rows |-> rows]
View == [kind |-> "view", rows |-> {}]        \* a query over summary.parquet
Objects == {None, View} \cup [kind : {"table"}, rows : SUBSET Alerts]

\* What registering file s as a table leaves in the catalog once the old table
\* is dropped: read_parquet raises on a file that is missing or torn.
Registered(s) == IF s.kind = "file" THEN Table(s.rows) ELSE None

\* SELECT * FROM alerts_summary: the rows, none at all when the query raises.
Selected == CASE object.kind = "table" -> object.rows
              [] object.kind = "view"  -> summary.rows
              [] OTHER                 -> {}

\* Trace files with nothing in them yet, or for ever.
Empty == cut \cup UNION {job[w].text : w \in Workers}

\* What GET /api/alerts answers: the query, or the trace files when it fails
\* or finds nothing; json.loads raises on a trace that is empty.
Listing == IF Selected # {} THEN Selected
           ELSE IF Empty = {} THEN traces
           ELSE {}

-----------------------------------------------------------------------------
(* Requests *)

\* at    the step of generate_alerts the worker is about to take
\* fired the alerts it found; todo: those whose trace is still to be written
\* text  the trace whose file it has open
\* held  the rows it read from the summary, before it rewrites it and again for
\*       the table it creates
\* fh    the summary as it has it open: alone, mixed with another writer's
\*       bytes, or unlinked because the directory was removed meanwhile
Idle == [at |-> "idle", fired |-> {}, todo |-> {}, text |-> {}, held |-> {},
         fh |-> "alone"]
Steps == {"idle", "trace", "text", "read", "open", "write", "drop", "create", "commit"}
Jobs == [at : Steps, fired : SUBSET Alerts, todo : SUBSET Alerts, text : SUBSET Alerts,
         held : SUBSET Alerts, fh : {"alone", "mixed", "unlinked"}]

Init ==
  /\ dirs = {} /\ traces = {} /\ cut = {} /\ summary = Absent /\ object = None
  /\ minted = {} /\ answered = {} /\ behind = FALSE
  /\ job = [w \in Workers |-> Idle]
  /\ up = TRUE /\ crashes = 0
  /\ serial \in BOOLEAN

Goto(w, step) == job' = [job EXCEPT ![w].at = step]
Fail(w) == job' = [job EXCEPT ![w] = Idle]     \* the request ends in a 500

\* Detection fired some alerts; each has a fresh id.  With none fired the
\* handler returns without touching anything, which is a stuttering step.
\* The last thing before the first trace is mkdir.
Evaluate(w) ==
  /\ job[w].at = "idle"
  /\ \E fired \in (SUBSET (Alerts \ minted)) \ {{}} :
       /\ minted' = minted \cup fired
       /\ job' = [job EXCEPT ![w] = [Idle EXCEPT !.at = "trace",
                                       !.fired = fired, !.todo = fired]]
  /\ dirs' = {"alerts", "traces"}
  /\ UNCHANGED <<traces, cut, summary, object, answered, behind, up, crashes>>

\* write_text opens the file of a trace, and makes it; the directory may have been
\* removed since mkdir.
OpenTrace(w) ==
  /\ job[w].at = "trace"
  /\ \E a \in job[w].todo :
       IF "traces" \in dirs
         THEN job' = [job EXCEPT ![w].todo = @ \ {a}, ![w].text = {a}, ![w].at = "text"]
         ELSE Fail(w)
  /\ UNCHANGED <<disk, object, minted, answered, behind, up, crashes>>

\* Mutant: straight on to the summary, as if the traces were saved after it.
WriteTraceSkipped(w) ==
  /\ job[w].at = "text" /\ job' = [job EXCEPT ![w].text = {}, ![w].at = "read"]
  /\ UNCHANGED <<disk, object, minted, answered, behind, up, crashes>>

\* The text is written, and the file closed.
WriteTrace(w) ==
  /\ job[w].at = "text"
  /\ traces' = traces \cup job[w].text
  /\ job' = [job EXCEPT ![w].text = {},
               ![w].at = IF job[w].todo = {} THEN "read" ELSE "trace"]
  /\ UNCHANGED <<dirs, cut, summary, object, minted, answered, behind, up, crashes>>

\* The old rows are read when the file exists; otherwise the directory is made.
ReadSummary(w) ==
  /\ job[w].at = "read"
  /\ \/ /\ summary.kind = "file"
        /\ job' = [job EXCEPT ![w].at = "open", ![w].held = summary.rows]
        /\ UNCHANGED dirs
     \/ /\ summary.kind = "torn" /\ Fail(w)
        /\ UNCHANGED dirs
     \/ /\ summary.kind = "absent" /\ Goto(w, "open")
        /\ dirs' = dirs \cup {"alerts"}
  /\ UNCHANGED <<traces, cut, summary, object, minted, answered, behind, up, crashes>>

Writers == {w \in Workers : job[w].at = "write" /\ job[w].fh # "unlinked"}

\* The job of v once w has opened the file.
Opened(w, v) ==
  IF v = w THEN [job[v] EXCEPT !.at = "write",
                   !.fh = IF Writers = {} THEN "alone" ELSE "mixed"]
  ELSE IF v \in Writers THEN [job[v] EXCEPT !.fh = "mixed"]
  ELSE job[v]

Truncate(w) == summary' = Torn /\ job' = [v \in Workers |-> Opened(w, v)]

\* pq.write_table opens the file, which truncates it ...
OpenSummary(w) ==
  /\ job[w].at = "open"
  /\ IF "alerts" \in dirs
       THEN Truncate(w)
       ELSE Fail(w) /\ UNCHANGED summary
  /\ UNCHANGED <<dirs, traces, cut, object, minted, answered, behind, up, crashes>>

\* concat_tables([existing, new_table]).  Mutant: the new rows alone.
OnlyNew(w) == job[w].fired
Combined(w) == job[w].held \cup job[w].fired

\* What the file can be once w has written `mine`.  A writer that was alone
\* leaves its own file; where two overlapped, the bytes that reach the disk last
\* decide.  The bytes of a file that was unlinked while open are in no directory.
Written(w, mine) == CASE job[w].fh = "alone"    -> {mine}
                      [] job[w].fh = "mixed"    -> {mine, Torn, summary}
                      [] job[w].fh = "unlinked" -> {summary}

\* ... and writes the old rows and the new.
WriteSummary(w) ==
  /\ job[w].at = "write"
  /\ summary' \in Written(w, File(Combined(w)))
  /\ Goto(w, "drop")
  /\ UNCHANGED <<dirs, traces, cut, object, minted, answered, behind, up, crashes>>

\* The response names the alerts that fired.
Answer(w) ==
  /\ answered' = answered \cup job[w].fired
  /\ job' = [job EXCEPT ![w] = Idle]

\* DROP TABLE IF EXISTS raises when alerts_summary is a view.  It does not see a
\* table that another worker has not committed yet.
DropTable(w) ==
  /\ job[w].at = "drop"
  /\ \/ summary.kind = "absent" /\ Answer(w) /\ UNCHANGED object
     \/ /\ summary.kind # "absent" /\ object.kind = "view"
        /\ Fail(w) /\ UNCHANGED <<object, answered>>
     \/ /\ summary.kind # "absent" /\ object.kind # "view"
        /\ object' = None
        /\ Goto(w, "create") /\ UNCHANGED answered
  /\ UNCHANGED <<disk, minted, behind, up, crashes>>

\* There is an alerts_summary, or will be when another worker commits it.
Taken == object # None \/ \E w \in Workers : job[w].at = "commit"

\* CREATE TABLE AS begins: it raises when the file cannot be read, and when
\* another worker has created the table or (now or on commit) is about to.
\* Otherwise it reads the rows ...
CreateTable(w) ==
  /\ job[w].at = "create"
  /\ \/ /\ object = None /\ summary.kind = "file"
        /\ job' = [job EXCEPT ![w].at = "commit", ![w].held = summary.rows]
        /\ behind' = FALSE
     \/ /\ Taken \/ summary.kind # "file"
        /\ Fail(w)
        /\ behind' = (behind \/ Taken)
  /\ UNCHANGED <<disk, object, minted, answered, up, crashes>>

\* ... and commits the table with them.  If the file was rewritten meanwhile, the
\* rows may also be those it has now, or the statement raises.
CommitTable(w) ==
  /\ job[w].at = "commit"
  /\ \/ \E s \in {File(job[w].held), summary} :
          /\ object = None /\ s.kind = "file"
          /\ object' = Table(s.rows)
          /\ Answer(w) /\ UNCHANGED behind
     \/ /\ object # None \/ summary # File(job[w].held)
        /\ Fail(w) /\ behind' = TRUE
        /\ UNCHANGED <<object, answered>>
  /\ UNCHANGED <<disk, minted, up, crashes>>

Generate(w) == \/ Evaluate(w) \/ OpenTrace(w) \/ WriteTrace(w) \/ ReadSummary(w)
               \/ OpenSummary(w) \/ WriteSummary(w)
               \/ DropTable(w) \/ CreateTable(w) \/ CommitTable(w)

-----------------------------------------------------------------------------
(* The process *)

Crash ==
  /\ up /\ crashes < MaxCrashes
  /\ up' = FALSE
  /\ crashes' = crashes + 1
  /\ job' = [w \in Workers |-> Idle]
  /\ cut' = Empty
  /\ UNCHANGED <<dirs, traces, summary, object, minted, answered, behind>>

\* Mutant: the catalog is taken over from before the crash.
StartupAsIs == object

\* What _load_data leaves in the catalog: nothing is touched without a summary
\* file, and a view makes DROP TABLE raise, which is only logged.
StartupObject == IF summary.kind = "absent" \/ object.kind = "view"
                   THEN object
                   ELSE Registered(summary)

Startup ==
  /\ ~up
  /\ up' = TRUE
  /\ object' = StartupObject
  /\ behind' = FALSE
  /\ UNCHANGED <<disk, minted, answered, job, crashes>>

OneAtATime == \A v, w \in Workers : job[v].at # "idle" /\ job[w].at # "idle" => v = w

Next == /\ \/ up /\ \E w \in Workers : Generate(w)
           \/ Crash
           \/ Startup
        /\ (serial => OneAtATime') /\ UNCHANGED serial

Spec == Init /\ [][Next]_vars

-----------------------------------------------------------------------------
(* Properties *)

TypeOK ==
  /\ dirs \subseteq {"alerts", "traces"}
  /\ traces \subseteq Alerts /\ cut \subseteq Alerts /\ minted \subseteq Alerts
  /\ summary \in Summaries /\ object \in Objects
  /\ answered \subseteq Alerts
  /\ job \in [Workers -> Jobs]
  /\ behind \in BOOLEAN /\ up \in BOOLEAN /\ crashes \in 0 .. MaxCrashes /\ serial \in BOOLEAN

Quiet == up /\ \A w \in Workers : job[w].at = "idle"

\* An alert that the summary file or the served table lists can be opened: its
\* trace is on disk (generate_alerts saves the traces before the summary, and a
\* crash anywhere in between keeps that order).
SummaryHasTraces == summary.rows \subseteq traces
RowsHaveTraces == SummaryHasTraces /\ object.rows \subseteq traces

\* However the DROP, CREATE, commit and file writes of concurrent requests
\* interleave, and wherever the process was killed, the table the dashboard
\* queries is the summary file as soon as no request is in flight: unless a
\* request has been refused its CREATE TABLE since the file was last read for one
\* (a table of an older file may then have been committed over the newer file).
\* With one request at a time that does not happen.
ServedMatchesFile ==
  Quiet /\ (serial \/ ~behind) => object = Registered(summary)

\* With one request at a time: an alert that a caller was told about stays in
\* the alert list, through crashes anywhere in generate_alerts.  The list cannot
\* fall back on the traces while one is empty: when a crash has left one, the
\* alerts are listed while nothing is in flight, until the next crash ...
AnsweredListed == up => answered \subseteq Listing
Listable == Empty = {} \/ (Quiet /\ crashes <= 1)
AnsweredListedSerially == serial /\ Listable => AnsweredListed

\* ... and in the summary file, which every request rewrites as a whole ("Write
\* alert summary to Parquet (append if exists)").
SummaryAppends == Quiet /\ summary.kind = "file" => answered \subseteq summary.rows
SummaryAppendsSerially == serial => SummaryAppends
=============================================================================
