# TLA+ models of the analytics platform

The repository is a trade-surveillance demonstrator: a FastAPI backend over
DuckDB and a directory of JSON and Parquet files (`workspace/`), with a React
front end. Users define calculations, settings and detection models as JSON
metadata; a pipeline computes tables from base data, a detection engine scores
the rows of queries over them and mints alerts, and a demo controller moves the
whole workspace between snapshots.

This directory models the parts in which order matters. Each module says in its
head comment what it models; `PROJECT.json` maps every definition to the lines
of code it translates, and lists the runs, mutants, hazards and theorems.

    tlc -config alerts.cfg MCAlertStore     # one run
    tlapm AlertStoreProofs.tla              # one proof module

## How the parts run together

* Every handler of the backend that is modelled is a plain `def`, so Starlette serves it on a thread of
  a pool: two requests interleave between any two of their file or database
  calls. The models have `Workers` for these threads and a step for each such call.
* The services are singletons on `app.state`. The one lock of the backend is
  around `DuckDBManager.cursor()` (`backend/db.py`): it orders the making of
  cursors, not what is done with them.
* DuckDB commits each statement by itself. `DROP` followed by `CREATE` is
  therefore two steps, with a catalog without the table in between; two
  transactions that create the same table collide when the second one commits.
  The catalog is in `workspace/analytics.duckdb` and survives a restart.
* No file is replaced atomically: `write_text` and `pq.write_table` open (and
  truncate) the file, then write it. Where readers or crashes can tell, a model
  has a "torn" state between the two steps.
* Nothing retries, and nothing waits for anything: no request blocks another one.
  A step that fails ends the request with a 500 or is logged and skipped.
* The front end has one thread. A handler runs until it awaits a request; then the
  user, timers and the answers to other requests come in between. Answers arrive in
  any order, a request may fail, and a page that was left goes on to hear what
  it asked for unless an effect cancels it. Views share state in Zustand stores,
  which outlive them, and keep their own with `useState`, which does not.

## Inventory

Each row says what a component keeps, what changes it, and what makes it hard.
"-" in the last column: not modelled (reasons below).

| component (backend/...) | state | operations | hard behaviour | correct if | module |
|---|---|---|---|---|---|
| alert store (`services/alert_service.py`) | trace files, `summary.parquet`, catalog entry `alerts_summary` | generate, list, startup | read-modify-write of the summary, truncation, DROP/CREATE, crash between files | listed rows have traces; what is served is the file unless a caller was refused; no answered alert is lost | AlertStore |
| demo controller (`services/demo_controller.py`, `api/demo.py`) | `snapshots/<name>`, `demo_state.json` | reset, step, jump, skip to end, save, reload | rmtree and copytree go entry by entry under running requests and crashes, a table where a view is expected | the list is the summary file at rest; what was saved and restored to the end has its traces; index and label agree | DemoFlow |
| calculation graph (`engine/calculation_engine.py`) | recursion stack, visited, order | `build_dag` | cycles, diamonds, unknown ids, sorting after the search | dependency order; error exactly on cycles; terminates | CalcDag |
| calculation execution (same file, `api/pipeline.py`) | catalog, result files | `run_all`, `run_one`, stages | overlapping runs drop and create the same tables; going on after errors; a crash or a restore in the middle | tables exist and are current when all has ended; what is "done" is on disk, and after a restore, too | CalcPipeline |
| data loader, DuckDB (`engine/data_loader.py`, `db.py`) | base Parquet files and views, mtimes | load, reload | a file is rewritten under the view that reads it | same | CalcPipeline (reload) |
| stage orchestrator (`services/pipeline_orchestrator.py`) | none of its own | run a stage | stops at the first error | same | CalcPipeline (calculation stages) |
| calculation metadata (`services/metadata_service.py`, `api/metadata.py`) | shipped files, overrides, user files | save, delete, reset | two layers of files, directories named after an editable field, check-then-act | shipped files stay; load and list agree; no missing dependency | MetadataLayers |
| audit trail (`services/audit_service.py`) | one record file per change | record, history | written after the change | latest record tells what the file holds | MetadataLayers |
| settings resolver (`engine/settings_resolver.py`) | none | resolve, score | ranking among overrides, half-open steps | a unique best override | DetectionScoring |
| detection engine (`engine/detection_engine.py`) | traces in the making | `evaluate_all` | settings are read anew at each step while users save them; queries and values that raise in the middle | gates hold; an error costs its model only, and has a cause | DetectionScoring |
| other metadata (`api/match_patterns.py`, ...) | entities, models, settings, patterns, templates | save, delete, reset | as for calculations, with one path per id | as for calculations | settings in DetectionScoring; all kinds as the studios see them in Editors |
| cases (`services/case_service.py`) | a JSON file per case | create, update, status, annotate, delete, list | read-modify-write, a file is empty while it is written | an answered entry stays; every request takes effect at one moment | Records |
| submissions (`api/submissions.py`) | a JSON file each | create, status, comment, recommend, delete, list | recommendations are computed between read and write | same | Records |
| version history (`services/version_service.py`) | a list per item | record, rollback, read | number = length of what was read; a rollback reads twice | a number names one version | Records |
| quarantine (`services/quarantine_service.py`) | a JSON file per row | capture, retry, override, discard, list | read-modify-write | retries are counted | Records |
| golden records (`services/reference_service.py`) | a record set per entity | reconcile, override | ids by position, overrides merged away | ids are unique and stay | - |
| sandbox, archive | directories of copied data | create, run, discard, export, restore | as for records | as for records | - |
| events, results log, run versions | day files with a hash chain, in-memory fingerprints, run records | emit, verify, log, skip, transitions | chain under threads, memory against disk | the chain verifies | - |
| lakehouse, materialized views, governance | Iceberg catalog | table operations one at a time | DROP/CREATE of a view's table | as CalcPipeline | - |
| onboarding | jobs in memory | upload, profile, confirm | - | - | its view is in DataViews |
| roles and masking | the current role | switch, mask | one role for the process | - | its view is in OversightViews |
| validation, quality scores, lineage, metrics, glossary, semantic layer, AI assistant, reports, queries, dashboard | none, or single JSON files | read and compute | - | - | their views |

| component (frontend/src/...) | state | operations | hard behaviour | correct if | module |
|---|---|---|---|---|---|
| stores and client (`stores/`, `api/client.ts`) | copies of the server's lists, selections, busy flags, errors | fetch, save, delete, run | flags reset on each way out, answers out of order, copies that a change makes untrue | no flag outlives its calls; what is shown after a change is what was stored | StoreCalls |
| views (`views/`, `hooks/`) | what a page shows and has selected | effects on entry and on selection, buttons | late answers to an earlier selection, effects that set each other off, pages left in the middle | what is shown belongs to what is selected; a page comes to rest | ViewCalls, DataViews, OversightViews, StudioViews, Screens |
| studios and metadata editor (`views/ModelComposer`, `UseCaseStudio`, `EntityDesigner`, `SettingsManager`, `MetadataExplorer`, `MappingStudio`, `MetadataEditor`) | server, store, selected copy, form, dialog, JSON text | select, create, edit, walk a wizard, save, delete, reset, type JSON | four copies of one item, wizards walked in any order, a dialog about an item while another is selected, a debounce timer | no saved edit is lost; what is deleted was asked about; only complete items are sent | Editors |
| tours, scenarios, onboarding (`components/TourEngine`, `stores/tourStore.ts`, `data/scenarios`, `data/tours`) | active tour or scenario and step, auto-play, page on screen, localStorage | start, next, back, skip, play, replay, visit, reload | timers, polls and animation frames of a step that was left; routes that render late; two overlays that send the browser | steps are walked one at a time; a timer belongs to the step shown; nobody is locked in; the page settles | TourEngine, ScenarioCatalog |
| architecture registry, examples, help texts; QA toolkit, scripts | none | - | - | - | - |

## Modules

    AlertStore ----------> DemoFlow          (EXTENDS: the presenter joins the workers)
          ^                    ^   ^
          MCAlertStore         |   MCDemoFlow
                               AlertStoreProofs      (both modules)
    CalcDag <- MCCalcDag                     (its order is the Dag of CalcPipeline)
      ^
    CalculationProofs
      v
    CalcPipeline <- MCCalcPipeline
    MetadataLayers <- MetadataLayersProofs, MCMetadataLayers
    DetectionScoring <- DetectionScoringProofs, MCDetectionScoring
    Records ------> Registry                 (refinement: INSTANCE ... WITH)
      ^   ^
      |   MCRecords
      RecordsProofs
    TourEngine -------> Playback              (refinement, twice)
      ^   ^
      |   MCTourEngine ---> ScenarioCatalog   (the shipped scenarios and tours)
      TourEngineProofs
    Calls <- StoreCalls <- ViewCalls, DataViews, OversightViews, StudioViews
      ^                       ^
    Screens <- ScreensProofs  |
      ^                       |
      MCScreens --------------+               (every view of the application)
    Editors <- EditorsProofs, MCEditors

**AlertStore.** A worker's `job` is where its `generate_alerts` is: traces one
by one, each opened and then written, read the summary, open (truncate) it, write
it, DROP, CREATE TABLE AS SELECT, which begins by reading the rows (`held`) and
commits later, answer. In between another worker may rewrite the file, and its DROP
finds no table; of two CREATEs under way the second one is refused, at its begin or
at its commit, and its caller gets a 500. The table that is served is then of the older
file until a request registers the file again; `behind` is the history of that.
`fh` says whether the worker's open file is its own, shared with another writer
or unlinked; of overlapping writers either's bytes or a torn file remains.
`Crash` loses the jobs and leaves open trace files empty (`cut`), `Startup` is
`_load_data`. `Listing` is the list endpoint with its fallback to the trace files,
which raises on an empty one. Abstracted: alert ids are uuids, so an id is minted
once; `serial`, chosen at the start, says that no request begins while another
one is served; the list's `LIMIT 500` is above the bounds; the second path,
`alerts_summary.parquet`, is written by nothing in the repository.

**DemoFlow** extends AlertStore by the presenter, who is one of its workers
(`Presenter`) and serves nobody else: remove `alerts/`, copy the snapshot's, save
`demo_state.json`, then `_reload_data`, whose DROP VIEW / DROP TABLE / CREATE VIEW are
steps between those of the other workers (`Callers`). `rmtree` and `copytree` go as
they do in Python, entry by entry: list a directory, unlink each file, remove the
directory; make a directory, list the source, open and then write each copy (a file that
is being written is copied as far as it is there). A directory that fills up again
before its `rmdir`, or is there before its `makedirs`, raises (`Raise`; an error of one
file is kept in `bad` and raised at the end), and then neither the state is saved nor
the data reloaded. A crash leaves a tree in the middle of this, which nothing on disk
marks; `whole` is the history of it: false of a snapshot, and of the workspace, whose
last save or restore did not come to its end. Of a snapshot the module keeps
`alerts/`; its base data and results are in CalcPipeline.

**CalcDag.** The recursion of `visit` is an explicit stack of frames; the order
of roots and dependencies is left open, so a run covers every order of the
metadata listing. The ids of `depends_on` need not be defined. `Return` is the
stable sort by layer: it lists the places of `order` that have a definition by the
layer of what is there and, within a layer, as they come (`Before`, `Sorted`).

**CalcPipeline.** A row set is the set of base-data versions it was computed
from, so "stale" and "mixed" are visible. A request has a set of calculations
`todo`, taken in the order of `Dag`; `run_one` has those that its calculation needs
(`Needed`). That `Dag` lists each calculation once, after those it reads, is assumed
here and proved of CalcDag. For each calculation there is DROP VIEW, DROP TABLE, CREATE TABLE (begin and
commit, between which another request may commit the same table), fetch, open
and write of the result file. Kinds of requests: `run` (POST /api/pipeline/run:
goes on after an error), `stage` (stops at it), `one` (`run_one`), `load`
(reload of base data), `save` (a snapshot is removed and copied anew), `demo` (the
snapshot is restored and its files registered as views); the last two go file by file,
each opened and then written. `done` is what the latest pipeline request has answered for, or had executed when it was
killed, and `seen` the versions it may be from; a snapshot keeps those of the time it was
saved if it was saved to its end, and nothing is called done while one is being restored.
`lost` are the calculations that a crash has cut off from their file:
between DROP TABLE and CREATE VIEW, or between a restore and the registration (a restart
registers no results). It is assumed that who uses the demo runs no pipeline beside it
(`DemoBesideLoads`); reloads go on. Left out: the detection part of a stage, which only
reads, and parameters.

**MetadataLayers.** A definition is a file with area (shipped or user), directory
and content. Requests validate, write and record, or look for dependents, unlink
and record; reset unlinks and records nothing, and may come at any time. `serial`
says that saves and deletions do not overlap. JSON files that are read half
written are left out here (DetectionScoring has them): the request that reads one
ends in a 500 and changes nothing. Two fields of a definition matter, its layer
and `depends_on`; detection models that depend on a calculation are left out.

**DetectionScoring.** One `evaluate_all` over the models, row by row and
calculation by calculation, in the order of the engine's loops; `users` save,
truncate and reset settings between any two reads. The ghost `seen` collects the
contents of the settings while a row is evaluated, `saved` the settings that were
saved at some time. It is assumed that a calculation names at most one setting with
score steps (`EveryModelHasSettings`), that what ships has a strategy the resolver
knows and numbers as thresholds (`ShippedUsable`), and that a value of a setting is one
number or a list of steps (`ValuesOfSettings`). A model or calculation that names no
setting is given one that is `NotThere`, which counts as 0 without steps until a user
makes it. The query may raise at any model (`QueryRaises`, kept in `raised`): the SQL is wrong, a table
is missing between the DROP and CREATE of a pipeline, or the model is gone or half
written. What a row has in a field is a set: empty if it is no number, which raises, and
a column that is not there counts as 0 (`ValuesOfRows`). The rows of queries are chosen at
the start; models are not changed into other ones during one evaluation. A reset
unlinks and is then read from what ships, in two steps; a setting in use cannot be
deleted (the endpoint answers 409), so no step deletes one.

**Registry** is what a store of records promises: each request takes effect at
one moment, on the record as it is then, and its answer tells that moment; only a
crash makes a record unreadable.
**Records** has the four services that keep a JSON file per record. A handler asks
whether the file is there, reads it, opens it (which empties it), writes it; a list
takes the names and then reads one file after the other; a deletion unlinks a file
that another handler may have open. The content of a record is its status and
details, each the request that set it, and a log. `apart`, chosen at the start, says
that requests for one record do not overlap. `HistorySpec` adds what AnsweredStands
needs to know of the past: which requests wrote since another one read (`since`), whose
entry was undone, which records were removed. The refinement (`Shown`, `Asked`, `Told`,
`Fallen`) maps a record that is being written to what it was before, and a request's
answer to the answer of the registry; behaviours in which requests overlap are not
shown to it.

**Playback** is what a walkthrough promises whatever drives it: one item plays, its
steps come one after the other, it is recorded as done only from its last step.
**TourEngine** has the two stores of tours and scenarios, the runner's effects (a
store update ends with the effects whose dependencies it changed), auto-play and its
two timers, the validation poll, replay by animation frames, the welcome dialog and
what a reload keeps. It has the `page` on screen and the one the browser is `going` to:
the overlays navigate to the route of their step, the user follows links, and the
router renders a navigation as a transition, so that it appears (`Commit`) after
whatever came in between, the 400 ms of the automatic action included. A new page
rebuilds `navigate` and with it `performAutoAction`, on which the auto-play effect
depends: the effect runs again, its pending advance is dropped and the step acts anew.
Of the two overlays the scenario's has the last word (its effect runs later), and a
redirect ("data" leads to "schema") has it only if neither wants to go elsewhere. The
automatic actions of the catalogue click on what is on the page and lead nowhere else.
**ScenarioCatalog** lists all shipped scenarios and tours by
category, prerequisites, routes, kind of action and whether a step waits for an
element. The history variables `acts` and `touched` count the automatic actions since
the step and the page on screen came up and note whether the user intervened.

**Calls** is a vocabulary for handlers: stages of requests sent together, the flag
a handler sets and which of its ends reset it, slots of the screen it fills, drops or
forgets, whether it is disabled, guarded, or an effect of the selection. **StoreCalls**
says it of every asynchronous method of the stores, **ViewCalls** (dashboard, alerts,
cases, submissions), **DataViews** (schema, data, SQL, assistant, reference data,
quality, tiers, lineage), **OversightViews** (pipeline, governance, observability,
glossary, regulation) and **StudioViews** (studios, metadata editor, mappings,
onboarding) of every view. **Screens** plays the
handlers of a view: the user enters, presses, selects and leaves; the server takes
requests one by one; answers and failures come in any order. A slot shows the item it
was asked for and the version of the resource it was read from. A behaviour is about
one view and a few handlers that share a slot, a resource or a flag. What a catalogue
of views must have for the screen to be right is stated beside the properties, as
conditions on the handlers: `Accountable`, `Refreshing` and `FollowsChosen`.

**Editors** has the studios in which rules are written. What an item says is a set of
marks: every edit adds one, and mark 0 stands for the part of a shipped item that no
form shows. So "the second edit undid the first" or "the wizard dropped a field" is a
missing mark. `Studios` says in what the six differ: the steps of their wizards, what
is selected after a save, whether dependents are asked for before the dialog, whether
a save sends the whole item, whether the button is off meanwhile. The timer of the JSON editor is the set of the
texts it waits to parse, each with whether it does; a later key mends a text that does
not. The id is part of the text, as it is in the code, and a save goes to whatever id was
typed; `typed` says that a key was pressed since the item was picked. `HistorySpec` counts
the slips of a user, and `straight` says there were none; to create an item under an id
that is in use, or to save one from the JSON editor under the id of another, is a slip.

## Runs

| run | what it has | shows |
|---|---|---|
| `alerts` | 3 alerts, 2 workers, 2 crashes; overlapping or serial | `RowsHaveTraces`: a listed row has its trace. `ServedMatchesFile`: whatever DROP, CREATE, commits and writes interleave, at rest the table is the file, unless a request has been refused since the file was last registered; without overlap always. `AnsweredListedSerially`, `SummaryAppendsSerially`: without overlap no answered alert leaves the list or the file, wherever a crash hits; the list is exempt where it falls back on a trace that a crash left empty |
| `demo` | presenter and a caller, 2 alerts, 2 checkpoints and another name, 1 crash, trees entry by entry; overlapping (one snapshot) or serial (two snapshots at a time) | `ListedIsSummary`: at rest the list is the summary file, unless a request or a restore has ended with an error since it was registered. `SnapshotsHaveTracesSerially`: wherever a crash cuts a save or a restore, what was saved and restored to the end is closed under traces. `IndexMatchesCheckpoint` |
| `demo_view_blocks` | the same without crash and overlap | **violation** of `SavedIsAnswered`: after a demo step `alerts_summary` is a view, and generation ends in a 500 after it has saved its alerts |
| `dag_all_graphs` | every graph on 3 calculations and an unknown id, 2 layers, every order | `VisitsInDependencyOrder`, `RaisedIffCycle`, `LayeredDagInDependencyOrder` (the sort keeps the order if layers follow dependencies), `Ends` |
| `pipeline` | 3 calculations (one reads both others), 2 versions; runs and stages that overlap; or single runs, stages and calculations, or single runs, snapshots and restores, each beside reloads and with 1 crash | `TablesAtRest`: overlapping runs and stages lose no table. `StagesLeaveFresh`: after overlapping stages all tables are current. `DoneIsFresh`: for single requests what is done is readable, current and on disk, with reloads at any time; it is so again once a snapshot of that time is restored; and a crash in a run, a save, a restore or a registration leaves so what the run had executed, what is not being restored, and the files of what is being registered |
| `metadata` | a shipped and a user calculation, 2 directories, 2 workers; overlapping or serial | `OriginalsPreserved`, `LoadedIsListed`, and without overlap `DependenciesDefinedSerially`, `TrailTellsFileSerially` |
| `metadata_reset` | the same, 1 worker | **violation** of `ResetRestoresOriginal`: saved with two layers, one override survives the reset |
| `scoring` | 2 models (a gate and a score, a lone gate), 3 settings (one not there), 2 saves or resets, 2 contexts, values on and beside the boundaries of steps, missing and no numbers; queries that raise | `GatesHold`, `DecidedBySettings`: an alert during which no setting changed is what one evaluation of "all gates pass AND (all checks pass OR score >= threshold)" decides. `MoreFiresToo`: larger values fire too, where score steps rise. `LostForCause`: a model has all its alerts, or none, and then its query raised, a value was no number, or a setting of its own was saved |
| `tours` | a shipped scenario and 2 tours of 2 steps each, 3 pages, one of which redirects, one pending replay; the whole catalogue for `CatalogPlayable` | `ScenesPlayback`, `ToursPlayback`: both engines implement Playback. `TimerOfShownStep`, `ActsOnce`: no timer acts on a step that was left, none acts twice on one step and page while nobody intervenes. `NoStepPlaysForever`, `NextOpens`: auto-play goes on, and try mode opens Next even if the element never appears. `PageSettles`: left alone, two overlays and a redirect do not send the browser to and fro for ever. `CatalogPlayable`: prerequisites can be met, routes exist, all scenarios are in the selector |
| `screens` | every view, each pair of its related handlers and the effects they need; 2 items, 4 acts of the user, 2 calls under way, any failure | `FlagsHaveCalls`, `OwnChangesShown`, `ShownOfChosen`, `Settles` |
| `records` | 4 services, 3 requests over 2 records, 1 crash | `AnsweredStands`: an entry that was answered is in the log under its number, unless a request undid it that had read before and wrote after. `KeepsPromise`: where requests for a record do not overlap the services implement Registry, crashes included |
| `editors` | 6 studios and the JSON editor, 2 items (1 shipped), 3 edits, 2 calls under way, 1 failure, 1 slip: an action before an answer or timer came, an id in use (typed in a form or in the JSON text), or a failure | `SentItemsComplete`, in all behaviours; `DeletesWhatWasAsked`, `ShownIsStored`, `SavesKeepEdits` for a user who waits |

Why the bounds are enough to be of interest. Two workers are enough for each
hazard listed, since every shared file or table is read and written back by one
request while another one does the same; a third would repeat the part of the
second. Three alerts let one request mint two (so that traces are written in
several steps) while the other mints one. One crash reaches every half-done
state, the second one in `alerts` hits the recovery of the first. Three
calculations have both a chain and two inputs; with two versions a mix is
visible. `Layers = {1, 3}` are two of the four ranks, which the sort treats alike;
three calculations have every cycle length up to 3, diamonds need the unknown id
as a fourth vertex. Two saves let a setting change and change back within a row.
The workers and alerts are interchangeable where symmetry is declared, and so are the
versions of base data. In `demo` a tree has up to four entries, so a copy or a removal can
be cut at each kind of step; two snapshots let one be saved over what another one
restored. In `pipeline` a snapshot is saved once all three calculations are done, and
from then on may be saved in part over itself.

In `screens` two handlers show what one does to the other: the slots, flags and
resources they share decide which pairs are played. Two calls may be under way when the
user presses something else, so an answer can be overtaken by the answer to
a later call; four acts are enter, select, press, select again or leave. In `records`
three requests are one that reads, one that writes in between and one that finds what
is left, and two records let a list find one whole and one torn. In `editors` two
items are the one selected and another one; three edits are one in the studio, one in
the JSON editor and one more on top. The scenario of `tours` has a step that is
checked and one that is not, a first and a last one, and so has a tour of two steps; one
tour stays on any page, the other leads to the page that redirects while the scenario
leads elsewhere. That one scenario is enough is shown by the proofs, which are of any
catalogue: the safety properties and both refinements are proved.

Where a property holds without overlap only, its name ends in `Serially` or it asks
for `apart`, `waited` or `straight`, and the run has the overlapping behaviours too:
they are there, and a violation run or the list below says what they break.

Named exceptions, each a constant with the reason next to it:

* `MCTold` = `running`: reset only by the message `pipeline_done`, which the server
  never sends (`stores/pipelineStore.ts:111`). All other flags are covered.
* `MCLeftStale` (5 slots): shown, and not read again after a change of the same view.
* `MCLeftBehind` (3 slots): stay when another item is selected.
* `MCCancelled` (2 slots): those whose late answers are cancelled; `ShownOfChosen` holds
  of these in any order of answers, of others if the user waits.
* `ForgetfulStudios` = models, entities: a second edit may undo the first (below).

**Deadlock.** The server may always stop being used, ids run out and acts are counted
up to the bounds, so most runs say `CHECK_DEADLOCK FALSE`; `pipeline` and
`tours` do not, whose users may always go on.

**Fairness.** `Ends` assumes WF of `Next` in CalcDag: one thread executing sequential
code, which goes on unless the process dies. `NoStepPlaysForever` and `NextOpens`
assume WF of the timers, the poll and the animation frame (`Act`, `Advance`,
`PollEnds`, `Frame`) and of `Commit`: the browser runs what is due and React renders
what it was told to; nobody has to press anything. `PageSettles` asks for the same, from
the time on that the user does nothing any more (`LeftAlone`).
`Settles` assumes WF of `Network` and `Mounting`: every request is answered or fails in
the end (`fetch` has no timeout but the connection's), and React runs the effects of
what it has rendered. No property assumes that a user acts.

## Proofs

TLAPS proves the following for all values of the constants (the number of
alerts, workers, crashes, calculations, models, settings is not bounded).

* **AlertStoreProofs** (`CrashBound`, `PresenterServes`, `Checkpoints`). Of the alert store by itself:
  `Typing`; `RowsBacked`, from `Evidence`: rows have traces, and each request backs what
  it will write (`Backed`: the rows it read have traces, as have its own once it is past
  the loop over them); `ServedIsFile`, from `Served`: while the table is not the file,
  some request is still to drop it, or has dropped it and will create it
  (`Republishing`), or holds the rows of the file as it is and will commit them, or a
  request has been refused (`Unsettled`, `behind`). `ServedMatchesFile` speaks of rest
  only and is not inductive without this: a table of older rows may be committed at any
  time, and what then makes it right is that the request that wrote the newer file is
  still to create its own, unless that is the one that is refused. `AnsweredStaysListed` and
  `SummaryKeepsAnswered`, from `Serially`: the request under way has every answered row
  in hand before it empties the file (`Rewriting`), the file and the table have them
  whenever they are whole (`Kept`), and the first crash leaves an empty trace or a torn
  summary but not both (`Legible`), so the fallback over the traces can be read.
  With the presenter: `IndexShown`, from `Presented`: a label that names a checkpoint
  goes with its position, in memory and in each snapshot. `ListIsSummary`, from
  `Presentable`: `Served` no longer holds, since the entry may be a view, but while the
  list is not the file (`Adrift`) a worker or the presenter is on the way to register it
  again (`Reloading`), or one of them has ended with an error. `SnapshotsClosed`, from
  `Orderly`: in serial use the tree that is being removed or copied holds, at each step of
  the walk, what has been listed and not yet dealt with (`Removing`, `Copying`, `Walk`),
  the summary is copied before the traces or after them and either way all of both is
  there when the walk ends, and a tree that was cut is not `whole` (`Kempt`). One step of
  a copy is proved once for both directions, save and restore (`CopyStep`).
* **CalculationProofs** (`Disjoint`, `FourLayers`; for the execution `DagListsOnce`,
  `ReadsEarlier`, `TrafficKinds`, `CrashesBounded`). `VisitOrder` and `CycleCheck`, from
  `Search`: the stack is a path (`Waits`), a frame has struck off only visited ids
  (`FrameOK`), and the visited ids are closed under dependencies and have no cycle
  among them (`Grounded`). That a raised error means a cycle is the lemma `StackCycle`:
  the part of the path from the repeated id on is one. A set of calculations is
  `Cyclic` if each one depends on a member, which for finite sets is having a cycle.
  `AllListedOnce` and `DagInOrder`, from `Search` and `Once` (an id is on the stack or
  in the order, and there once): the sorted places are all places with a definition, so
  that each calculation is in the list, once, and after those it depends on if the
  layers allow it. These two say what the execution assumes of `Dag`; that everything is
  listed once (`EachCalculationOnce`) is in no run, for it is proved.
  `PipelineTypes`, from `Regular`: a request takes the steps of its kind (`Course`).
  `TablesThere`, from `Overlapping`: among overlapping runs and stages, whenever the
  table of a calculation is missing, some request makes it (`Makes`): it has it still to
  do, and the CREATE that it comes to next will not fail for a missing input. The
  request whose CREATE collides drops out of this, and the other one's table is there.
  `StagesFresh`, from `Staging`: what a stage has behind it was computed from the base
  data as they are, or is missing and will be made. `DoneFresh`, from `Crediting`, for one
  request at a time among reloads (`DemoBesideLoads`): everything a request calls done has
  whole, current data on disk and an entry that reads it, unless a crash has cut it off or
  the request is about to register it (`Standing`), and what is done needs nothing that is
  still to do (`Working`). A snapshot has its data whole for what it calls done
  (`SnapshotProper`); while one is saved or restored this holds of the files that were
  copied so far (`Saved`, `Copied`), and an entry is missing between its DROP and its CREATE only for the
  calculation in turn (`Dropped`). A crash in the middle of a restore leaves files of two
  times; nothing is called done then, for the walk has taken it out of `done` when it
  began.
* **MetadataLayersProofs** (`ShippedFiles`, `DirRanks`). `LayerTypes`. `OriginalsStay` and
  `LoadsWhatIsListed`, from `Layers`: a base file of a shipped item is the shipped
  one and overrides are of shipped items only (`FilesOK`), an item that was never
  saved with two layers has one file in each area (`OneEach`), and a request that is
  about to write holds a file of the area the manifest says (`JobOK`). Where requests
  do not overlap: `TrailIsHistory`, from `Told`: the trail is behind for the one item
  whose file was written and not yet recorded, and for no other. `DependenciesThere`, from
  `Needs`: what is loaded, and what is about to be written, has its dependencies, and
  nothing that is loaded depends on what is about to be unlinked, unless it shipped and
  the original comes back; a reset at any time is harmless because shipped items
  depend on shipped items only.
* **DetectionScoringProofs** (all its assumptions). `GatesAlwaysHold`,
  from `Gates`: position of the loops, the alert in the making has for each
  calculation so far a score under settings in `seen`, and all finished alerts keep
  their gates. `ModelsLostForCause`, from `Costs`: the alerts of a model that ended are its
  rows in their order, together (`Complete`), or there are none, and its query raised, a
  value of its rows is no number, or a setting of its own was saved (`Lost`, `Cause`); a
  setting that nobody saved is as shipped (`Unsaved`), and the evaluation is at a row of
  its query (`Within`).
  `AlertsAreDecided`, from `Decided`: threshold and scores of the alert in the making are
  each what some settings in `seen` say (`ThresholdUnder`, `Judgement`), and the total is
  the end of a running sum of the scores (`Running`); if there was one content of the
  settings only, it is the same for all of them. `MoreAlwaysFires`, from `Decided` and
  `Costs`: where score steps meet, rise and have no upper end (`Ascending`), a larger value
  falls into the same step or a later one (`LaterStep`), so no total is smaller
  (`TotalAscends`) and no gate closes. Not all shipped settings ascend: the steps of
  `vwap_proximity_score_steps` fall, and for these the property says nothing.
  `StrategiesAgree`: the two strategies differ only in overrides without
  match keys. `OneOverrideChosen`: number of keys, priority and place
  decide between any two.
* **RecordsProofs** (`RecordsAssumption`, `NamesAssumption`: the names of answers and
  files are of no record). `ServicesKeepPromise`: Records implements Registry, for any
  records, requests and crashes. The invariant speaks of behaviours in which requests
  for a record do not overlap: the version numbers of a history are its places (`Docs`),
  a request is alone with its record (`Alone`), and what it holds of it is what the
  file held or, while it writes, what the registry still shows (`Working`, `Creating`,
  `Listing` over `Base`). That the request of one record leaves all others as they were
  is proved once (`Kept`); each action then has a lemma that it keeps the invariant
  (`BeginKeeps` ...) and one that it is a step of the registry or none (`BeginMaps` ...),
  from what a step makes of the mapping (`ShownNext`, `Under`).
  `EntriesStand`, of behaviours that do overlap, from `HistoryInv`: an entry that counts is
  in its record, or the file is being written, and in what every request is about to
  write that read after it (`Lasting`); a record that is being made has no file and no
  other writer (`Fresh`), since an id is minted once.
* **TourEngineProofs** (`CatalogAssumption`: scenarios and tours have steps, menus list
  what exists). `Typing`, `TimersFollowTheScreen` and the refinements
  `ScenariosArePlayback` and `ToursArePlayback`, from `IInv`: types, `OnScreen` (a step is
  on screen exactly if something plays; storage agrees with memory) and
  `TimerOfShownStep`. Each action is shown to be one of Playback's or to leave it alone;
  the effects that end an action (`Effects`) only touch timers and polls. `ActionsOnce`,
  from `OnceMore`: after an automatic action the timer can only advance while the step and
  the page stay on screen, and auto-play that is off stays off, because no replay is
  pending. Which page is on screen is in no other invariant: `TypeOK` has it as a part of
  its own (`Located`), and the other theorems hold whatever is navigated. It asks for `MaxFrames <= 1`, and
  needs it: with two, TLC finds two replays pending at once (the button is pressed twice
  before a frame comes), of which the second one's frame restarts auto-play after the
  action of the first. A browser runs all callbacks that wait for a frame in that
  frame, so what waits counts as one.
* **ScreensProofs**. `NoFlagOutlivesItsCalls`: for any catalogue of views whose handlers
  are accountable for their flags (`Sound`), any handlers played and any bounds,
  `FlagsHaveCalls`. The invariant says for each flag which call will reset it
  (`Resets`): one that is still listened to and, for a flag set late, in its last
  stage.
  `ViewsShowTheirOwnChanges` proves `OwnChangesShown` for any catalogue that is
  `Refreshing`: an effect changes nothing on the server, and a handler that does reads
  again what is shown of it, has emptied it, or ends with another object selected, for
  which it is loaded anew. The invariant `FreshInv` says of each slot that it is what
  the server has or why it may be stale for now (`Excused`): a call under way will read
  it once more, an effect that will is about to begin, or it belongs to an item of which
  the next selection loads it. It holds while the user waits, for then the call of a
  control is alone (`AloneInv`), so that no other answer is made stale by its change.
  `ViewsShowTheChosen` proves `ShownOfChosen` for any catalogue that `FollowsChosen`:
  what belongs to the selected item is loaded by handlers of that item, and whatever
  selects another loads it anew or has emptied it. Two invariants: `ChosenInv`, of a
  user who waits, and `CancelledInv`, of any order of answers, which holds where a single
  effect loads the slot and cancels its older calls. `ShapeInv`, under all of them, says
  that what a call has got and a slot shows was asked for by a handler of the view.
  The handlers of this application meet the three conditions: `CatalogAccountable`,
  `CatalogRefreshing` and `CatalogFollowsChosen` in MCScreens are assumptions that TLC
  evaluates for every view, the last two for every choice of handlers that is played.
  They are asked of what is played and not of the whole view, because the theorems are
  about what is played. `LeftStale`, `LeftBehind`, `Cancelled` and `Told` name what they
  do not hold of.
* **EditorsProofs** (`EditorsAssumption`, `KindsAssumption`). `CompleteItems`, from: what
  a form still lacks is demanded by the current step or a later one (`Ahead`). It
  needs the last step to be complete to save and a step to be complete to go forward;
  going back and clearing a field keep it. `DeletesAsked`, `PagesShowStored` and the
  action property `EditsKept`, of a user who waits, from `Calm`: one request or one timer
  is under way at most (`Waited`), which of the page, the form and the dialog are open
  (`Screen`), and that the six copies of an item agree where no answer is due: the
  selection is the server's (`Selected`), a form and a request hold at least all
  marks that are stored of their item (`Filling`, `Meant`), and both panels of the JSON
  editor are the item the menu names until a key is pressed, and after that hold all that
  is stored of it, whatever id they say (`Panels`). That a save under the id of another
  item is a slip is what `EditsKept` needs: without it TLC finds one item's content over
  the other's edits.

Where an argument goes over all elements of a list or all terms of a sum, it goes by
the smallest one for which the claim fails (`LeastNatural`, from the well-foundedness
of the natural numbers) or rides on the invariant, which is extended element by
element; the induction theorems of the library take an operator, which the provers
cannot instantiate.

Model-checked only: liveness (`Ends`, `NoStepPlaysForever`, `NextOpens`, `PageSettles`,
`Settles`), which
is beyond the prover, and `CatalogPlayable`, which is about the catalogue that is
shipped and not about any other.

## Disagreements with docs and comments

Two are violation runs (`demo_view_blocks`, `metadata_reset`; `PROJECT.json` quotes the
lines). Others were met while modelling and have no run.

In the backend:

* Two requests that generate alerts read the same summary and write it back: the
  first one's rows are gone from `summary.parquet` (`alert_service.py:95`). The CREATE of
  the first may read the file before the second one writes it and commit after the second one's
  DROP, which finds no table: the second caller's CREATE is refused, its alerts are in
  the file and not in the list until the next registration (`alert_service.py:111`).
* A crash in the middle of saving or restoring a snapshot leaves a part of the tree, which
  nothing marks as one: a later step restores it as if it were whole
  (`demo_controller.py:59`, `:83`). An alert generated while a restore removes and copies
  makes `rmtree` or `copytree` raise, and the handler ends before `_reload_data`.
* A crash between DROP TABLE and CREATE VIEW of `_reload_data` (`api/demo.py:38`) leaves a
  result without a table: `_load_data` of the next start registers base data and
  alerts, and no results.
* A model whose query raises, or with a value that is no number, gets an error in the
  log and no alerts (`detection_engine.py:56`); the answer does not tell that it was left out.
* `build_dag` sorts by the layer after its search (`calculation_engine.py:74`): a
  calculation of a lower layer comes before one it depends on, if an edited
  layer says so. `LayeredDagInDependencyOrder` is what holds.
* Of two overlapping pipeline runs one goes on after a collision in CREATE TABLE and
  leaves rows of before (`api/pipeline.py:44`).
* "Product-specific (priority >= 100) always wins if context matches"
  (`engine/settings_resolver.py:94`): both strategies rank the number of match keys
  first, and a priority of 100 loses against two keys.
* Of two overlapping changes of a case, submission, quarantined row or history one is
  undone (`case_service.py:62`); a change that read before a deletion brings the record
  back; two recordings get one version number (`version_service.py:61`). A crash while a
  file is written leaves it empty, and then every list of its kind ends in a 500; a
  list that reads it while it is written does, too.
* A golden record that is new is numbered by its place in the sorted keys
  (`reference_service.py:127`) while old ones keep their ids: ids repeat.
  Reconciliation drops manual overrides (line 120).
* `docs/demo-guide.md:24` says Reset returns to "metadata only, no data". When the
  pristine snapshot has no `alerts/`, `_reload_data` drops nothing
  (`backend/api/demo.py:53`), and `alerts_summary` keeps listing the old alerts,
  whose traces are gone. `ListedIsSummary` therefore speaks of a summary that exists.
* Two overlapping runs may leave a result file that is older than its table
  (`calculation_engine.py:220`: rows are fetched before another run replaces the
  table, and written after); this is the reason for `OneAtATime` in `DoneIsFresh`.
* `run_one` is documented to execute dependencies "if not already materialized"
  (`calculation_engine.py:86`); it executes them always.
* `validate_calculation` has the comment "Check for dependency cycle"
  (`metadata_service.py:504`) and checks self-dependency only; a cycle of two saves
  is accepted and makes `build_dag` raise for all calculations.
* A trace that a crash left empty is never removed, and makes the fallback of
  `list_alerts` raise for all alerts (`backend/api/alerts.py:33`): whenever
  `alerts_summary` is between DROP and CREATE, and for good once a second crash
  tears the summary.
* A reset leaves no audit record. Looking for dependents before deleting, and for
  dependencies before saving, is undone by an overlapping request.
* `list_calculations("aggregation")` looks in a directory of that name while the
  shipped directories are `aggregations` and `time_windows`.
* `README.md:175` promises "one-click rollback"; the version service records a
  version with the old content and does not write the item.
* Snapshots save `metadata/`, `restore_snapshot` does not restore it.

In the front end:

* After a successful run `running` stays set: it waits for `pipeline_done`, which no
  code of the backend sends (`stores/pipelineStore.ts:111`), and the button of the
  pipeline monitor stays disabled until a reload.
* The wizard of models sends only what it shows (`ModelCreateForm.tsx:133`): alert
  template, regulatory coverage, layout and market data settings of an edited model
  are gone, since PUT replaces it; the form of entities drops subtypes likewise.
  docs/phase7b-testing-checklist.md:159 has "Edit an existing OOB model, verify
  changes persist".
* After a save the composer selects the model from the list of before it
  (`ModelComposer/index.tsx:106`): Edit again starts from the old copy and a save
  undoes the first edit. Domain values of an entity are saved on top of a
  selected copy that is not updated (`EntityDesigner/index.tsx:65`).
* "New" under an id in use replaces the item without a word.
* Settings and calculations ask for dependents before their dialog opens; if the
  selection moves meanwhile, the dialog names one item and the handler deletes the
  other (`MetadataExplorer/index.tsx:84`). Deleting a shipped item that was not
  changed is refused with 404 and leaves the dialog open.
* The timer of the JSON editor is cleared by the next key only
  (`MetadataEditor/index.tsx:113`): picking another item, or typing in the visual
  panel, within 400 ms lets the old text replace the data shown, and Save sends it.
* The same editor sends the data under the id that was typed
  (`MetadataEditor/index.tsx:133`): the item that has it is overwritten with the
  content of the other.
* An automatic action is performed again when the route of its step is rendered after it
  (`ScenarioRunner.tsx:166` depends on `navigate` by way of line 137), and the advance
  that was pending starts anew.
* A step of a tour or scenario that leads elsewhere overrides the redirect of "/data"
  and the page stays blank if an overlay sends the browser to "/data" itself.
* A mapping that is changed while it is being saved counts as saved.
* Of two items opened in a row the one whose answer comes last is shown, in all
  views but those of `MCCancelled` (`stores/alertStore.ts:79`).
* The entity designer calls a hook after a conditional return (`index.tsx:74`), which
  React does not allow; the SQL console keeps the closure of its first render for
  Ctrl+Enter (`SQLConsole/index.tsx:113`).
* The title bar promises 26 guided workflows, the catalogue has 40 scenarios. A tour
  may start over an active scenario, both overlays then show.
* Two tabs of one browser overwrite each other's list of completed tours
  (`tourStore.ts:161`).

## Not modelled, and why

`PROJECT.json` has a reason for each component. In short: services that compute
from data without keeping any (validation, quality, lineage, metrics, reports,
AI context, masking) have no behaviour over time; glossary, semantic layer, tiers,
match patterns and score templates are single JSON files with create, read, update
and delete; sandboxes and archives repeat the reads and writes of Records; golden
records are a function of the sources with the two defects named above; the
lakehouse is one catalog call at a time; events, results log and run versions are
written by no endpoint of this commit; SQL and formatting are abstracted throughout.

Of the front end: layout, charts, columns, themes and texts (help, examples, the
architecture registry), and components that no page mounts (`AICalcBuilder`,
`AICalcReview`, `VersionComparison`, `GlossaryTooltip`, `PiiBadge`, `useFormatRules`,
`MappingStudio/CanonicalFields` and `SourcePreview`, `utils/piiColumns`). The socket's
progress messages only add lines to a list. Two browser tabs share nothing in the
models.
