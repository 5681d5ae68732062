------------------------------ MODULE DemoFlow ------------------------------
(***************************************************************************)
(* The demo state machine over the alert store: DemoController's snapshots *)
(* and checkpoints, and the reload that every /api/demo handler except     *)
(* /snapshot ends with.  The presenter's requests run one at a time, on a  *)
(* thread of the same pool as the callers' that generate alerts; they      *)
(* remove and copy directories entry by entry, as shutil does.             *)
(*                                                                         *)
(* Of the directories a snapshot holds, the model keeps alerts/.           *)
(***************************************************************************)
EXTENDS AlertStore, Sequences

CONSTANTS
  Presenter,     \* the worker that serves the presenter
  CHECKPOINTS,   \* the checkpoint names in order, "pristine" first, "final" last
  OtherNames     \* further names a snapshot may be saved under

Named == {CHECKPOINTS[i] : i \in DOMAIN CHECKPOINTS}
Names == Named \cup OtherNames
Pristine == CHECKPOINTS[1]
Final == CHECKPOINTS[Len(CHECKPOINTS)]

Callers == Workers \ {Presenter}

ASSUME PresenterServes == Presenter \in Workers

ASSUME Checkpoints ==
  /\ CHECKPOINTS \in Seq(Named) /\ CHECKPOINTS # <<>>
  /\ OtherNames \cap Named = {}

VARIABLES
  snapshots,   \* name -> the directory snapshots/<name>
  state,       \* demo_state.json: the current checkpoint and its index (from 1)
  whole,       \* history: is the workspace not one that was restored in part, or
               \* from a snapshot that was saved in part?
  demo         \* the presenter's request

demoVars == <<snapshots, state, whole, demo>>
allVars == <<vars, demoVars>>

\* A tree of files: the workspace, or a snapshot with a directory of its own.
\* cut are the traces with nothing in them; whole is the history of a snapshot.
Workspace == [dirs |-> dirs, traces |-> traces, cut |-> Empty, summary |-> summary,
              whole |-> whole]
Missing == [dirs |-> {}, traces |-> {}, cut |-> {}, summary |-> Absent, whole |-> TRUE]
Bare == [Missing EXCEPT !.dirs = {"snapshot"}, !.whole = FALSE]

\* The entries of alerts/ and of alerts/traces.
Entries(t) == {e \in {"summary", "traces"} :
                 IF e = "summary" THEN t.summary # Absent ELSE "traces" \in t.dirs}
Files(t) == t.traces \cup t.cut

State(name, index) == [checkpoint |-> name, index |-> index]
\* Mutant: the old index kept.
IndexKept(name) == state.index
\* CHECKPOINTS.index, and the first index for a name that is not one of them.
IndexOf(name) == IF name \in Named
                   THEN CHOOSE i \in DOMAIN CHECKPOINTS : CHECKPOINTS[i] = name
                   ELSE 1

\* at     what the request is about to do to the tree, or to the catalog
\* name   the snapshot it is about
\* place  the directory of the tree it is in: outside of alerts/, in it, in
\*        traces/, or at the summary file that it has open
\* parts  the entries of alerts/ it has listed and not yet dealt with
\* files  those of traces/; open: the copy of a trace that it has open
\* bad    has copytree met an error that it will raise at the end?
Resting == [at |-> "rest", name |-> Pristine, place |-> "outside",
            parts |-> {}, files |-> {}, open |-> {}, bad |-> FALSE]

DemoInit ==
  /\ Init
  /\ snapshots = [n \in Names |-> Missing]
  /\ state = State(Pristine, 1)
  /\ whole = TRUE
  /\ demo = Resting

-----------------------------------------------------------------------------
(* POST /api/demo/... : which snapshot is restored, and what the handler does *)
(* with the state when there is none.                                         *)

\* restore_snapshot(name), with the state set to `fallback` without a snapshot.
Restore(name, fallback) ==
  /\ demo.at = "rest"
  /\ LET missing == snapshots[name] = Missing IN
     /\ demo' = [Resting EXCEPT !.at = IF missing THEN "reload" ELSE "remove", !.name = name]
     /\ state' = IF missing THEN fallback ELSE state
     /\ whole' = (whole /\ missing)
  /\ UNCHANGED <<vars, snapshots>>

Reset == Restore(Pristine, State(Pristine, 1))

Step == IF state.index < Len(CHECKPOINTS)
          THEN LET next == CHECKPOINTS[state.index + 1]
               IN Restore(next, State(next, state.index + 1))
          ELSE /\ demo.at = "rest"
               /\ demo' = [demo EXCEPT !.at = "reload"]
               /\ UNCHANGED <<vars, snapshots, state, whole>>

JumpTo(name) == Restore(name, state)

SkipToEnd == Restore(Final, State(Final, Len(CHECKPOINTS)))

\* save_snapshot: remove the old one, make an empty directory, then copy.
SaveSnapshot(name) ==
  /\ demo.at = "rest"
  /\ LET missing == snapshots[name] = Missing IN
     /\ demo' = [Resting EXCEPT !.at = IF missing THEN "make" ELSE "clear", !.name = name]
     /\ snapshots' = IF missing THEN snapshots ELSE [snapshots EXCEPT ![name].whole = FALSE]
  /\ UNCHANGED <<vars, state, whole>>

\* The last of rmtree, which removes the snapshot's directory, and then mkdir.
MakeSnapshot ==
  /\ demo.at = "make"
  /\ IF snapshots[demo.name] = Missing
       THEN /\ snapshots' = [snapshots EXCEPT ![demo.name] = Bare]
            /\ demo' = [demo EXCEPT !.at = "save"]
       ELSE /\ snapshots' = [snapshots EXCEPT ![demo.name] = Missing]
            /\ UNCHANGED demo
  /\ UNCHANGED <<vars, state, whole>>

\* An error ends the request, with neither the state saved nor the data reloaded.
Raise == demo' = Resting /\ behind' = TRUE

-----------------------------------------------------------------------------
(* rmtree: of a snapshot's alerts/ ("clear") or of the workspace's ("remove") *)

Doomed == IF demo.at = "clear" THEN snapshots[demo.name] ELSE Workspace

\* The tree that is being removed becomes t.  A worker that has a file open
\* goes on writing to nowhere once the file is unlinked.
Becomes(t) ==
  IF demo.at = "clear"
    THEN snapshots' = [snapshots EXCEPT ![demo.name] = t] /\ UNCHANGED <<disk, job>>
    ELSE /\ dirs' = t.dirs /\ traces' = t.traces /\ cut' = cut \cap t.cut
         /\ summary' = t.summary
         /\ job' = [w \in Workers |->
                      [job[w] EXCEPT !.text = @ \cap t.cut,
                         !.fh = IF job[w].at = "write" /\ t.summary = Absent
                                  THEN "unlinked" ELSE @]]
         /\ UNCHANGED snapshots

AfterRemoval == [demo EXCEPT !.place = "outside", !.parts = {},
                             !.at = IF demo.at = "clear" THEN "make" ELSE "restore"]

\* List alerts/, if there is one.
ListDoomed ==
  /\ demo.place = "outside"
  /\ demo' = IF "alerts" \in Doomed.dirs
               THEN [demo EXCEPT !.place = "alerts", !.parts = Entries(Doomed)]
               ELSE AfterRemoval
  /\ UNCHANGED <<disk, job, behind, snapshots>>

UnlinkSummary ==
  /\ demo.place = "alerts" /\ "summary" \in demo.parts
  /\ Becomes([Doomed EXCEPT !.summary = Absent])
  /\ demo' = [demo EXCEPT !.parts = @ \ {"summary"}]
  /\ UNCHANGED behind

ListTraces ==
  /\ demo.place = "alerts" /\ "traces" \in demo.parts
  /\ demo' = [demo EXCEPT !.place = "traces", !.files = Files(Doomed)]
  /\ UNCHANGED <<disk, job, behind, snapshots>>

UnlinkTrace ==
  /\ demo.place = "traces"
  /\ \E a \in demo.files :
       /\ Becomes([Doomed EXCEPT !.traces = @ \ {a}, !.cut = @ \ {a}])
       /\ demo' = [demo EXCEPT !.files = @ \ {a}]
  /\ UNCHANGED behind

\* rmdir raises when a worker has made a file that was not listed.
RemoveTraces ==
  /\ demo.place = "traces" /\ demo.files = {}
  /\ IF Files(Doomed) = {}
       THEN /\ Becomes([Doomed EXCEPT !.dirs = @ \ {"traces"}])
            /\ demo' = [demo EXCEPT !.place = "alerts", !.parts = @ \ {"traces"}]
            /\ UNCHANGED behind
       ELSE Raise /\ UNCHANGED <<disk, job, snapshots>>

RemoveAlerts ==
  /\ demo.place = "alerts" /\ demo.parts = {}
  /\ IF Entries(Doomed) = {}
       THEN /\ Becomes([Doomed EXCEPT !.dirs = @ \ {"alerts"}])
            /\ demo' = AfterRemoval /\ UNCHANGED behind
       ELSE Raise /\ UNCHANGED <<disk, job, snapshots>>

Remove ==
  /\ demo.at \in {"clear", "remove"}
  /\ \/ ListDoomed \/ UnlinkSummary \/ ListTraces \/ UnlinkTrace
     \/ RemoveTraces \/ RemoveAlerts
  /\ UNCHANGED <<object, minted, answered, up, crashes, state, whole>>

-----------------------------------------------------------------------------
(* copytree: of the workspace's alerts/ to a snapshot's ("save"), into which   *)
(* nobody else writes, or of a snapshot's to the workspace's ("restore")       *)

\* The files of traces/ that are copied.  Mutant: only alerts/ itself is.
CopiedFlat(t) == {}
Copied(t) == Files(t)

\* The snapshot that is being saved becomes t.
Saved(t) == snapshots' = [snapshots EXCEPT ![demo.name] = t] /\ UNCHANGED <<disk, job>>

EnterSaved ==
  /\ demo.place = "outside" /\ "alerts" \in dirs
  /\ Saved([snapshots[demo.name] EXCEPT !.dirs = @ \cup {"alerts"}])
  /\ demo' = [demo EXCEPT !.place = "alerts", !.parts = Entries(Workspace)]

OpenSavedSummary ==
  /\ demo.place = "alerts" /\ "summary" \in demo.parts
  /\ Saved([snapshots[demo.name] EXCEPT !.summary = Torn])
  /\ demo' = [demo EXCEPT !.place = "summary", !.parts = @ \ {"summary"}]

\* The file is read as it is now.
WriteSavedSummary ==
  /\ demo.place = "summary"
  /\ Saved([snapshots[demo.name] EXCEPT !.summary = summary])
  /\ demo' = [demo EXCEPT !.place = "alerts"]

EnterSavedTraces ==
  /\ demo.place = "alerts" /\ "traces" \in demo.parts
  /\ Saved([snapshots[demo.name] EXCEPT !.dirs = @ \cup {"traces"}])
  /\ demo' = [demo EXCEPT !.place = "traces", !.parts = @ \ {"traces"},
                          !.files = Copied(Workspace)]

OpenSavedTrace ==
  /\ demo.place = "traces" /\ demo.open = {}
  /\ \E a \in demo.files :
       /\ Saved([snapshots[demo.name] EXCEPT !.cut = @ \cup {a}])
       /\ demo' = [demo EXCEPT !.files = @ \ {a}, !.open = {a}]

WriteSavedTrace ==
  /\ demo.place = "traces" /\ demo.open # {}
  /\ LET written == demo.open \cap traces IN
     Saved([snapshots[demo.name] EXCEPT !.traces = @ \cup written, !.cut = @ \ written])
  /\ demo' = [demo EXCEPT !.open = {}]

Finished == \/ demo.place = "alerts" /\ demo.parts = {}
            \/ demo.place = "outside"

EndSave ==
  /\ Finished /\ (demo.place = "outside" => "alerts" \notin dirs)
  /\ Saved([snapshots[demo.name] EXCEPT !.whole = whole])
  /\ demo' = Resting

LeaveTraces ==
  /\ demo.place = "traces" /\ demo.files = {} /\ demo.open = {}
  /\ demo' = [demo EXCEPT !.place = "alerts"]

Save ==
  /\ demo.at = "save"
  /\ \/ EnterSaved \/ OpenSavedSummary \/ WriteSavedSummary
     \/ EnterSavedTraces \/ OpenSavedTrace \/ WriteSavedTrace \/ EndSave
     \/ LeaveTraces /\ UNCHANGED <<disk, job, snapshots>>
  /\ UNCHANGED <<object, minted, answered, behind, up, crashes, state, whole>>

\* makedirs raises when a worker has made the directory again in the meantime.
EnterRestored ==
  /\ demo.place = "outside" /\ "alerts" \in snapshots[demo.name].dirs
  /\ IF "alerts" \in dirs
       THEN Raise /\ UNCHANGED dirs
       ELSE /\ dirs' = dirs \cup {"alerts"}
            /\ demo' = [demo EXCEPT !.place = "alerts",
                                    !.parts = Entries(snapshots[demo.name])]
            /\ UNCHANGED behind
  /\ UNCHANGED <<traces, cut, summary, job, state, whole>>

\* The file is made, or truncated when a worker has made it in the meantime: the
\* presenter is one more writer of it.
OpenRestoredSummary ==
  /\ demo.place = "alerts" /\ "summary" \in demo.parts
  /\ Truncate(Presenter)
  /\ demo' = [demo EXCEPT !.place = "summary", !.parts = @ \ {"summary"}]
  /\ UNCHANGED <<dirs, traces, cut, behind, state, whole>>

WriteRestoredSummary ==
  /\ demo.place = "summary"
  /\ summary' \in Written(Presenter, snapshots[demo.name].summary)
  /\ job' = [job EXCEPT ![Presenter] = Idle]
  /\ demo' = [demo EXCEPT !.place = "alerts"]
  /\ UNCHANGED <<dirs, traces, cut, behind, state, whole>>

\* makedirs raises for traces/ as well, which copytree reports when it has copied
\* the rest.
EnterRestoredTraces ==
  /\ demo.place = "alerts" /\ "traces" \in demo.parts
  /\ demo' = IF "traces" \in dirs
               THEN [demo EXCEPT !.parts = @ \ {"traces"}, !.bad = TRUE]
               ELSE [demo EXCEPT !.place = "traces", !.parts = @ \ {"traces"},
                                 !.files = Copied(snapshots[demo.name])]
  /\ dirs' = dirs \cup {"traces"}
  /\ UNCHANGED <<traces, cut, summary, job, behind, state, whole>>

OpenRestoredTrace ==
  /\ demo.place = "traces" /\ demo.open = {}
  /\ \E a \in demo.files :
       /\ cut' = cut \cup {a}
       /\ demo' = [demo EXCEPT !.files = @ \ {a}, !.open = {a}]
  /\ UNCHANGED <<dirs, traces, summary, job, behind, state, whole>>

WriteRestoredTrace ==
  /\ demo.place = "traces" /\ demo.open # {}
  /\ LET written == demo.open \cap snapshots[demo.name].traces IN
     traces' = traces \cup written /\ cut' = cut \ written
  /\ demo' = [demo EXCEPT !.open = {}]
  /\ UNCHANGED <<dirs, summary, job, behind, state, whole>>

EndRestore ==
  /\ Finished /\ (demo.place = "outside" => "alerts" \notin snapshots[demo.name].dirs)
  /\ IF demo.bad
       THEN Raise /\ UNCHANGED <<state, whole>>
       ELSE /\ state' = State(demo.name, IndexOf(demo.name))
            /\ whole' = snapshots[demo.name].whole
            /\ demo' = [Resting EXCEPT !.at = "reload"]
            /\ UNCHANGED behind
  /\ UNCHANGED <<disk, job>>

CopyBack ==
  /\ demo.at = "restore"
  /\ \/ EnterRestored \/ OpenRestoredSummary \/ WriteRestoredSummary
     \/ EnterRestoredTraces \/ OpenRestoredTrace \/ WriteRestoredTrace \/ EndRestore
     \/ LeaveTraces /\ UNCHANGED <<disk, job, behind, state, whole>>
  /\ UNCHANGED <<object, minted, answered, up, crashes, snapshots>>

-----------------------------------------------------------------------------
(* _reload_data *)

\* Mutant: DROP VIEW alone.
DroppedView == IF object.kind = "view" THEN None ELSE object
Dropped == None

\* DROP VIEW and DROP TABLE, each of which may raise and is then ignored: one of
\* them matches.  Without a summary file nothing is dropped.
DropAny ==
  /\ demo.at = "reload"
  /\ IF summary.kind = "absent"
       THEN demo' = Resting /\ UNCHANGED object
       ELSE demo' = [demo EXCEPT !.at = "view"] /\ object' = Dropped
  /\ UNCHANGED <<disk, minted, answered, behind, job, up, crashes, snapshots, state, whole>>

\* CREATE VIEW binds the file; a failure, as when a worker creates its table at
\* the same time, is only logged.
CreateView ==
  /\ demo.at = "view"
  /\ \/ /\ object = None /\ summary.kind = "file"
        /\ object' = View /\ behind' = FALSE
     \/ /\ Taken \/ summary.kind # "file"
        /\ behind' = (behind \/ Taken)
        /\ UNCHANGED object
  /\ demo' = Resting
  /\ UNCHANGED <<disk, minted, answered, job, up, crashes, snapshots, state, whole>>

Present == \/ Reset \/ Step \/ SkipToEnd
           \/ \E name \in Names : JumpTo(name) \/ SaveSnapshot(name)
           \/ MakeSnapshot \/ Remove \/ Save \/ CopyBack
           \/ DropAny \/ CreateView

\* Snapshots and the state file are on disk; the presenter's request is lost.
CrashAll == Crash /\ demo' = Resting /\ UNCHANGED <<snapshots, state, whole>>

\* The presenter's request is one of those that wait for each other.
DemoOneAtATime == /\ OneAtATime
                  /\ demo.at = "rest" \/ \A w \in Callers : job[w].at = "idle"

DemoNext == /\ \/ up /\ Present
               \/ up /\ (\E w \in Callers : Generate(w)) /\ UNCHANGED demoVars
               \/ CrashAll
               \/ Startup /\ UNCHANGED demoVars
            /\ (serial => DemoOneAtATime') /\ UNCHANGED serial

DemoSpec == DemoInit /\ [][DemoNext]_allVars

-----------------------------------------------------------------------------
(* Properties *)

Trees == [dirs : SUBSET {"snapshot", "alerts", "traces"}, traces : SUBSET Alerts,
          cut : SUBSET Alerts, summary : Summaries, whole : BOOLEAN]

Demos == [at : {"rest", "make", "clear", "save", "remove", "restore", "reload", "view"},
          name : Names, place : {"outside", "alerts", "summary", "traces"},
          parts : SUBSET {"summary", "traces"}, files : SUBSET Alerts,
          open : SUBSET Alerts, bad : BOOLEAN]

DemoTypeOK ==
  /\ TypeOK
  /\ snapshots \in [Names -> Trees]
  /\ state \in [checkpoint : Names, index : DOMAIN CHECKPOINTS]
  /\ whole \in BOOLEAN /\ demo \in Demos

DemoQuiet == Quiet /\ demo.at = "rest"

\* Whatever mixture of tables and views the requests, restores, crashes and
\* restarts leave in the catalog, and wherever a crash has cut rmtree or copytree
\* short: once everything is at rest a summary file that can be read is exactly
\* what the alert list is read from.  Except that a request has been refused its
\* CREATE, or a restore has ended with an error, since the file was last
\* registered, which takes requests that overlap.
ListedIsSummary ==
  DemoQuiet /\ summary.kind = "file" /\ (serial \/ ~behind) => Selected = summary.rows

\* The index that `step` counts from is the position of the checkpoint that the
\* toolbar shows.
IndexMatchesCheckpoint ==
  state.checkpoint \in Named => CHECKPOINTS[state.index] = state.checkpoint

\* With one request at a time: whatever was saved under which name and restored,
\* and wherever a crash cut a generation, a save or a restore short, a row of the
\* summary in the workspace, or in a snapshot, has its trace beside it as soon as
\* the last save and the last restore that the tree comes from ran to their end.
\* A restore that is done thus repairs what a crash left of an earlier one.
Closed(t) == t.summary.rows \subseteq t.traces
SnapshotsHaveTraces ==
  /\ whole => Closed(Workspace)
  /\ \A n \in Names : snapshots[n].whole => Closed(snapshots[n])
SnapshotsHaveTracesSerially == serial => SnapshotsHaveTraces

\* "Register alerts summary as a DuckDB table": with one request at a time, a
\* request that saved its summary is answered with its alerts, unless the process
\* is killed first.
SavedIsAnswered ==
  [][\A w \in Callers :
       /\ serial /\ job[w].at \in {"drop", "create", "commit"} /\ job'[w].at = "idle" /\ up'
       => job[w].fired \subseteq answered']_allVars
=============================================================================
