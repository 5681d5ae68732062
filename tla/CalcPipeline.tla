---------------------------- MODULE CalcPipeline ----------------------------
(***************************************************************************)
(* Executing the calculations: CalculationEngine._execute as it is called  *)
(* by POST /api/pipeline/run ("run", which goes on after an error), by a   *)
(* pipeline stage ("stage", which stops at the first one) and by run_one   *)
(* ("one"); with the requests that change what it reads: the reload of the *)
(* base data ("load"), a demo step, which restores a snapshot and registers *)
(* the result files as views ("demo"), and saving one ("save").            *)
(*                                                                         *)
(* Requests run on threads of a pool and nothing locks the tables: each    *)
(* SQL statement commits by itself, and each step below is one statement   *)
(* or one file operation.  A row set is abstracted to the versions of the  *)
(* base data it was computed from.                                         *)
(***************************************************************************)
EXTENDS Naturals, Sequences

CONSTANTS
  Dag,         \* the calculations, in the order build_dag returns them
  Reads,       \* calc -> the calculations whose tables its SQL reads
  Workers,     \* threads that serve requests
  Traffic,     \* ways of use: worker -> the kinds of requests that reach it
  Versions,    \* the contents the base data may have
  MaxCrashes   \* bound: how often the process is killed

Calcs == {Dag[i] : i \in 1 .. Len(Dag)}
Kinds == {"run", "stage", "one", "load", "demo", "save"}

\* What EachCalculationOnce and LayeredDagInDependencyOrder of CalcDag say of build_dag.
ASSUME DagListsOnce ==
  /\ Dag \in Seq(Calcs) /\ Dag # <<>>
  /\ \A i, j \in 1 .. Len(Dag) : Dag[i] = Dag[j] => i = j
ASSUME ReadsEarlier ==
  \A i \in 1 .. Len(Dag) : Reads[Dag[i]] \subseteq {Dag[j] : j \in 1 .. i - 1}
ASSUME TrafficKinds == Traffic \subseteq [Workers -> SUBSET Kinds]
\* Who uses the demo runs no pipeline beside it.
ASSUME DemoBesideLoads ==
  \A use \in Traffic : \A v, w \in Workers :
    v # w /\ use[w] \cap {"demo", "save"} # {} => use[v] \subseteq {"load"}
ASSUME CrashesBounded == MaxCrashes \in Nat

VARIABLES
  serves,     \* the way of use; it does not change
  base,       \* the Parquet file behind the base views
  tables,     \* calc -> its catalog entry: none, a table, or a view of its file
  parquet,    \* calc -> results/<layer>/<table>.parquet
  snapshot,   \* the saved snapshot, if there is one
  job,        \* the request each worker is serving
  seen,       \* base versions there were during the latest pipeline request
  done,       \* calculations the latest request of the pipeline has answered for, or
              \* had behind it when it was killed; after a restore, those the
              \* snapshot was saved with
  lost,       \* history: calculations whose entry a crash has cut off from their file
  crashes     \* how often the process was killed

vars == <<serves, base, tables, parquet, snapshot, job, seen, done, lost, crashes>>

Absent == [state |-> "absent", of |-> {}]
Torn == [state |-> "torn", of |-> {}]
Whole(of) == [state |-> "whole", of |-> of]
Files == {Absent, Torn} \cup [state : {"whole"}, of : SUBSET Versions]

None == [kind |-> "none", of |-> {}]
Table(of) == [kind |-> "table", of |-> of]
View == [kind |-> "view", of |-> {}]
Entries == {None, View} \cup [kind : {"table"}, of : SUBSET Versions]

\* A snapshot, with the answers it is saved with (of the files before, when it is
\* saved only in part, nothing is known).
Blank == [base |-> Absent, parquet |-> [c \in Calcs |-> Absent], done |-> {}, seen |-> {}]

\* at   the step the worker takes next
\* todo the calculations still to come, the one in work is the first of them
\* of   the rows of a statement that has not committed, or fetched from a table
\* done the calculations executed without an error
\* fh   the file as the request has it open: alone, mixed with another's bytes, or
\*      unlinked because the directory was removed meanwhile
Idle == [kind |-> "none", at |-> "idle", todo |-> {}, of |-> {}, done |-> {},
         fh |-> "alone"]

Init ==
  /\ serves \in Traffic
  /\ base \in [state : {"whole"}, of : {{v} : v \in Versions}]
  /\ tables = [c \in Calcs |-> None] /\ parquet = [c \in Calcs |-> Absent]
  /\ snapshot = {}
  /\ job = [w \in Workers |-> Idle]
  /\ seen = {} /\ done = {} /\ lost = {} /\ crashes = 0

-----------------------------------------------------------------------------
(* What a query finds *)

Works(entry, file) == entry.kind = "table" \/ (entry.kind = "view" /\ file.state = "whole")
Rows(entry, file) == IF entry.kind = "view" THEN file.of ELSE entry.of

\* The SQL of c runs: all it reads is there.
Runs(c) == IF Reads[c] = {} THEN base.state = "whole"
           ELSE \A d \in Reads[c] : Works(tables[d], parquet[d])
\* The base versions behind the rows it returns.
Result(c) == IF Reads[c] = {} THEN base.of
             ELSE UNION {Rows(tables[d], parquet[d]) : d \in Reads[c]}

-----------------------------------------------------------------------------
(* The course of a request *)

At(w, step) == job[w].at = step
\* The order of the work is that of the DAG.
Place(c) == CHOOSE i \in 1 .. Len(Dag) : Dag[i] = c
First(S) == CHOOSE c \in S : \A d \in S : Place(c) <= Place(d)
Calc(w) == First(job[w].todo)
Move(w, j) == job' = [job EXCEPT ![w] = j]
Goto(w, step) == Move(w, [job[w] EXCEPT !.at = step])

Pipeline(kind) == kind \in {"run", "stage", "one"}
Busy == \E w \in Workers : Pipeline(job[w].kind)
AtRest == \A w \in Workers : At(w, "idle")

\* On to the next calculation, or to the answer.
Rest(j) == j.todo \ {First(j.todo)}
Onward(j, step) == [j EXCEPT !.todo = Rest(j), !.of = {}, !.fh = "alone",
                            !.at = IF Rest(j) = {} THEN "answer" ELSE step]
Done(j) == Onward([j EXCEPT !.done = @ \cup {First(j.todo)}], "select")

\* An exception in _execute.  POST /run notes it and goes on; a stage ends as
\* failed with the steps so far; run_one ends with the exception.
\* Mutants: the calculation is noted as done; a stage goes on, too.
RaisedDone(j) == Done(j)
RaisedOnward(j) == Onward(j, "select")
Raised(j) == IF j.kind = "run" THEN Onward(j, "select")
             ELSE [j EXCEPT !.at = "answer", !.of = {},
                            !.done = IF j.kind = "stage" THEN @ ELSE {}]

\* _resolve_deps: c, what it reads, what that reads, and so on.
Closed(S) == \A c \in S : Reads[c] \subseteq S
Needed(c) == {d \in Calcs : \A S \in SUBSET Calcs : c \in S /\ Closed(S) => d \in S}

Start(w) == \E kind \in serves[w] :
  /\ At(w, "idle")
  /\ \/ /\ kind \in {"run", "stage"}
        /\ Move(w, [Idle EXCEPT !.kind = kind, !.at = "select", !.todo = Calcs])
     \/ /\ kind = "one"
        /\ \E c \in Calcs :
             Move(w, [Idle EXCEPT !.kind = kind, !.at = "select", !.todo = Needed(c)])
     \/ /\ kind = "load" /\ Move(w, [Idle EXCEPT !.kind = kind, !.at = "read csv"])
     \/ /\ kind = "save" /\ Move(w, [Idle EXCEPT !.kind = kind, !.at = "forget"])
     \/ /\ kind = "demo"
        /\ Move(w, IF snapshot = {} THEN [Idle EXCEPT !.kind = "reload", !.at = "read csv"]
                   ELSE [Idle EXCEPT !.kind = "restore", !.at = "remove base"])
  /\ IF Pipeline(kind) THEN seen' = base.of /\ done' = {} ELSE UNCHANGED <<seen, done>>
  /\ UNCHANGED <<base, tables, parquet, snapshot, lost, crashes>>

\* The first run of the SQL, for row_count.
Select(w) ==
  /\ At(w, "select")
  /\ IF Runs(Calc(w)) THEN Goto(w, "drop view") ELSE Move(w, Raised(job[w]))
  /\ UNCHANGED <<base, tables, parquet, snapshot, seen, done, lost, crashes>>

\* DuckDB raises when the entry is of the other kind, and that is ignored.
DropView(w) ==
  /\ At(w, "drop view") /\ Goto(w, "drop table")
  /\ tables' = [tables EXCEPT ![Calc(w)] = IF @.kind = "view" THEN None ELSE @]
  /\ UNCHANGED <<base, parquet, snapshot, seen, done, lost, crashes>>

\* Mutant: a demo step drops views only.
DropTableKept(w) ==
  /\ At(w, "drop table")
  /\ Goto(w, IF Pipeline(job[w].kind) THEN "create" ELSE "create view")
  /\ tables' = IF Pipeline(job[w].kind) THEN [tables EXCEPT ![Calc(w)] = None] ELSE tables
  /\ UNCHANGED <<base, parquet, snapshot, seen, done, lost, crashes>>
DropTable(w) ==
  /\ At(w, "drop table")
  /\ Goto(w, IF Pipeline(job[w].kind) THEN "create" ELSE "create view")
  /\ tables' = [tables EXCEPT ![Calc(w)] = IF @.kind = "table" THEN None ELSE @]
  /\ UNCHANGED <<base, parquet, snapshot, seen, done, lost, crashes>>

\* CREATE raises when the entry exists, or while another CREATE of it has not
\* committed.
Creatable(c) ==
  /\ tables[c] = None
  /\ \A o \in Workers : At(o, "commit") => Calc(o) # c

CreateTable(w) ==
  /\ At(w, "create")
  /\ Move(w, IF Creatable(Calc(w)) /\ Runs(Calc(w))
             THEN [job[w] EXCEPT !.at = "commit", !.of = Result(Calc(w))]
             ELSE Raised(job[w]))
  /\ UNCHANGED <<base, tables, parquet, snapshot, seen, done, lost, crashes>>

\* Mutant: the statement is never committed.
CommitLost(w) ==
  /\ At(w, "commit") /\ Goto(w, "fetch")
  /\ UNCHANGED <<base, tables, parquet, snapshot, seen, done, lost, crashes>>

CommitTable(w) ==
  /\ At(w, "commit")
  /\ tables' = [tables EXCEPT ![Calc(w)] = Table(job[w].of)]
  /\ lost' = lost \ {Calc(w)}
  /\ Goto(w, "fetch")
  /\ UNCHANGED <<base, parquet, snapshot, seen, done, crashes>>

\* _write_parquet: SELECT * FROM the table, then the file.
Fetch(w) ==
  /\ At(w, "fetch")
  /\ LET c == Calc(w) IN
     Move(w, IF Works(tables[c], parquet[c])
             THEN [job[w] EXCEPT !.at = "open", !.of = Rows(tables[c], parquet[c])]
             ELSE Raised(job[w]))
  /\ UNCHANGED <<base, tables, parquet, snapshot, seen, done, lost, crashes>>

HasOpen(o, c) == At(o, "write") /\ Calc(o) = c

\* w opens a file that the others have open.
Opening(w, others, step) ==
  job' = [o \in Workers |->
            IF o = w THEN [job[w] EXCEPT !.at = step,
                             !.fh = IF others = {} THEN "alone" ELSE "mixed"]
            ELSE IF o \in others THEN [job[o] EXCEPT !.fh = "mixed"] ELSE job[o]]

Open(w) ==
  /\ At(w, "open")
  /\ Opening(w, {o \in Workers : HasOpen(o, Calc(w))}, "write")
  /\ parquet' = [parquet EXCEPT ![Calc(w)] = Torn]
  /\ UNCHANGED <<base, tables, snapshot, seen, done, lost, crashes>>

\* What the file can be once w has written `mine`: two writers' bytes may make a
\* file that cannot be read, and those of an unlinked file are in no directory.
Written(w, mine, now) == CASE job[w].fh = "alone"    -> {mine}
                           [] job[w].fh = "mixed"    -> {mine, Torn}
                           [] job[w].fh = "unlinked" -> {now}

Write(w) ==
  /\ At(w, "write")
  /\ \E file \in Written(w, Whole(job[w].of), parquet[Calc(w)]) :
       parquet' = [parquet EXCEPT ![Calc(w)] = file]
  /\ Move(w, Done(job[w]))
  /\ UNCHANGED <<base, tables, snapshot, seen, done, lost, crashes>>

Answer(w) ==
  /\ At(w, "answer")
  /\ done' = IF Pipeline(job[w].kind) THEN job[w].done ELSE done
  /\ Move(w, Idle)
  /\ UNCHANGED <<base, tables, parquet, snapshot, seen, lost, crashes>>

-----------------------------------------------------------------------------
(* The base data: the CSV file, and the Parquet file made of it *)

Filed == {c \in Calcs : parquet[c] # Absent}

\* On to the result files, which a demo step registers, or to the answer; the order
\* of the files does not matter.
Loaded(j) == IF j.kind \in {"restore", "reload"} /\ Filed # {}
               THEN [j EXCEPT !.at = "drop view", !.todo = Filed]
               ELSE [j EXCEPT !.at = "answer"]

\* While the directory is not there nothing is loaded.
ReadCsv(w) ==
  /\ At(w, "read csv")
  /\ IF base = Absent THEN Move(w, Loaded(job[w])) ELSE Goto(w, "open base")
  /\ UNCHANGED <<base, tables, parquet, snapshot, seen, done, lost, crashes>>

HasBase(o) == job[o].at \in {"write base", "write base copy"} /\ job[o].fh # "unlinked"

\* mkdir and open: the directory is made again if it was removed.
OpenBase(w) ==
  /\ At(w, "open base") /\ base' = Torn
  /\ Opening(w, {o \in Workers : HasBase(o)}, "write base")
  /\ UNCHANGED <<tables, parquet, snapshot, seen, done, lost, crashes>>

BaseBecomes(file) ==
  /\ base' = file
  /\ seen' = IF Busy THEN seen \cup file.of ELSE seen

\* The CSV that is converted may be another one than last time.
WriteBase(w) ==
  /\ At(w, "write base")
  /\ \E v \in Versions : \E file \in Written(w, Whole({v}), base) : BaseBecomes(file)
  /\ Move(w, Loaded([job[w] EXCEPT !.fh = "alone"]))
  /\ UNCHANGED <<tables, parquet, snapshot, done, lost, crashes>>

\* A view on a file that cannot be read is refused; the loop goes on.
CreateView(w) ==
  /\ At(w, "create view")
  /\ LET c == Calc(w) IN
     IF Creatable(c) /\ parquet[c].state = "whole"
       THEN tables' = [tables EXCEPT ![c] = View] /\ lost' = lost \ {c}
       ELSE UNCHANGED <<tables, lost>>
  /\ Move(w, Onward(job[w], "drop view"))
  /\ UNCHANGED <<base, parquet, snapshot, seen, done, crashes>>

-----------------------------------------------------------------------------
(* save_snapshot and restore_snapshot: directories are removed and copied file *)
(* by file, each copy opened and then written                                  *)

\* First the files of the old snapshot are removed, then its directory.
Forget(w) ==
  /\ At(w, "forget")
  /\ \/ \E s \in snapshot, c \in Calcs :
          \/ /\ s.base # Absent
             /\ snapshot' = {[s EXCEPT !.base = Absent, !.done = {}]} /\ UNCHANGED job
          \/ /\ s.parquet[c] # Absent
             /\ snapshot' = {[s EXCEPT !.parquet[c] = Absent, !.done = {}]} /\ UNCHANGED job
     \/ /\ \A s \in snapshot : s.base = Absent /\ \A c \in Calcs : s.parquet[c] = Absent
        /\ snapshot' = {Blank}
        /\ Move(w, IF base = Absent THEN [job[w] EXCEPT !.at = "save", !.todo = Filed]
                   ELSE [job[w] EXCEPT !.at = "save base"])
  /\ UNCHANGED <<base, tables, parquet, seen, done, lost, crashes>>

SaveBase(w) ==
  /\ At(w, "save base") /\ Goto(w, "write base saved")
  /\ snapshot' = {[s EXCEPT !.base = Torn] : s \in snapshot}
  /\ UNCHANGED <<base, tables, parquet, seen, done, lost, crashes>>

WriteBaseSaved(w) ==
  /\ At(w, "write base saved") /\ Move(w, [job[w] EXCEPT !.at = "save", !.todo = Filed])
  /\ snapshot' = {[s EXCEPT !.base = base] : s \in snapshot}
  /\ UNCHANGED <<base, tables, parquet, seen, done, lost, crashes>>

SaveResult(w) ==
  /\ At(w, "save") /\ job[w].todo # {} /\ Goto(w, "write saved")
  /\ snapshot' = {[s EXCEPT !.parquet[Calc(w)] = Torn] : s \in snapshot}
  /\ UNCHANGED <<base, tables, parquet, seen, done, lost, crashes>>

WriteSaved(w) ==
  /\ At(w, "write saved") /\ Move(w, [job[w] EXCEPT !.at = "save", !.todo = Rest(job[w])])
  /\ snapshot' = {[s EXCEPT !.parquet[Calc(w)] = parquet[Calc(w)]] : s \in snapshot}
  /\ UNCHANGED <<base, tables, parquet, seen, done, lost, crashes>>

EndSave(w) ==
  /\ At(w, "save") /\ job[w].todo = {} /\ Move(w, Idle)
  /\ snapshot' = {[s EXCEPT !.done = done, !.seen = seen] : s \in snapshot}
  /\ UNCHANGED <<base, tables, parquet, seen, done, lost, crashes>>

\* A reload that has the file open goes on writing to nowhere.
RemoveBase(w) ==
  /\ At(w, "remove base") /\ base' = Absent
  /\ job' = [o \in Workers |-> IF o = w THEN [job[w] EXCEPT !.at = "copy base"]
                              ELSE IF HasBase(o) THEN [job[o] EXCEPT !.fh = "unlinked"]
                              ELSE job[o]]
  /\ UNCHANGED <<tables, parquet, snapshot, seen, done, lost, crashes>>

\* copytree raises when a reload has made the directory again, which ends the
\* request.  Without data in the snapshot there is nothing to copy.
CopyBase(w) ==
  /\ At(w, "copy base")
  /\ \E s \in snapshot :
       \/ /\ s.base # Absent /\ base = Absent /\ base' = Torn
          /\ Opening(w, {o \in Workers : HasBase(o)}, "write base copy")
       \/ /\ s.base # Absent /\ base # Absent /\ UNCHANGED base /\ Move(w, Idle)
       \/ /\ s.base = Absent /\ UNCHANGED base /\ Goto(w, "remove")
  /\ UNCHANGED <<tables, parquet, snapshot, seen, done, lost, crashes>>

WriteBaseCopy(w) ==
  /\ At(w, "write base copy") /\ Move(w, [job[w] EXCEPT !.at = "remove", !.fh = "alone"])
  /\ \E s \in snapshot : \E file \in Written(w, s.base, base) : BaseBecomes(file)
  /\ UNCHANGED <<tables, parquet, snapshot, done, lost, crashes>>

\* The results go one by one, and with the first what was answered about them.
RemoveResult(w) ==
  /\ At(w, "remove")
  /\ \/ \E c \in Filed : /\ parquet' = [parquet EXCEPT ![c] = Absent]
                         /\ done' = {} /\ UNCHANGED job
     \/ /\ Filed = {} /\ UNCHANGED <<parquet, done>>
        /\ \E s \in snapshot :
             Move(w, [job[w] EXCEPT !.at = "copy",
                                    !.todo = {c \in Calcs : s.parquet[c] # Absent}])
  /\ UNCHANGED <<base, tables, snapshot, seen, lost, crashes>>

CopyResult(w) ==
  /\ At(w, "copy") /\ job[w].todo # {} /\ Goto(w, "write copy")
  /\ parquet' = [parquet EXCEPT ![Calc(w)] = Torn]
  /\ UNCHANGED <<base, tables, snapshot, seen, done, lost, crashes>>

WriteCopy(w) ==
  /\ At(w, "write copy") /\ Move(w, [job[w] EXCEPT !.at = "copy", !.todo = Rest(job[w])])
  /\ \E s \in snapshot : parquet' = [parquet EXCEPT ![Calc(w)] = s.parquet[Calc(w)]]
  /\ UNCHANGED <<base, tables, snapshot, seen, done, lost, crashes>>

EndRestore(w) ==
  /\ At(w, "copy") /\ job[w].todo = {} /\ Goto(w, "read csv")
  /\ \E s \in snapshot : done' = s.done /\ seen' = s.seen
  /\ UNCHANGED <<base, tables, parquet, snapshot, lost, crashes>>

-----------------------------------------------------------------------------
(* The process *)

Replacing == {"drop table", "create view"}
Registering == {"drop view", "drop table", "create view"}

\* The calculations whose entry is not of their file, were w killed now: those a
\* restore has still to register, or the one that is being replaced.
CutOff(w) ==
  CASE job[w].kind = "restore" /\ job[w].at \in {"read csv", "open base", "write base"} -> Filed
    [] job[w].kind = "restore" /\ job[w].at \in Registering -> job[w].todo
    [] job[w].kind = "reload" /\ job[w].at \in Replacing -> {Calc(w)}
    [] OTHER -> {}

\* What pipeline requests have executed so far.
Executed == UNION {job[w].done : w \in {v \in Workers : Pipeline(job[v].kind)}}

\* A restart converts the CSV again, or what a crash has left of it; results are not
\* registered.
Restart ==
  /\ base' \in IF base = Absent THEN {Absent} ELSE {Whole({v}) : v \in Versions}
  /\ job' = [w \in Workers |-> Idle]
  /\ lost' = lost \cup UNION {CutOff(w) : w \in Workers}
  /\ \/ AtRest /\ UNCHANGED crashes
     \/ ~AtRest /\ crashes < MaxCrashes /\ crashes' = crashes + 1
  /\ done' = done \cup Executed
  /\ UNCHANGED <<tables, parquet, snapshot, seen>>

Steps(w) == \/ Start(w) \/ Select(w) \/ DropView(w) \/ DropTable(w) \/ CreateTable(w)
            \/ CommitTable(w) \/ Fetch(w) \/ Open(w) \/ Write(w) \/ Answer(w)
            \/ ReadCsv(w) \/ OpenBase(w) \/ WriteBase(w) \/ CreateView(w)
            \/ Forget(w) \/ SaveBase(w) \/ WriteBaseSaved(w) \/ SaveResult(w)
            \/ WriteSaved(w) \/ EndSave(w)
            \/ RemoveBase(w) \/ CopyBase(w) \/ WriteBaseCopy(w) \/ RemoveResult(w)
            \/ CopyResult(w) \/ WriteCopy(w) \/ EndRestore(w)

Next == ((\E w \in Workers : Steps(w)) \/ Restart) /\ UNCHANGED serves

Spec == Init /\ [][Next]_vars

-----------------------------------------------------------------------------
(* Properties *)

Jobs == [kind : {"none", "run", "stage", "one", "load", "restore", "reload", "save"},
         at : {"idle", "select", "drop view", "drop table", "create", "commit", "fetch",
               "open", "write", "answer", "read csv", "open base", "write base",
               "create view", "forget", "save base", "write base saved", "save",
               "write saved", "remove base", "copy base", "write base copy", "remove",
               "copy", "write copy"},
         todo : SUBSET Calcs, of : SUBSET Versions, done : SUBSET Calcs,
         fh : {"alone", "mixed", "unlinked"}]

Snapshots == [base : Files, parquet : [Calcs -> Files], done : SUBSET Calcs,
              seen : SUBSET Versions]

TypeOK ==
  /\ serves \in Traffic /\ base \in Files /\ tables \in [Calcs -> Entries]
  /\ parquet \in [Calcs -> Files]
  /\ \A s, t \in snapshot : s \in Snapshots /\ s = t
  /\ job \in [Workers -> Jobs]
  /\ seen \subseteq Versions /\ done \subseteq Calcs /\ lost \subseteq Calcs
  /\ crashes \in 0 .. MaxCrashes

Only(kinds) == \A w \in Workers : serves[w] \subseteq kinds
Settled(kinds) == AtRest /\ crashes = 0 /\ seen # {} /\ Only(kinds)

\* However full runs and stages overlap, although each drops the tables the
\* others read and gives up statements that collide: once they have all ended,
\* every calculation has its table.
TablesAtRest ==
  Settled({"run", "stage"}) => \A c \in Calcs : tables[c].kind = "table"

\* Since a stage stops at its first error, whoever made the others' statements
\* fail goes on: once overlapping stages have all ended, every table is computed
\* from the base data of the time the last of them started.
Fresh == \A c \in Calcs : tables[c] = Table(seen)
StagesLeaveFresh == Settled({"stage"}) => Fresh

\* With one pipeline or demo request at a time: a calculation that is called done,
\* with all it needs, has a result file of base data there was during the request,
\* and a table that can be read and holds just that; also when base data is reloaded
\* meanwhile, and after demo steps, and crashes: what a killed request had executed
\* before is done, and a snapshot keeps
\* what was done when it was saved, if that came to its end.  Until it is registered
\* again, a calculation has only its file when a crash has hit between DROP and
\* CREATE VIEW, or between a restore and the registration of what it restored.
OneAtATime == \E w \in Workers : \A v \in Workers : v = w <=> serves[v] # {"load"}
DoneIsFresh ==
  OneAtATime /\ AtRest => \A c \in Calcs : Needed(c) \subseteq done =>
    /\ parquet[c].state = "whole"
    /\ parquet[c].of # {} /\ parquet[c].of \subseteq seen
    /\ c \notin lost => /\ Works(tables[c], parquet[c])
                        /\ Rows(tables[c], parquet[c]) = parquet[c].of
=============================================================================
