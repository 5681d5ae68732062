------------------------------ MODULE Records -------------------------------
(* The services that keep one JSON file per record: cases, submissions,       *)
(* quarantined rows and version histories.  Their handlers run in a pool of   *)
(* threads, hold no lock, and change a record by reading its file, changing   *)
(* the data and writing the file anew, which empties it first.                *)
EXTENDS Naturals, Sequences, FiniteSets

CONSTANTS Items,        \* ids; the file of one is there from the start
          First,
          Requests,     \* numbers, in the order in which the requests come
          Nobody, Absent, Torn, Pending, NotFound, Failed, Lost,
          MaxCrashes    \* bound

ASSUME RecordsAssumption == First \in Items /\ Requests \subseteq Nat \ {0} /\ MaxCrashes \in Nat

(* Handlers of each service.                                                  *)
CaseOps == {"create", "update", "status", "annotate", "delete", "get", "list"}
SubmissionOps == {"create", "status", "review", "recommend", "delete", "get", "list"}
QuarantineOps == {"create", "retry", "override", "discard", "get", "list"}
VersionOps == {"record", "rollback", "history"}
Ops == [cases |-> CaseOps, submissions |-> SubmissionOps, quarantine |-> QuarantineOps, versions |-> VersionOps]
Writing == {"update", "status", "annotate", "review", "recommend", "retry", "override", "discard", "record", "rollback"}

VARIABLES service,
          apart,    \* nobody asks for a record while another request for it is under way
          file,     \* item -> the file: a record, Absent, or Torn if it cannot be parsed
          req,      \* request -> how far it is
          crashes
vars == <<service, apart, file, req, crashes>>

(* A record has a status and details, each the request that set it, and a     *)
(* log: annotations, comments, retries or versions.                           *)
Record == [status : Nat, details : Nat, log : Seq([by : Nat, no : Nat, of : Nat])]
NewRecord(r) == [status |-> 0, details |-> r, log |-> <<>>]
NoHistory == [status |-> 0, details |-> 0, log |-> <<>>]
Entry(r, log) == [by |-> r, no |-> Len(log) + 1, of |-> r]

Idle == [op |-> Nobody, item |-> First, at |-> "idle", data |-> Absent, target |-> Nobody,
         todo |-> {}, mixed |-> {}, answer |-> Pending]
Init == /\ service \in DOMAIN Ops
        /\ apart \in BOOLEAN
        /\ file = [i \in Items |-> IF i = First /\ service # "versions" THEN NewRecord(0) ELSE Absent]
        /\ req = [r \in Requests |-> Idle]
        /\ crashes = 0

At(r, stage) == req[r].at = stage
Active == {r \in Requests : req[r].at \notin {"idle", "done"}}
OnAll(op) == op = "list"
Clash(op, i) == \E r \in Active : OnAll(op) \/ OnAll(req[r].op) \/ req[r].item = i

(* A request comes in.  The id of a new record is drawn at random.            *)
Begin(r) == /\ At(r, "idle") /\ \A q \in Requests : q < r => ~At(q, "idle")
            /\ \E op \in Ops[service], i \in Items :
                 /\ OnAll(op) => i = First
                 /\ apart => ~Clash(op, i)
                 /\ op = "create" => file[i] = Absent /\ \A q \in Active : req[q].item # i
                 /\ req' = [req EXCEPT ![r] = [@ EXCEPT !.op = op, !.item = i, !.at = "begun"]]
            /\ UNCHANGED <<service, apart, file, crashes>>

Advance(r, stage) == req' = [req EXCEPT ![r].at = stage]
Done(r, a) == req' = [req EXCEPT ![r] = [@ EXCEPT !.at = "done", !.answer = a]]
File(r) == file[req[r].item]
Reading == UNCHANGED <<service, apart, file, crashes>>

(* The handler asks whether the file is there.                                *)
Check(r) == /\ At(r, "begun") /\ req[r].op \notin {"create", "list"}
            /\ IF File(r) # Absent THEN Advance(r, "found")
               ELSE CASE req[r].op = "history" -> Done(r, NoHistory)
                      [] req[r].op = "record" \/ (req[r].op = "rollback" /\ req[r].target # Nobody) ->
                           req' = [req EXCEPT ![r] = [@ EXCEPT !.at = "read", !.data = NoHistory]]
                      [] OTHER -> Done(r, NotFound)
            /\ Reading

(* What a handler makes of the data it has read.                              *)
\* Mutant: a retry of a quarantined row is counted from nothing.
AppliedAnew(r, d) ==
  CASE req[r].op \in {"update", "recommend"} -> [d EXCEPT !.details = r]
    [] req[r].op \in {"status", "discard"} -> [d EXCEPT !.status = r]
    [] req[r].op = "override" -> [d EXCEPT !.status = r, !.details = r]
    [] req[r].op \in {"review", "retry"} -> [d EXCEPT !.status = r, !.log = <<Entry(r, <<>>)>>]
    [] req[r].op \in {"annotate", "record"} -> [d EXCEPT !.log = Append(@, Entry(r, @))]
    [] req[r].op = "rollback" -> [d EXCEPT !.log = Append(@, [Entry(r, @) EXCEPT !.of = req[r].target])]
Applied(r, d) ==
  CASE req[r].op \in {"update", "recommend"} -> [d EXCEPT !.details = r]
    [] req[r].op \in {"status", "discard"} -> [d EXCEPT !.status = r]
    [] req[r].op = "override" -> [d EXCEPT !.status = r, !.details = r]
    [] req[r].op \in {"review", "retry"} -> [d EXCEPT !.status = r, !.log = Append(@, Entry(r, @))]
    [] req[r].op \in {"annotate", "record"} -> [d EXCEPT !.log = Append(@, Entry(r, @))]
    [] req[r].op = "rollback" -> [d EXCEPT !.log = Append(@, [Entry(r, @) EXCEPT !.of = req[r].target])]

(* A rollback reads the history for the snapshot of its target, here the      *)
(* first version, and record_version reads it once more.                      *)
FindTarget(r) == LET found == {k \in DOMAIN File(r).log : File(r).log[k].no = 1}
                 IN  IF found = {} THEN Done(r, NotFound)
                     ELSE req' = [req EXCEPT ![r] = [@ EXCEPT !.at = "begun", !.target = File(r).log[CHOOSE k \in found : TRUE].of]]

Read(r) == /\ At(r, "found") /\ req[r].op # "delete"
           /\ IF File(r) \in {Absent, Torn} THEN Done(r, Failed)
              ELSE CASE req[r].op \in {"get", "history"} -> Done(r, File(r))
                     [] req[r].op = "rollback" /\ req[r].target = Nobody -> FindTarget(r)
                     [] OTHER -> req' = [req EXCEPT ![r] = [@ EXCEPT !.at = "read", !.data = File(r)]]
           /\ Reading

Unlink(r) == /\ At(r, "found") /\ req[r].op = "delete"
             /\ IF File(r) = Absent THEN Done(r, Failed) /\ UNCHANGED file
                ELSE /\ file' = [file EXCEPT ![req[r].item] = Absent]
                     /\ req' = [q \in Requests |->
                          CASE q = r -> [req[r] EXCEPT !.at = "done", !.answer = Absent]
                            [] At(q, "opened") /\ req[q].item = req[r].item -> [req[q] EXCEPT !.at = "detached"]
                            [] OTHER -> req[q]]
             /\ UNCHANGED <<service, apart, crashes>>

(* Opening a file to write makes or empties it.  What two handlers write that *)
(* have it open together may mix, if the later text is the shorter one; mixed *)
(* holds who has written to the file since it was last emptied.               *)
ToWrite(r) == IF req[r].op = "create" THEN NewRecord(r) ELSE Applied(r, req[r].data)
Others(r, stage) == {q \in Requests \ {r} : At(q, stage) /\ req[q].item = req[r].item}
OpenFile(r) == /\ At(r, "read") \/ (At(r, "begun") /\ req[r].op = "create")
               /\ file' = [file EXCEPT ![req[r].item] = Torn]
               /\ req' = [q \in Requests |->
                    CASE q = r -> [req[r] EXCEPT !.at = "opened"]
                      [] q \in Others(r, "opened") -> [req[q] EXCEPT !.mixed = {}]
                      [] OTHER -> req[q]]
               /\ UNCHANGED <<service, apart, crashes>>
Write(r) == /\ At(r, "opened") \/ At(r, "detached")
            /\ IF At(r, "detached") THEN UNCHANGED file
               ELSE \E d \in {ToWrite(r)} \cup (IF req[r].mixed # {} THEN {Torn} ELSE {}) :
                      file' = [file EXCEPT ![req[r].item] = d]
            /\ req' = [q \in Requests |->
                 CASE q = r -> [req[r] EXCEPT !.at = "done", !.answer = ToWrite(r)]
                   [] q \in Others(r, "opened") /\ At(r, "opened") -> [req[q] EXCEPT !.mixed = @ \cup {r}]
                   [] OTHER -> req[q]]
            /\ UNCHANGED <<service, apart, crashes>>

(* A list takes the names of the files and then reads one after the other.    *)
Glob(r) == /\ At(r, "begun") /\ req[r].op = "list"
           /\ req' = [req EXCEPT ![r] = [@ EXCEPT !.at = "listing", !.todo = {i \in Items : file[i] # Absent},
                                                 !.data = [i \in Items |-> Absent]]]
           /\ Reading
Listed(q, i) == [q EXCEPT !.todo = @ \ {i}, !.data = [@ EXCEPT ![i] = file[i]]]
\* Mutant: a file that cannot be read is left out of the list.
ReadNextReadable(r) == /\ At(r, "listing")
                       /\ LET i == CHOOSE i \in req[r].todo : TRUE
                          IN  IF req[r].todo = {} THEN Done(r, req[r].data)
                              ELSE req' = [req EXCEPT ![r] = [@ EXCEPT !.todo = @ \ {i},
                                             !.data[i] = IF file[i] = Torn THEN Absent ELSE file[i]]]
                       /\ Reading
ReadNext(r) == /\ At(r, "listing")
               /\ IF req[r].todo = {} THEN Done(r, req[r].data)
                  ELSE \E i \in req[r].todo :
                         IF file[i] \in {Absent, Torn} THEN Done(r, Failed)
                         ELSE req' = [req EXCEPT ![r] = Listed(@, i)]
               /\ Reading

(* The process goes down: every request under way is lost, and a file that    *)
(* was emptied stays empty.                                                   *)
Crash == /\ crashes < MaxCrashes
         /\ crashes' = crashes + 1
         /\ req' = [r \in Requests |-> IF r \in Active THEN [req[r] EXCEPT !.at = "done", !.answer = Lost] ELSE req[r]]
         /\ UNCHANGED <<service, apart, file>>

Handle(r) == \/ Begin(r) \/ Check(r) \/ Read(r) \/ Unlink(r) \/ OpenFile(r) \/ Write(r)
             \/ Glob(r) \/ ReadNext(r)
Next == (\E r \in Requests : Handle(r)) \/ Crash
Spec == Init /\ [][Next]_vars

-----------------------------------------------------------------------------
(* Where no two requests for a record overlap, the services keep the promise  *)
(* of the registry, crashes included: a request takes effect at one moment    *)
(* or not at all, what is deleted stays deleted, a version's number names it, *)
(* and nothing but a crash makes a record unreadable.  A record that is being *)
(* written is, for the registry, still the old one; behaviours in which       *)
(* requests overlap are not shown to it.                                      *)
Before(q) == IF q.op = "create" \/ (service = "versions" /\ q.data = NoHistory) THEN Absent ELSE q.data
Opened(i) == {r \in Requests : At(r, "opened") /\ req[r].item = i}
Asks == [op : UNION {Ops[s] : s \in DOMAIN Ops}, item : Items]

Shown == [i \in Items |-> IF ~apart THEN Absent
                          ELSE IF Opened(i) = {} THEN file[i] ELSE Before(req[CHOOSE r \in Opened(i) : TRUE])]
Asked == [r \in Requests |-> IF ~apart \/ At(r, "idle") THEN Nobody ELSE [op |-> req[r].op, item |-> req[r].item]]
Told == [r \in Requests |-> IF apart THEN req[r].answer ELSE Pending]
Fallen == IF apart THEN crashes ELSE 0

Promise == INSTANCE Registry WITH docs <- Shown, asked <- Asked, answers <- Told, crashes <- Fallen
KeepsPromise == Promise!Spec

(* What the writes of overlapping requests undo, kept as history.             *)
VARIABLES since,    \* request -> writes to its record since it read it
          undone,   \* requests whose write another one undid that had read before it
          removed   \* items that were deleted
allVars == <<vars, since, undone, removed>>

Ends(r) == req'[r].at = "done" /\ ~At(r, "done")
Wrote == {r \in Requests : (At(r, "opened") \/ At(r, "detached")) /\ Ends(r) /\ req'[r].answer # Lost}
History ==
  /\ since' = [r \in Requests |-> since[r] \cup
       (IF At(r, "read") \/ At(r, "opened") THEN {w \in Wrote \ {r} : req[w].item = req[r].item} ELSE {})]
  /\ undone' = undone \cup UNION {since[w] : w \in Wrote}
  /\ removed' = removed \cup {req[r].item : r \in {q \in Requests : req[q].op = "delete" /\ Ends(q) /\ req'[q].answer = Absent}}
HistoryInit == Init /\ since = [r \in Requests |-> {}] /\ undone = {} /\ removed = {}
HistoryNext == Next /\ History
HistorySpec == HistoryInit /\ [][HistoryNext]_allVars

(* No answered change is lost but to a request that had read the record       *)
(* before it and wrote it after: whatever else runs at the same time, its     *)
(* entry is in the log, at the number that the answer gave it.                *)
Logs(r) == req[r].answer \notin {Pending, NotFound, Failed, Lost, Absent} /\ req[r].op \in
             {"annotate", "review", "retry", "record", "rollback"}
AnsweredStands == \A r \in Requests \ undone :
   LET i == req[r].item
       told == req[r].answer.log
   IN  At(r, "done") /\ Logs(r) /\ i \notin removed /\ file[i] # Torn
         => file[i] # Absent /\ Len(told) <= Len(file[i].log) /\ file[i].log[Len(told)] = told[Len(told)]

(* The names are names: of no number, record, list or question.               *)
ASSUME NamesAssumption ==
  /\ Nobody \notin Nat \cup Asks /\ Absent # Torn
  /\ {Absent, Torn, NotFound, Failed, Lost} \cap Record = {}
  /\ Pending \notin Record \cup {Absent, NotFound, Failed, Lost} \cup [Items -> Record \cup {Absent}]
=============================================================================
