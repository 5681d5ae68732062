------------------------------ MODULE Registry ------------------------------
(* What a store of records promises: every request takes effect at one        *)
(* moment, on the record as it is at that moment, and its answer tells that   *)
(* moment.  A crash may leave a record that nobody can read any more.         *)
EXTENDS Naturals, Sequences

CONSTANTS Items, Requests, Asks,  \* what can be asked for: an op and an item
          Nobody, Absent, Torn, Pending, NotFound, Failed, Lost

VARIABLES docs,    \* item -> its record, Absent or Torn
          asked,   \* request -> what it asks for
          answers, \* request -> its answer, Pending until it has one
          crashes
vars == <<docs, asked, answers, crashes>>

Answer(r, a) == answers' = [answers EXCEPT ![r] = a]
Set(i, d) == docs' = [docs EXCEPT ![i] = d]

(* Each kind of request, and what it makes of a record.                       *)
Entry(r, d) == [by |-> r, no |-> Len(d.log) + 1, of |-> r]
Changed(r, d) ==
  CASE asked[r].op \in {"update", "recommend"} -> [d EXCEPT !.details = r]
    [] asked[r].op = "discard" -> [d EXCEPT !.status = r]
    [] asked[r].op = "override" -> [d EXCEPT !.status = r, !.details = r]
    [] asked[r].op = "status" -> [d EXCEPT !.status = r]
    [] asked[r].op \in {"review", "retry"} -> [d EXCEPT !.status = r, !.log = Append(@, Entry(r, d))]
    [] asked[r].op \in {"annotate", "record"} -> [d EXCEPT !.log = Append(@, Entry(r, d))]
    [] asked[r].op = "rollback" -> [d EXCEPT !.log = Append(@, [Entry(r, d) EXCEPT !.of = d.log[1].of])]

Changes == {"update", "recommend", "discard", "override", "status", "review", "retry", "annotate", "record", "rollback"}
Empty == [status |-> 0, details |-> 0, log |-> <<>>]
(* A history that was never written is empty, any other record is not found.  *)
Now(r, i) == IF docs[i] = Absent /\ asked[r].op \in {"record", "history"} THEN Empty ELSE docs[i]
Exists(r, i) == /\ Now(r, i) # Absent
                /\ asked[r].op = "rollback" => docs[i] = Torn \/ docs[i].log # <<>>

Change(r, i) == /\ asked[r].op \in Changes /\ Exists(r, i) /\ docs[i] # Torn
                /\ Set(i, Changed(r, Now(r, i)))
                /\ Answer(r, Changed(r, Now(r, i)))
Create(r, i) == /\ asked[r].op = "create" /\ docs[i] = Absent
                /\ Set(i, [Empty EXCEPT !.details = r])
                /\ Answer(r, docs'[i])
Delete(r, i) == asked[r].op = "delete" /\ docs[i] # Absent /\ Set(i, Absent) /\ Answer(r, Absent)
Get(r, i) == asked[r].op \in {"get", "history"} /\ Exists(r, i) /\ docs[i] # Torn
             /\ Answer(r, Now(r, i)) /\ UNCHANGED docs
List(r) == /\ asked[r].op = "list" /\ \A i \in Items : docs[i] # Torn
           /\ Answer(r, docs) /\ UNCHANGED docs
Miss(r, i) == /\ asked[r].op \notin {"create", "list"} /\ ~Exists(r, i)
              /\ Answer(r, NotFound) /\ UNCHANGED docs
Fail(r) == /\ IF asked[r].op = "list" THEN \E i \in Items : docs[i] = Torn
              ELSE asked[r].op \notin {"create", "delete"} /\ docs[asked[r].item] = Torn
           /\ Answer(r, Failed) /\ UNCHANGED docs

Serve(r) == LET i == asked[r].item
            IN  \/ Change(r, i) \/ Create(r, i) \/ Delete(r, i) \/ Get(r, i) \/ List(r)
                \/ Miss(r, i) \/ Fail(r)

Ask(r) == /\ asked[r] = Nobody
          /\ asked'[r] \in Asks
          /\ asked' = [asked EXCEPT ![r] = asked'[r]]
          /\ UNCHANGED <<docs, answers, crashes>>
Crash == /\ crashes' = crashes + 1
         /\ docs' \in {d \in [Items -> {docs[i] : i \in Items} \cup {Torn}] : \A i \in Items : d[i] \in {docs[i], Torn}}
         /\ answers' = [r \in Requests |-> IF asked[r] # Nobody /\ answers[r] = Pending THEN Lost ELSE answers[r]]
         /\ UNCHANGED asked

Init == /\ docs \in [Items -> {Absent, Empty}]
        /\ asked = [r \in Requests |-> Nobody]
        /\ answers = [r \in Requests |-> Pending]
        /\ crashes = 0
Due(r) == asked[r] # Nobody /\ answers[r] = Pending
Next == \/ \E r \in Requests : Ask(r) \/ (Due(r) /\ UNCHANGED <<asked, crashes>> /\ Serve(r))
        \/ Crash
Spec == Init /\ [][Next]_vars
=============================================================================
