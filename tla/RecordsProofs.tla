--------------------------- MODULE RecordsProofs ----------------------------
(* Proofs that the services keep the promise of the registry wherever no two  *)
(* requests for a record overlap, and that where they do overlap the entries  *)
(* that were answered stand; for any records, requests and crashes.           *)
EXTENDS Records, TLAPS

(* Entries are numbered by their place, and a version history has one.        *)
Docs == {d \in Record : /\ \A k \in DOMAIN d.log : d.log[k].no = k
                        /\ service = "versions" => d.log # <<>>}
Files == \A i \in Items : file[i] \in Docs \cup {Absent, Torn}

Framed(q) == q = [op |-> q.op, item |-> q.item, at |-> q.at, data |-> q.data, target |-> q.target,
                  todo |-> q.todo, mixed |-> q.mixed, answer |-> q.answer]
Shape(q) == /\ Framed(q)
            /\ q.item \in Items
            /\ q.at = "idle" => q = Idle
            /\ q.at # "idle" => q.op \in Ops[service]
            /\ q.at = "done" <=> q.answer # Pending
            /\ q.mixed = {}

(* The record of a request under way, as the registry has it.                 *)
Base(q) == IF q.at = "opened" THEN Before(q) ELSE file[q.item]

(* How far a request is, and what that says of its record: nobody else has    *)
(* changed it since it came in.                                               *)
Creating(q) == q.op = "create" /\ q.at \in {"begun", "opened"} /\ Base(q) = Absent /\ q.target = Nobody
Listing(q) == /\ q.op = "list" /\ q.at \in {"begun", "listing"} /\ q.target = Nobody
              /\ q.at = "listing" => /\ q.todo \subseteq {i \in Items : file[i] # Absent}
                                     /\ q.data = [i \in Items |-> q.data[i]]
                                     /\ \A i \in Items : i \in q.todo \/ (q.data[i] = file[i] /\ file[i] # Torn)
Working(q) == /\ q.op \notin {"create", "list"} /\ q.at \in {"begun", "found", "read", "opened"}
              /\ q.at = "found" => file[q.item] # Absent
              /\ q.at \in {"read", "opened"} =>
                   /\ q.op \in Writing
                   /\ \/ q.data = Base(q) /\ q.data \in Docs
                      \/ q.data = NoHistory /\ Base(q) = Absent /\ q.op = "record"
                   /\ q.op = "rollback" => q.target # Nobody
              /\ q.target # Nobody => /\ q.op = "rollback" /\ Base(q) \in Docs /\ Base(q).log # <<>>
                                      /\ q.target = Base(q).log[1].of
Progress(q) == /\ Creating(q) \/ Listing(q) \/ Working(q)
               /\ q.at = "opened" => file[q.item] = Torn
Alone(r) == \A p \in Active \ {r} : ~OnAll(req[p].op) /\ req[p].item # req[r].item

Inv == /\ service \in DOMAIN Ops /\ crashes \in Nat
       /\ DOMAIN file = Items /\ Files
       /\ req = [r \in Requests |-> req[r]] /\ \A r \in Requests : Shape(req[r])
       /\ \A r \in Active : Alone(r) /\ Progress(req[r])
IInv == apart \in BOOLEAN /\ (apart => Inv)

-----------------------------------------------------------------------------
(* The kinds of requests of each service.                                     *)
LEMMA KindOf ==
  ASSUME NEW s \in DOMAIN Ops, NEW op \in Ops[s]
  PROVE  /\ op \in Writing \cup {"create", "delete", "get", "history", "list"}
         /\ s = "versions" <=> op \in {"record", "rollback", "history"}
BY DEF Ops, CaseOps, SubmissionOps, QuarantineOps, VersionOps, Writing

(* A step of one request leaves the others alone.                             *)
Only(r) == /\ req' = [p \in Requests |-> IF p = r THEN req'[r] ELSE req[p]]
           /\ service' = service /\ apart' = apart /\ crashes' = crashes
Changes(i) == file' = file \/ \E d \in Docs \cup {Absent, Torn} : file' = [file EXCEPT ![i] = d]
Goes(r) == /\ Only(r) /\ r \in Active /\ req'[r].at # "idle"
           /\ req'[r].item = req[r].item /\ req'[r].op = req[r].op
           /\ file' = file \/ (req[r].op # "list" /\ Changes(req[r].item))
Comes(r) == /\ Only(r) /\ At(r, "idle") /\ file' = file
            /\ \A p \in Active : ~OnAll(req'[r].op) /\ ~OnAll(req[p].op) /\ req[p].item # req'[r].item

LEMMA Apart ==
  ASSUME Inv, NEW r \in Requests, Goes(r) \/ Comes(r), req'[r].at # "idle"
  PROVE  /\ \A p \in Active \ {r} : /\ ~OnAll(req[p].op) /\ ~OnAll(req'[r].op)
                                    /\ req[p].item # req'[r].item
                                    /\ file'[req[p].item] = file[req[p].item]
         /\ \A p \in Requests \ {r} : req'[p] = req[p]
         /\ Active' = (Active \ {r}) \cup (IF req'[r].at = "done" THEN {} ELSE {r})
<1>1. \A p \in Requests \ {r} : req'[p] = req[p]
  BY DEF Goes, Comes, Only
<1>2. Active' = (Active \ {r}) \cup (IF req'[r].at = "done" THEN {} ELSE {r})
  BY <1>1 DEF Active
<1>3. ASSUME NEW p \in Active \ {r}
      PROVE  /\ ~OnAll(req[p].op) /\ ~OnAll(req'[r].op) /\ req[p].item # req'[r].item
             /\ file'[req[p].item] = file[req[p].item]
  <2>1. CASE Goes(r)
    <3>1. Alone(r) /\ Alone(p) BY <2>1 DEF Goes, Inv
    <3>2. ~OnAll(req[p].op) /\ ~OnAll(req[r].op) /\ req[p].item # req[r].item
      BY <3>1, <2>1 DEF Alone, Goes
    <3>3. req[p].item \in Items /\ DOMAIN file = Items BY DEF Inv, Shape, Active
    <3>4. file'[req[p].item] = file[req[p].item]
      BY <2>1, <3>2, <3>3 DEF Goes, Changes
    <3> QED BY <2>1, <3>2, <3>4 DEF Goes
  <2>2. CASE Comes(r)
    BY <2>2 DEF Comes
  <2> QED BY <2>1, <2>2
<1> QED BY <1>1, <1>2, <1>3

LEMMA Kept ==
  ASSUME Inv, NEW r \in Requests, Goes(r) \/ Comes(r),
         Shape(req[r])', req'[r].at # "idle", req'[r].at # "done" => Progress(req[r])'
  PROVE  Inv'
<1>1. service' = service /\ crashes' = crashes BY DEF Goes, Comes, Only
<1>2. DOMAIN file' = Items /\ Files'
  <2>1. DOMAIN file = Items /\ Files BY DEF Inv
  <2>2. Docs' = Docs BY <1>1 DEF Docs
  <2>3. CASE file' = file BY <2>1, <2>2, <2>3 DEF Files
  <2>4. CASE file' # file
    <3>1. PICK d \in Docs \cup {Absent, Torn} : file' = [file EXCEPT ![req[r].item] = d]
      BY <2>4 DEF Goes, Comes, Changes
    <3> QED BY <2>1, <2>2, <3>1 DEF Files
  <2> QED BY <2>3, <2>4
<1>3. req' = [p \in Requests |-> req'[p]]
  BY DEF Goes, Comes, Only
<1>4. \A p \in Requests : Shape(req[p])'
  <2> TAKE p \in Requests
  <2>1. CASE p # r
    <3>1. req'[p] = req[p] /\ Shape(req[p]) BY <2>1, Apart DEF Inv
    <3> QED BY <1>1, <3>1 DEF Shape
  <2> QED BY <2>1
<1>5. ASSUME NEW p \in Active' PROVE Alone(p)'
  <2> SUFFICES ASSUME NEW x \in Active' \ {p} PROVE ~OnAll(req'[x].op) /\ req'[x].item # req'[p].item
    BY DEF Alone
  <2>0. Active' \subseteq Active \cup {r} /\ Active \subseteq Requests
    BY Apart DEF Active
  <2>1. CASE p = r
    <3>1. x \in Active \ {r} BY <2>0, <2>1
    <3> QED BY <2>1, <3>1, <2>0, Apart
  <2>2. CASE p # r /\ x = r
    <3>1. p \in Active \ {r} BY <2>0, <2>2
    <3> QED BY <2>2, <3>1, <2>0, Apart
  <2>3. CASE p # r /\ x # r
    <3>1. p \in Active /\ x \in Active \ {p} /\ req'[p] = req[p] /\ req'[x] = req[x]
      BY <2>3, Apart DEF Active
    <3> QED BY <3>1 DEF Inv, Alone
  <2> QED BY <2>1, <2>2, <2>3
<1>6. ASSUME NEW p \in Active' PROVE Progress(req[p])'
  <2>1. CASE p = r BY <2>1, Apart
  <2>2. CASE p # r
    <3>1. p \in Active /\ req'[p] = req[p] /\ req[p].op # "list" /\ file'[req[p].item] = file[req[p].item]
      BY <2>2, Apart DEF OnAll, Active
    <3>2. Progress(req[p]) BY <3>1 DEF Inv
    <3>3. Base(req[p])' = Base(req[p]) /\ Docs' = Docs
      BY <3>1, <1>1 DEF Base, Before, Docs
    <3>4. Creating(req[p]) => Creating(req[p])' BY <3>1, <3>3 DEF Creating
    <3>5. Working(req[p]) => Working(req[p])' BY <3>1, <3>3 DEF Working
    <3>6. ~Listing(req[p]) BY <3>1 DEF Listing
    <3> QED BY <3>1, <3>2, <3>4, <3>5, <3>6 DEF Progress
  <2> QED BY <2>1, <2>2
<1> QED BY <1>1, <1>2, <1>3, <1>4, <1>5, <1>6 DEF Inv

-----------------------------------------------------------------------------
LEMMA Names ==
  /\ NoHistory \in Record /\ \A r \in Requests : NewRecord(r) \in Record
  /\ \A d \in Docs : d \in Record
  /\ \A d \in Record : d \notin {Absent, Torn, Pending}
  /\ \A i \in Items, s \in DOMAIN Ops : \A op \in Ops[s] : Nobody # [op |-> op, item |-> i]
  /\ Pending \notin {Absent, NotFound, Failed, Lost} /\ Absent # Torn
  /\ \A n \in Nat : n # Nobody
<1>1. NoHistory \in Record /\ \A r \in Requests : NewRecord(r) \in Record
  <2>1. <<>> \in Seq([by : Nat, no : Nat, of : Nat]) OBVIOUS
  <2> QED BY <2>1, RecordsAssumption DEF NoHistory, NewRecord, Record
<1>2. \A d \in Docs : d \in Record
  BY DEF Docs
<1>3. \A i \in Items, s \in DOMAIN Ops : \A op \in Ops[s] : [op |-> op, item |-> i] \in Asks
  BY DEF Asks
<1> QED BY <1>1, <1>2, <1>3, NamesAssumption

(* What a handler makes of a record is a record.                              *)
LEMMA AppliedIsDoc ==
  ASSUME NEW r \in Requests, NEW d \in Record, \A k \in DOMAIN d.log : d.log[k].no = k,
         service \in DOMAIN Ops, req[r].op \in Ops[service], req[r].op \in Writing,
         req[r].op = "rollback" => req[r].target \in Nat
  PROVE  Applied(r, d) \in Docs
<1> DEFINE E == [by : Nat, no : Nat, of : Nat]
<1>1. d = [status |-> d.status, details |-> d.details, log |-> d.log]
      /\ d.status \in Nat /\ d.details \in Nat /\ d.log \in Seq(E)
  BY DEF Record
<1>2. r \in Nat BY RecordsAssumption
<1>3. ASSUME NEW e \in E, e.no = Len(d.log) + 1
      PROVE  /\ Append(d.log, e) \in Seq(E) /\ Append(d.log, e) # <<>>
             /\ \A k \in DOMAIN Append(d.log, e) : Append(d.log, e)[k].no = k
  <2> HIDE DEF E
  <2> QED BY <1>1, <1>3
<1>4. Entry(r, d.log) \in E /\ Entry(r, d.log).no = Len(d.log) + 1
  BY <1>1, <1>2 DEF Entry
<1>5. ASSUME NEW n \in Nat
      PROVE  [Entry(r, d.log) EXCEPT !.of = n] \in E /\ [Entry(r, d.log) EXCEPT !.of = n].no = Len(d.log) + 1
  BY <1>1, <1>2 DEF Entry
<1> DEFINE Grown(l) == l \in Seq(E) /\ l # <<>> /\ \A k \in DOMAIN l : l[k].no = k
<1>6. Grown(Append(d.log, Entry(r, d.log))) BY <1>3, <1>4
<1>7. req[r].op = "rollback" => Grown(Append(d.log, [Entry(r, d.log) EXCEPT !.of = req[r].target]))
  BY <1>3, <1>5
<1>8. service = "versions" => req[r].op \in {"record", "rollback"}
  BY KindOf DEF Writing
<1>9. ASSUME NEW l, Grown(l), NEW s \in Nat, NEW t \in Nat
      PROVE  [status |-> s, details |-> t, log |-> l] \in Docs
  BY <1>9 DEF Docs, Record
<1>10. ASSUME NEW s \in Nat, NEW t \in Nat, service # "versions"
       PROVE  [status |-> s, details |-> t, log |-> d.log] \in Docs
  BY <1>1, <1>10 DEF Docs, Record
<1> HIDE DEF Grown, E
<1>11. CASE req[r].op \in {"update", "recommend"}
  BY <1>11, <1>1, <1>2, <1>8, <1>10 DEF Applied
<1>12. CASE req[r].op \in {"status", "discard"}
  BY <1>12, <1>1, <1>2, <1>8, <1>10 DEF Applied
<1>13. CASE req[r].op = "override"
  BY <1>13, <1>1, <1>2, <1>8, <1>10 DEF Applied
<1>14. CASE req[r].op \in {"review", "retry"}
  <2>1. Applied(r, d) = [status |-> r, details |-> d.details, log |-> Append(d.log, Entry(r, d.log))]
    BY <1>14, <1>1 DEF Applied
  <2> QED BY <2>1, <1>1, <1>2, <1>6, <1>9
<1>15. CASE req[r].op \in {"annotate", "record"}
  <2>1. Applied(r, d) = [status |-> d.status, details |-> d.details, log |-> Append(d.log, Entry(r, d.log))]
    BY <1>15, <1>1 DEF Applied
  <2> QED BY <2>1, <1>1, <1>6, <1>9
<1>16. CASE req[r].op = "rollback"
  <2> DEFINE grown == Append(d.log, [Entry(r, d.log) EXCEPT !.of = req[r].target])
  <2>1. Applied(r, d) = [status |-> d.status, details |-> d.details, log |-> grown]
    BY <1>16, <1>1 DEF Applied
  <2>2. Grown(grown) BY <1>7, <1>16
  <2> HIDE DEF grown
  <2>3. [status |-> d.status, details |-> d.details, log |-> grown] \in Docs BY <2>2, <1>1, <1>9
  <2> QED BY <2>1, <2>3
<1> QED BY <1>11, <1>12, <1>13, <1>14, <1>15, <1>16 DEF Writing

(* What is known of a request under way.                                      *)
LEMMA Known ==
  ASSUME Inv, NEW r \in Active
  PROVE  /\ r \in Requests /\ Progress(req[r]) /\ req[r].item \in Items /\ file[req[r].item] \in Docs \cup {Absent, Torn}
         /\ service \in DOMAIN Ops /\ req[r].op \in Ops[service]
         /\ Framed(req[r]) /\ req[r].answer = Pending /\ req[r].mixed = {}
BY DEF Inv, Active, Shape, Files

-----------------------------------------------------------------------------
(* Each step keeps the invariant.                                             *)
LEMMA BeginKeeps ==
  ASSUME Inv, apart, NEW r \in Requests, Begin(r)
  PROVE  Comes(r) /\ req'[r].at = "begun" /\ req'[r].answer = Pending /\ Inv'
<1>1. req[r] = Idle
  BY DEF Inv, Begin, At, Shape
<1>2. PICK op \in Ops[service], i \in Items :
        /\ ~Clash(op, i) /\ (op = "create" => file[i] = Absent)
        /\ req' = [req EXCEPT ![r] = [@ EXCEPT !.op = op, !.item = i, !.at = "begun"]]
  BY DEF Begin
<1>3. service' = service /\ apart' = apart /\ file' = file /\ crashes' = crashes BY DEF Begin
<1>4. req'[r] = [req[r] EXCEPT !.op = op, !.item = i, !.at = "begun"]
  BY <1>2 DEF Inv
<1>5. /\ Shape(req[r])' /\ req'[r].op = op /\ req'[r].item = i /\ req'[r].at = "begun"
      /\ req'[r].target = Nobody /\ req'[r].answer = Pending
  <2>1. Framed(req[r]) /\ req[r].target = Nobody /\ req[r].answer = Pending /\ req[r].mixed = {}
    BY <1>1 DEF Framed, Idle
  <2>2. /\ Framed(req'[r]) /\ req'[r].op = op /\ req'[r].item = i /\ req'[r].at = "begun"
        /\ req'[r].target = Nobody /\ req'[r].answer = Pending /\ req'[r].mixed = {}
    BY <1>4, <2>1 DEF Framed
  <2> QED BY <2>2, <1>3 DEF Shape, Framed
<1>6. req' = [p \in Requests |-> IF p = r THEN req'[r] ELSE req[p]]
  BY <1>2 DEF Inv
<1>7. \A p \in Active : ~OnAll(op) /\ ~OnAll(req[p].op) /\ req[p].item # i
  BY <1>2 DEF Clash
<1>8. Comes(r) BY <1>3, <1>5, <1>6, <1>7 DEF Comes, Only, Begin
<1>9. Progress(req[r])'
  <2>1. Base(req[r])' = file[i] BY <1>3, <1>5 DEF Base
  <2>2. CASE op = "create" BY <2>1, <2>2, <1>2, <1>5 DEF Creating, Progress
  <2>3. CASE op = "list" BY <2>3, <1>5 DEF Listing, Progress
  <2>4. CASE op \notin {"create", "list"} BY <2>4, <1>5 DEF Working, Progress
  <2> QED BY <2>2, <2>3, <2>4
<1> QED BY <1>5, <1>8, <1>9, Kept

LEMMA EndedFields ==
  ASSUME NEW r, NEW a, Framed(req[r]), req'[r] = [req[r] EXCEPT !.at = "done", !.answer = a]
  PROVE  /\ Framed(req'[r]) /\ req'[r].op = req[r].op /\ req'[r].item = req[r].item /\ req'[r].at = "done"
         /\ req'[r].mixed = req[r].mixed /\ req'[r].answer = a
BY DEF Framed

(* A request that is answered and leaves the files as they are.               *)
LEMMA Ended ==
  ASSUME Inv, NEW r \in Requests, r \in Active, NEW a, a # Pending,
         service' = service, apart' = apart, file' = file, crashes' = crashes,
         req' = [req EXCEPT ![r] = [@ EXCEPT !.at = "done", !.answer = a]]
  PROVE  Goes(r) /\ Inv' /\ req'[r].at = "done" /\ req'[r].answer = a
<1>k. /\ req[r].item \in Items /\ req[r].op \in Ops[service] /\ Framed(req[r]) /\ req[r].mixed = {}
  BY Known
<1>1. req'[r] = [req[r] EXCEPT !.at = "done", !.answer = a] BY DEF Inv
<1>2. /\ Framed(req'[r]) /\ req'[r].op = req[r].op /\ req'[r].item = req[r].item /\ req'[r].at = "done"
      /\ req'[r].mixed = {} /\ req'[r].answer = a
  BY <1>1, <1>k, EndedFields
<1>3. Shape(req[r])' BY <1>2, <1>k DEF Shape, Framed
<1>4. Goes(r) BY <1>2 DEF Goes, Only, Inv
<1> QED BY <1>2, <1>3, <1>4, Kept

LEMMA CheckKeeps ==
  ASSUME Inv, NEW r \in Requests, Check(r)
  PROVE  /\ Goes(r) /\ Inv' /\ file' = file /\ req[r].at = "begun" /\ req[r].op \notin {"create", "list"}
         /\ \/ req'[r].at \in {"found", "read"} /\ req'[r].answer = Pending
            \/ /\ req'[r].at = "done" /\ file[req[r].item] = Absent /\ req[r].op # "record"
               /\ req'[r].answer = IF req[r].op = "history" THEN NoHistory ELSE NotFound
<1> DEFINE q == req[r]
<1>1. r \in Active /\ q.at = "begun" /\ q.op \notin {"create", "list"} BY DEF Check, At, Active
<1>2. service' = service /\ apart' = apart /\ file' = file /\ crashes' = crashes BY DEF Check, Reading
<1>k. /\ Progress(q) /\ q.item \in Items /\ q.op \in Ops[service]
      /\ Framed(q) /\ q.answer = Pending /\ q.mixed = {}
  BY <1>1, Known
<1>3. Working(q) BY <1>1, <1>k DEF Progress, Creating, Listing, Check
<1>4. Base(q) = file[q.item] BY <1>1 DEF Base
<1>5. CASE file[q.item] # Absent
  <2>1. req' = [req EXCEPT ![r].at = "found"]
    BY <1>5 DEF Check, Advance, File
  <2>2. req'[r] = [q EXCEPT !.at = "found"] BY <2>1 DEF Inv
  <2>3. /\ Framed(req'[r]) /\ req'[r].op = q.op /\ req'[r].item = q.item /\ req'[r].at = "found"
        /\ req'[r].target = q.target /\ req'[r].mixed = {} /\ req'[r].answer = Pending
    BY <2>2, <1>k DEF Framed
  <2>4. Shape(req[r])' BY <2>3, <1>2, <1>k DEF Shape, Framed
  <2>5. Goes(r) BY <2>1, <2>3, <1>1, <1>2 DEF Goes, Only, Inv
  <2>6. Working(req[r])' BY <2>3, <1>2, <1>3, <1>4, <1>5 DEF Working, Base, Docs
  <2>7. Inv' BY <2>3, <2>4, <2>5, <2>6, Kept DEF Progress
  <2> QED BY <2>3, <2>5, <2>7, <1>1, <1>2
<1>6. CASE file[q.item] = Absent
  <2>1. ~(q.op = "rollback" /\ q.target # Nobody) BY <1>3, <1>4, <1>6, Names DEF Working
  <2>2. CASE q.op = "record"
    <3>1. req' = [req EXCEPT ![r] = [@ EXCEPT !.at = "read", !.data = NoHistory]]
      BY <1>6, <2>2 DEF Check, File
    <3>2. req'[r] = [q EXCEPT !.at = "read", !.data = NoHistory] BY <3>1 DEF Inv
    <3>3. /\ Framed(req'[r]) /\ req'[r].op = q.op /\ req'[r].item = q.item /\ req'[r].at = "read"
          /\ req'[r].target = q.target /\ req'[r].data = NoHistory /\ req'[r].mixed = {} /\ req'[r].answer = Pending
      BY <3>2, <1>k DEF Framed
    <3>4. Shape(req[r])' BY <3>3, <1>2, <1>k DEF Shape, Framed
    <3>5. Goes(r) BY <3>1, <3>3, <1>1, <1>2 DEF Goes, Only, Inv
    <3>6. Working(req[r])' BY <3>3, <2>2, <1>2, <1>3, <1>4, <1>6 DEF Working, Base, Docs, Writing
    <3>7. Inv' BY <3>3, <3>4, <3>5, <3>6, Kept DEF Progress
    <3> QED BY <3>3, <3>5, <3>7, <1>1, <1>2
  <2>3. CASE q.op # "record"
    <3> DEFINE a == IF q.op = "history" THEN NoHistory ELSE NotFound
    <3>1. Done(r, a) BY <1>6, <2>1, <2>3 DEF Check, File
    <3>2. a # Pending BY Names
    <3>3. req' = [req EXCEPT ![r] = [@ EXCEPT !.at = "done", !.answer = a]]
      BY <3>1 DEF Done
    <3> HIDE DEF a
    <3>4. Goes(r) /\ Inv' /\ req'[r].at = "done" /\ req'[r].answer = a BY <3>2, <3>3, <1>1, <1>2, Ended
    <3> QED BY <3>4, <2>3, <1>1, <1>2, <1>6 DEF a
  <2> QED BY <2>2, <2>3
<1> QED BY <1>5, <1>6

LEMMA ReadKeeps ==
  ASSUME Inv, NEW r \in Requests, Read(r)
  PROVE  /\ Goes(r) /\ Inv' /\ file' = file /\ req[r].at = "found" /\ req[r].op \notin {"create", "list", "delete"}
         /\ \/ req'[r].at \in {"begun", "read"} /\ req'[r].answer = Pending
            \/ req'[r].at = "done" /\ file[req[r].item] = Torn /\ req'[r].answer = Failed
            \/ /\ req'[r].at = "done" /\ file[req[r].item] \in Docs /\ req[r].op \in {"get", "history"}
               /\ req'[r].answer = file[req[r].item]
<1> DEFINE q == req[r]
           d == file[q.item]
<1>1. r \in Active /\ q.at = "found" /\ q.op # "delete" BY DEF Read, At, Active
<1>2. service' = service /\ apart' = apart /\ file' = file /\ crashes' = crashes BY DEF Read, Reading
<1>k. /\ Progress(q) /\ q.item \in Items /\ service \in DOMAIN Ops /\ q.op \in Ops[service]
      /\ Framed(q) /\ q.answer = Pending /\ q.mixed = {} /\ d \in Docs \cup {Absent, Torn}
  BY <1>1, Known
<1>3. Working(q) BY <1>1, <1>k DEF Progress, Creating, Listing
<1>o. q.op \notin {"create", "list", "delete"} BY <1>1, <1>3 DEF Working
<1>4. Base(q) = d /\ d # Absent BY <1>1, <1>3 DEF Base, Working
<1>5. CASE d = Torn
  <2>1. req' = [req EXCEPT ![r] = [@ EXCEPT !.at = "done", !.answer = Failed]]
    BY <1>5 DEF Read, File, Done
  <2> QED BY <2>1, <1>1, <1>2, <1>5, <1>o, Names, Ended
<1>6. CASE d \in Docs /\ q.op \in {"get", "history"}
  <2>1. d \notin {Absent, Torn, Pending} BY <1>6, Names
  <2>2. req' = [req EXCEPT ![r] = [@ EXCEPT !.at = "done", !.answer = d]]
    BY <1>6, <2>1 DEF Read, File, Done
  <2> QED BY <2>1, <2>2, <1>1, <1>2, <1>6, <1>o, Ended
<1>7. CASE d \in Docs /\ q.op = "rollback" /\ q.target = Nobody
  <2>1. d \notin {Absent, Torn} BY <1>7, Names
  <2>2. d.log \in Seq([by : Nat, no : Nat, of : Nat]) /\ d.log # <<>> /\ \A k \in DOMAIN d.log : d.log[k].no = k
    BY <1>7, <1>k, KindOf DEF Docs, Record
  <2>3. 1 \in DOMAIN d.log /\ d.log[1].no = 1 BY <2>2
  <2>4. {k \in DOMAIN d.log : d.log[k].no = 1} = {1} BY <2>2, <2>3
  <2>5. FindTarget(r) BY <1>7, <2>1 DEF Read, File
  <2>6. req' = [req EXCEPT ![r] = [@ EXCEPT !.at = "begun", !.target = d.log[1].of]]
    BY <2>4, <2>5 DEF FindTarget, File
  <2>7. req'[r] = [q EXCEPT !.at = "begun", !.target = d.log[1].of] BY <2>6 DEF Inv
  <2>8. /\ Framed(req'[r]) /\ req'[r].op = q.op /\ req'[r].item = q.item /\ req'[r].at = "begun"
        /\ req'[r].target = d.log[1].of /\ req'[r].mixed = {} /\ req'[r].answer = Pending
    BY <2>7, <1>k DEF Framed
  <2>9. Shape(req[r])' BY <2>8, <1>2, <1>k DEF Shape, Framed
  <2>10. Goes(r) BY <2>6, <2>8, <1>1, <1>2 DEF Goes, Only, Inv
  <2>11. Base(req[r])' = d /\ Docs' = Docs BY <2>8, <1>2 DEF Base, Docs
  <2>12. Working(req[r])' BY <2>8, <2>11, <2>2, <1>3, <1>7 DEF Working
  <2>13. Inv' BY <2>8, <2>9, <2>10, <2>12, Kept DEF Progress
  <2> QED BY <2>8, <2>10, <2>13, <1>1, <1>2, <1>o
<1>8. CASE d \in Docs /\ q.op \notin {"get", "history"} /\ ~(q.op = "rollback" /\ q.target = Nobody)
  <2>1. d \notin {Absent, Torn} BY <1>8, Names
  <2>2. req' = [req EXCEPT ![r] = [@ EXCEPT !.at = "read", !.data = d]]
    BY <1>8, <2>1 DEF Read, File
  <2>3. req'[r] = [q EXCEPT !.at = "read", !.data = d] BY <2>2 DEF Inv
  <2>4. /\ Framed(req'[r]) /\ req'[r].op = q.op /\ req'[r].item = q.item /\ req'[r].at = "read"
        /\ req'[r].target = q.target /\ req'[r].data = d /\ req'[r].mixed = {} /\ req'[r].answer = Pending
    BY <2>3, <1>k DEF Framed
  <2>5. Shape(req[r])' BY <2>4, <1>2, <1>k DEF Shape, Framed
  <2>6. Goes(r) BY <2>2, <2>4, <1>1, <1>2 DEF Goes, Only, Inv
  <2>7. Base(req[r])' = d /\ Docs' = Docs BY <2>4, <1>2 DEF Base, Docs
  <2>8. q.op \in Writing BY <1>1, <1>3, <1>8, <1>k, KindOf DEF Working
  <2>9. Working(req[r])' BY <2>4, <2>7, <2>8, <1>3, <1>4, <1>8 DEF Working
  <2>10. Inv' BY <2>4, <2>5, <2>6, <2>9, Kept DEF Progress
  <2> QED BY <2>4, <2>6, <2>10, <1>1, <1>2, <1>o
<1> QED BY <1>4, <1>5, <1>6, <1>7, <1>8, <1>k

(* Nobody else has the file of a request open.                                *)
LEMMA NobodyElse ==
  ASSUME Inv, NEW r \in Active
  PROVE  Others(r, "opened") = {}
BY DEF Inv, Alone, Active, Others, At

LEMMA UnlinkKeeps ==
  ASSUME Inv, NEW r \in Requests, Unlink(r)
  PROVE  /\ Goes(r) /\ Inv' /\ file[req[r].item] # Absent
         /\ file' = [file EXCEPT ![req[r].item] = Absent] /\ req'[r].at = "done" /\ req'[r].answer = Absent
<1> DEFINE q == req[r]
<1>1. r \in Active /\ q.at = "found" /\ q.op = "delete" BY DEF Unlink, At, Active
<1>2. service' = service /\ apart' = apart /\ crashes' = crashes BY DEF Unlink
<1>k. /\ Progress(q) /\ q.item \in Items /\ q.op \in Ops[service] /\ Framed(q) /\ q.mixed = {}
  BY <1>1, Known
<1>3. Working(q) BY <1>1, <1>k DEF Progress, Creating, Listing
<1>4. file[q.item] # Absent BY <1>1, <1>3 DEF Working
<1>5. /\ file' = [file EXCEPT ![q.item] = Absent]
      /\ req' = [p \in Requests |->
                   CASE p = r -> [q EXCEPT !.at = "done", !.answer = Absent]
                     [] At(p, "opened") /\ req[p].item = q.item -> [req[p] EXCEPT !.at = "detached"]
                     [] OTHER -> req[p]]
  BY <1>4 DEF Unlink, File
<1>6. \A p \in Requests \ {r} : ~(At(p, "opened") /\ req[p].item = q.item)
  BY <1>1, NobodyElse DEF Others
<1>7. req'[r] = [q EXCEPT !.at = "done", !.answer = Absent] /\ \A p \in Requests \ {r} : req'[p] = req[p]
  BY <1>1, <1>5, <1>6 DEF At
<1>8. Only(r) BY <1>2, <1>5, <1>7 DEF Only
<1>9. /\ Framed(req'[r]) /\ req'[r].op = q.op /\ req'[r].item = q.item /\ req'[r].at = "done"
      /\ req'[r].mixed = {} /\ req'[r].answer = Absent
  BY <1>7, <1>k, EndedFields
<1>10. Shape(req[r])' BY <1>9, <1>2, <1>k, Names DEF Shape, Framed
<1>11. Goes(r) BY <1>1, <1>5, <1>8, <1>9 DEF Goes, Changes
<1> QED BY <1>4, <1>5, <1>9, <1>10, <1>11, Kept

LEMMA OpenKeeps ==
  ASSUME Inv, NEW r \in Requests, OpenFile(r)
  PROVE  /\ Goes(r) /\ Inv' /\ req'[r].at = "opened" /\ req'[r].answer = Pending
         /\ Before(req'[r]) = file[req[r].item]
<1> DEFINE q == req[r]
           p == req'[r]
<1>1. r \in Active /\ (q.at = "read" \/ (q.at = "begun" /\ q.op = "create")) BY DEF OpenFile, At, Active
<1>2. service' = service /\ apart' = apart /\ crashes' = crashes BY DEF OpenFile
<1>k. /\ Progress(q) /\ q.item \in Items /\ service \in DOMAIN Ops /\ q.op \in Ops[service]
      /\ Framed(q) /\ q.answer = Pending /\ q.mixed = {}
  BY <1>1, Known
<1>3. file' = [file EXCEPT ![q.item] = Torn] BY DEF OpenFile
<1>4. req' = [x \in Requests |-> CASE x = r -> [q EXCEPT !.at = "opened"]
                                   [] x \in Others(r, "opened") -> [req[x] EXCEPT !.mixed = {}]
                                   [] OTHER -> req[x]]
  BY DEF OpenFile
<1>5. r \notin Others(r, "opened") /\ Others(r, "opened") = {} BY <1>1, NobodyElse DEF Others
<1>6. p = [q EXCEPT !.at = "opened"] /\ \A x \in Requests \ {r} : req'[x] = req[x]
  BY <1>4, <1>5
<1>7. Only(r) BY <1>2, <1>4, <1>6 DEF Only
<1>8. /\ Framed(p) /\ p.op = q.op /\ p.item = q.item /\ p.at = "opened" /\ p.data = q.data
      /\ p.target = q.target /\ p.mixed = {} /\ p.answer = Pending
  BY <1>6, <1>k DEF Framed
<1>9. Shape(req[r])' BY <1>8, <1>2, <1>k DEF Shape, Framed
<1>10. q.op # "list" BY <1>1, <1>k DEF Progress, Creating, Listing, Working
<1>11. Goes(r) BY <1>1, <1>3, <1>7, <1>8, <1>10 DEF Goes, Changes
<1>12. Docs' = Docs /\ Base(req[r])' = Before(p)
  BY <1>2, <1>8 DEF Docs, Base, Before
<1>13. file'[p.item] = Torn BY <1>3, <1>8, <1>k DEF Inv
<1>14. CASE q.op = "create"
  <2>1. Creating(q) BY <1>14, <1>k DEF Progress, Listing, Working
  <2>2. Before(p) = file[q.item] BY <2>1, <1>1, <1>14, <1>8 DEF Before, Creating, Base
  <2>3. Creating(req[r])' BY <2>1, <2>2, <1>8, <1>12, <1>1 DEF Creating, Base
  <2> QED BY <2>2, <2>3, <1>8, <1>9, <1>11, <1>13, Kept DEF Progress
<1>15. CASE q.op # "create"
  <2>1. Working(q) /\ q.at = "read" BY <1>1, <1>15, <1>10, <1>k DEF Progress, Listing, Creating
  <2>2. Base(q) = file[q.item] BY <2>1 DEF Base
  <2>3. ASSUME q.data = Base(q), q.data \in Docs PROVE Before(p) = file[q.item]
    <3>1. ~(service = "versions" /\ q.data = NoHistory) BY <2>3 DEF Docs, NoHistory
    <3> QED BY <3>1, <2>2, <2>3, <1>8, <1>15 DEF Before
  <2>4. ASSUME q.data = NoHistory, Base(q) = Absent, q.op = "record" PROVE Before(p) = file[q.item]
    <3>1. service = "versions" BY <2>4, <1>k, KindOf
    <3> QED BY <3>1, <2>2, <2>4, <1>8, <1>15 DEF Before
  <2>5. (q.data = Base(q) /\ q.data \in Docs) \/ (q.data = NoHistory /\ Base(q) = Absent /\ q.op = "record")
    BY <2>1 DEF Working
  <2>6. Before(p) = file[q.item] BY <2>3, <2>4, <2>5
  <2>7. Base(req[r])' = Base(q) BY <2>2, <2>6, <1>12
  <2>8. Working(req[r])' BY <2>1, <2>7, <1>8, <1>12 DEF Working
  <2> QED BY <2>6, <2>8, <1>8, <1>9, <1>11, <1>13, Kept DEF Progress
<1> QED BY <1>14, <1>15

(* What an open file is to hold: a record that the registry agrees to.        *)
LEMMA WrittenIsDoc ==
  ASSUME Inv, NEW r \in Active, req[r].at = "opened"
  PROVE  ToWrite(r) \in Docs
<1> DEFINE q == req[r]
<1>k. /\ r \in Requests /\ Progress(q) /\ q.item \in Items /\ service \in DOMAIN Ops /\ q.op \in Ops[service]
  BY Known
<1>1. CASE q.op = "create"
  <2>1. service # "versions" BY <1>1, <1>k, KindOf
  <2>2. \A k \in DOMAIN NewRecord(r).log : NewRecord(r).log[k].no = k BY DEF NewRecord
  <2>3. NewRecord(r) \in Docs BY <1>k, <2>1, <2>2, Names DEF Docs
  <2> QED BY <1>1, <2>3 DEF ToWrite
<1>2. CASE q.op # "create"
  <2>1. Working(q) BY <1>2, <1>k DEF Progress, Creating, Listing
  <2>2. q.op \in Writing BY <2>1 DEF Working
  <2>3. CASE q.data = Base(q) /\ q.data \in Docs
    <3>1. q.data \in Record /\ \A k \in DOMAIN q.data.log : q.data.log[k].no = k BY <2>3 DEF Docs
    <3>2. ASSUME q.op = "rollback" PROVE q.target \in Nat
      <4> DEFINE E == [by : Nat, no : Nat, of : Nat]
      <4>1. q.target = q.data.log[1].of /\ q.data.log # <<>> BY <3>2, <2>1, <2>3 DEF Working
      <4>2. q.data.log \in Seq(E) BY <3>1 DEF Record
      <4>3. \A e \in E : e.of \in Nat OBVIOUS
      <4> HIDE DEF E
      <4>4. q.data.log[1] \in E BY <4>1, <4>2
      <4> QED BY <4>1, <4>3, <4>4
    <3> QED BY <3>1, <3>2, <2>2, <1>2, <1>k, AppliedIsDoc DEF ToWrite
  <2>4. CASE q.data = NoHistory /\ q.op = "record"
    <3>1. q.data \in Record BY <2>4, Names
    <3>2. \A k \in DOMAIN q.data.log : q.data.log[k].no = k BY <2>4 DEF NoHistory
    <3> QED BY <3>1, <3>2, <2>2, <2>4, <1>2, <1>k, AppliedIsDoc DEF ToWrite
  <2> QED BY <2>1, <2>3, <2>4 DEF Working
<1> QED BY <1>1, <1>2

LEMMA WriteKeeps ==
  ASSUME Inv, NEW r \in Requests, Write(r)
  PROVE  /\ r \in Active /\ req[r].at = "opened" /\ Goes(r) /\ Inv'
         /\ file' = [file EXCEPT ![req[r].item] = ToWrite(r)] /\ req'[r].at = "done" /\ req'[r].answer = ToWrite(r)
<1> DEFINE q == req[r]
<1>1. r \in Active BY DEF Write, At, Active
<1>2. service' = service /\ apart' = apart /\ crashes' = crashes BY DEF Write
<1>k. /\ Progress(q) /\ q.item \in Items /\ q.op \in Ops[service] /\ Framed(q) /\ q.mixed = {}
  BY <1>1, Known
<1>3. q.at = "opened" /\ q.op # "list"
  BY <1>k DEF Progress, Creating, Listing, Working, Write, At
<1>4. file' = [file EXCEPT ![q.item] = ToWrite(r)] BY <1>3, <1>k DEF Write, At
<1>5. req' = [x \in Requests |-> CASE x = r -> [q EXCEPT !.at = "done", !.answer = ToWrite(r)]
                                   [] x \in Others(r, "opened") /\ At(r, "opened") -> [req[x] EXCEPT !.mixed = @ \cup {r}]
                                   [] OTHER -> req[x]]
  BY DEF Write
<1>6. r \notin Others(r, "opened") /\ Others(r, "opened") = {} BY <1>1, NobodyElse DEF Others
<1>7. req'[r] = [q EXCEPT !.at = "done", !.answer = ToWrite(r)] /\ \A x \in Requests \ {r} : req'[x] = req[x]
  BY <1>5, <1>6
<1>8. Only(r) BY <1>2, <1>5, <1>7 DEF Only
<1>9. /\ Framed(req'[r]) /\ req'[r].op = q.op /\ req'[r].item = q.item /\ req'[r].at = "done"
      /\ req'[r].mixed = {} /\ req'[r].answer = ToWrite(r)
  BY <1>7, <1>k, EndedFields
<1>10. ToWrite(r) \in Docs BY <1>1, <1>3, WrittenIsDoc
<1>11. ToWrite(r) # Pending BY <1>10, Names
<1>12. Shape(req[r])' BY <1>9, <1>11, <1>2, <1>k DEF Shape, Framed
<1>13. Goes(r) BY <1>1, <1>3, <1>4, <1>8, <1>9, <1>10 DEF Goes, Changes
<1> QED BY <1>1, <1>3, <1>4, <1>9, <1>12, <1>13, Kept

LEMMA GlobKeeps ==
  ASSUME Inv, NEW r \in Requests, Glob(r)
  PROVE  Goes(r) /\ Inv' /\ req'[r].at = "listing" /\ req'[r].answer = Pending
<1> DEFINE q == req[r]
           all == {i \in Items : file[i] # Absent}
           none == [i \in Items |-> Absent]
<1>1. r \in Active /\ q.at = "begun" /\ q.op = "list" BY DEF Glob, At, Active
<1>2. service' = service /\ apart' = apart /\ file' = file /\ crashes' = crashes BY DEF Glob, Reading
<1>k. /\ Progress(q) /\ q.item \in Items /\ q.op \in Ops[service] /\ Framed(q) /\ q.answer = Pending /\ q.mixed = {}
  BY <1>1, Known
<1>3. req' = [req EXCEPT ![r] = [@ EXCEPT !.at = "listing", !.todo = all, !.data = none]]
  BY DEF Glob
<1>4. req'[r] = [q EXCEPT !.at = "listing", !.todo = all, !.data = none] BY <1>3 DEF Inv
<1> HIDE DEF all, none
<1>5. /\ Framed(req'[r]) /\ req'[r].op = q.op /\ req'[r].item = q.item /\ req'[r].at = "listing" /\ req'[r].todo = all
      /\ req'[r].data = none /\ req'[r].target = q.target /\ req'[r].mixed = {} /\ req'[r].answer = Pending
  BY <1>4, <1>k DEF Framed
<1>6. Shape(req[r])' BY <1>5, <1>2, <1>k DEF Shape, Framed
<1>7. Goes(r) BY <1>1, <1>2, <1>3, <1>5 DEF Goes, Only, Inv
<1>8. q.target = Nobody BY <1>1, <1>k DEF Progress, Creating, Listing, Working
<1>9. all \subseteq {i \in Items : file'[i] # Absent} /\ none = [i \in Items |-> none[i]]
      /\ \A i \in Items : i \in all \/ (none[i] = file'[i] /\ file'[i] # Torn)
  BY <1>2, Names DEF all, none
<1>10. Listing(req[r])' BY <1>1, <1>5, <1>8, <1>9 DEF Listing
<1> QED BY <1>5, <1>6, <1>7, <1>10, Kept DEF Progress

LEMMA ReadNextKeeps ==
  ASSUME Inv, NEW r \in Requests, ReadNext(r)
  PROVE  /\ Goes(r) /\ Inv' /\ file' = file /\ req[r].op = "list" /\ req[r].at = "listing"
         /\ \/ /\ req'[r].at = "done" /\ \A i \in Items : file[i] # Torn
               /\ req'[r].answer = [i \in Items |-> file[i]]
            \/ req'[r].at = "done" /\ req'[r].answer = Failed /\ \E i \in Items : file[i] = Torn
            \/ req'[r].at = "listing" /\ req'[r].answer = Pending
<1> DEFINE q == req[r]
<1>1. r \in Active /\ q.at = "listing" BY DEF ReadNext, At, Active
<1>2. service' = service /\ apart' = apart /\ file' = file /\ crashes' = crashes BY DEF ReadNext, Reading
<1>k. /\ Progress(q) /\ q.item \in Items /\ q.op \in Ops[service] /\ Framed(q) /\ q.answer = Pending /\ q.mixed = {}
  BY <1>1, Known
<1>3. Listing(q) BY <1>1, <1>k DEF Progress, Creating, Working
<1>4. Files BY DEF Inv
<1>5. ASSUME q.todo = {}
      PROVE  /\ Goes(r) /\ Inv' /\ req'[r].at = "done" /\ \A i \in Items : file[i] # Torn
             /\ req'[r].answer = [i \in Items |-> file[i]]
  <2>1. \A i \in Items : q.data[i] = file[i] /\ file[i] # Torn BY <1>1, <1>3, <1>5 DEF Listing
  <2>2. q.data = [i \in Items |-> q.data[i]] BY <1>1, <1>3 DEF Listing
  <2>3. q.data = [i \in Items |-> file[i]] BY <2>1, <2>2
  <2>4. \A i \in Items : file[i] \in Record \cup {Absent} BY <2>1, <1>4, Names DEF Files
  <2>5. q.data \in [Items -> Record \cup {Absent}] BY <2>3, <2>4
  <2>6. q.data # Pending BY <2>5, NamesAssumption
  <2>7. req' = [req EXCEPT ![r] = [@ EXCEPT !.at = "done", !.answer = q.data]] BY <1>5 DEF ReadNext, Done
  <2>8. Goes(r) /\ Inv' BY <2>6, <2>7, <1>1, <1>2, Ended
  <2>9. req'[r] = [q EXCEPT !.at = "done", !.answer = q.data] BY <2>7 DEF Inv
  <2> QED BY <2>1, <2>3, <2>8, <2>9, <1>k, EndedFields
<1>6. ASSUME NEW i \in q.todo, file[i] \in {Absent, Torn}, Done(r, Failed)
      PROVE  Goes(r) /\ Inv' /\ req'[r].at = "done" /\ req'[r].answer = Failed /\ \E j \in Items : file[j] = Torn
  <2>1. i \in Items /\ file[i] = Torn BY <1>1, <1>3, <1>6 DEF Listing
  <2>2. req' = [req EXCEPT ![r] = [@ EXCEPT !.at = "done", !.answer = Failed]] BY <1>6 DEF Done
  <2>3. Goes(r) /\ Inv' BY <2>2, <1>1, <1>2, Names, Ended
  <2>4. req'[r] = [q EXCEPT !.at = "done", !.answer = Failed] BY <2>2 DEF Inv
  <2> QED BY <2>1, <2>3, <2>4, <1>k, EndedFields
<1>7. ASSUME NEW i \in q.todo, file[i] \notin {Absent, Torn},
             req' = [req EXCEPT ![r] = Listed(@, i)]
      PROVE  Goes(r) /\ Inv' /\ req'[r].at = "listing" /\ req'[r].answer = Pending
  <2> DEFINE left == q.todo \ {i}
             read == [q.data EXCEPT ![i] = file[i]]
  <2>0. req'[r] = Listed(q, i) BY <1>7 DEF Inv
  <2>1. Listed(q, i) = [q EXCEPT !.todo = left, !.data = read] BY <1>k DEF Framed, Listed
  <2>2. i \in Items /\ left \subseteq {j \in Items : file[j] # Absent} BY <1>1, <1>3 DEF Listing
  <2>3. q.data = [j \in Items |-> q.data[j]] /\ \A j \in Items : j \in q.todo \/ (q.data[j] = file[j] /\ file[j] # Torn)
    BY <1>1, <1>3 DEF Listing
  <2>4. read = [j \in Items |-> read[j]] /\ \A j \in Items : j \in left \/ (read[j] = file[j] /\ file[j] # Torn)
    BY <2>2, <2>3, <1>7
  <2> HIDE DEF left, read
  <2>5. /\ Framed(req'[r]) /\ req'[r].op = q.op /\ req'[r].item = q.item /\ req'[r].at = "listing" /\ req'[r].todo = left
        /\ req'[r].data = read /\ req'[r].target = q.target /\ req'[r].mixed = {} /\ req'[r].answer = Pending
    BY <2>0, <2>1, <1>1, <1>k DEF Framed
  <2>6. Shape(req[r])' BY <2>5, <1>2, <1>k DEF Shape, Framed
  <2>7. Goes(r) BY <1>1, <1>2, <1>7, <2>5 DEF Goes, Only, Inv
  <2>8. Listing(req[r])' BY <1>2, <1>3, <2>2, <2>4, <2>5 DEF Listing
  <2> QED BY <2>5, <2>6, <2>7, <2>8, Kept DEF Progress
<1>8. CASE q.todo = {} BY <1>8, <1>1, <1>2, <1>3, <1>5 DEF Listing
<1>9. CASE q.todo # {}
  <2>1. PICK i \in q.todo : IF file[i] \in {Absent, Torn} THEN Done(r, Failed)
                            ELSE req' = [req EXCEPT ![r] = Listed(@, i)]
    BY <1>9 DEF ReadNext
  <2> QED BY <2>1, <1>1, <1>2, <1>3, <1>6, <1>7 DEF Listing
<1> QED BY <1>8, <1>9

LEMMA CrashKeeps ==
  ASSUME Inv, Crash
  PROVE  /\ Inv' /\ Active' = {}
         /\ \A r \in Requests : /\ req'[r].op = req[r].op /\ req'[r].item = req[r].item
                                /\ (req'[r].at = "idle" <=> req[r].at = "idle")
                                /\ req'[r].answer = IF r \in Active THEN Lost ELSE req[r].answer
<1>1. service' = service /\ file' = file /\ crashes' = crashes + 1
      /\ req' = [r \in Requests |-> IF r \in Active THEN [req[r] EXCEPT !.at = "done", !.answer = Lost] ELSE req[r]]
  BY DEF Crash
<1>2. ASSUME NEW r \in Requests
      PROVE  /\ Shape(req[r])' /\ r \notin Active'
             /\ req'[r].op = req[r].op /\ req'[r].item = req[r].item /\ (req'[r].at = "idle" <=> req[r].at = "idle")
             /\ req'[r].answer = IF r \in Active THEN Lost ELSE req[r].answer
  <2>1. CASE r \in Active
    <3>1. req'[r] = [req[r] EXCEPT !.at = "done", !.answer = Lost] BY <1>1, <2>1
    <3>2. req[r].item \in Items /\ req[r].op \in Ops[service] /\ Framed(req[r]) /\ req[r].mixed = {}
      BY <2>1, Known
    <3>3. /\ Framed(req'[r]) /\ req'[r].op = req[r].op /\ req'[r].item = req[r].item /\ req'[r].at = "done"
          /\ req'[r].mixed = {} /\ req'[r].answer = Lost
      BY <3>1, <3>2, EndedFields
    <3>4. Shape(req[r])' BY <3>2, <3>3, <1>1, Names DEF Shape, Framed
    <3> QED BY <3>3, <3>4, <2>1 DEF Active
  <2>2. CASE r \notin Active
    <3>1. req'[r] = req[r] /\ Shape(req[r]) BY <1>1, <2>2 DEF Inv
    <3>2. Shape(req[r])' BY <3>1, <1>1 DEF Shape
    <3> QED BY <3>1, <3>2, <2>2 DEF Active
  <2> QED BY <2>1, <2>2
<1>3. Active' = {} BY <1>2 DEF Active
<1>4. Files' /\ DOMAIN file' = Items BY <1>1 DEF Inv, Files, Docs
<1>5. req' = [r \in Requests |-> req'[r]] BY <1>1
<1>6. service' \in DOMAIN Ops /\ crashes' \in Nat
  <2>1. service \in DOMAIN Ops /\ crashes \in Nat BY DEF Inv
  <2>2. service' = service /\ crashes' = crashes + 1 BY DEF Crash
  <2> QED BY <2>1, <2>2
<1>7. Inv' BY <1>2, <1>3, <1>4, <1>5, <1>6 DEF Inv
<1> QED BY <1>2, <1>3, <1>7

-----------------------------------------------------------------------------
(* What the registry is shown of the state.                                   *)
LEMMA ShownOf ==
  ASSUME Inv, apart, NEW r \in Active
  PROVE  /\ req[r].op # "list" => Shown[req[r].item] = Base(req[r])
         /\ req[r].op = "list" => \A i \in Items : Shown[i] = file[i]
<1>k. r \in Requests /\ req[r].item \in Items /\ Progress(req[r]) BY Known
<1>1. CASE req[r].at = "opened"
  <2>1. Opened(req[r].item) = {r} BY <1>1, <1>k, NobodyElse DEF Opened, Others, At
  <2>2. (CHOOSE x \in {r} : TRUE) = r OBVIOUS
  <2>3. Shown[req[r].item] = Before(req[r]) BY <2>1, <2>2, <1>k DEF Shown
  <2>4. req[r].op # "list" BY <1>1, <1>k DEF Progress, Creating, Listing, Working
  <2> QED BY <2>3, <2>4, <1>1 DEF Base
<1>2. CASE req[r].at # "opened" /\ req[r].op # "list"
  <2>1. Opened(req[r].item) = {} BY <1>2, <1>k, NobodyElse DEF Opened, Others, At
  <2> QED BY <2>1, <1>2, <1>k DEF Shown, Base
<1>3. CASE req[r].at # "opened" /\ req[r].op = "list"
  <2>1. ASSUME NEW p \in Requests PROVE ~At(p, "opened")
    <3>1. p # r /\ At(p, "opened") => p \in Active /\ Alone(p) BY DEF Active, At, Inv
    <3> QED BY <3>1, <1>3, <1>k DEF Alone, OnAll, At
  <2>2. \A i \in Items : Opened(i) = {} BY <2>1 DEF Opened
  <2> QED BY <2>2, <1>3 DEF Shown
<1> QED BY <1>1, <1>2, <1>3

LEMMA ShownNext ==
  ASSUME Inv, Inv', apart, apart', NEW r \in Requests, Goes(r) \/ Comes(r)
  PROVE  /\ \A i \in Items \ {req'[r].item} : Shown'[i] = Shown[i]
         /\ req[r].at # "opened" /\ req'[r].at # "opened" /\ file' = file => Shown' = Shown
         /\ req'[r].at = "opened" => Shown'[req'[r].item] = Before(req'[r])
         /\ Goes(r) /\ req[r].op # "list" /\ req'[r].at = "done" => Shown'[req'[r].item] = file'[req'[r].item]
<1>1. \A p \in Requests \ {r} : req'[p] = req[p] BY DEF Goes, Comes, Only
<1>2. service' = service BY DEF Goes, Comes, Only
<1>3. req'[r].item \in Items BY DEF Inv, Shape
<1>4. Shown = [i \in Items |-> Shown[i]] /\ Shown' = [i \in Items |-> Shown'[i]] BY DEF Shown
<1>5. ASSUME NEW i \in Items, Opened(i)' = Opened(i), r \notin Opened(i), file'[i] = file[i]
      PROVE  Shown'[i] = Shown[i]
  <2>1. CASE Opened(i) = {} BY <1>5, <2>1 DEF Shown
  <2>2. CASE Opened(i) # {}
    <3> DEFINE c == CHOOSE x \in Opened(i) : TRUE
    <3>1. c \in Opened(i) BY <2>2
    <3>2. c \in Requests \ {r} BY <3>1, <1>5 DEF Opened
    <3>3. req'[c] = req[c] BY <3>2, <1>1
    <3>4. Shown[i] = Before(req[c]) BY <2>2 DEF Shown
    <3>5. Shown'[i] = Before(req'[c])
      <4>1. Opened(i)' = Opened(i) /\ Opened(i) # {} BY <1>5, <2>2
      <4>2. (CHOOSE x \in Opened(i)' : TRUE) = c BY <4>1
      <4>3. Shown'[i] = Before(req'[CHOOSE x \in Opened(i)' : TRUE]) BY <4>1, <1>2 DEF Shown, Before
      <4> QED BY <4>2, <4>3
    <3> QED BY <3>3, <3>4, <3>5
  <2> QED BY <2>1, <2>2
<1>6. ASSUME NEW i \in Items, i # req'[r].item PROVE Shown'[i] = Shown[i]
  <2>1. file'[i] = file[i]
    BY <1>6 DEF Goes, Comes, Changes, Inv
  <2>2. r \notin Opened(i) BY <1>6 DEF Goes, Comes, Opened, At
  <2>3. Opened(i)' = Opened(i) BY <1>1, <1>6, <2>2 DEF Opened, At
  <2> QED BY <2>1, <2>2, <2>3, <1>5
<1>7. ASSUME req[r].at # "opened", req'[r].at # "opened", file' = file PROVE Shown' = Shown
  <2>1. ASSUME NEW i \in Items PROVE r \notin Opened(i) /\ Opened(i)' = Opened(i)
    BY <1>1, <1>7 DEF Opened, At
  <2>2. \A i \in Items : Shown'[i] = Shown[i] BY <2>1, <1>5, <1>7
  <2> QED BY <2>2, <1>4
<1>8. ASSUME NEW p \in Requests \ {r} PROVE ~(req'[p].at = "opened" /\ req'[p].item = req'[r].item) \/ req'[r].op = "list"
  <2>1. ASSUME p \in Active, req'[r].op # "list" PROVE req[p].item # req'[r].item
    BY <2>1 DEF Goes, Comes, Inv, Alone
  <2> QED BY <2>1, <1>1 DEF Active
<1>9. ASSUME req'[r].at = "opened" PROVE Shown'[req'[r].item] = Before(req'[r])
  <2>1. r \in Active' /\ req'[r].op # "list"
    BY <1>9 DEF Active, Inv, Progress, Creating, Listing, Working
  <2> DEFINE open == Opened(req[r].item)'
  <2>2. open = {r} BY <1>8, <1>9, <2>1 DEF Opened, At
  <2>3. open # {} /\ (CHOOSE x \in open : TRUE) = r
    <3>1. (CHOOSE x \in {r} : TRUE) = r OBVIOUS
    <3> QED BY <2>2, <3>1
  <2>4. Shown'[req'[r].item] = Before(req'[CHOOSE x \in open : TRUE])
    BY <2>3, <1>2, <1>3 DEF Shown, Before
  <2> QED BY <2>3, <2>4
<1>10. ASSUME Goes(r), req[r].op # "list", req'[r].at = "done" PROVE Shown'[req'[r].item] = file'[req'[r].item]
  <2>1. req'[r].op # "list" BY <1>10 DEF Goes
  <2>2. Opened(req[r].item)' = {} BY <1>8, <1>10, <2>1 DEF Opened, At
  <2> QED BY <2>2, <1>3 DEF Shown
<1> QED BY <1>6, <1>7, <1>9, <1>10

-----------------------------------------------------------------------------
(* A step of a request is a step of the registry, or one that it does not see. *)
LEMMA Under ==
  ASSUME Inv, Inv', apart, apart', NEW r \in Requests, Goes(r)
  PROVE  /\ Promise!Due(r) /\ Asked[r].op = req[r].op /\ Asked[r].item = req[r].item
         /\ Asked' = Asked /\ Fallen' = Fallen /\ Told' = [Told EXCEPT ![r] = req'[r].answer]
<1>1. /\ r \in Active /\ req'[r].item = req[r].item /\ req'[r].op = req[r].op /\ crashes' = crashes
      /\ \A p \in Requests \ {r} : req'[p] = req[p]
  BY DEF Goes, Only
<1>2. req[r].at # "idle" /\ req'[r].at # "idle" BY DEF Goes, Active
<1>3. Asked[r] = [op |-> req[r].op, item |-> req[r].item] BY <1>2 DEF Asked, At
<1>4. Asked[r] # Nobody
  BY <1>1, <1>3, Known, Names
<1>5. Told[r] = Pending BY <1>1, Known DEF Told
<1>6. Asked' = Asked BY <1>1, <1>2 DEF Asked, At
<1>7. Told' = [Told EXCEPT ![r] = req'[r].answer] BY <1>1 DEF Told
<1>8. Fallen' = Fallen BY <1>1 DEF Fallen
<1> QED BY <1>3, <1>4, <1>5, <1>6, <1>7, <1>8 DEF Promise!Due

Unseen == Shown' = Shown /\ Asked' = Asked /\ Told' = Told /\ Fallen' = Fallen

LEMMA Quiet ==
  ASSUME Inv, Inv', apart, apart', NEW r \in Requests, Goes(r), Shown' = Shown, req'[r].answer = Pending
  PROVE  Unseen
<1>1. Told[r] = Pending BY Under DEF Promise!Due
<1>2. Told' = [Told EXCEPT ![r] = Pending] BY Under
<1>3. Told = [p \in Requests |-> Told[p]] BY DEF Told
<1>4. Told' = Told BY <1>1, <1>2, <1>3
<1> QED BY <1>4, Under DEF Unseen

LEMMA Served ==
  ASSUME Inv, Inv', apart, apart', NEW r \in Requests, Goes(r), Promise!Serve(r)
  PROVE  Promise!Next
<1>1. Promise!Due(r) /\ Asked' = Asked /\ Fallen' = Fallen BY Under
<1> QED BY <1>1 DEF Promise!Next

LEMMA BeginMaps ==
  ASSUME Inv, apart, NEW r \in Requests, Begin(r)
  PROVE  Promise!Next
<1>1. Comes(r) /\ req'[r].at = "begun" /\ req'[r].answer = Pending /\ Inv' BY BeginKeeps
<1>2. /\ apart' /\ file' = file /\ crashes' = crashes /\ service' = service /\ req[r].at = "idle"
      /\ \A p \in Requests \ {r} : req'[p] = req[p]
  BY <1>1 DEF Comes, Only, At
<1>3. Shown' = Shown BY <1>1, <1>2, ShownNext
<1>4. Asked[r] = Nobody BY <1>2 DEF Asked, At
<1>5. Asked'[r] = [op |-> req'[r].op, item |-> req'[r].item] BY <1>1, <1>2 DEF Asked, At
<1>6. service \in DOMAIN Ops /\ req'[r].op \in Ops[service] /\ req'[r].item \in Items BY <1>1, <1>2 DEF Inv, Shape
<1>7. Asked'[r] \in Asks BY <1>5, <1>6 DEF Asks
<1>8. Asked' = [Asked EXCEPT ![r] = Asked'[r]] BY <1>2 DEF Asked, At
<1>9. req[r].answer = Pending BY <1>2 DEF Inv, Shape, Idle
<1>10. Told' = Told BY <1>1, <1>2, <1>9 DEF Told
<1>11. Fallen' = Fallen BY <1>2 DEF Fallen
<1> QED BY <1>3, <1>4, <1>7, <1>8, <1>10, <1>11 DEF Promise!Next, Promise!Ask

LEMMA CheckMaps ==
  ASSUME Inv, apart, NEW r \in Requests, Check(r)
  PROVE  Promise!Next \/ Unseen
<1> DEFINE q == req[r]
           a == req'[r].answer
<1>1. /\ Goes(r) /\ Inv' /\ file' = file /\ q.at = "begun" /\ q.op \notin {"create", "list"}
      /\ \/ req'[r].at \in {"found", "read"} /\ a = Pending
         \/ /\ req'[r].at = "done" /\ file[q.item] = Absent /\ q.op # "record"
            /\ a = IF q.op = "history" THEN NoHistory ELSE NotFound
  BY CheckKeeps
<1>2. apart' /\ r \in Active BY <1>1 DEF Goes, Only
<1>3. Shown' = Shown BY <1>1, <1>2, ShownNext
<1>4. CASE a = Pending BY <1>1, <1>2, <1>3, <1>4, Quiet
<1>5. CASE a # Pending
  <2>1. Shown[q.item] = Absent BY <1>1, <1>2, <1>5, ShownOf DEF Base
  <2>2. /\ Asked[r].op = q.op /\ Asked[r].item = q.item /\ Told' = [Told EXCEPT ![r] = a]
    BY <1>1, <1>2, Under
  <2>3. CASE q.op = "history"
    <3>1. a = NoHistory /\ NoHistory # Absent /\ Absent # Torn BY <1>1, <1>5, <2>3, Names
    <3>2. Promise!Get(r, q.item)
      BY <1>3, <2>1, <2>2, <2>3, <3>1
      DEF Promise!Get, Promise!Exists, Promise!Now, Promise!Answer, Promise!Empty, NoHistory
    <3>3. Promise!Serve(r) BY <2>2, <3>2 DEF Promise!Serve
    <3> QED BY <3>3, <1>1, <1>2, Served
  <2>4. CASE q.op # "history"
    <3>1. a = NotFound /\ q.op \notin {"create", "list", "record", "history"} BY <1>1, <1>5, <2>4
    <3>2. Promise!Miss(r, q.item)
      BY <1>3, <2>1, <2>2, <3>1 DEF Promise!Miss, Promise!Exists, Promise!Now, Promise!Answer
    <3>3. Promise!Serve(r) BY <2>2, <3>2 DEF Promise!Serve
    <3> QED BY <3>3, <1>1, <1>2, Served
  <2> QED BY <2>3, <2>4
<1> QED BY <1>4, <1>5

LEMMA ReadMaps ==
  ASSUME Inv, apart, NEW r \in Requests, Read(r)
  PROVE  Promise!Next \/ Unseen
<1> DEFINE q == req[r]
           a == req'[r].answer
<1>1. /\ Goes(r) /\ Inv' /\ file' = file /\ q.at = "found" /\ q.op \notin {"create", "list", "delete"}
      /\ \/ req'[r].at \in {"begun", "read"} /\ a = Pending
         \/ req'[r].at = "done" /\ file[q.item] = Torn /\ a = Failed
         \/ req'[r].at = "done" /\ file[q.item] \in Docs /\ q.op \in {"get", "history"} /\ a = file[q.item]
  BY ReadKeeps
<1>2. apart' /\ r \in Active BY <1>1 DEF Goes, Only
<1>3. Shown' = Shown BY <1>1, <1>2, ShownNext
<1>4. CASE a = Pending BY <1>1, <1>2, <1>3, <1>4, Quiet
<1>5. Shown[q.item] = file[q.item] BY <1>1, <1>2, ShownOf DEF Base
<1>6. /\ Asked[r].op = q.op /\ Asked[r].item = q.item /\ Told' = [Told EXCEPT ![r] = a]
  BY <1>1, <1>2, Under
<1>7. CASE file[q.item] = Torn /\ a = Failed
  <2>1. Promise!Fail(r) BY <1>1, <1>3, <1>5, <1>6, <1>7 DEF Promise!Fail, Promise!Answer
  <2>2. Promise!Serve(r) BY <2>1 DEF Promise!Serve
  <2> QED BY <2>2, <1>1, <1>2, Served
<1>8. CASE file[q.item] \in Docs /\ q.op \in {"get", "history"} /\ a = file[q.item]
  <2>1. file[q.item] \notin {Absent, Torn} BY <1>8, Names
  <2>2. Promise!Get(r, q.item)
    BY <1>3, <1>5, <1>6, <1>8, <2>1 DEF Promise!Get, Promise!Exists, Promise!Now, Promise!Answer
  <2>3. Promise!Serve(r) BY <1>6, <2>2 DEF Promise!Serve
  <2> QED BY <2>3, <1>1, <1>2, Served
<1> QED BY <1>1, <1>4, <1>7, <1>8

LEMMA UnlinkMaps ==
  ASSUME Inv, apart, NEW r \in Requests, Unlink(r)
  PROVE  Promise!Next
<1> DEFINE i == req[r].item
<1>1. /\ Goes(r) /\ Inv' /\ file[i] # Absent /\ file' = [file EXCEPT ![i] = Absent]
      /\ req'[r].at = "done" /\ req'[r].answer = Absent
  BY UnlinkKeeps
<1>2. apart' /\ r \in Active /\ req'[r].item = i BY <1>1 DEF Goes, Only
<1>3. req[r].at = "found" /\ req[r].op = "delete" BY DEF Unlink, At
<1>4. i \in Items /\ DOMAIN file = Items BY <1>2, Known DEF Inv
<1>5. Shown[i] = file[i] BY <1>2, <1>3, ShownOf DEF Base
<1>6. Shown'[i] = Absent /\ \A j \in Items \ {i} : Shown'[j] = Shown[j]
  BY <1>1, <1>2, <1>3, <1>4, ShownNext
<1>7. Shown' = [Shown EXCEPT ![i] = Absent]
  <2>1. Shown = [j \in Items |-> Shown[j]] /\ Shown' = [j \in Items |-> Shown'[j]] BY DEF Shown
  <2> QED BY <2>1, <1>4, <1>6
<1>8. Asked[r].op = "delete" /\ Asked[r].item = i /\ Told' = [Told EXCEPT ![r] = Absent]
  BY <1>1, <1>2, <1>3, Under
<1>9. Promise!Delete(r, i)
  BY <1>1, <1>5, <1>7, <1>8 DEF Promise!Delete, Promise!Set, Promise!Answer
<1>10. Promise!Serve(r) BY <1>8, <1>9 DEF Promise!Serve
<1> QED BY <1>1, <1>2, <1>10, Served

LEMMA OpenMaps ==
  ASSUME Inv, apart, NEW r \in Requests, OpenFile(r)
  PROVE  Unseen
<1> DEFINE i == req[r].item
<1>1. /\ Goes(r) /\ Inv' /\ req'[r].at = "opened" /\ req'[r].answer = Pending /\ Before(req'[r]) = file[i]
  BY OpenKeeps
<1>2. apart' /\ r \in Active /\ req'[r].item = i BY <1>1 DEF Goes, Only
<1>3. req[r].at # "opened" /\ i \in Items BY <1>2, Known DEF OpenFile, At
<1>4. req[r].op # "list" BY <1>2, Known DEF OpenFile, At, Progress, Creating, Listing, Working
<1>5. Shown[i] = file[i] BY <1>2, <1>3, <1>4, ShownOf DEF Base
<1>6. Shown'[i] = file[i] /\ \A j \in Items \ {i} : Shown'[j] = Shown[j] BY <1>1, <1>2, ShownNext
<1>7. Shown' = Shown
  <2>1. Shown = [j \in Items |-> Shown[j]] /\ Shown' = [j \in Items |-> Shown'[j]] BY DEF Shown
  <2> QED BY <2>1, <1>5, <1>6
<1> QED BY <1>1, <1>2, <1>7, Quiet

(* The record that is written is the one that the registry makes of its own.  *)
LEMMA WriteMaps ==
  ASSUME Inv, apart, NEW r \in Requests, Write(r)
  PROVE  Promise!Next
<1> DEFINE i == req[r].item
           q == req[r]
           d == ToWrite(r)
<1>1. /\ r \in Active /\ q.at = "opened" /\ Goes(r) /\ Inv' /\ file' = [file EXCEPT ![i] = d]
      /\ req'[r].at = "done" /\ req'[r].answer = d
  BY WriteKeeps
<1>2. apart' /\ req'[r].item = i BY <1>1 DEF Goes, Only
<1>k. i \in Items /\ Progress(q) /\ service \in DOMAIN Ops /\ q.op \in Ops[service] /\ DOMAIN file = Items
  BY <1>1, Known DEF Inv
<1>3. q.op # "list" BY <1>1, <1>k DEF Progress, Creating, Listing, Working
<1>4. Shown[i] = Base(q) BY <1>1, <1>3, ShownOf
<1>5. Shown'[i] = d /\ \A j \in Items \ {i} : Shown'[j] = Shown[j]
  BY <1>1, <1>2, <1>3, <1>k, ShownNext
<1>6. Shown' = [Shown EXCEPT ![i] = d]
  <2>1. Shown = [j \in Items |-> Shown[j]] /\ Shown' = [j \in Items |-> Shown'[j]] BY DEF Shown
  <2> QED BY <2>1, <1>k, <1>5
<1>7. Asked[r].op = q.op /\ Asked[r].item = i /\ Told' = [Told EXCEPT ![r] = d]
  BY <1>1, <1>2, Under
<1>8. CASE q.op = "create"
  <2>1. Creating(q) BY <1>8, <1>k DEF Progress, Listing, Working
  <2>2. Shown[i] = Absent BY <2>1, <1>4 DEF Creating
  <2>3. d = [Promise!Empty EXCEPT !.details = r] BY <1>8 DEF ToWrite, NewRecord, Promise!Empty
  <2>4. Promise!Create(r, i)
    BY <2>2, <2>3, <1>5, <1>6, <1>7, <1>8 DEF Promise!Create, Promise!Set, Promise!Answer
  <2>5. Promise!Serve(r) BY <2>4, <1>7 DEF Promise!Serve
  <2> QED BY <2>5, <1>1, <1>2, Served
<1>9. CASE q.op # "create"
  <2>1. Working(q) BY <1>1, <1>3, <1>9, <1>k DEF Progress, Listing, Creating
  <2>2. q.op \in Writing /\ d = Applied(r, q.data) BY <2>1, <1>1, <1>9 DEF Working, ToWrite
  <2>3. Promise!Now(r, i) = q.data
    <3>1. CASE q.data = Base(q) /\ q.data \in Docs
      BY <3>1, <1>4, Names DEF Promise!Now
    <3>2. CASE q.data = NoHistory /\ Base(q) = Absent /\ q.op = "record"
      BY <3>2, <1>4, <1>7 DEF Promise!Now, Promise!Empty, NoHistory
    <3> QED BY <3>1, <3>2, <2>1, <1>1 DEF Working
  <2>4. Shown[i] # Torn /\ Promise!Now(r, i) # Absent
    BY <2>1, <2>3, <1>1, <1>4, Names DEF Working
  <2>5. Promise!Exists(r, i)
    <3>1. q.op = "rollback" => Shown[i].log # <<>>
      BY <2>1, <1>1, <1>4 DEF Working
    <3> QED BY <3>1, <2>4, <1>7 DEF Promise!Exists
  <2>6. Promise!Changed(r, q.data) = d
    <3>1. q.op = "rollback" => q.target = q.data.log[1].of BY <2>1, <1>1 DEF Working
    <3> QED BY <3>1, <2>2, <1>7 DEF Promise!Changed, Promise!Entry, Applied, Entry, Writing
  <2>7. Promise!Change(r, i)
    BY <2>2, <2>3, <2>4, <2>5, <2>6, <1>6, <1>7 DEF Promise!Change, Promise!Changes, Promise!Set, Promise!Answer, Writing
  <2>8. Promise!Serve(r) BY <2>7, <1>7 DEF Promise!Serve
  <2> QED BY <2>8, <1>1, <1>2, Served
<1> QED BY <1>8, <1>9

LEMMA GlobMaps ==
  ASSUME Inv, apart, NEW r \in Requests, Glob(r)
  PROVE  Unseen
<1>1. Goes(r) /\ Inv' /\ req'[r].at = "listing" /\ req'[r].answer = Pending BY GlobKeeps
<1>a. At(r, "begun") /\ Reading BY DEF Glob
<1>2. apart' /\ file' = file /\ req[r].at # "opened" BY <1>1, <1>a DEF Goes, Only, Reading, At
<1>3. Shown' = Shown BY <1>1, <1>2, ShownNext
<1> QED BY <1>1, <1>2, <1>3, Quiet

LEMMA ReadNextMaps ==
  ASSUME Inv, apart, NEW r \in Requests, ReadNext(r)
  PROVE  Promise!Next \/ Unseen
<1> DEFINE a == req'[r].answer
<1>1. /\ Goes(r) /\ Inv' /\ file' = file /\ req[r].op = "list" /\ req[r].at = "listing"
      /\ \/ req'[r].at = "done" /\ (\A i \in Items : file[i] # Torn) /\ a = [i \in Items |-> file[i]]
         \/ req'[r].at = "done" /\ a = Failed /\ \E i \in Items : file[i] = Torn
         \/ req'[r].at = "listing" /\ a = Pending
  BY ReadNextKeeps
<1>2. apart' /\ r \in Active BY <1>1 DEF Goes, Only
<1>3. Shown' = Shown BY <1>1, <1>2, ShownNext
<1>4. \A i \in Items : Shown[i] = file[i] BY <1>1, <1>2, ShownOf
<1>5. Asked[r].op = "list" /\ Told' = [Told EXCEPT ![r] = a] BY <1>1, <1>2, Under
<1>6. CASE (\A i \in Items : file[i] # Torn) /\ a = [i \in Items |-> file[i]]
  <2>1. Shown = [i \in Items |-> Shown[i]] BY DEF Shown
  <2>2. a = Shown BY <1>4, <1>6, <2>1
  <2>3. Promise!List(r) BY <1>3, <1>4, <1>5, <1>6, <2>2 DEF Promise!List, Promise!Answer
  <2>4. Promise!Serve(r) BY <2>3 DEF Promise!Serve
  <2> QED BY <2>4, <1>1, <1>2, Served
<1>7. CASE a = Failed /\ \E i \in Items : file[i] = Torn
  <2>1. Promise!Fail(r) BY <1>3, <1>4, <1>5, <1>7 DEF Promise!Fail, Promise!Answer
  <2>2. Promise!Serve(r) BY <2>1 DEF Promise!Serve
  <2> QED BY <2>2, <1>1, <1>2, Served
<1>8. CASE a = Pending BY <1>1, <1>2, <1>3, <1>8, Quiet
<1> QED BY <1>1, <1>6, <1>7, <1>8

(* What was open when the process went down is torn; all else is as it was.   *)
LEMMA CrashMaps ==
  ASSUME Inv, apart, Crash
  PROVE  Promise!Next
<1>1. /\ Inv' /\ Active' = {}
      /\ \A r \in Requests : /\ req'[r].op = req[r].op /\ req'[r].item = req[r].item
                             /\ (req'[r].at = "idle" <=> req[r].at = "idle")
                             /\ req'[r].answer = IF r \in Active THEN Lost ELSE req[r].answer
  BY CrashKeeps
<1>2. apart' = apart /\ file' = file /\ crashes' = crashes + 1 BY DEF Crash
<1>3. Asked' = Asked BY <1>1, <1>2 DEF Asked, At
<1>4. Fallen' = Fallen + 1 BY <1>2 DEF Fallen
<1>5. \A i \in Items : Opened(i)' = {} BY <1>1 DEF Opened, At, Active
<1>6. \A i \in Items : Shown'[i] = file[i] BY <1>2, <1>5 DEF Shown
<1>7. ASSUME NEW i \in Items PROVE Shown'[i] \in {Shown[i], Torn}
  <2>1. CASE Opened(i) = {} BY <2>1, <1>6 DEF Shown
  <2>2. CASE Opened(i) # {}
    <3>1. PICK p \in Requests : req[p].at = "opened" /\ req[p].item = i BY <2>2 DEF Opened, At
    <3>2. p \in Active BY <3>1 DEF Active
    <3>3. file[i] = Torn BY <3>1, <3>2 DEF Inv, Progress
    <3> QED BY <3>3, <1>6
  <2> QED BY <2>1, <2>2
<1>8. Shown' = [i \in Items |-> Shown'[i]] BY DEF Shown
<1>9. Shown' \in {d \in [Items -> {Shown[i] : i \in Items} \cup {Torn}] : \A i \in Items : d[i] \in {Shown[i], Torn}}
  BY <1>7, <1>8
<1>10. Told' = [r \in Requests |-> IF Asked[r] # Nobody /\ Told[r] = Pending THEN Lost ELSE Told[r]]
  <2>1. ASSUME NEW r \in Requests
        PROVE  r \in Active <=> Asked[r] # Nobody /\ Told[r] = Pending
    <3>1. CASE r \in Active
      <4>1. Asked[r] = [op |-> req[r].op, item |-> req[r].item] BY <3>1 DEF Asked, At, Active
      <4>2. Asked[r] # Nobody BY <4>1, <3>1, Known, Names
      <4>3. Told[r] = Pending BY <3>1, Known DEF Told
      <4> QED BY <3>1, <4>2, <4>3
    <3>2. CASE req[r].at = "idle" BY <3>2 DEF Asked, At, Active
    <3>3. CASE req[r].at = "done"
      <4>1. req[r].answer # Pending BY <3>3 DEF Inv, Shape
      <4> QED BY <4>1, <3>3 DEF Told, Active
    <3> QED BY <3>1, <3>2, <3>3 DEF Active
  <2>2. \A r \in Requests : Told'[r] = IF r \in Active THEN Lost ELSE Told[r]
    BY <1>1, <1>2 DEF Told
  <2>3. Told' = [r \in Requests |-> Told'[r]] BY DEF Told
  <2> QED BY <2>1, <2>2, <2>3
<1> QED BY <1>3, <1>4, <1>9, <1>10 DEF Promise!Next, Promise!Crash

-----------------------------------------------------------------------------
LEMMA Begins ==
  ASSUME Init
  PROVE  IInv /\ Promise!Init
<1> USE DEF Init
<1>1. \A r \in Requests : req[r] = Idle OBVIOUS
<1>2. Active = {} /\ \A i \in Items : Opened(i) = {} BY <1>1 DEF Active, Opened, At, Idle
<1>3. NewRecord(0) = NoHistory /\ NewRecord(0) = Promise!Empty BY DEF NewRecord, NoHistory, Promise!Empty
<1>4. service # "versions" => NewRecord(0) \in Docs
  <2>1. \A k \in DOMAIN NewRecord(0).log : NewRecord(0).log[k].no = k BY DEF NewRecord
  <2> QED BY <1>3, <2>1, Names DEF Docs
<1>5. \A i \in Items : file[i] = Absent \/ (service # "versions" /\ file[i] = NewRecord(0)) OBVIOUS
<1>6. Files BY <1>4, <1>5 DEF Files
<1>7. \A r \in Requests : Shape(req[r])
  <2>1. Framed(Idle) BY DEF Framed, Idle
  <2>2. Shape(Idle) BY <2>1, RecordsAssumption DEF Shape, Idle
  <2> QED BY <1>1, <2>2
<1>8. IInv BY <1>2, <1>6, <1>7 DEF IInv, Inv
<1>9. \A i \in Items : Shown[i] \in {Absent, Promise!Empty} BY <1>2, <1>3, <1>5 DEF Shown
<1>10. Shown \in [Items -> {Absent, Promise!Empty}]
  <2>1. Shown = [i \in Items |-> Shown[i]] BY DEF Shown
  <2> QED BY <1>9, <2>1
<1>11. Asked = [r \in Requests |-> Nobody] BY <1>1 DEF Asked, At, Idle
<1>12. Told = [r \in Requests |-> Pending] BY <1>1 DEF Told, Idle
<1>13. Fallen = 0 BY DEF Fallen
<1> QED BY <1>8, <1>10, <1>11, <1>12, <1>13 DEF Promise!Init

LEMMA Stutter ==
  ASSUME IInv, UNCHANGED vars
  PROVE  IInv' /\ Unseen
<1>1. service' = service /\ apart' = apart /\ file' = file /\ req' = req /\ crashes' = crashes
  BY DEF vars
<1>2. Shown' = Shown BY <1>1 DEF Shown, Opened, At, Before
<1>3. Asked' = Asked /\ Told' = Told /\ Fallen' = Fallen BY <1>1 DEF Asked, Told, Fallen, At
<1>4. IInv' BY <1>1 DEF IInv, Inv, Files, Docs, Active, Alone, Progress, Creating, Listing, Working, Base, Before, Shape
<1> QED BY <1>2, <1>3, <1>4 DEF Unseen

LEMMA ApartStays ==
  ASSUME Next
  PROVE  apart' = apart
BY DEF Next, Handle, Begin, Check, Read, Unlink, OpenFile, Write, Glob, ReadNext, Crash, Reading

LEMMA Overlapping ==
  ASSUME apart = FALSE, apart' = FALSE
  PROVE  IInv' /\ Unseen
<1>1. Shown' = Shown BY DEF Shown
<1>2. Asked' = Asked BY DEF Asked
<1>3. Told' = Told /\ Fallen' = Fallen BY DEF Told, Fallen
<1> QED BY <1>1, <1>2, <1>3 DEF Unseen, IInv

LEMMA HandleKeepsAndMaps ==
  ASSUME Inv, apart, NEW r \in Requests, Handle(r)
  PROVE  Inv' /\ (Promise!Next \/ Unseen)
<1>1. CASE Begin(r) BY <1>1, BeginKeeps, BeginMaps
<1>2. CASE Check(r) BY <1>2, CheckKeeps, CheckMaps
<1>3. CASE Read(r) BY <1>3, ReadKeeps, ReadMaps
<1>4. CASE Unlink(r) BY <1>4, UnlinkKeeps, UnlinkMaps
<1>5. CASE OpenFile(r) BY <1>5, OpenKeeps, OpenMaps
<1>6. CASE Write(r) BY <1>6, WriteKeeps, WriteMaps
<1>7. CASE Glob(r) BY <1>7, GlobKeeps, GlobMaps
<1>8. CASE ReadNext(r) BY <1>8, ReadNextKeeps, ReadNextMaps
<1> QED BY <1>1, <1>2, <1>3, <1>4, <1>5, <1>6, <1>7, <1>8 DEF Handle

LEMMA StepKeepsAndMaps ==
  ASSUME IInv, [Next]_vars
  PROVE  IInv' /\ (Promise!Next \/ Unseen)
<1>1. CASE UNCHANGED vars BY <1>1, Stutter
<1>2. CASE Next
  <2>1. apart' = apart BY <1>2, ApartStays
  <2>2. CASE apart = FALSE BY <2>1, <2>2, Overlapping
  <2>3. CASE apart
    <3>1. Inv BY <2>3 DEF IInv
    <3>2. Inv' /\ (Promise!Next \/ Unseen) BY <1>2, <2>3, <3>1, HandleKeepsAndMaps, CrashKeeps, CrashMaps DEF Next
    <3> QED BY <3>2, <2>1, <2>3 DEF IInv
  <2> QED BY <2>2, <2>3 DEF IInv
<1> QED BY <1>1, <1>2

(* Wherever no two requests for a record overlap, crashes included, the       *)
(* services implement the registry: each request takes effect at one moment   *)
(* between its coming and its answer, on the record as it is then, or fails   *)
(* because a crash had left a record unreadable (case_service,                *)
(* quarantine_service, version_service, submissions).                         *)
THEOREM ServicesKeepPromise == Spec => KeepsPromise
<1>1. Init => IInv /\ Promise!Init BY Begins
<1>2. IInv /\ [Next]_vars => IInv' /\ [Promise!Next]_(Promise!vars)
  BY StepKeepsAndMaps DEF Unseen, Promise!vars
<1> QED BY <1>1, <1>2, PTL DEF Spec, KeepsPromise, Promise!Spec

-----------------------------------------------------------------------------
(* Where requests do overlap: the entry that the log in an answer ends with   *)
(* is in record d, at its number.                                             *)
LogEntry == [by : Nat, no : Nat, of : Nat]
Stands(told, d) == /\ told \in Seq(LogEntry) /\ told # <<>>
                   /\ d \in Record /\ Len(told) <= Len(d.log) /\ d.log[Len(told)] = told[Len(told)]
Counted(r) == req[r].at = "done" /\ Logs(r) /\ req[r].item \notin removed /\ r \notin undone

(* What a request under way has in hand.                                      *)
Rewriting(q) == /\ q.op \in Writing /\ q.data \in Record
                /\ q.op = "rollback" => q.target \in Nat
Holding(q) == /\ Framed(q) /\ q.item \in Items /\ q.target \in Nat \cup {Nobody}
              /\ q.at = "idle" => q = Idle
              /\ q.at # "idle" => q.op \in Ops[service]
              /\ q.at = "read" => Rewriting(q)
              /\ q.at \in {"opened", "detached"} => q.op = "create" \/ Rewriting(q)
              /\ q.at = "detached" => q.item \in removed
              /\ q.at = "listing" => q.op = "list"
              /\ q.at = "found" => q.op \notin {"create", "list"}
Holdings == /\ service \in DOMAIN Ops /\ DOMAIN file = Items
            /\ req = [r \in Requests |-> req[r]] /\ since = [r \in Requests |-> since[r]]
            /\ \A i \in Items : file[i] \in Record \cup {Absent, Torn}
            /\ \A r \in Requests : Holding(req[r])

(* The file of a new record is not there, and nobody else is about to write it. *)
New(q) == q.at = "begun" /\ q.op = "create"
Waiting(q) == q.at \in {"idle", "begun", "listing", "done"} /\ ~New(q)
Fresh == \A r \in Requests : New(req[r]) =>
           /\ file[req[r].item] = Absent
           /\ \A q \in Requests \ {r} : req[q].item = req[r].item => Waiting(req[q])

(* An entry that counts is in the record, and in what any request is about to *)
(* write that read the record after the entry was written.                    *)
Holds(q) == q.at \in {"read", "opened"}
Lasting == \A r \in Requests : Counted(r) =>
             /\ file[req[r].item] = Torn \/ Stands(req[r].answer.log, file[req[r].item])
             /\ \A q \in Requests : Holds(req[q]) /\ req[q].item = req[r].item /\ r \notin since[q]
                                      => Stands(req[r].answer.log, ToWrite(q))
HistoryInv == Holdings /\ Fresh /\ Lasting

-----------------------------------------------------------------------------
(* What a handler makes of a record is that record, with an entry more if it  *)
(* is one of those that log.                                                  *)
Grown(d, new) == new \in Record /\ \E e \in LogEntry : new.log = Append(d.log, e)
LEMMA AppliedGrows ==
  ASSUME NEW r \in Requests, NEW d \in Record, req[r].op \in Writing,
         req[r].op = "rollback" => req[r].target \in Nat
  PROVE  \/ Applied(r, d) \in Record /\ Applied(r, d).log = d.log
            /\ req[r].op \notin {"annotate", "review", "retry", "record", "rollback"}
         \/ Grown(d, Applied(r, d))
<1>1. d = [status |-> d.status, details |-> d.details, log |-> d.log]
      /\ d.status \in Nat /\ d.details \in Nat /\ d.log \in Seq(LogEntry)
  BY DEF Record, LogEntry
<1>2. r \in Nat BY RecordsAssumption
<1>3. Entry(r, d.log) \in LogEntry BY <1>1, <1>2 DEF Entry, LogEntry
<1>4. ASSUME NEW n \in Nat PROVE [Entry(r, d.log) EXCEPT !.of = n] \in LogEntry
  BY <1>1, <1>2 DEF Entry, LogEntry
<1>5. ASSUME NEW e \in LogEntry, NEW s \in Nat
      PROVE  Grown(d, [status |-> s, details |-> d.details, log |-> Append(d.log, e)])
  <2>1. Append(d.log, e) \in Seq(LogEntry) BY <1>1
  <2> DEFINE grown == Append(d.log, e)
  <2> HIDE DEF grown
  <2>2. grown \in Seq(LogEntry) BY <2>1 DEF grown
  <2>3. [status |-> s, details |-> d.details, log |-> grown] \in Record BY <1>1, <2>2 DEF Record, LogEntry
  <2>4. [status |-> s, details |-> d.details, log |-> grown].log = Append(d.log, e) BY DEF grown
  <2>5. Grown(d, [status |-> s, details |-> d.details, log |-> grown]) BY <2>3, <2>4 DEF Grown
  <2> QED BY <2>5 DEF grown
<1>6. CASE req[r].op \in {"update", "recommend", "status", "discard", "override"}
  <2>1. ASSUME NEW s \in Nat, NEW t \in Nat
        PROVE  [status |-> s, details |-> t, log |-> d.log] \in Record
    BY <1>1 DEF Record, LogEntry
  <2>2. CASE req[r].op \in {"update", "recommend"} BY <2>2, <1>1, <1>2, <2>1 DEF Applied
  <2>3. CASE req[r].op \in {"status", "discard"} BY <2>3, <1>1, <1>2, <2>1 DEF Applied
  <2>4. CASE req[r].op = "override" BY <2>4, <1>1, <1>2, <2>1 DEF Applied
  <2> QED BY <1>6, <2>2, <2>3, <2>4
<1>7. CASE req[r].op \in {"review", "retry"}
  <2>1. Applied(r, d) = [status |-> r, details |-> d.details, log |-> Append(d.log, Entry(r, d.log))]
    BY <1>7, <1>1 DEF Applied
  <2> QED BY <2>1, <1>2, <1>3, <1>5
<1>8. CASE req[r].op \in {"annotate", "record"}
  <2>1. Applied(r, d) = [status |-> d.status, details |-> d.details, log |-> Append(d.log, Entry(r, d.log))]
    BY <1>8, <1>1 DEF Applied
  <2> QED BY <2>1, <1>1, <1>3, <1>5
<1>9. CASE req[r].op = "rollback"
  <2>1. Applied(r, d) = [status |-> d.status, details |-> d.details,
                         log |-> Append(d.log, [Entry(r, d.log) EXCEPT !.of = req[r].target])]
    BY <1>9, <1>1 DEF Applied
  <2> QED BY <2>1, <1>1, <1>4, <1>5, <1>9
<1> QED BY <1>6, <1>7, <1>8, <1>9 DEF Writing

LEMMA GrownLog ==
  ASSUME NEW d \in Record, NEW new, Grown(d, new)
  PROVE  /\ Len(new.log) = Len(d.log) + 1 /\ Len(d.log) \in Nat
         /\ \A k \in 1..Len(d.log) : new.log[k] = d.log[k]
<1>1. d.log \in Seq(LogEntry) BY DEF Record, LogEntry
<1>2. PICK e \in LogEntry : new.log = Append(d.log, e) BY DEF Grown
<1> QED BY <1>1, <1>2

(* So an entry that stands in a record stands in what is made of it.          *)
LEMMA StandsInApplied ==
  ASSUME NEW r \in Requests, NEW d, NEW told, Stands(told, d), req[r].op \in Writing,
         req[r].op = "rollback" => req[r].target \in Nat
  PROVE  Stands(told, Applied(r, d))
<1>1. d \in Record /\ told \in Seq(LogEntry) /\ told # <<>> /\ Len(told) <= Len(d.log) /\ d.log[Len(told)] = told[Len(told)]
  BY DEF Stands
<1>2. Len(told) \in Nat \ {0} BY <1>1
<1>3. CASE Applied(r, d) \in Record /\ Applied(r, d).log = d.log BY <1>1, <1>3 DEF Stands
<1>4. CASE Grown(d, Applied(r, d))
  <2>1. /\ Len(Applied(r, d).log) = Len(d.log) + 1 /\ Len(d.log) \in Nat
        /\ \A k \in 1..Len(d.log) : Applied(r, d).log[k] = d.log[k]
    BY <1>1, <1>4, GrownLog
  <2>2. Len(told) \in 1..Len(d.log) BY <1>1, <1>2, <2>1
  <2>3. Applied(r, d) \in Record BY <1>4 DEF Grown
  <2> HIDE DEF Stands
  <2>4. Applied(r, d).log[Len(told)] = told[Len(told)] /\ Len(told) <= Len(Applied(r, d).log) BY <1>1, <1>2, <2>1, <2>2
  <2> QED BY <1>1, <2>3, <2>4 DEF Stands
<1> QED BY <1>1, <1>3, <1>4, AppliedGrows

(* The entry of a request stands in what it writes.                           *)
LEMMA OwnStands ==
  ASSUME NEW r \in Requests, Rewriting(req[r]),
         req[r].op \in {"annotate", "review", "retry", "record", "rollback"}
  PROVE  Stands(ToWrite(r).log, ToWrite(r))
<1>1. ToWrite(r) = Applied(r, req[r].data) BY DEF ToWrite
<1>2. Grown(req[r].data, Applied(r, req[r].data)) /\ req[r].data \in Record BY AppliedGrows DEF Rewriting
<1>3. /\ Len(ToWrite(r).log) = Len(req[r].data.log) + 1 /\ Len(req[r].data.log) \in Nat
      /\ ToWrite(r) \in Record
  BY <1>1, <1>2, GrownLog DEF Grown
<1>4. ToWrite(r).log \in Seq(LogEntry) BY <1>3 DEF Record, LogEntry
<1>5. ToWrite(r).log # <<>> BY <1>3, <1>4
<1> QED BY <1>3, <1>4, <1>5 DEF Stands

-----------------------------------------------------------------------------
(* A step of one request leaves the others as far as they were; those that    *)
(* have the file open may be told of what became of it.                       *)
Same(q, n) == \/ n = q
              \/ /\ q.at = "opened" /\ Framed(n) /\ (n.at = "opened" \/ (n.at = "detached" /\ n.item \in removed'))
                 /\ n.op = q.op /\ n.item = q.item /\ n.data = q.data /\ n.target = q.target /\ n.answer = q.answer
OneStep(r) == /\ \A p \in Requests \ {r} : Same(req[p], req'[p])
              /\ req' = [p \in Requests |-> req'[p]] /\ service' = service
              /\ file' = file \/ \E d \in Record \cup {Absent, Torn} : file' = [file EXCEPT ![req[r].item] = d]

LEMMA HistoryGrows ==
  ASSUME Holdings, History
  PROVE  /\ undone \subseteq undone' /\ removed \subseteq removed' /\ \A p \in Requests : since[p] \subseteq since'[p]
         /\ since' = [p \in Requests |-> since'[p]]
BY DEF History, Holdings

LEMMA HoldingsKept ==
  ASSUME Holdings, History, NEW r \in Requests, OneStep(r), Holding(req[r])'
  PROVE  Holdings'
<1>1. removed \subseteq removed' /\ since' = [p \in Requests |-> since'[p]] BY HistoryGrows
<1>2. DOMAIN file' = Items /\ \A i \in Items : file'[i] \in Record \cup {Absent, Torn}
  <2>1. CASE file' = file BY <2>1 DEF Holdings
  <2>2. CASE file' # file
    <3>1. PICK d \in Record \cup {Absent, Torn} : file' = [file EXCEPT ![req[r].item] = d] BY <2>2 DEF OneStep
    <3> QED BY <3>1 DEF Holdings
  <2> QED BY <2>1, <2>2
<1>3. ASSUME NEW p \in Requests \ {r} PROVE Holding(req[p])'
  <2>1. Holding(req[p]) /\ Same(req[p], req'[p]) /\ service' = service BY DEF Holdings, OneStep
  <2>2. CASE req'[p] = req[p] BY <2>1, <2>2, <1>1 DEF Holding, Framed, Rewriting
  <2>3. CASE req'[p] # req[p]
    <3>1. /\ req[p].at = "opened" /\ Framed(req'[p])
          /\ req'[p].at = "opened" \/ (req'[p].at = "detached" /\ req'[p].item \in removed')
          /\ req'[p].op = req[p].op /\ req'[p].item = req[p].item /\ req'[p].data = req[p].data
          /\ req'[p].target = req[p].target
      BY <2>1, <2>3 DEF Same
    <3>2. Rewriting(req[p]) => Rewriting(req[p])' BY <3>1 DEF Rewriting
    <3>3. req[p].op = "create" \/ Rewriting(req[p]) BY <2>1, <3>1 DEF Holding
    <3>4. req[p].item \in Items /\ req[p].target \in Nat \cup {Nobody} /\ req[p].op \in Ops[service]
      BY <2>1, <3>1 DEF Holding
    <3>5. Framed(req[p])' BY <3>1 DEF Framed
    <3> QED BY <2>1, <3>1, <3>2, <3>3, <3>4, <3>5 DEF Holding
  <2> QED BY <2>2, <2>3
<1>4. service' \in DOMAIN Ops /\ req' = [p \in Requests |-> req'[p]] BY DEF Holdings, OneStep
<1> QED BY <1>1, <1>2, <1>3, <1>4 DEF Holdings

(* Nobody comes to write a new record's file but the request that makes it.   *)
LEMMA FreshKept ==
  ASSUME Holdings, Fresh, NEW r \in Requests, OneStep(r), req'[r].item = req[r].item,
         ~New(req[r])', file' = file \/ ~Waiting(req[r]),
         Waiting(req[r])' \/ ~Waiting(req[r]) \/ file[req[r].item] # Absent \/ service = "versions"
  PROVE  Fresh'
<1> SUFFICES ASSUME NEW x \in Requests, New(req'[x])
             PROVE  /\ file'[req'[x].item] = Absent
                    /\ \A q \in Requests \ {x} : req'[q].item = req'[x].item => Waiting(req'[q])
  BY DEF Fresh, New, Waiting
<1>1. x # r /\ req'[x] = req[x] BY DEF OneStep, Same, New
<1>2. /\ file[req[x].item] = Absent
      /\ \A q \in Requests \ {x} : req[q].item = req[x].item => Waiting(req[q])
  BY <1>1 DEF Fresh
<1>3. service # "versions"
  <2>1. req[x].op = "create" /\ req[x].op \in Ops[service] /\ service \in DOMAIN Ops
    BY <1>1 DEF Holdings, Holding, New
  <2> QED BY <2>1, KindOf
<1>4. req[r].item = req[x].item => Waiting(req[r]) BY <1>1, <1>2
<1>5. file'[req'[x].item] = Absent
  <2>1. CASE file' = file BY <2>1, <1>1, <1>2
  <2>2. CASE file' # file
    <3>1. req[r].item # req[x].item BY <2>2, <1>4
    <3>2. req[x].item \in Items /\ DOMAIN file = Items BY DEF Holdings, Holding
    <3> QED BY <1>1, <1>2, <2>2, <3>1, <3>2 DEF OneStep
  <2> QED BY <2>1, <2>2
<1>6. ASSUME NEW q \in Requests \ {x}, req'[q].item = req'[x].item
      PROVE  Waiting(req'[q])
  <2>1. CASE q = r
    <3>1. Waiting(req[r]) /\ file[req[r].item] = Absent BY <2>1, <1>1, <1>2, <1>6
    <3> QED BY <2>1, <3>1, <1>3 DEF Waiting, New
  <2>2. CASE q # r
    <3>1. Same(req[q], req'[q]) BY <2>2 DEF OneStep
    <3>2. req'[q].item = req[q].item BY <3>1 DEF Same
    <3>3. Waiting(req[q]) BY <1>1, <1>2, <1>6, <3>2
    <3>4. req'[q] = req[q] BY <3>1, <3>3 DEF Same, Waiting
    <3> QED BY <3>3, <3>4
  <2> QED BY <2>1, <2>2
<1> QED BY <1>5, <1>6

(* The entries stand: those that counted before the step, and the one that    *)
(* the request has written.                                                   *)
LEMMA LastingKept ==
  ASSUME Holdings, Lasting, History, NEW r \in Requests, OneStep(r), req[r].at # "done",
         \A p \in Requests \ {r} : Counted(p) /\ Counted(p)' => file'[req[p].item] = Torn \/ Stands(req[p].answer.log, file'[req[p].item]),
         \A p \in Requests \ {r} : Counted(p) /\ Holds(req'[r]) /\ req'[r].item = req[p].item /\ p \notin since'[r]
           => Stands(req[p].answer.log, ToWrite(r)'),
         Counted(r)' => /\ file'[req'[r].item] = Torn \/ Stands(req'[r].answer.log, file'[req'[r].item])
                        /\ \A q \in Requests \ {r} : Holds(req[q]) /\ req[q].item = req'[r].item => r \in since'[q]
  PROVE  Lasting'
<1> SUFFICES ASSUME NEW p \in Requests, Counted(p)'
             PROVE  /\ file'[req'[p].item] = Torn \/ Stands(req'[p].answer.log, file'[req'[p].item])
                    /\ \A q \in Requests : Holds(req'[q]) /\ req'[q].item = req'[p].item /\ p \notin since'[q]
                                             => Stands(req'[p].answer.log, ToWrite(q)')
  BY DEF Lasting, Holds, Stands
<1>1. undone \subseteq undone' /\ removed \subseteq removed' /\ \A q \in Requests : since[q] \subseteq since'[q]
  BY HistoryGrows
<1>2. ASSUME NEW q \in Requests \ {r}, Holds(req'[q])
      PROVE  Holds(req[q]) /\ req'[q].item = req[q].item /\ ToWrite(q)' = ToWrite(q)
  <2>1. Same(req[q], req'[q]) BY DEF OneStep
  <2>2. /\ Holds(req[q]) /\ req'[q].item = req[q].item /\ req'[q].op = req[q].op /\ req'[q].data = req[q].data
        /\ req'[q].target = req[q].target
    BY <2>1, <1>2 DEF Same, Holds
  <2> QED BY <2>2 DEF ToWrite, Applied
<1>3. CASE p = r
  <2>1. ~Holds(req'[r]) BY <1>3 DEF Counted, Holds
  <2> QED BY <1>2, <1>3, <2>1
<1>4. CASE p # r
  <2>1. Same(req[p], req'[p]) /\ req'[p].at = "done" BY <1>4 DEF OneStep, Counted
  <2>2. req'[p] = req[p] BY <2>1 DEF Same
  <2>3. Counted(p) BY <2>2, <1>1 DEF Counted, Logs
  <2>4. ASSUME NEW q \in Requests, Holds(req'[q]), req'[q].item = req[p].item, p \notin since'[q]
        PROVE  Stands(req[p].answer.log, ToWrite(q)')
    <3>1. CASE q = r BY <3>1, <1>4, <2>3, <2>4
    <3>2. CASE q # r
      <4>1. Holds(req[q]) /\ req[q].item = req[p].item /\ p \notin since[q] /\ ToWrite(q)' = ToWrite(q)
        BY <1>1, <1>2, <2>4, <3>2
      <4> QED BY <4>1, <2>3 DEF Lasting
    <3> QED BY <3>1, <3>2
  <2> QED BY <1>4, <2>2, <2>3, <2>4
<1> QED BY <1>3, <1>4

LEMMA DoneFields ==
  ASSUME NEW p, NEW a, Framed(req[p]), req'[p] = [req[p] EXCEPT !.at = "done", !.answer = a]
  PROVE  /\ Framed(req'[p]) /\ req'[p].op = req[p].op /\ req'[p].item = req[p].item /\ req'[p].target = req[p].target
         /\ req'[p].at = "done" /\ req'[p].data = req[p].data /\ req'[p].answer = a
BY DEF Framed
LEMMA ReadFields ==
  ASSUME NEW p, NEW d, Framed(req[p]), req'[p] = [req[p] EXCEPT !.at = "read", !.data = d]
  PROVE  /\ Framed(req'[p]) /\ req'[p].op = req[p].op /\ req'[p].item = req[p].item /\ req'[p].target = req[p].target
         /\ req'[p].at = "read" /\ req'[p].data = d
BY DEF Framed
LEMMA AtFields ==
  ASSUME NEW p, NEW s, Framed(req[p]), req'[p] = [req[p] EXCEPT !.at = s]
  PROVE  /\ Framed(req'[p]) /\ req'[p].op = req[p].op /\ req'[p].item = req[p].item /\ req'[p].target = req[p].target
         /\ req'[p].at = s /\ req'[p].data = req[p].data /\ req'[p].answer = req[p].answer
BY DEF Framed
LEMMA MixedFields ==
  ASSUME NEW p, NEW m, Framed(req[p]), req'[p] = [req[p] EXCEPT !.mixed = m]
  PROVE  /\ Framed(req'[p]) /\ req'[p].op = req[p].op /\ req'[p].item = req[p].item /\ req'[p].target = req[p].target
         /\ req'[p].at = req[p].at /\ req'[p].data = req[p].data /\ req'[p].answer = req[p].answer
BY DEF Framed

(* A step that leaves the files, writes nothing and takes nothing to write.   *)
LEMMA StillStands ==
  ASSUME Holdings, Lasting, History, NEW r \in Requests, OneStep(r), file' = file,
         req[r].at # "done", ~Counted(r)', ~Holds(req'[r])
  PROVE  Lasting'
<1>1. \A p \in Requests \ {r} : Counted(p) => file'[req[p].item] = Torn \/ Stands(req[p].answer.log, file'[req[p].item])
  BY DEF Lasting
<1> QED BY <1>1, LastingKept

(* An answer that a handler gives without having written.                     *)
LEMMA Answered ==
  ASSUME HistoryInv, History, NEW r \in Requests, req[r].at \notin {"idle", "done"}, NEW a,
         req[r].op \in {"annotate", "review", "retry", "record", "rollback"} => a \in {NotFound, Failed},
         service' = service, file' = file, req' = [req EXCEPT ![r] = [@ EXCEPT !.at = "done", !.answer = a]]
  PROVE  HistoryInv'
<1>1. Holdings /\ Fresh /\ Lasting BY DEF HistoryInv
<1>2. Framed(req[r]) /\ Holding(req[r]) BY <1>1 DEF Holdings, Holding
<1>3. req'[r] = [req[r] EXCEPT !.at = "done", !.answer = a] BY <1>1 DEF Holdings
<1>o. \A p \in Requests \ {r} : req'[p] = req[p] BY <1>1 DEF Holdings
<1>4. /\ Framed(req'[r]) /\ req'[r].op = req[r].op /\ req'[r].item = req[r].item /\ req'[r].at = "done"
      /\ req'[r].target = req[r].target /\ req'[r].answer = a
  BY <1>2, <1>3, DoneFields
<1>5. Holding(req[r])'
  <2>1. Framed(req[r])' BY <1>4 DEF Framed
  <2> QED BY <1>2, <1>4, <2>1 DEF Holding
<1>6. OneStep(r) BY <1>1, <1>o DEF OneStep, Same, Holdings
<1>7. Holdings' BY <1>1, <1>5, <1>6, HoldingsKept
<1>8. Fresh' BY <1>1, <1>4, <1>6, FreshKept DEF New, Waiting
<1>9. ~Counted(r)' BY <1>4 DEF Counted, Logs
<1>10. Lasting' BY <1>1, <1>4, <1>6, <1>9, StillStands DEF Holds
<1> QED BY <1>7, <1>8, <1>10 DEF HistoryInv

(* A handler that goes on, without having written or read to write.           *)
LEMMA WentOn ==
  ASSUME HistoryInv, History, NEW r \in Requests, req[r].at \notin {"idle", "done"}, service' = service, file' = file,
         Holding(req[r])', \A p \in Requests \ {r} : req'[p] = req[p], req' = [p \in Requests |-> req'[p]],
         req'[r].item = req[r].item, req'[r].at \in {"begun", "found", "listing"}, ~New(req'[r]),
         req'[r].at = "found" => file[req[r].item] # Absent
  PROVE  HistoryInv'
<1>1. Holdings /\ Fresh /\ Lasting BY DEF HistoryInv
<1>2. OneStep(r) BY <1>1 DEF OneStep, Same, Holdings
<1>3. Holdings' BY <1>1, <1>2, HoldingsKept
<1>4. Fresh'
  <2>1. Waiting(req[r])' \/ file[req[r].item] # Absent BY DEF Waiting, New
  <2>2. ~New(req[r])' BY DEF New
  <2> QED BY <1>1, <1>2, <2>1, <2>2, FreshKept
<1>5. ~Counted(r)' /\ ~Holds(req'[r]) BY DEF Counted, Holds
<1>6. Lasting' BY <1>1, <1>2, <1>5, StillStands
<1> QED BY <1>3, <1>4, <1>6 DEF HistoryInv

(* A handler that has read what it will write anew: every entry that counts   *)
(* is in what it has read.                                                    *)
LEMMA Took ==
  ASSUME HistoryInv, History, NEW r \in Requests, req[r].at \notin {"idle", "done", "read", "opened"},
         req[r].op \in Writing, req[r].op = "rollback" => req[r].target # Nobody,
         service' = service, file' = file, NEW d \in Record,
         file[req[r].item] = d \/ (file[req[r].item] = Absent /\ service = "versions"),
         req' = [req EXCEPT ![r] = [@ EXCEPT !.at = "read", !.data = d]]
  PROVE  HistoryInv'
<1>1. Holdings /\ Fresh /\ Lasting BY DEF HistoryInv
<1>2. Framed(req[r]) /\ Holding(req[r]) BY <1>1 DEF Holdings, Holding
<1>3. req'[r] = [req[r] EXCEPT !.at = "read", !.data = d] BY <1>1 DEF Holdings
<1>o. \A p \in Requests \ {r} : req'[p] = req[p] BY <1>1 DEF Holdings
<1>4. /\ Framed(req'[r]) /\ req'[r].op = req[r].op /\ req'[r].item = req[r].item /\ req'[r].at = "read"
      /\ req'[r].target = req[r].target /\ req'[r].data = d
  BY <1>2, <1>3, ReadFields
<1>t. req[r].op = "rollback" => req[r].target \in Nat BY <1>2 DEF Holding
<1>5. Holding(req[r])'
  <2>1. Framed(req[r])' BY <1>4 DEF Framed
  <2>2. Rewriting(req[r])' BY <1>4, <1>t DEF Rewriting
  <2> QED BY <1>2, <1>4, <2>1, <2>2 DEF Holding
<1>6. OneStep(r) BY <1>1, <1>o DEF OneStep, Same, Holdings
<1>7. Holdings' BY <1>1, <1>5, <1>6, HoldingsKept
<1>n. d # Absent BY NamesAssumption
<1>8. Fresh'
  <2>1. file[req[r].item] # Absent \/ service = "versions" BY <1>n
  <2>2. ~New(req[r])' BY <1>4 DEF New
  <2> QED BY <1>1, <1>4, <1>6, <2>1, <2>2, FreshKept
<1>9. ToWrite(r)' = Applied(r, d)
  <2>1. req[r].op # "create" BY DEF Writing
  <2> QED BY <1>4, <2>1 DEF ToWrite, Applied
<1>10. ASSUME NEW p \in Requests \ {r}, Counted(p), req[p].item = req[r].item
       PROVE  Stands(req[p].answer.log, Applied(r, d))
  <2>1. file[req[r].item] = Torn \/ Stands(req[p].answer.log, file[req[r].item]) BY <1>1, <1>10 DEF Lasting
  <2>2. Torn \notin Record /\ Absent \notin Record /\ Absent # Torn BY NamesAssumption
  <2>3. Stands(req[p].answer.log, d) BY <2>1, <2>2 DEF Stands
  <2> QED BY <2>3, <1>t, StandsInApplied
<1>11. ~Counted(r)' BY <1>4 DEF Counted
<1>12. Lasting'
  <2>1. \A p \in Requests \ {r} : Counted(p) => file'[req[p].item] = Torn \/ Stands(req[p].answer.log, file'[req[p].item])
    BY <1>1 DEF Lasting
  <2>2. \A p \in Requests \ {r} : Counted(p) /\ req'[r].item = req[p].item => Stands(req[p].answer.log, ToWrite(r)')
    BY <1>4, <1>9, <1>10
  <2> QED BY <1>1, <1>6, <1>11, <2>1, <2>2, LastingKept
<1> QED BY <1>7, <1>8, <1>12 DEF HistoryInv

LEMMA BeginStands ==
  ASSUME HistoryInv, History, NEW r \in Requests, Begin(r)
  PROVE  HistoryInv'
<1>1. Holdings /\ Fresh /\ Lasting BY DEF HistoryInv
<1>2. req[r] = Idle /\ Framed(req[r]) /\ Holding(req[r]) BY <1>1 DEF Holdings, Holding, Begin, At
<1>3. PICK op \in Ops[service], i \in Items :
        /\ op = "create" => file[i] = Absent /\ \A q \in Active : req[q].item # i
        /\ req' = [req EXCEPT ![r] = [@ EXCEPT !.op = op, !.item = i, !.at = "begun"]]
  BY DEF Begin
<1>4. service' = service /\ file' = file BY DEF Begin
<1>5. req'[r] = [req[r] EXCEPT !.op = op, !.item = i, !.at = "begun"] BY <1>1, <1>3 DEF Holdings
<1>6. \A p \in Requests \ {r} : req'[p] = req[p] BY <1>1, <1>3 DEF Holdings
<1>7. /\ Framed(req'[r]) /\ req'[r].op = op /\ req'[r].item = i /\ req'[r].at = "begun"
      /\ req'[r].target = req[r].target
  BY <1>2, <1>5 DEF Framed
<1>8. Holding(req[r])'
  <2>1. Framed(req[r])' BY <1>7 DEF Framed
  <2> QED BY <1>2, <1>4, <1>7, <2>1 DEF Holding
<1>9. OneStep(r) BY <1>1, <1>3, <1>4, <1>6 DEF OneStep, Same, Holdings
<1>10. Holdings' BY <1>1, <1>8, <1>9, HoldingsKept
<1>11. Fresh'
  <2> SUFFICES ASSUME NEW x \in Requests, New(req'[x])
               PROVE  /\ file'[req'[x].item] = Absent
                      /\ \A q \in Requests \ {x} : req'[q].item = req'[x].item => Waiting(req'[q])
    BY DEF Fresh, New, Waiting
  <2>1. CASE x = r
    <3>1. op = "create" BY <2>1, <1>7 DEF New
    <3>2. file[i] = Absent /\ \A q \in Active : req[q].item # i BY <1>3, <3>1
    <3>3. ASSUME NEW q \in Requests \ {r}, req[q].item = i PROVE Waiting(req[q])
      BY <3>2, <3>3 DEF Active, Waiting, New
    <3> QED BY <2>1, <1>4, <1>6, <1>7, <3>2, <3>3
  <2>2. CASE x # r
    <3>1. req'[x] = req[x] /\ New(req[x]) BY <2>2, <1>6
    <3>2. /\ file[req[x].item] = Absent
          /\ \A q \in Requests \ {x} : req[q].item = req[x].item => Waiting(req[q])
      BY <1>1, <3>1 DEF Fresh
    <3>3. i = req[x].item => op # "create"
      <4>1. x \in Active BY <3>1 DEF Active, New
      <4> QED BY <4>1, <1>3
    <3>4. i = req[x].item => Waiting(req'[r]) BY <1>7, <3>3 DEF Waiting, New
    <3> QED BY <1>4, <1>6, <1>7, <2>2, <3>1, <3>2, <3>4
  <2> QED BY <2>1, <2>2
<1>12. req[r].at # "done" /\ ~Counted(r)' /\ ~Holds(req'[r]) BY <1>2, <1>7 DEF Counted, Holds, Idle
<1>13. Lasting' BY <1>1, <1>4, <1>9, <1>12, StillStands
<1> QED BY <1>10, <1>11, <1>13 DEF HistoryInv

LEMMA CheckStands ==
  ASSUME HistoryInv, History, NEW r \in Requests, Check(r)
  PROVE  HistoryInv'
<1>1. Holdings BY DEF HistoryInv
<1>2. Framed(req[r]) /\ Holding(req[r]) BY <1>1 DEF Holdings, Holding
<1>3. /\ req[r].at = "begun" /\ req[r].op \notin {"create", "list"} /\ service' = service /\ file' = file
      /\ req[r].at \notin {"idle", "done", "read", "opened"}
  BY DEF Check, At, Reading
<1>4. CASE file[req[r].item] # Absent
  <2>1. req' = [req EXCEPT ![r].at = "found"] BY <1>4 DEF Check, File, Advance
  <2>2. req'[r] = [req[r] EXCEPT !.at = "found"] BY <1>1, <2>1 DEF Holdings
  <2>3. \A p \in Requests \ {r} : req'[p] = req[p] BY <1>1, <2>1 DEF Holdings
  <2>4. /\ Framed(req'[r]) /\ req'[r].op = req[r].op /\ req'[r].item = req[r].item /\ req'[r].at = "found"
        /\ req'[r].target = req[r].target
    BY <1>2, <2>2, AtFields
  <2>5. Holding(req[r])'
    <3>1. Framed(req[r])' BY <2>4 DEF Framed
    <3> QED BY <1>2, <1>3, <2>4, <3>1 DEF Holding
  <2>6. ~New(req'[r]) /\ req' = [p \in Requests |-> req'[p]] BY <1>1, <2>1, <2>4 DEF New, Holdings
  <2> QED BY <1>3, <1>4, <2>3, <2>4, <2>5, <2>6, WentOn
<1>5. CASE file[req[r].item] = Absent
  <2>1. CASE req[r].op = "history"
    <3>1. req' = [req EXCEPT ![r] = [@ EXCEPT !.at = "done", !.answer = NoHistory]]
      BY <1>5, <2>1 DEF Check, File, Done
    <3> QED BY <1>3, <2>1, <3>1, Answered
  <2>2. CASE req[r].op = "record" \/ (req[r].op = "rollback" /\ req[r].target # Nobody)
    <3>1. req' = [req EXCEPT ![r] = [@ EXCEPT !.at = "read", !.data = NoHistory]]
      BY <1>5, <2>2 DEF Check, File
    <3>2. NoHistory \in Record /\ req[r].op \in Writing BY <2>2, Names DEF Writing
    <3>3. service = "versions"
      <4>1. req[r].op \in Ops[service] /\ service \in DOMAIN Ops BY <1>1, <1>2, <1>3 DEF Holding, Holdings
      <4> QED BY <4>1, <2>2, KindOf
    <3>4. req[r].op = "rollback" => req[r].target # Nobody BY <2>2
    <3> QED BY <1>3, <1>5, <3>1, <3>2, <3>3, <3>4, Took
  <2>3. CASE req[r].op # "history" /\ ~(req[r].op = "record" \/ (req[r].op = "rollback" /\ req[r].target # Nobody))
    <3>1. req' = [req EXCEPT ![r] = [@ EXCEPT !.at = "done", !.answer = NotFound]]
      BY <1>5, <2>3 DEF Check, File, Done
    <3> QED BY <1>3, <3>1, Answered
  <2> QED BY <2>1, <2>2, <2>3
<1> QED BY <1>4, <1>5

LEMMA ReadStands ==
  ASSUME HistoryInv, History, NEW r \in Requests, Read(r)
  PROVE  HistoryInv'
<1>1. Holdings BY DEF HistoryInv
<1>2. Framed(req[r]) /\ Holding(req[r]) BY <1>1 DEF Holdings, Holding
<1>3. /\ req[r].at = "found" /\ req[r].op \notin {"delete", "create", "list"} /\ service' = service /\ file' = file
      /\ req[r].at \notin {"idle", "done", "read", "opened"}
  BY <1>2 DEF Read, At, Reading, Holding
<1>4. CASE file[req[r].item] \in {Absent, Torn}
  <2>1. req' = [req EXCEPT ![r] = [@ EXCEPT !.at = "done", !.answer = Failed]] BY <1>4 DEF Read, File, Done
  <2> QED BY <1>3, <2>1, Answered
<1>5. CASE file[req[r].item] \notin {Absent, Torn}
  <2>0. file[req[r].item] \in Record BY <1>1, <1>2, <1>5 DEF Holdings, Holding
  <2>1. CASE req[r].op \in {"get", "history"}
    <3>1. req' = [req EXCEPT ![r] = [@ EXCEPT !.at = "done", !.answer = file[req[r].item]]]
      BY <1>5, <2>1 DEF Read, File, Done
    <3>2. req[r].op \notin {"annotate", "review", "retry", "record", "rollback"} BY <2>1
    <3> QED BY <1>3, <3>1, <3>2, Answered
  <2>2. CASE req[r].op = "rollback" /\ req[r].target = Nobody
    <3> DEFINE found == {k \in DOMAIN file[req[r].item].log : file[req[r].item].log[k].no = 1}
               k == CHOOSE k \in found : TRUE
    <3>0. FindTarget(r) BY <1>5, <2>2 DEF Read, File
    <3>1. CASE found = {}
      <4>1. req' = [req EXCEPT ![r] = [@ EXCEPT !.at = "done", !.answer = NotFound]]
        BY <3>0, <3>1 DEF FindTarget, File, Done
      <4> QED BY <1>3, <4>1, Answered
    <3>2. CASE found # {}
      <4>1. k \in found BY <3>2
      <4>2. file[req[r].item].log \in Seq(LogEntry) BY <2>0 DEF Record, LogEntry
      <4>3. file[req[r].item].log[k].of \in Nat
        <5> DEFINE l == file[req[r].item].log
        <5>1. k \in DOMAIN l BY <4>1
        <5>2. l \in Seq(LogEntry) BY <4>2
        <5> HIDE DEF l, k, found
        <5>3. l[k] \in LogEntry BY <5>1, <5>2
        <5>4. l[k].of \in Nat BY <5>3 DEF LogEntry
        <5> QED BY <5>4 DEF l
      <4> DEFINE t == file[req[r].item].log[k].of
      <4>4. req' = [req EXCEPT ![r] = [@ EXCEPT !.at = "begun", !.target = t]]
        BY <3>0, <3>2 DEF FindTarget, File
      <4> HIDE DEF t, k, found
      <4>5. req'[r] = [req[r] EXCEPT !.at = "begun", !.target = t] BY <1>1, <4>4 DEF Holdings
      <4>6. \A p \in Requests \ {r} : req'[p] = req[p] BY <1>1, <4>4 DEF Holdings
      <4>7. /\ Framed(req'[r]) /\ req'[r].op = req[r].op /\ req'[r].item = req[r].item /\ req'[r].at = "begun"
            /\ req'[r].target = t
        BY <1>2, <4>5 DEF Framed
      <4>8. Holding(req[r])'
        <5>1. Framed(req[r])' BY <4>7 DEF Framed
        <5>2. t \in Nat BY <4>3 DEF t
        <5> QED BY <1>2, <1>3, <4>7, <5>1, <5>2 DEF Holding
      <4>9. ~New(req'[r]) BY <1>3, <4>7 DEF New
      <4>10. req' = [p \in Requests |-> req'[p]] BY <1>1, <4>4 DEF Holdings
      <4> QED BY <1>3, <4>6, <4>7, <4>8, <4>9, <4>10, WentOn
    <3> QED BY <3>1, <3>2
  <2>3. CASE req[r].op \notin {"get", "history"} /\ ~(req[r].op = "rollback" /\ req[r].target = Nobody)
    <3>1. req' = [req EXCEPT ![r] = [@ EXCEPT !.at = "read", !.data = file[req[r].item]]]
      BY <1>5, <2>3 DEF Read, File
    <3>2. req[r].op \in Writing
      <4>1. req[r].op \in Ops[service] /\ service \in DOMAIN Ops BY <1>1, <1>2, <1>3 DEF Holding, Holdings
      <4> QED BY <4>1, <1>3, <2>3, KindOf
    <3>3. req[r].op = "rollback" => req[r].target # Nobody BY <2>3
    <3> QED BY <1>3, <2>0, <3>1, <3>2, <3>3, Took
  <2> QED BY <2>1, <2>2, <2>3
<1> QED BY <1>4, <1>5

LEMMA UnlinkStands ==
  ASSUME HistoryInv, History, NEW r \in Requests, Unlink(r)
  PROVE  HistoryInv'
<1> DEFINE i == req[r].item
<1>1. Holdings /\ Fresh /\ Lasting BY DEF HistoryInv
<1>2. Framed(req[r]) /\ Holding(req[r]) BY <1>1 DEF Holdings, Holding
<1>3. req[r].at = "found" /\ req[r].op = "delete" /\ service' = service BY DEF Unlink, At
<1>4. CASE file[i] = Absent
  <2>1. req' = [req EXCEPT ![r] = [@ EXCEPT !.at = "done", !.answer = Failed]] /\ file' = file
    BY <1>4 DEF Unlink, File, Done
  <2> QED BY <1>3, <2>1, Answered
<1>5. CASE file[i] # Absent
  <2>1. file' = [file EXCEPT ![i] = Absent] BY <1>5 DEF Unlink, File
  <2>2. req' = [q \in Requests |->
                  CASE q = r -> [req[r] EXCEPT !.at = "done", !.answer = Absent]
                    [] At(q, "opened") /\ req[q].item = req[r].item -> [req[q] EXCEPT !.at = "detached"]
                    [] OTHER -> req[q]]
    BY <1>5 DEF Unlink, File
  <2>3. req'[r] = [req[r] EXCEPT !.at = "done", !.answer = Absent] BY <1>3, <2>2 DEF At
  <2>4. /\ Framed(req'[r]) /\ req'[r].op = req[r].op /\ req'[r].item = req[r].item /\ req'[r].at = "done"
        /\ req'[r].target = req[r].target /\ req'[r].answer = Absent
    BY <1>2, <2>3, DoneFields
  <2>5. i \in removed'
    <3>1. req[r].op = "delete" /\ Ends(r) /\ req'[r].answer = Absent BY <1>3, <2>4 DEF Ends, At
    <3> QED BY <3>1 DEF History
  <2>6. ASSUME NEW p \in Requests \ {r} PROVE Same(req[p], req'[p])
    <3>1. CASE req[p].at = "opened" /\ req[p].item = req[r].item
      <4>1. req'[p] = [req[p] EXCEPT !.at = "detached"] BY <2>2, <3>1 DEF At
      <4>2. Framed(req[p]) BY <1>1 DEF Holdings, Holding
      <4>3. /\ Framed(req'[p]) /\ req'[p].op = req[p].op /\ req'[p].item = req[p].item /\ req'[p].target = req[p].target
            /\ req'[p].at = "detached" /\ req'[p].data = req[p].data /\ req'[p].answer = req[p].answer
        BY <4>1, <4>2, AtFields
      <4> QED BY <2>5, <3>1, <4>3 DEF Same
    <3>2. CASE ~(req[p].at = "opened" /\ req[p].item = req[r].item)
      BY <2>2, <3>2 DEF At, Same
    <3> QED BY <3>1, <3>2
  <2>7. OneStep(r)
    <3>1. req' = [p \in Requests |-> req'[p]] BY <2>2
    <3> QED BY <1>3, <2>1, <2>6, <3>1 DEF OneStep
  <2>8. Holding(req[r])'
    <3>1. Framed(req[r])' BY <2>4 DEF Framed
    <3> QED BY <1>2, <1>3, <2>4, <3>1 DEF Holding
  <2>9. Holdings' BY <1>1, <2>7, <2>8, HoldingsKept
  <2>10. Fresh' BY <1>1, <1>3, <2>4, <2>7, FreshKept DEF New, Waiting
  <2>11. Lasting'
    <3>1. ASSUME NEW p \in Requests \ {r}, Counted(p), Counted(p)'
          PROVE  file'[req[p].item] = Torn \/ Stands(req[p].answer.log, file'[req[p].item])
      <4>1. req'[p].item = req[p].item BY <2>6 DEF Same
      <4>2. req[p].item # i BY <2>5, <3>1, <4>1 DEF Counted
      <4>3. file'[req[p].item] = file[req[p].item] BY <1>1, <2>1, <4>2 DEF Holdings, Holding
      <4> QED BY <1>1, <3>1, <4>3 DEF Lasting
    <3>2. ~Counted(r)' /\ ~Holds(req'[r]) BY <2>4 DEF Counted, Logs, Holds
    <3> QED BY <1>1, <1>3, <2>7, <3>1, <3>2, LastingKept
  <2> QED BY <2>9, <2>10, <2>11 DEF HistoryInv
<1> QED BY <1>4, <1>5

LEMMA OpenStands ==
  ASSUME HistoryInv, History, NEW r \in Requests, OpenFile(r)
  PROVE  HistoryInv'
<1> DEFINE i == req[r].item
<1>1. Holdings /\ Fresh /\ Lasting BY DEF HistoryInv
<1>2. Framed(req[r]) /\ Holding(req[r]) BY <1>1 DEF Holdings, Holding
<1>3. /\ req[r].at = "read" \/ New(req[r])
      /\ service' = service /\ file' = [file EXCEPT ![i] = Torn]
      /\ req' = [q \in Requests |->
           CASE q = r -> [req[r] EXCEPT !.at = "opened"]
             [] q \in Others(r, "opened") -> [req[q] EXCEPT !.mixed = {}]
             [] OTHER -> req[q]]
  BY DEF OpenFile, At, New
<1>4. req'[r] = [req[r] EXCEPT !.at = "opened"]
  <2>1. r \notin Others(r, "opened") BY DEF Others
  <2> QED BY <1>3, <2>1
<1>5. /\ Framed(req'[r]) /\ req'[r].op = req[r].op /\ req'[r].item = req[r].item /\ req'[r].target = req[r].target
      /\ req'[r].at = "opened" /\ req'[r].data = req[r].data
  BY <1>2, <1>4, AtFields
<1>6. ASSUME NEW p \in Requests \ {r} PROVE Same(req[p], req'[p])
  <2>1. CASE p \in Others(r, "opened")
    <3>1. req'[p] = [req[p] EXCEPT !.mixed = {}] BY <1>3, <2>1
    <3>2. Framed(req[p]) /\ req[p].at = "opened" BY <1>1, <2>1 DEF Holdings, Holding, Others, At
    <3>3. /\ Framed(req'[p]) /\ req'[p].op = req[p].op /\ req'[p].item = req[p].item /\ req'[p].target = req[p].target
          /\ req'[p].at = req[p].at /\ req'[p].data = req[p].data /\ req'[p].answer = req[p].answer
      BY <3>1, <3>2, MixedFields
    <3> QED BY <3>2, <3>3 DEF Same
  <2>2. CASE p \notin Others(r, "opened")
    BY <1>3, <2>2 DEF Same
  <2> QED BY <2>1, <2>2
<1>7. OneStep(r)
  <2>1. req' = [p \in Requests |-> req'[p]] BY <1>3
  <2> QED BY <1>3, <1>6, <2>1 DEF OneStep
<1>8. Holding(req[r])'
  <2>1. Framed(req[r])' BY <1>5 DEF Framed
  <2>2. Rewriting(req[r]) => Rewriting(req[r])' BY <1>5 DEF Rewriting
  <2> QED BY <1>2, <1>3, <1>5, <2>1, <2>2 DEF Holding, New
<1>9. Holdings' BY <1>1, <1>7, <1>8, HoldingsKept
<1>10. ~Waiting(req[r]) /\ ~New(req[r])' BY <1>3, <1>5 DEF Waiting, New
<1>11. Fresh' BY <1>1, <1>5, <1>7, <1>10, FreshKept
<1>12. Lasting'
  <2>1. ASSUME NEW p \in Requests \ {r}, Counted(p)
        PROVE  file'[req[p].item] = Torn \/ Stands(req[p].answer.log, file'[req[p].item])
    <3>1. req[p].item \in Items BY <1>1 DEF Holdings, Holding
    <3>2. file'[req[p].item] = Torn \/ file'[req[p].item] = file[req[p].item] BY <1>1, <1>3, <3>1 DEF Holdings
    <3> QED BY <1>1, <2>1, <3>2 DEF Lasting
  <2>2. ASSUME NEW p \in Requests \ {r}, Counted(p), req'[r].item = req[p].item, p \notin since'[r]
        PROVE  Stands(req[p].answer.log, ToWrite(r)')
    <3>1. p \notin since[r] BY <1>1, <2>2, HistoryGrows
    <3>2. CASE req[r].at = "read"
      <4>1. Stands(req[p].answer.log, ToWrite(r)) BY <1>1, <1>5, <2>2, <3>1, <3>2 DEF Lasting, Holds
      <4>2. ToWrite(r)' = ToWrite(r) BY <1>5 DEF ToWrite, Applied
      <4> QED BY <4>1, <4>2
    <3>3. CASE New(req[r])
      <4>1. file[req[p].item] = Absent BY <1>1, <1>5, <2>2, <3>3 DEF Fresh
      <4>2. Absent # Torn /\ Absent \notin Record BY NamesAssumption
      <4> QED BY <1>1, <2>2, <4>1, <4>2 DEF Lasting, Stands
    <3> QED BY <1>3, <3>2, <3>3
  <2>3. ~Counted(r)' /\ req[r].at # "done" BY <1>3, <1>5 DEF Counted, New
  <2> QED BY <1>1, <1>7, <2>1, <2>2, <2>3, LastingKept
<1> QED BY <1>9, <1>11, <1>12 DEF HistoryInv

LEMMA WrittenIsRecord ==
  ASSUME NEW r \in Requests, req[r].op = "create" \/ Rewriting(req[r])
  PROVE  ToWrite(r) \in Record
<1>1. CASE req[r].op = "create" BY <1>1, Names DEF ToWrite
<1>2. CASE req[r].op # "create" /\ Rewriting(req[r])
  BY <1>2, AppliedGrows DEF Rewriting, ToWrite, Grown
<1> QED BY <1>1, <1>2

LEMMA WriteStands ==
  ASSUME HistoryInv, History, NEW r \in Requests, Write(r)
  PROVE  HistoryInv'
<1> DEFINE i == req[r].item
           d == ToWrite(r)
<1>1. Holdings /\ Fresh /\ Lasting BY DEF HistoryInv
<1>2. Framed(req[r]) /\ Holding(req[r]) BY <1>1 DEF Holdings, Holding
<1>3. /\ req[r].at \in {"opened", "detached"} /\ service' = service
      /\ req[r].at = "detached" => file' = file
      /\ req[r].at = "opened" => file' = [file EXCEPT ![i] = d] \/ file' = [file EXCEPT ![i] = Torn]
      /\ req' = [q \in Requests |->
           CASE q = r -> [req[r] EXCEPT !.at = "done", !.answer = ToWrite(r)]
             [] q \in Others(r, "opened") /\ At(r, "opened") -> [req[q] EXCEPT !.mixed = @ \cup {r}]
             [] OTHER -> req[q]]
  BY DEF Write, At
<1> HIDE DEF d
<1>4. req'[r] = [req[r] EXCEPT !.at = "done", !.answer = d]
  <2>1. r \notin Others(r, "opened") BY DEF Others
  <2> QED BY <1>3, <2>1 DEF d
<1>5. /\ Framed(req'[r]) /\ req'[r].op = req[r].op /\ req'[r].item = req[r].item /\ req'[r].target = req[r].target
      /\ req'[r].at = "done" /\ req'[r].data = req[r].data /\ req'[r].answer = d
  BY <1>2, <1>4, DoneFields
<1>6. ASSUME NEW p \in Requests \ {r} PROVE Same(req[p], req'[p])
  <2>1. CASE p \in Others(r, "opened") /\ At(r, "opened")
    <3>1. req'[p] = [req[p] EXCEPT !.mixed = @ \cup {r}] BY <1>3, <2>1
    <3>2. Framed(req[p]) /\ req[p].at = "opened" BY <1>1, <2>1 DEF Holdings, Holding, Others, At
    <3>3. /\ Framed(req'[p]) /\ req'[p].op = req[p].op /\ req'[p].item = req[p].item /\ req'[p].target = req[p].target
          /\ req'[p].at = req[p].at /\ req'[p].data = req[p].data /\ req'[p].answer = req[p].answer
      BY <3>1, <3>2, MixedFields
    <3> QED BY <3>2, <3>3 DEF Same
  <2>2. CASE ~(p \in Others(r, "opened") /\ At(r, "opened"))
    BY <1>3, <2>2 DEF Same
  <2> QED BY <2>1, <2>2
<1>d. d \in Record BY <1>2, <1>3, WrittenIsRecord DEF Holding, d
<1>7. OneStep(r)
  <2>1. req' = [p \in Requests |-> req'[p]] BY <1>3
  <2>2. file' = file \/ file' = [file EXCEPT ![req[r].item] = d] \/ file' = [file EXCEPT ![req[r].item] = Torn] BY <1>3
  <2> QED BY <1>3, <1>6, <1>d, <2>1, <2>2 DEF OneStep
<1>8. Holding(req[r])'
  <2>1. Framed(req[r])' BY <1>5 DEF Framed
  <2> QED BY <1>2, <1>3, <1>5, <2>1 DEF Holding
<1>9. Holdings' BY <1>1, <1>7, <1>8, HoldingsKept
<1>10. ~Waiting(req[r]) /\ ~New(req[r])' BY <1>3, <1>5 DEF Waiting, New
<1>11. Fresh' BY <1>1, <1>5, <1>7, <1>10, FreshKept
<1>w. r \in Wrote
  <2>1. Lost \notin Record BY NamesAssumption
  <2> QED BY <1>3, <1>5, <1>d, <2>1 DEF Wrote, Ends, At
<1>12. Lasting'
  <2>1. ASSUME NEW p \in Requests \ {r}, Counted(p), Counted(p)'
        PROVE  file'[req[p].item] = Torn \/ Stands(req[p].answer.log, file'[req[p].item])
    <3>1. req[p].item \in Items BY <1>1 DEF Holdings, Holding
    <3>2. file[req[p].item] = Torn \/ Stands(req[p].answer.log, file[req[p].item]) BY <1>1, <2>1 DEF Lasting
    <3>3. CASE file'[req[p].item] \in {Torn, file[req[p].item]} BY <3>2, <3>3
    <3>4. CASE file'[req[p].item] \notin {Torn, file[req[p].item]}
      <4>1. req[p].item = i /\ req[r].at = "opened" /\ file'[i] = d BY <1>1, <1>3, <3>1, <3>4 DEF Holdings
      <4>2. p \notin since[r] BY <1>w, <2>1 DEF Counted, History
      <4>3. Stands(req[p].answer.log, ToWrite(r)) BY <1>1, <2>1, <4>1, <4>2 DEF Lasting, Holds
      <4> QED BY <4>1, <4>3 DEF d
    <3> QED BY <3>3, <3>4
  <2>2. ~Holds(req'[r]) /\ req[r].at # "done" BY <1>3, <1>5 DEF Holds
  <2>3. ASSUME Counted(r)'
        PROVE  /\ file'[req'[r].item] = Torn \/ Stands(req'[r].answer.log, file'[req'[r].item])
               /\ \A q \in Requests \ {r} : Holds(req[q]) /\ req[q].item = req'[r].item => r \in since'[q]
    <3>1. req[r].at = "opened"
      <4>1. req[r].at = "detached" => i \in removed' BY <1>1, <1>2, HistoryGrows DEF Holding
      <4> QED BY <1>3, <1>5, <2>3, <4>1 DEF Counted
    <3>2. req[r].op \in {"annotate", "review", "retry", "record", "rollback"} BY <1>5, <2>3 DEF Counted, Logs
    <3>3. Rewriting(req[r]) BY <1>2, <3>1, <3>2 DEF Holding
    <3>4. Stands(d.log, d) BY <3>2, <3>3, OwnStands DEF d
    <3>5. file'[i] \in {d, Torn} BY <1>1, <1>2, <1>3, <3>1 DEF Holdings, Holding
    <3>6. ASSUME NEW q \in Requests \ {r}, Holds(req[q]), req[q].item = i
          PROVE  r \in since'[q]
      BY <1>w, <3>6 DEF History, Holds, At
    <3> QED BY <1>5, <3>4, <3>5, <3>6
  <2> QED BY <1>1, <1>7, <2>1, <2>2, <2>3, LastingKept
<1> QED BY <1>9, <1>11, <1>12 DEF HistoryInv

LEMMA GlobStands ==
  ASSUME HistoryInv, History, NEW r \in Requests, Glob(r)
  PROVE  HistoryInv'
<1> DEFINE t == {i \in Items : file[i] # Absent}
           none == [i \in Items |-> Absent]
<1>1. Holdings BY DEF HistoryInv
<1>2. Framed(req[r]) /\ Holding(req[r]) BY <1>1 DEF Holdings, Holding
<1>3. /\ req[r].at = "begun" /\ req[r].op = "list" /\ service' = service /\ file' = file
      /\ req[r].at \notin {"idle", "done"}
  BY DEF Glob, At, Reading
<1>4. req' = [req EXCEPT ![r] = [@ EXCEPT !.at = "listing", !.todo = t, !.data = none]] BY DEF Glob
<1> HIDE DEF t, none
<1>5. req'[r] = [req[r] EXCEPT !.at = "listing", !.todo = t, !.data = none] BY <1>1, <1>4 DEF Holdings
<1>6. \A p \in Requests \ {r} : req'[p] = req[p] BY <1>1, <1>4 DEF Holdings
<1>7. /\ Framed(req'[r]) /\ req'[r].op = req[r].op /\ req'[r].item = req[r].item /\ req'[r].at = "listing"
      /\ req'[r].target = req[r].target
  BY <1>2, <1>5 DEF Framed
<1>8. Holding(req[r])'
  <2>1. Framed(req[r])' BY <1>7 DEF Framed
  <2> QED BY <1>2, <1>3, <1>7, <2>1 DEF Holding
<1>9. ~New(req'[r]) /\ req' = [p \in Requests |-> req'[p]] BY <1>1, <1>4, <1>7 DEF New, Holdings
<1> QED BY <1>3, <1>6, <1>7, <1>8, <1>9, WentOn

LEMMA ReadNextStands ==
  ASSUME HistoryInv, History, NEW r \in Requests, ReadNext(r)
  PROVE  HistoryInv'
<1>1. Holdings BY DEF HistoryInv
<1>2. Framed(req[r]) /\ Holding(req[r]) BY <1>1 DEF Holdings, Holding
<1>3. /\ req[r].at = "listing" /\ req[r].op = "list" /\ service' = service /\ file' = file
      /\ req[r].at \notin {"idle", "done"}
  BY <1>2 DEF ReadNext, At, Reading, Holding
<1>a. ASSUME NEW a, req' = [req EXCEPT ![r] = [@ EXCEPT !.at = "done", !.answer = a]] PROVE HistoryInv'
  BY <1>3, <1>a, Answered
<1>4. CASE req[r].todo = {}
  <2>1. req' = [req EXCEPT ![r] = [@ EXCEPT !.at = "done", !.answer = req[r].data]] BY <1>4 DEF ReadNext, Done
  <2> QED BY <2>1, <1>a
<1>5. CASE req[r].todo # {}
  <2>1. PICK i \in req[r].todo : IF file[i] \in {Absent, Torn} THEN Done(r, Failed)
                                 ELSE req' = [req EXCEPT ![r] = Listed(@, i)]
    BY <1>5 DEF ReadNext
  <2>2. CASE file[i] \in {Absent, Torn} BY <2>1, <2>2, <1>a DEF Done
  <2>3. CASE file[i] \notin {Absent, Torn}
    <3> DEFINE t == req[r].todo \ {i}
               d == [req[r].data EXCEPT ![i] = file[i]]
    <3>1. req' = [req EXCEPT ![r] = [@ EXCEPT !.todo = t, !.data = d]] BY <2>1, <2>3 DEF Listed
    <3> HIDE DEF t, d
    <3>2. req'[r] = [req[r] EXCEPT !.todo = t, !.data = d] BY <1>1, <3>1 DEF Holdings
    <3>3. \A p \in Requests \ {r} : req'[p] = req[p] BY <1>1, <3>1 DEF Holdings
    <3>4. /\ Framed(req'[r]) /\ req'[r].op = req[r].op /\ req'[r].item = req[r].item /\ req'[r].at = req[r].at
          /\ req'[r].target = req[r].target
      BY <1>2, <3>2 DEF Framed
    <3>5. Holding(req[r])'
      <4>1. Framed(req[r])' BY <3>4 DEF Framed
      <4> QED BY <1>2, <1>3, <3>4, <4>1 DEF Holding
    <3>6. ~New(req'[r]) /\ req' = [p \in Requests |-> req'[p]] BY <1>1, <1>3, <3>1, <3>4 DEF New, Holdings
    <3> QED BY <1>3, <3>3, <3>4, <3>5, <3>6, WentOn
  <2> QED BY <2>2, <2>3
<1> QED BY <1>4, <1>5

(* What a crash takes is never an answer: what counted before it still does.  *)
LEMMA CrashStands ==
  ASSUME HistoryInv, History, Crash
  PROVE  HistoryInv'
<1>1. Holdings /\ Fresh /\ Lasting BY DEF HistoryInv
<1>2. /\ service' = service /\ file' = file
      /\ req' = [r \in Requests |-> IF r \in Active THEN [req[r] EXCEPT !.at = "done", !.answer = Lost] ELSE req[r]]
  BY DEF Crash
<1>3. \A r \in Requests \ Active : req'[r] = req[r] /\ req[r].at \in {"idle", "done"} BY <1>2 DEF Active
<1>4. ASSUME NEW r \in Active
      PROVE  Holding(req[r])' /\ req'[r].at = "done" /\ req'[r].answer = Lost
  <2>1. r \in Requests /\ req[r].at \notin {"idle", "done"} BY DEF Active
  <2>2. Framed(req[r]) /\ Holding(req[r]) BY <1>1, <2>1 DEF Holdings, Holding
  <2>3. req'[r] = [req[r] EXCEPT !.at = "done", !.answer = Lost] BY <1>2, <2>1
  <2>4. /\ Framed(req'[r]) /\ req'[r].op = req[r].op /\ req'[r].item = req[r].item /\ req'[r].at = "done"
        /\ req'[r].target = req[r].target /\ req'[r].answer = Lost
    BY <2>2, <2>3, DoneFields
  <2>5. Framed(req[r])' BY <2>4 DEF Framed
  <2> QED BY <1>2, <2>1, <2>2, <2>4, <2>5 DEF Holding
<1>5. Holdings'
  <2>1. \A r \in Requests : Holding(req[r])'
    <3> TAKE r \in Requests
    <3>1. CASE r \in Active BY <1>4, <3>1
    <3>2. CASE r \notin Active
      <4>1. req'[r] = req[r] /\ req[r].at \in {"idle", "done"} /\ Holding(req[r]) BY <1>1, <1>3, <3>2 DEF Holdings
      <4> QED BY <1>2, <4>1 DEF Holding, Framed
    <3> QED BY <3>1, <3>2
  <2>2. req' = [r \in Requests |-> req'[r]] BY <1>2
  <2>3. since' = [r \in Requests |-> since'[r]] BY <1>1, HistoryGrows
  <2> QED BY <1>1, <1>2, <2>1, <2>2, <2>3 DEF Holdings
<1>6. \A r \in Requests : req'[r].at \in {"idle", "done"} BY <1>3, <1>4
<1>7. Fresh' BY <1>6 DEF Fresh, New
<1>8. ASSUME NEW p \in Requests, Counted(p)'
      PROVE  file'[req'[p].item] = Torn \/ Stands(req'[p].answer.log, file'[req'[p].item])
  <2>1. p \notin Active BY <1>4, <1>8 DEF Counted, Logs
  <2>2. req'[p] = req[p] BY <1>3, <2>1
  <2>3. Counted(p) BY <1>1, <1>8, <2>2, HistoryGrows DEF Counted, Logs
  <2> QED BY <1>1, <1>2, <2>2, <2>3 DEF Lasting
<1>9. Lasting' BY <1>6, <1>8 DEF Lasting, Holds, Stands
<1> QED BY <1>5, <1>7, <1>9 DEF HistoryInv

LEMMA HistoryBegins ==
  ASSUME Init, since = [r \in Requests |-> {}]
  PROVE  HistoryInv
<1> USE DEF Init
<1>1. \A r \in Requests : req[r] = Idle OBVIOUS
<1>2. Framed(Idle) /\ Idle.item = First /\ Idle.target = Nobody /\ Idle.at = "idle" BY DEF Framed, Idle
<1>3. Holding(Idle) BY <1>2, RecordsAssumption DEF Holding
<1>4. NewRecord(0) \in Record BY Names DEF NewRecord, NoHistory
<1>5. \A i \in Items : file[i] \in Record \cup {Absent, Torn} BY <1>4
<1>6. Holdings BY <1>1, <1>3, <1>5 DEF Holdings
<1>7. Fresh /\ Lasting BY <1>1, <1>2 DEF Fresh, New, Lasting, Counted
<1> QED BY <1>6, <1>7 DEF HistoryInv

LEMMA HistoryStays ==
  ASSUME HistoryInv, [Next /\ History]_allVars
  PROVE  HistoryInv'
<1>1. CASE UNCHANGED allVars
  <2>1. /\ service' = service /\ file' = file /\ req' = req
        /\ since' = since /\ undone' = undone /\ removed' = removed
    BY <1>1 DEF allVars, vars
  <2>2. \A r \in Requests : Holding(req[r]) => Holding(req[r])'
    BY <2>1 DEF Holding, Framed, Rewriting
  <2>3. Holdings' BY <2>1, <2>2 DEF HistoryInv, Holdings
  <2>4. Fresh' BY <2>1 DEF HistoryInv, Fresh, New, Waiting
  <2>5. \A r \in Requests : ToWrite(r)' = ToWrite(r) BY <2>1 DEF ToWrite, Applied
  <2>6. Lasting' BY <2>1, <2>5 DEF HistoryInv, Lasting, Counted, Logs, Holds, Stands
  <2> QED BY <2>3, <2>4, <2>6 DEF HistoryInv
<1>2. ASSUME Next, History PROVE HistoryInv'
  <2>1. CASE Crash BY <1>2, <2>1, CrashStands
  <2>2. ASSUME NEW r \in Requests, Handle(r) PROVE HistoryInv'
    <3>1. CASE Begin(r) BY <1>2, <3>1, BeginStands
    <3>2. CASE Check(r) BY <1>2, <3>2, CheckStands
    <3>3. CASE Read(r) BY <1>2, <3>3, ReadStands
    <3>4. CASE Unlink(r) BY <1>2, <3>4, UnlinkStands
    <3>5. CASE OpenFile(r) BY <1>2, <3>5, OpenStands
    <3>6. CASE Write(r) BY <1>2, <3>6, WriteStands
    <3>7. CASE Glob(r) BY <1>2, <3>7, GlobStands
    <3>8. CASE ReadNext(r) BY <1>2, <3>8, ReadNextStands
    <3> QED BY <2>2, <3>1, <3>2, <3>3, <3>4, <3>5, <3>6, <3>7, <3>8 DEF Handle
  <2> QED BY <1>2, <2>1, <2>2 DEF Next
<1> QED BY <1>1, <1>2

LEMMA HistoryStands ==
  ASSUME HistoryInv
  PROVE  AnsweredStands
<1> SUFFICES ASSUME NEW r \in Requests \ undone, At(r, "done"), Logs(r), req[r].item \notin removed, file[req[r].item] # Torn
             PROVE  LET told == req[r].answer.log
                        i == req[r].item
                    IN  file[i] # Absent /\ Len(told) <= Len(file[i].log) /\ file[i].log[Len(told)] = told[Len(told)]
  BY DEF AnsweredStands
<1>1. Counted(r) BY DEF Counted, At
<1>2. Stands(req[r].answer.log, file[req[r].item]) BY <1>1 DEF HistoryInv, Lasting
<1>3. Absent \notin Record BY NamesAssumption
<1> QED BY <1>2, <1>3 DEF Stands

(* Whatever overlaps, crashes included: an entry that a handler has answered  *)
(* for is in the log of its record, at the number of the answer, unless a     *)
(* request that had read the record before it wrote it anew after, a crash    *)
(* left the record unreadable or the record was deleted (case_service,        *)
(* quarantine_service, version_service, submissions).                         *)
THEOREM EntriesStand == HistorySpec => []AnsweredStands
<1>1. Init /\ since = [r \in Requests |-> {}] => HistoryInv BY HistoryBegins
<1>2. HistoryInv /\ [Next /\ History]_allVars => HistoryInv' BY HistoryStays
<1>3. HistoryInv => AnsweredStands BY HistoryStands
<1> QED BY <1>1, <1>2, <1>3, PTL DEF HistorySpec, HistoryInit, HistoryNext
=============================================================================
