------------------------ MODULE MetadataLayersProofs ------------------------
(***************************************************************************)
(* The two layers of definition files, for any calculations, directories   *)
(* and number of overlapping requests: shipped files are never touched, and *)
(* what loads is what lists.                                               *)
(***************************************************************************)
EXTENDS MetadataLayers, TLAPS

\* Requests hold files of the area that the manifest says, unless they delete.
JobOK(j) ==
  /\ j.at = "write" => \A f \in j.file : f \in Files /\ f.area = Area(f.id)
  /\ j.at = "unlink" => \E f \in Files : j.file = {f}

\* The files of an item lie in two areas: a base file of a shipped one is the
\* shipped one, and overrides are of shipped items.
FilesOK ==
  /\ files \subseteq Files
  /\ \A f \in files : f.area = "base" /\ f.id \in OOB => f \in Shipped
  /\ Shipped \subseteq files
  /\ \A f \in files : f.area = "user" => f.id \in OOB

\* An item that was not saved with two layers has one file in each area at most.
OneEach ==
  \A f, g \in files : f.area = g.area /\ f.id = g.id /\ f.id \notin moved => f = g

Layers == /\ FilesOK /\ OneEach
          /\ job = [w \in Workers |-> job[w]]
          /\ \A w \in Workers : JobOK(job[w])

LEMMA ShippedInPlace ==
  \A f \in Shipped : f \in Files /\ f.area = "base" /\ f.id \in OOB
  BY ShippedFiles DEF Files, Areas, OOB

LEMMA LayersInit == Init => Layers
<1> SUFFICES ASSUME Init PROVE Layers
  OBVIOUS
<1>1. FilesOK
  BY ShippedInPlace DEF Init, FilesOK
<1>2. OneEach
  BY ShippedFiles DEF Init, OneEach
<1> QED BY <1>1, <1>2 DEF Init, Layers, JobOK, Idle

\* Taking away a file that was not shipped disturbs nothing.
LEMMA FileGone ==
  ASSUME FilesOK, OneEach, NEW f, f \notin Shipped, files' = files \ {f}, moved' = moved
  PROVE  FilesOK' /\ OneEach'
  BY DEF FilesOK, OneEach

LEMMA WriteKeeps ==
  ASSUME Layers, NEW w \in Workers, WriteFile(w)
  PROVE  Layers'
<1>1. PICK f \in job[w].file :
        /\ files' = (files \ Replaced(f)) \cup {f}
        /\ moved' = IF \E g \in Own(f.id) : g.dir # f.dir
                      THEN moved \cup {f.id} ELSE moved
  BY DEF WriteFile
<1>2. f \in Files /\ f.area = Area(f.id) /\ Area(f.id) \in Areas
  BY DEF WriteFile, Layers, JobOK, Area, Areas
<1>3. FilesOK'
  <2>1. f.id \in OOB => f.area = "user"
    BY <1>2 DEF Area
  <2>2. f.area = "user" => f.id \in OOB
    BY <1>2 DEF Area
  <2>3. \A g \in Replaced(f) : g \notin Shipped
    BY <2>1, ShippedInPlace DEF Replaced
  <2> QED BY <1>1, <1>2, <2>1, <2>2, <2>3 DEF Layers, FilesOK
<1>4. OneEach'
  <2> SUFFICES ASSUME NEW g \in files', NEW h \in files', g.area = h.area,
                      g.id = h.id, g.id \notin moved'
               PROVE  g = h
    BY DEF OneEach
  <2>1. moved \subseteq moved'
    BY <1>1
  \* Any other file at the place of f has its directory, so it was replaced.
  <2>2. ASSUME NEW k \in files', k.area = f.area, k.id = f.id, f.id \notin moved'
        PROVE  k = f
    <3>1. CASE k \in files /\ k \notin Replaced(f)
      <4>1. k \in Own(f.id)
        BY <1>2, <2>2, <3>1 DEF Own, At
      <4>2. k.dir = f.dir
        BY <1>1, <2>2, <4>1
      <4> QED BY <2>2, <3>1, <4>2 DEF Replaced
    <3> QED BY <1>1, <3>1
  <2>3. CASE g = f \/ h = f
    BY <2>2, <2>3
  <2>4. CASE g # f /\ h # f
    BY <1>1, <2>1, <2>4 DEF Layers, OneEach
  <2> QED BY <2>3, <2>4
<1>5. \A v \in Workers : JobOK(job'[v])
  BY DEF WriteFile, Goto, Layers, JobOK
<1> QED BY <1>3, <1>4, <1>5 DEF Layers, WriteFile, Goto

LEMMA UnlinkKeeps ==
  ASSUME Layers, NEW w \in Workers, Unlink(w)
  PROVE  Layers'
<1> DEFINE id == (CHOOSE f \in job[w].file : TRUE).id
<1>0. PICK j : job' = [job EXCEPT ![w] = j] /\ j.at \in {"idle", "unlinked"}
  <2>1. CASE job' = [job EXCEPT ![w] = Idle]
    <3>1. Idle.at \in {"idle", "unlinked"}
      BY DEF Idle
    <3> QED BY <2>1, <3>1, Zenon
  <2>2. CASE \E f \in Deletable(id) : Goto(w, "unlinked", {f})
    <3>1. PICK f : Goto(w, "unlinked", {f})
      BY <2>2
    <3> DEFINE j == [at |-> "unlinked", file |-> {f}]
    <3>2. job' = [job EXCEPT ![w] = j] /\ j.at \in {"idle", "unlinked"}
      BY <3>1 DEF Goto
    <3> HIDE DEF j
    <3> QED BY <3>2, Zenon
  <2> QED BY <2>1, <2>2 DEF Unlink
<1>1. \A v \in Workers : JobOK(job'[v])
  BY <1>0 DEF Layers, JobOK
<1>2. job' = [v \in Workers |-> job'[v]]
  BY DEF Unlink, Goto, Layers
<1>3. CASE files' = files
  BY <1>1, <1>2, <1>3 DEF Unlink, Layers, FilesOK, OneEach
<1>4. CASE \E f \in Deletable(id) : files' = files \ {f}
  <2>1. PICK f \in Deletable(id) : files' = files \ {f}
    BY <1>4
  <2>2. f \notin Shipped
    BY ShippedInPlace DEF Deletable, Loadable, Overrides, At
  <2> QED BY <1>1, <1>2, <2>1, <2>2, FileGone DEF Layers, Unlink
<1> QED BY <1>3, <1>4 DEF Unlink

LEMMA ResetKeeps ==
  ASSUME Layers, NEW w \in Workers, Reset(w)
  PROVE  Layers'
<1>1. PICK f \in files : f.area = "user" /\ files' = files \ {f}
  BY DEF Reset, Overrides, At
<1>2. f \notin Shipped
  BY <1>1, ShippedInPlace
<1>3. FilesOK' /\ OneEach'
  BY <1>1, <1>2, FileGone DEF Layers, Reset
<1> QED BY <1>3 DEF Layers, Reset, JobOK

LEMMA LayersStep == Layers /\ [Next]_vars => Layers'
<1> SUFFICES ASSUME Layers, [Next]_vars PROVE Layers'
  OBVIOUS
\* Of these steps only the job changes.
<1>a. ASSUME UNCHANGED <<files, moved>>, NEW w \in Workers, NEW step, NEW file,
             job' = [job EXCEPT ![w] = [at |-> step, file |-> file]],
             JobOK([at |-> step, file |-> file])
      PROVE  Layers'
  BY <1>a DEF Layers, FilesOK, OneEach, JobOK
<1>1. ASSUME NEW w \in Workers, Validate(w) PROVE Layers'
  <2>1. PICK id \in Ids, dir \in Dirs, deps \in SUBSET Ids :
          Goto(w, "write", {[area |-> Area(id), dir |-> dir, id |-> id, deps |-> deps]})
    BY <1>1 DEF Validate
  <2>2. [area |-> Area(id), dir |-> dir, id |-> id, deps |-> deps] \in Files
    BY DEF Files, Area, Areas
  <2> DEFINE file == {[area |-> Area(id), dir |-> dir, id |-> id, deps |-> deps]}
  <2>3. JobOK([at |-> "write", file |-> file])
    BY <2>2 DEF JobOK
  <2> QED BY <1>1, <1>a, <2>1, <2>3 DEF Validate, Goto
<1>2. ASSUME NEW w \in Workers, CheckDependents(w) PROVE Layers'
  <2>1. PICK f : f \in files /\ Goto(w, "unlink", {f})
    BY <1>2 DEF CheckDependents, Loadable, Overrides, At
  <2>2. f \in Files
    BY <2>1 DEF Layers, FilesOK
  <2>3. JobOK([at |-> "unlink", file |-> {f}])
    BY <2>2 DEF JobOK
  <2> QED BY <1>2, <1>a, <2>1, <2>3 DEF CheckDependents, Goto
<1>3. ASSUME NEW w \in Workers, Record(w) PROVE Layers'
  BY <1>3, <1>a DEF Record, Idle, JobOK
<1>4. CASE UNCHANGED vars
  BY <1>4 DEF vars, Layers, FilesOK, OneEach, JobOK
<1> QED BY <1>1, <1>2, <1>3, <1>4, WriteKeeps, UnlinkKeeps, ResetKeeps DEF Next, Steps

LEMMA LayersInvariant == Spec => []Layers
  BY LayersInit, LayersStep, PTL DEF Spec

\* Saving, deleting and resetting, however they overlap, leave every shipped file
\* as it was, and no other base file of a shipped item comes to lie beside it.
THEOREM OriginalsStay == Spec => []OriginalsPreserved
<1>1. Layers => OriginalsPreserved
  BY ShippedInPlace DEF Layers, FilesOK, OriginalsPreserved
<1> QED BY <1>1, LayersInvariant, PTL

LEMMA LoadedListed == Layers => LoadedIsListed
<1> SUFFICES ASSUME Layers, NEW id \in Ids \ moved
             PROVE  Loadable(id) = {f \in Listed : f.id = id}
  BY DEF LoadedIsListed
<1>1. \A i : \A f \in Loadable(i) : f \in files /\ f.id = i
  BY DEF Loadable, Overrides, At
<1>2. \A f, g \in Loadable(id) : f = g
  BY DEF Loadable, Overrides, At, Layers, OneEach
<1>3. \A f \in Loadable(id) : f.dir \in Nat
  BY <1>1, DirRanks DEF Layers, FilesOK, Files
<1>4. Last(Loadable(id)) = Loadable(id)
  BY <1>2, <1>3 DEF Last
<1>5. \A i : Last(Loadable(i)) \subseteq Loadable(i)
  BY DEF Last
<1>6. Loadable(id) \subseteq Listed
  BY <1>4 DEF Listed
<1>7. ASSUME NEW f \in Listed, f.id = id PROVE f \in Loadable(id)
  BY <1>1, <1>5, <1>7 DEF Listed
<1> QED BY <1>1, <1>6, <1>7

\* What an editor loads of an item is what lists and the pipeline have of it, as
\* long as it was not saved with two layers.
THEOREM LoadsWhatIsListed == Spec => []LoadedIsListed
  BY LoadedListed, LayersInvariant, PTL

-----------------------------------------------------------------------------
(* Types *)

Requests == [at : {"idle", "write", "unlink", "written", "unlinked"}, file : SUBSET Files]
Notes == [said : {"nothing", "saved", "deleted"}, file : SUBSET Files]

LEMMA StepTypes ==
  ASSUME TypeOK, NEW w \in Workers, Steps(w), UNCHANGED serial
  PROVE  TypeOK'
<1>0. /\ job[w] \in Requests /\ Idle \in Requests /\ job \in [Workers -> Requests]
      /\ trail \in [Ids -> Notes]
  BY DEF TypeOK, Requests, Notes, Idle
<1>1. CASE Validate(w)
  <2>1. PICK id \in Ids, dir \in Dirs, deps \in SUBSET Ids :
          Goto(w, "write", {[area |-> Area(id), dir |-> dir, id |-> id, deps |-> deps]})
    BY <1>1 DEF Validate
  <2>2. [area |-> Area(id), dir |-> dir, id |-> id, deps |-> deps] \in Files
    BY DEF Files, Area, Areas
  <2> QED BY <1>0, <1>1, <2>1, <2>2 DEF Validate, Goto, TypeOK, Requests
<1>2. CASE WriteFile(w)
  <2>1. job[w].file \subseteq Files
    BY <1>0 DEF Requests
  <2>2. files' \subseteq Files
    BY <1>2, <2>1 DEF WriteFile, TypeOK
  <2>3. moved' \subseteq Ids /\ reset' \subseteq Ids
    BY <1>2, <2>1 DEF WriteFile, TypeOK, Files
  <2> QED BY <1>0, <1>2, <2>1, <2>2, <2>3 DEF WriteFile, Goto, TypeOK, Requests
<1>3. CASE CheckDependents(w)
  <2>1. PICK f : f \in files /\ Goto(w, "unlink", {f})
    BY <1>3 DEF CheckDependents, Loadable, Overrides, At
  <2> QED BY <1>0, <1>3, <2>1 DEF CheckDependents, Goto, TypeOK, Requests
<1>4. CASE Unlink(w)
  <2>1. \A id : Deletable(id) \subseteq files
    BY DEF Deletable, Loadable, Overrides, At
  <2> QED BY <1>0, <1>4, <2>1 DEF Unlink, Goto, TypeOK, Requests
<1>5. CASE Record(w)
  <2>1. PICK f \in job[w].file : trail' = [trail EXCEPT ![f.id] = Entry(w, f)]
    BY <1>5 DEF Record
  <2>2. Entry(w, f) \in Notes
    BY <1>0 DEF Entry, Saved, Notes, Requests
  <2> QED BY <1>0, <1>5, <2>1, <2>2 DEF Record, TypeOK, Requests, Notes
<1>6. CASE Reset(w)
  <2>1. \A id \in OOB : Overrides(id) \subseteq files /\ \A f \in Overrides(id) : f.id = id
    BY DEF Overrides, At
  <2>2. \A f \in files : f.id \in Ids
    BY DEF TypeOK, Files
  <2> QED BY <1>6, <2>1, <2>2 DEF Reset, TypeOK
<1> QED BY <1>1, <1>2, <1>3, <1>4, <1>5, <1>6 DEF Steps

\* Types hold for any calculations, directories and number of requests.
THEOREM LayerTypes == Spec => []TypeOK
<1>1. Init => TypeOK
  BY ShippedInPlace DEF Init, TypeOK, Idle, Unknown
<1>2. TypeOK /\ [Next]_vars => TypeOK'
  BY StepTypes DEF Next, vars, TypeOK
<1> QED BY <1>1, <1>2, PTL DEF Spec

-----------------------------------------------------------------------------
(* One request at a time: the audit trail *)

\* A save has its file in place until it is recorded, a deletion has left none.
Noting(w) == job[w].at \in {"written", "unlinked"}
Holding(w) ==
  /\ job[w].at = "write" => \E f \in Files : job[w].file = {f}
  /\ job[w].at = "written" =>
       \E f \in Files : /\ job[w].file = {f}
                        /\ f.id \notin moved \cup reset => Own(f.id) = {f}
  /\ job[w].at = "unlinked" =>
       \E f \in Files : /\ job[w].file = {f}
                        /\ f.id \notin moved \cup reset => Own(f.id) = {}

\* Until then the trail is behind for this item, and for no other.
Recorded(id) ==
  id \notin moved \cup reset /\ trail[id].said # "nothing" => Own(id) = trail[id].file
Told ==
  /\ trail = [id \in Ids |-> trail[id]]
  /\ \A w \in Workers : Holding(w)
  /\ \A id \in Ids : \/ Recorded(id)
                     \/ \E w \in Workers : Noting(w) /\ \A f \in job[w].file : f.id = id

\* A change of the files of one item leaves those of the others.
LEMMA OthersStay ==
  ASSUME NEW id, NEW more, NEW less, files' = (files \ less) \cup more,
         \A f \in less \cup more : f.id = id
  PROVE  \A i : i # id => \A area : At(area, i)' = At(area, i)
  BY DEF At

LEMMA OwnIs ==
  ASSUME FilesOK, OneEach, NEW f \in files, f.area = Area(f.id), f.id \notin moved
  PROVE  Own(f.id) = {f}
  BY DEF OneEach, Own, At

LEMMA WriteTells ==
  ASSUME Layers, Layers', OneAtATime, Told, NEW w \in Workers, WriteFile(w)
  PROVE  Told'
<1>1. PICK f \in Files : job[w].file = {f} /\ f.area = Area(f.id)
  BY DEF WriteFile, Told, Holding, Layers, JobOK
<1>2. /\ files' = (files \ Replaced(f)) \cup {f} /\ reset' = reset \ {f.id}
      /\ \/ moved' = moved
         \/ moved' = moved \cup {f.id}
  BY <1>1 DEF WriteFile
<1>3. /\ job'[w] = [at |-> "written", file |-> {f}] /\ trail' = trail
      /\ \A v \in Workers : v # w => job'[v] = Idle
  <2>1. job[w] # Idle
    BY DEF WriteFile, Idle
  <2> QED BY <1>1, <2>1 DEF WriteFile, Goto, Layers, OneAtATime
<1>4. \A id \in Ids : id # f.id => Own(id)' = Own(id)
  <2>1. \A g \in Replaced(f) \cup {f} : g.id = f.id
    BY DEF Replaced
  <2>2. \A i : i # f.id => \A area : At(area, i)' = At(area, i)
    BY <1>2, <2>1, OthersStay
  <2> QED BY <2>2 DEF Own, Area
<1>5. f.id \notin moved' => Own(f.id)' = {f}
  <2>1. f \in files' /\ FilesOK' /\ OneEach'
    BY <1>2 DEF Layers
  <2> QED BY <1>1, <2>1 DEF OneEach, Own, At, Area
<1>6. \A v \in Workers : Holding(v)'
  BY <1>3, <1>5 DEF Holding, Idle
<1>8. ASSUME NEW id \in Ids, id # f.id PROVE Recorded(id)'
  <2>1. \A v \in Workers : ~Noting(v)
    <3>1. job[w].at = "write"
      BY DEF WriteFile
    <3>2. \A v \in Workers : v # w => job[v] = Idle
      BY <3>1 DEF OneAtATime, Idle
    <3> QED BY <3>1, <3>2 DEF Noting, Idle
  <2>2. Recorded(id)
    BY <2>1 DEF Told
  <2> QED BY <1>2, <1>3, <1>4, <1>8, <2>2 DEF Recorded
<1>9. Noting(w)' /\ \A g \in job'[w].file : g.id = f.id
  BY <1>3 DEF Noting
<1> QED BY <1>3, <1>6, <1>8, <1>9 DEF Told

LEMMA UnlinkTells ==
  ASSUME Layers, Layers', OneAtATime, Told, NEW w \in Workers, Unlink(w)
  PROVE  Told'
<1>1. /\ job[w].at = "unlink" /\ \A v \in Workers : v # w => job[v] = Idle
      /\ UNCHANGED <<trail, moved, reset>>
  BY DEF Unlink, OneAtATime, Idle
<1>2. \A id \in Ids : Recorded(id)
  BY <1>1 DEF Told, Noting, Idle
<1> DEFINE id == (CHOOSE f \in job[w].file : TRUE).id
<1>3. CASE files' = files /\ job' = [job EXCEPT ![w] = Idle]
  <2>1. \A v \in Workers : job'[v] = Idle
    BY <1>1, <1>3 DEF Layers
  <2>2. \A i \in Ids : Own(i)' = Own(i)
    BY <1>3 DEF Own, Area, At
  <2>3. \A i \in Ids : Recorded(i)'
    BY <1>1, <1>2, <2>2 DEF Recorded
  <2> QED BY <1>1, <2>1, <2>3 DEF Told, Holding, Idle
<1>4. ASSUME NEW f \in Deletable(id), files' = files \ {f}, Goto(w, "unlinked", {f})
      PROVE  Told'
  <2>1. f \in files /\ f.id = id /\ f \in Files
    BY <1>4 DEF Deletable, Loadable, Overrides, At, Layers, FilesOK
  <2>2. f.area = Area(f.id)
    BY <1>4, <2>1 DEF Deletable, Loadable, Overrides, At, Area, Layers, FilesOK
  <2>3. /\ job'[w] = [at |-> "unlinked", file |-> {f}]
        /\ \A v \in Workers : v # w => job'[v] = Idle
    BY <1>1, <1>4 DEF Goto, Layers
  <2>4. \A i \in Ids : i # f.id => Own(i)' = Own(i)
    BY <1>4 DEF Own, Area, At
  <2>5. f.id \notin moved => Own(f.id)' = {}
    <3>1. f.id \notin moved => Own(f.id) = {f}
      BY <2>1, <2>2, OwnIs DEF Layers
    <3>2. Own(f.id)' = Own(f.id) \ {f}
      BY <1>4 DEF Own, Area, At
    <3> QED BY <3>1, <3>2
  <2>6. \A v \in Workers : Holding(v)'
    BY <1>1, <2>1, <2>3, <2>5 DEF Holding, Idle
  <2>7. \A i \in Ids : i # f.id => Recorded(i)'
    BY <1>1, <1>2, <2>4 DEF Recorded
  <2>8. Noting(w)' /\ \A g \in job'[w].file : g.id = f.id
    BY <2>3 DEF Noting
  <2> QED BY <1>1, <2>6, <2>7, <2>8 DEF Told
<1> QED BY <1>3, <1>4 DEF Unlink

LEMMA RecordTells ==
  ASSUME Layers, OneAtATime, Told, NEW w \in Workers, Record(w)
  PROVE  Told'
<1>1. /\ Noting(w) /\ \A v \in Workers : v # w => job[v] = Idle
      /\ UNCHANGED <<files, moved, reset>> /\ job' = [job EXCEPT ![w] = Idle]
  BY DEF Record, OneAtATime, Idle, Noting
<1>2. PICK f \in Files : /\ job[w].file = {f} /\ trail' = [trail EXCEPT ![f.id] = Entry(w, f)]
                         /\ f.id \notin moved \cup reset => Own(f.id) = Entry(w, f).file
  <2>1. PICK f \in Files :
          /\ job[w].file = {f}
          /\ f.id \notin moved \cup reset =>
               Own(f.id) = IF job[w].at = "written" THEN {f} ELSE {}
    BY <1>1 DEF Told, Holding, Noting
  <2>2. trail' = [trail EXCEPT ![f.id] = Entry(w, f)]
    BY <2>1 DEF Record
  <2>3. Entry(w, f).file = IF job[w].at = "written" THEN {f} ELSE {}
    BY DEF Entry, Saved
  <2> QED BY <2>1, <2>2, <2>3
<1>3. \A v \in Workers : job'[v] = Idle
  BY <1>1 DEF Layers
<1>4. f.id \in Ids
  BY DEF Files
<1>5. ASSUME NEW id \in Ids PROVE Recorded(id)'
  <2>1. Own(id)' = Own(id)
    BY <1>1 DEF Own, Area, At
  <2>2. CASE id = f.id
    BY <1>1, <1>2, <1>4, <2>1, <2>2 DEF Told, Recorded
  <2>3. CASE id # f.id
    <3>1. Recorded(id)
      BY <1>1, <1>2, <2>3 DEF Told, Noting, Idle
    <3>2. trail'[id] = trail[id]
      BY <1>2, <2>3 DEF Told
    <3> QED BY <1>1, <2>1, <3>1, <3>2 DEF Recorded
  <2> QED BY <2>2, <2>3
<1>6. trail' = [i \in Ids |-> trail'[i]]
  BY <1>2 DEF Told
<1> QED BY <1>3, <1>5, <1>6 DEF Told, Holding, Idle

LEMMA ResetTells ==
  ASSUME Layers, Told, NEW w \in Workers, Reset(w)
  PROVE  Told'
<1>1. PICK f \in files : /\ f.area = "user" /\ f.id \in OOB
                         /\ files' = files \ {f} /\ reset' = reset \cup {f.id}
                         /\ UNCHANGED <<trail, job, moved>>
  BY DEF Reset, Overrides, At
<1>2. \A id : id \notin reset' => Own(id)' = Own(id)
  BY <1>1 DEF Own, Area, At
<1>3. \A v \in Workers : Holding(v)'
  BY <1>1, <1>2 DEF Told, Holding
<1>4. ASSUME NEW id \in Ids PROVE Recorded(id)' \/ ~Recorded(id)
  BY <1>1, <1>2 DEF Recorded
<1> QED BY <1>1, <1>3, <1>4 DEF Told, Noting

\* Of these steps only the job changes, and it has not written yet.
LEMMA PlainTells ==
  ASSUME Layers, OneAtATime, Told, NEW w \in Workers, NEW f \in Files,
         NEW step \in {"write", "unlink"}, job[w] = Idle, Goto(w, step, {f}),
         UNCHANGED <<files, trail, moved, reset>>
  PROVE  Told'
<1>1. /\ job'[w] = [at |-> step, file |-> {f}]
      /\ \A v \in Workers : v # w => job'[v] = job[v]
  BY DEF Goto, Layers
<1>2. \A id : Own(id)' = Own(id)
  BY DEF Own, Area, At
<1>3. \A v \in Workers : Holding(v)'
  BY <1>1, <1>2 DEF Told, Holding
<1>4. \A id \in Ids : Recorded(id) => Recorded(id)'
  BY <1>2 DEF Recorded
<1>5. \A v \in Workers : Noting(v) => Noting(v)' /\ job'[v] = job[v]
  BY <1>1 DEF Noting, Idle
<1> QED BY <1>3, <1>4, <1>5 DEF Told

LEMMA ToldStep ==
  ASSUME Layers, Layers', OneAtATime, Told, [Next]_vars
  PROVE  Told'
<1>1. ASSUME NEW w \in Workers, Validate(w) PROVE Told'
  <2>1. PICK id \in Ids, dir \in Dirs, deps \in SUBSET Ids :
          Goto(w, "write", {[area |-> Area(id), dir |-> dir, id |-> id, deps |-> deps]})
    BY <1>1 DEF Validate
  <2>2. [area |-> Area(id), dir |-> dir, id |-> id, deps |-> deps] \in Files
    BY DEF Files, Area, Areas
  <2> QED BY <1>1, <2>1, <2>2, PlainTells DEF Validate
<1>2. ASSUME NEW w \in Workers, CheckDependents(w) PROVE Told'
  <2>1. PICK f : f \in files /\ Goto(w, "unlink", {f})
    BY <1>2 DEF CheckDependents, Loadable, Overrides, At
  <2>2. f \in Files
    BY <2>1 DEF Layers, FilesOK
  <2> QED BY <1>2, <2>1, <2>2, PlainTells DEF CheckDependents
<1>3. CASE UNCHANGED vars
  <2>1. \A id : Own(id)' = Own(id)
    BY <1>3 DEF vars, Own, Area, At
  <2> QED BY <1>3, <2>1 DEF vars, Told, Holding, Recorded, Noting
<1> QED BY <1>1, <1>2, <1>3, WriteTells, UnlinkTells, RecordTells, ResetTells DEF Next, Steps

LEMMA ToldInvariant == Spec => [](serial => OneAtATime /\ Told)
<1>1. Init => OneAtATime /\ Told
  BY DEF Init, OneAtATime, Told, Holding, Recorded, Idle, Unknown
<1>2. Layers /\ Layers' /\ (serial => OneAtATime /\ Told) /\ [Next]_vars
        => (serial => OneAtATime /\ Told)'
  <2>1. [Next]_vars => serial' = serial
    BY DEF Next, vars
  <2>2. OneAtATime /\ serial /\ [Next]_vars => OneAtATime'
    BY DEF Next, vars, OneAtATime
  <2> QED BY <2>1, <2>2, ToldStep
<1> QED BY LayersInvariant, <1>1, <1>2, PTL DEF Spec

\* With one request at a time, and resets at any time: at rest the latest record of
\* an item that was not moved or reset tells what its file holds.
THEOREM TrailIsHistory == Spec => []TrailTellsFileSerially
<1>1. (serial => OneAtATime /\ Told) => TrailTellsFileSerially
  BY DEF Told, Recorded, Noting, Idle, AtRest, TrailTellsFile, TrailTellsFileSerially
<1> QED BY <1>1, ToldInvariant, PTL

-----------------------------------------------------------------------------
(* One request at a time: dependencies *)

\* f is the file that its item is loaded from.
Loads(f) == f \in files /\ f \in Loadable(f.id)
Provided(f) == \A d \in f.deps : Loadable(d) # {}

\* What is loaded has what it depends on, as has what is about to be written; and
\* nothing that is loaded depends on what is about to go.
Needs ==
  /\ \A f \in files : Loads(f) => Provided(f)
  /\ \A w \in Workers : job[w].at = "write" => \A f \in job[w].file : Provided(f)
  /\ \A w \in Workers : job[w].at = "unlink" =>
       \A f \in job[w].file : f.id \notin OOB =>
         \A g \in files : Loads(g) => f.id \notin g.deps

LEMMA ShippedLoads ==
  ASSUME Layers
  PROVE  /\ \A id \in OOB : Loadable(id) # {}
         /\ \A f \in files : f.area = "base" /\ f.id \in OOB => f.deps \subseteq OOB
<1>1. ASSUME NEW id \in OOB PROVE Loadable(id) # {}
  BY ShippedInPlace DEF OOB, Loadable, Overrides, At, Layers, FilesOK
<1>2. \A f \in files : f.area = "base" /\ f.id \in OOB => f.deps \subseteq OOB
  BY ShippedFiles DEF Layers, FilesOK
<1> QED BY <1>1, <1>2

\* Of a shipped item that loses its override the shipped file comes to light.
LEMMA Reverted ==
  ASSUME Layers, NEW f \in files, f.area = "user", files' = files \ {f}
  PROVE  /\ \A d : Loadable(d) # {} => Loadable(d)' # {}
         /\ \A g \in files' : Loads(g)' => Loads(g) \/ g.deps \subseteq OOB
<1>1. f.id \in OOB
  BY DEF Layers, FilesOK
<1>2. ASSUME NEW d, d # f.id PROVE Loadable(d)' = Loadable(d)
  BY <1>2 DEF Loadable, Overrides, At
<1>3. Loadable(f.id)' # {}
  BY <1>1, ShippedInPlace DEF OOB, Loadable, Overrides, At, Layers, FilesOK
<1>4. ASSUME NEW g \in files', Loads(g)', g.id = f.id PROVE Loads(g) \/ g.deps \subseteq OOB
  <2>1. CASE g.area = "user"
    BY <1>4, <2>1 DEF Loads, Loadable, Overrides, At
  <2>2. CASE g.area # "user"
    <3>1. g.area = "base"
      BY <2>2 DEF Layers, FilesOK, Files, Areas
    <3> QED BY <1>1, <1>4, <3>1, ShippedLoads
  <2> QED BY <2>1, <2>2
<1>5. ASSUME NEW g \in files', Loads(g)', g.id # f.id PROVE Loads(g)
  BY <1>2, <1>5 DEF Loads
<1> QED BY <1>2, <1>3, <1>4, <1>5

\* Files that go without taking anything that is needed with them.
LEMMA NeedsStay ==
  ASSUME Layers, Needs,
         \A d : Loadable(d) # {} => Loadable(d)' # {},
         \A g \in files' : Loads(g)' => (g \in files /\ Loads(g)) \/ g.deps \subseteq OOB,
         \A w \in Workers : job'[w] = job[w] \/ job'[w].at \notin {"write", "unlink"}
  PROVE  Needs'
<1>1. \A f : Provided(f) => Provided(f)'
  BY DEF Provided
<1>2. \A f : f.deps \subseteq OOB => Provided(f)'
  BY ShippedLoads DEF Provided
<1>3. \A f \in files' : Loads(f)' => Provided(f)'
  BY <1>1, <1>2 DEF Needs
<1>4. ASSUME NEW w \in Workers, job'[w].at = "write" PROVE \A f \in job'[w].file : Provided(f)'
  BY <1>1, <1>4 DEF Needs
<1>5. ASSUME NEW w \in Workers, job'[w].at = "unlink", NEW f \in job'[w].file, f.id \notin OOB,
             NEW g \in files', Loads(g)'
      PROVE  f.id \notin g.deps
  BY <1>5 DEF Needs
<1> QED BY <1>3, <1>4, <1>5 DEF Needs

LEMMA WriteProvides ==
  ASSUME Layers, OneAtATime, Told, Needs, NEW w \in Workers, WriteFile(w)
  PROVE  Needs'
<1>1. PICK f \in Files : job[w].file = {f} /\ f.area = Area(f.id)
  BY DEF WriteFile, Told, Holding, Layers, JobOK
<1>2. files' = (files \ Replaced(f)) \cup {f} /\ Provided(f)
  BY <1>1 DEF WriteFile, Needs
<1>3. \A v \in Workers : job'[v].at \notin {"write", "unlink"}
  <2>1. \A v \in Workers : v # w => job[v] = Idle
    BY DEF WriteFile, OneAtATime, Idle
  <2> QED BY <2>1 DEF WriteFile, Goto, Layers, Idle
<1>4. ASSUME NEW d, Loadable(d) # {} PROVE Loadable(d)' # {}
  BY <1>2, <1>4 DEF Loadable, Overrides, At, Replaced
<1>5. ASSUME NEW g \in files', g # f, Loads(g)' PROVE Loads(g) /\ g \in files
  <2>1. g \in files
    BY <1>2, <1>5
  <2>2. CASE g.id # f.id
    BY <1>2, <1>5, <2>1, <2>2 DEF Loads, Loadable, Overrides, At, Replaced
  <2>3. CASE g.id = f.id /\ f.id \in OOB
    <3>1. f \in Overrides(f.id)'
      BY <1>1, <1>2, <2>3 DEF Overrides, At, Area
    <3>2. g.area = "user"
      BY <1>5, <2>3, <3>1 DEF Loads, Loadable, Overrides, At
    <3> QED BY <2>1, <3>2 DEF Loads, Loadable, Overrides, At
  <2>4. CASE g.id = f.id /\ f.id \notin OOB
    BY <2>1, <2>4 DEF Loads, Loadable, Overrides, At, Layers, FilesOK, Files, Areas
  <2> QED BY <2>2, <2>3, <2>4
<1>6. \A h : Provided(h) => Provided(h)'
  BY <1>4 DEF Provided
<1>7. \A h \in files' : Loads(h)' => Provided(h)'
  BY <1>2, <1>5, <1>6 DEF Needs
<1> QED BY <1>3, <1>7 DEF Needs

LEMMA UnlinkProvides ==
  ASSUME Layers, OneAtATime, Needs, NEW w \in Workers, Unlink(w)
  PROVE  Needs'
<1>1. /\ job[w].at = "unlink" /\ \A v \in Workers : v # w => job[v] = Idle
  BY DEF Unlink, OneAtATime, Idle
<1>2. PICK h \in Files : job[w].file = {h}
  BY <1>1 DEF Layers, JobOK
<1>3. (CHOOSE f \in job[w].file : TRUE) = h
  BY <1>2
<1>4. \A v \in Workers : job'[v] = job[v] \/ job'[v].at \notin {"write", "unlink"}
  BY DEF Unlink, Goto, Layers, Idle
<1>5. CASE files' = files
  BY <1>4, <1>5, NeedsStay DEF Loads, Loadable, Overrides, At
<1>6. ASSUME NEW f \in Deletable(h.id), files' = files \ {f} PROVE Needs'
  <2>1. f \in files /\ f.id = h.id /\ f \in Files
    BY <1>6 DEF Deletable, Loadable, Overrides, At, Layers, FilesOK
  <2>2. CASE f.area = "user"
    BY <1>4, <1>6, <2>1, <2>2, Reverted, NeedsStay DEF Loads
  <2>3. CASE f.area # "user"
    <3>1. f.id \notin OOB
      BY <1>6, <2>1, <2>3 DEF Deletable, Loadable, Overrides, At
    <3>2. \A d : d # f.id => Loadable(d)' = Loadable(d)
      BY <1>6 DEF Loadable, Overrides, At
    <3>3. \A g \in files' : Loads(g)' => Loads(g) /\ g \in files
      BY <1>6, <2>1, <3>1 DEF Loads, Loadable, Overrides, At, Layers, FilesOK, Files, Areas
    <3>4. \A g \in files : Loads(g) => f.id \notin g.deps
      BY <1>1, <1>2, <2>1, <3>1 DEF Needs
    <3>5. \A g \in files' : Loads(g)' => Provided(g)'
      BY <3>2, <3>3, <3>4 DEF Needs, Provided
    <3>6. \A v \in Workers : job'[v].at \notin {"write", "unlink"}
      BY <1>1, <1>4 DEF Unlink, Goto, Layers, Idle
    <3> QED BY <3>5, <3>6 DEF Needs
  <2> QED BY <2>2, <2>3
<1> QED BY <1>3, <1>5, <1>6 DEF Unlink

LEMMA NeedsStep ==
  ASSUME Layers, OneAtATime, Told, Needs, [Next]_vars, moved = {}
  PROVE  Needs'
\* Of these steps only the job changes.
<1>a. ASSUME UNCHANGED files, NEW w \in Workers, NEW j, job' = [job EXCEPT ![w] = j],
             j.at = "write" => \A f \in j.file : Provided(f),
             j.at = "unlink" => \A f \in j.file : \A g \in files : Loads(g) => f.id \notin g.deps
      PROVE  Needs'
  <2>1. \A d : Loadable(d)' = Loadable(d)
    BY <1>a DEF Loadable, Overrides, At
  <2>2. \A f : (Loads(f)' <=> Loads(f)) /\ (Provided(f)' <=> Provided(f))
    BY <1>a, <2>1 DEF Loads, Provided
  <2>3. job'[w] = j /\ \A v \in Workers : v # w => job'[v] = job[v]
    BY <1>a DEF Layers
  <2>4. \A v \in Workers : job'[v].at = "write" => \A f \in job'[v].file : Provided(f)'
    BY <1>a, <2>2, <2>3 DEF Needs
  <2>5. ASSUME NEW v \in Workers, job'[v].at = "unlink", NEW f \in job'[v].file, f.id \notin OOB,
               NEW g \in files', Loads(g)'
        PROVE  f.id \notin g.deps
    BY <1>a, <2>2, <2>3, <2>5 DEF Needs
  <2> QED BY <1>a, <2>2, <2>4, <2>5 DEF Needs
<1>1. ASSUME NEW w \in Workers, Validate(w) PROVE Needs'
  <2>1. PICK id \in Ids, dir \in Dirs, deps \in SUBSET Ids :
          /\ \A d \in deps : Loadable(d) # {}
          /\ Goto(w, "write", {[area |-> Area(id), dir |-> dir, id |-> id, deps |-> deps]})
    BY <1>1 DEF Validate
  <2> DEFINE f == [area |-> Area(id), dir |-> dir, id |-> id, deps |-> deps]
  <2>2. Provided(f)
    BY <2>1 DEF Provided
  <2> HIDE DEF f
  <2>3. job' = [job EXCEPT ![w] = [at |-> "write", file |-> {f}]]
    BY <2>1 DEF Goto, f
  <2> QED BY <1>1, <1>a, <2>2, <2>3 DEF Validate
<1>2. ASSUME NEW w \in Workers, CheckDependents(w) PROVE Needs'
  <2>1. PICK id \in Ids : Dependents(id) = {} /\ \E f \in Loadable(id) : Goto(w, "unlink", {f})
    BY <1>2 DEF CheckDependents
  <2>2. PICK f \in Loadable(id) : job' = [job EXCEPT ![w] = [at |-> "unlink", file |-> {f}]]
    BY <2>1 DEF Goto
  <2>3. f.id = id
    BY DEF Loadable, Overrides, At
  <2>4. ASSUME NEW g \in files, Loads(g) PROVE g \in Listed
    <3>1. g.id \in Ids \ moved
      BY DEF Layers, FilesOK, Files
    <3> QED BY <2>4, <3>1, LoadedListed DEF Loads, LoadedIsListed
  <2>5. \A g \in files : Loads(g) => id \notin g.deps
    BY <2>1, <2>4 DEF Dependents
  <2> QED BY <1>2, <1>a, <2>2, <2>3, <2>5 DEF CheckDependents
<1>3. ASSUME NEW w \in Workers, Record(w) PROVE Needs'
  BY <1>3, <1>a DEF Record, Idle
<1>4. ASSUME NEW w \in Workers, Reset(w) PROVE Needs'
  <2>1. PICK f \in files : f.area = "user" /\ files' = files \ {f}
    BY <1>4 DEF Reset, Overrides, At
  <2> QED BY <1>4, <2>1, Reverted, NeedsStay DEF Reset, Loads
<1>5. CASE UNCHANGED vars
  <2>1. \A d : Loadable(d)' = Loadable(d)
    BY <1>5 DEF vars, Loadable, Overrides, At
  <2>2. \A f \in files' : Loads(f)' => Loads(f)
    BY <1>5, <2>1 DEF vars, Loads
  <2> QED BY <1>5, <2>1, <2>2, NeedsStay DEF vars
<1> QED BY <1>1, <1>2, <1>3, <1>4, <1>5, WriteProvides, UnlinkProvides DEF Next, Steps

\* With one request at a time, resets at any time, and layers that stay, every
\* calculation that is listed has what it depends on.
THEOREM DependenciesThere == Spec => []DependenciesDefinedSerially
<1> DEFINE Bound == serial /\ moved = {} => Needs
<1>1. Init => Bound
  <2> SUFFICES ASSUME Init PROVE Needs
    OBVIOUS
  <2>1. Layers
    BY LayersInit
  <2>2. \A f \in files : f.area = "base" /\ f.id \in OOB
    BY ShippedInPlace DEF Init
  <2> QED BY <2>1, <2>2, ShippedLoads DEF Needs, Provided, Init, Idle
<1>2. Layers /\ (serial => OneAtATime /\ Told) /\ Bound /\ [Next]_vars => Bound'
  <2>1. [Next]_vars => serial' = serial
    BY DEF Next, vars
  <2>2. [Next]_vars /\ moved' = {} => moved = {}
    BY DEF Next, vars, Steps, Validate, WriteFile, CheckDependents, Unlink, Record, Reset
  <2> QED BY <2>1, <2>2, NeedsStep
<1>3. Layers /\ Bound => DependenciesDefinedSerially
  <2> SUFFICES ASSUME Layers, Needs, NEW f \in Listed PROVE \A d \in f.deps : Loadable(d) # {}
    BY DEF DependenciesDefinedSerially, DependenciesDefined
  <2>1. PICK id \in Ids : f \in Loadable(id)
    BY DEF Listed, Last
  <2>2. Loads(f)
    BY <2>1 DEF Loads, Loadable, Overrides, At
  <2> QED BY <2>2 DEF Loads, Needs, Provided
<1> QED BY LayersInvariant, ToldInvariant, <1>1, <1>2, <1>3, PTL DEF Spec
=============================================================================
