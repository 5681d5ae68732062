--------------------------- MODULE MetadataLayers ---------------------------
(***************************************************************************)
(* The calculation definitions of MetadataService: the shipped (out of     *)
(* box) files, the user's overrides of them and the user's own             *)
(* calculations; the endpoints that save, delete and reset one; and what   *)
(* AuditService keeps of it.                                               *)
(*                                                                         *)
(* A definition lies in a directory named for its layer, so an item that   *)
(* is saved with another layer is written to another file.  A request      *)
(* checks, writes and records in separate steps, and requests overlap.     *)
(***************************************************************************)
EXTENDS Naturals

CONSTANTS
  Ids,       \* calculation ids
  Shipped,   \* the out-of-box definitions, as files
  Dirs,      \* ranks of the layer directories in the order of their names
  Workers    \* threads that serve requests

Areas == {"base", "user"}   \* metadata/calculations, user_overrides/calculations
Files == [area : Areas, dir : Dirs, id : Ids, deps : SUBSET Ids]
OOB == {f.id : f \in Shipped}

\* The manifest lists every shipped item; those depend on each other only.
ASSUME ShippedFiles ==
  /\ Shipped \subseteq [area : {"base"}, dir : Dirs, id : Ids, deps : SUBSET OOB]
  /\ \A f, g \in Shipped : f.id = g.id => f = g
ASSUME DirRanks == Dirs \subseteq Nat

VARIABLES
  files,   \* the definition files
  trail,   \* calc -> what the latest audit record of it says the file holds
  job,     \* the request each worker is serving
  moved,   \* ids that were saved with two different layers
  reset,   \* ids that were reset, and not saved since
  serial   \* the way of use, which does not change: does a request that saves or
           \* deletes wait until the one before it has ended?

vars == <<files, trail, job, moved, reset, serial>>

At(area, id) == {f \in files : f.area = area /\ f.id = id}
Overrides(id) == At("user", id)

\* load_calculation takes the first file that rglob finds, in whatever order the
\* file system has them; an override comes before the base file.
Loadable(id) == IF Overrides(id) # {} THEN Overrides(id) ELSE At("base", id)

\* list_calculations reads all files in the order of their paths, the overrides
\* after the base files: the last one of an id counts.
Last(found) == {f \in found : \A g \in found : g.dir <= f.dir}
\* Mutant: the base files are read after the overrides.
ListedBase == UNION {Last(IF At("base", id) # {} THEN At("base", id) ELSE Overrides(id)) : id \in Ids}
Listed == UNION {Last(Loadable(id)) : id \in Ids}

\* Mutant: models that use the calculation are asked, other calculations are not.
NobodyDepends(id) == {}
Dependents(id) == {f \in Listed : id \in f.deps}

\* Mutant: the area is not chosen by the manifest.
AreaBase(id) == "base"
Area(id) == IF id \in OOB THEN "user" ELSE "base"
Own(id) == At(Area(id), id)

Idle == [at |-> "idle", file |-> {}]
Unknown == [said |-> "nothing", file |-> {}]

Init ==
  /\ files = Shipped
  /\ trail = [id \in Ids |-> Unknown]
  /\ job = [w \in Workers |-> Idle]
  /\ moved = {} /\ reset = {}
  /\ serial \in BOOLEAN

Goto(w, step, file) == job' = [job EXCEPT ![w] = [at |-> step, file |-> file]]

-----------------------------------------------------------------------------
(* PUT /api/metadata/calculations/{calc_id} *)

\* validate_calculation: no dependency on itself, and each one can be loaded.
\* Otherwise the answer is 422.
Validate(w) ==
  /\ job[w] = Idle
  /\ \E id \in Ids, dir \in Dirs : \E deps \in SUBSET (Ids \ {id}) :
       /\ \A d \in deps : Loadable(d) # {}
       /\ Goto(w, "write", {[area |-> Area(id), dir |-> dir, id |-> id, deps |-> deps]})
  /\ UNCHANGED <<files, trail, moved, reset>>

Replaced(f) == {g \in files : g.area = f.area /\ g.dir = f.dir /\ g.id = f.id}

WriteFile(w) ==
  /\ job[w].at = "write"
  /\ \E f \in job[w].file :
       /\ files' = (files \ Replaced(f)) \cup {f}
       /\ moved' = IF \E g \in Own(f.id) : g.dir # f.dir
                     THEN moved \cup {f.id} ELSE moved
       /\ reset' = reset \ {f.id}
  /\ Goto(w, "written", job[w].file)
  /\ UNCHANGED trail

-----------------------------------------------------------------------------
(* DELETE /api/metadata/calculations/{calc_id} *)

\* 409 when there are dependents.
CheckDependents(w) ==
  /\ job[w] = Idle
  /\ \E id \in Ids :
       /\ Dependents(id) = {}
       /\ \E f \in Loadable(id) : Goto(w, "unlink", {f})
  /\ UNCHANGED <<files, trail, moved, reset>>

\* delete_calculation: an override if there is one; a base file only of an item
\* that was not shipped; otherwise the answer is 404.
\* Mutant: without the look at the manifest.
DeletableAll(id) == Loadable(id)
Deletable(id) == IF Overrides(id) # {} \/ id \notin OOB THEN Loadable(id) ELSE {}

Unlink(w) ==
  /\ job[w].at = "unlink"
  /\ LET id == (CHOOSE f \in job[w].file : TRUE).id IN
     \/ /\ Deletable(id) = {} /\ files' = files /\ job' = [job EXCEPT ![w] = Idle]
     \/ \E f \in Deletable(id) :
          files' = files \ {f} /\ Goto(w, "unlinked", {f})
  /\ UNCHANGED <<trail, moved, reset>>

Saved(f) == [said |-> "saved", file |-> {f}]
\* Mutant: deletions leave no record.
EntrySavedOnly(w, f) == IF job[w].at = "written" THEN Saved(f) ELSE trail[f.id]
Entry(w, f) ==
  IF job[w].at = "written" THEN Saved(f) ELSE [said |-> "deleted", file |-> {}]

Record(w) ==
  /\ job[w].at \in {"written", "unlinked"}
  /\ \E f \in job[w].file : trail' = [trail EXCEPT ![f.id] = Entry(w, f)]
  /\ job' = [job EXCEPT ![w] = Idle]
  /\ UNCHANGED <<files, moved, reset>>

\* POST /api/metadata/layers/calculations/{id}/reset: delete_user_override
\* removes the override that is found first, and is not recorded.
Reset(w) ==
  /\ job[w] = Idle
  /\ \E id \in OOB : \E f \in Overrides(id) :
       files' = files \ {f} /\ reset' = reset \cup {id}
  /\ UNCHANGED <<trail, job, moved>>

Steps(w) == \/ Validate(w) \/ WriteFile(w) \/ CheckDependents(w) \/ Unlink(w)
            \/ Record(w) \/ Reset(w)
OneAtATime == \A v, w \in Workers : job[v] # Idle /\ job[w] # Idle => v = w
Next == /\ \E w \in Workers : Steps(w)
        /\ (serial => OneAtATime') /\ UNCHANGED serial

Spec == Init /\ [][Next]_vars

-----------------------------------------------------------------------------
(* Properties *)

TypeOK ==
  /\ files \subseteq Files
  /\ trail \in [Ids -> [said : {"nothing", "saved", "deleted"}, file : SUBSET Files]]
  /\ job \in [Workers -> [at : {"idle", "write", "unlink", "written",
                                "unlinked"}, file : SUBSET Files]]
  /\ moved \subseteq Ids /\ reset \subseteq Ids /\ serial \in BOOLEAN

AtRest == \A w \in Workers : job[w] = Idle

\* "Edit an OOB item -> creates a user override, original preserved": whatever
\* requests overlap, the shipped files stay as they were, and no other base file
\* of a shipped item comes to lie next to them.
OriginalsPreserved == {f \in files : f.area = "base" /\ f.id \in OOB} = Shipped

\* The calculation that an editor loads is the one that lists and the pipeline
\* use, as long as it was not saved with two layers.
LoadedIsListed == \A id \in Ids \ moved : Loadable(id) = {f \in Listed : f.id = id}

\* With one request at a time, and layers that stay, a calculation that the
\* pipeline finds has all it depends on ...
DependenciesDefined == \A f \in Listed : \A d \in f.deps : Loadable(d) # {}
DependenciesDefinedSerially == serial /\ moved = {} => DependenciesDefined

\* ... and the latest record of an item tells what its file holds, so that the
\* trail can be read as the history of the definitions.
TrailTellsFile ==
  AtRest => \A id \in Ids \ (moved \cup reset) :
    trail[id].said # "nothing" => Own(id) = trail[id].file
TrailTellsFileSerially == serial => TrailTellsFile

\* "the override is deleted, badge reverts to OOB, original definition restored"
ResetRestoresOriginal == \A id \in reset : Loadable(id) \subseteq Shipped
=============================================================================
