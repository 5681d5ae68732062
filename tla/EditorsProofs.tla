--------------------------- MODULE EditorsProofs ----------------------------
(* Proofs, for any number of items, edits, failures and calls, that no wizard *)
(* sends an incomplete item and that a user who waits for every answer        *)
(* deletes what was asked, sees what is stored and loses no saved edit.       *)
EXTENDS Editors, TLAPS

(* What is still missing is asked for on this step or on a later one.         *)
Ahead(f) == \A x \in Demanded \ f.filled : \E m \in f.step .. LastStep : x \in Studio.steps[m]
IsForm(f) == /\ f = [id |-> f.id, marks |-> f.marks, filled |-> f.filled, step |-> f.step, dirty |-> f.dirty]
             /\ f.filled \subseteq Demanded
             /\ f.step \in 1 .. LastStep
             /\ Ahead(f)
IsCall(c) == /\ c = [does |-> c.does, id |-> c.id, marks |-> c.marks, filled |-> c.filled, seen |-> c.seen, live |-> c.live]
             /\ c.filled = Demanded
IInv == /\ kind \in Kinds
        /\ form # None => IsForm(form)
        /\ \A c \in calls : IsCall(c)

-----------------------------------------------------------------------------
(* Every studio has steps, and each demands a set of fields.                  *)
LEMMA StepsOfStudios == \A k \in DOMAIN Studios :
  /\ Studios[k].steps \in Seq(SUBSET {"name", "calcs", "threshold"})
  /\ Len(Studios[k].steps) \in Nat \ {0}
<1> DEFINE S == SUBSET {"name", "calcs", "threshold"}
           Good(s) == s \in Seq(S) /\ Len(s) \in Nat \ {0}
<1>1. Good(ModelSteps) /\ Good(UseCaseSteps) /\ Good(<<{"name"}>>) /\ Good(<<{}>>)
  <2>1. {"name"} \in S /\ {"calcs"} \in S /\ {"threshold"} \in S /\ {} \in S
    OBVIOUS
  <2> HIDE DEF S
  <2> QED BY <2>1 DEF ModelSteps, UseCaseSteps
<1>2. \A k \in DOMAIN Studios : Studios[k].steps \in {ModelSteps, UseCaseSteps, <<{"name"}>>, <<{}>>}
  BY DEF Studios, SettingsManager, MetadataExplorer, EntityDesigner, ModelComposer, UseCaseStudio, MappingStudio
<1> HIDE DEF Good
<1>3. \A k \in DOMAIN Studios : Good(Studios[k].steps) BY <1>1, <1>2
<1> QED BY <1>3 DEF Good

LEMMA StepsOfStudio ==
  ASSUME kind \in Kinds
  PROVE  /\ LastStep \in Nat \ {0}
         /\ DOMAIN Studio.steps = 1 .. LastStep
         /\ \A x \in Demanded : \E m \in 1 .. LastStep : x \in Studio.steps[m]
<1>1. kind \in DOMAIN Studios BY KindsAssumption
<1>2. Studio.steps \in Seq(SUBSET {"name", "calcs", "threshold"}) /\ Len(Studio.steps) \in Nat \ {0}
  BY <1>1, StepsOfStudios DEF Studio
<1> QED BY <1>2 DEF Demanded, LastStep

(* A form is well formed when it is opened ...                                *)
LEMMA OpenedForm ==
  ASSUME kind \in Kinds, NEW c, NEW full, full = Demanded \/ full = {}
  PROVE  IsForm(Form(c, full))
BY StepsOfStudio DEF IsForm, Form, Ahead

(* ... and stays so while it is filled in and its user walks through it.      *)
LEMMA FormSteps ==
  ASSUME IInv,
         \/ Type
         \/ \E x \in Demanded : FillOrClear(x)
         \/ \E n \in 1 .. LastStep : GoTo(n)
  PROVE  IsForm(form)' /\ kind' = kind /\ calls' = calls
<1> USE DEF IInv, InForm, FormOnly
<1>0. LastStep \in Nat \ {0} BY StepsOfStudio
<1>1. CASE Type
  BY <1>1, <1>0 DEF Type, IsForm, Ahead, Studio, Demanded, LastStep
<1>2. ASSUME NEW x \in Demanded, FillOrClear(x) PROVE IsForm(form)' /\ kind' = kind /\ calls' = calls
  <2>1. form.step \in form.step .. LastStep /\ IsForm(form)
    BY <1>0, <1>2 DEF IsForm, FillOrClear
  <2> DEFINE full == IF x \in form.filled THEN form.filled \ {x} ELSE form.filled \cup {x}
  <2>2. form' = [id |-> form.id, marks |-> form.marks, filled |-> full, step |-> form.step, dirty |-> form.dirty]
    BY <1>2, <2>1 DEF FillOrClear, IsForm
  <2>3. x \in Studio.steps[form.step] /\ kind' = kind /\ calls' = calls
    BY <1>2 DEF FillOrClear
  <2>4. full \subseteq Demanded /\ \A y \in Demanded \ full : y = x \/ y \in Demanded \ form.filled
    BY <2>1 DEF IsForm
  <2> HIDE DEF full
  <2>5. \A y \in Demanded \ full : \E m \in form.step .. LastStep : y \in Studio.steps[m]
    BY <2>1, <2>3, <2>4 DEF IsForm, Ahead
  <2>6. Demanded' = Demanded /\ LastStep' = LastStep /\ Studio' = Studio
    BY <2>3 DEF Demanded, LastStep, Studio
  <2>7. form'.filled = full /\ form'.step = form.step
    BY <2>2
  <2>8. Ahead(form)' BY <2>5, <2>6, <2>7 DEF Ahead
  <2> QED BY <2>1, <2>2, <2>3, <2>4, <2>6, <2>7, <2>8 DEF IsForm
<1>3. ASSUME NEW n \in 1 .. LastStep, GoTo(n) PROVE IsForm(form)' /\ kind' = kind /\ calls' = calls
  <2>1. IsForm(form) BY <1>3 DEF GoTo
  <2>2. Ahead([form EXCEPT !.step = n])
    <3>1. CASE n < form.step BY <3>1, <2>1, <1>0 DEF IsForm, Ahead
    <3>2. CASE n > form.step BY <3>2, <2>1, <1>0, <1>3 DEF IsForm, Ahead, GoTo, CanProceed
    <3> QED BY <3>1, <3>2, <2>1, <1>0, <1>3 DEF IsForm, GoTo
  <2> QED BY <1>0, <1>3, <2>1, <2>2 DEF GoTo, IsForm, Ahead, Studio, Demanded, LastStep
<1> QED BY <1>1, <1>2, <1>3

(* At the last step nothing is left to ask for.                               *)
LEMMA SaveIsComplete ==
  ASSUME IInv, Save
  PROVE  IsCall(Sent)
<1>1. IsForm(form) /\ LastStep \in Nat \ {0} BY StepsOfStudio DEF IInv, Save, InForm
<1>2. form.step = LastStep /\ Studio.steps[form.step] \subseteq form.filled
  BY Zenon DEF Save, CanProceed
<1>3. form.filled = Demanded BY <1>1, <1>2 DEF IsForm, Ahead
<1> DEFINE marks == IF Studio.whole THEN form.marks ELSE form.marks \ {0}
<1>4. Sent = [Call("put", form.id, marks) EXCEPT !.filled = form.filled, !.seen = store[form.id]]
  BY Zenon DEF Sent
<1> HIDE DEF marks
<1> QED BY <1>3, <1>4 DEF Call, IsCall

LEMMA CallIsCall == ASSUME NEW d, NEW i, NEW k PROVE IsCall(Call(d, i, k))
BY DEF IsCall, Call

(* What has to be shown of a step: the studio is the same, the form is        *)
(* closed or well formed, and every call under way sends complete items.      *)
Safe == /\ kind' = kind
        /\ form' # None => form' = form \/ IsForm(form')
        /\ \A c \in calls' : c \in calls \/ IsCall(c)
LEMMA SafeKeepsInvariant == IInv /\ Safe => IInv'
BY DEF IInv, Safe, IsForm, IsCall, Ahead, Demanded, LastStep, Studio

-----------------------------------------------------------------------------
(* Whatever else happens leaves the form alone, closes it or opens another,   *)
(* and begins only calls that say nothing of a form.                          *)
LEMMA Began == ASSUME NEW d, NEW i, NEW k, Begin(Call(d, i, k))
               PROVE  \A c \in calls' : c \in calls \/ IsCall(c)
BY CallIsCall DEF Begin

LEMMA AnyLive == ASSUME NEW c, IsCall(c), NEW b PROVE IsCall([c EXCEPT !.live = b])
BY DEF IsCall
LEMMA AnyDirty == ASSUME NEW f, IsForm(f), NEW b PROVE IsForm([f EXCEPT !.dirty = b])
BY DEF IsForm, Ahead

LEMMA Acting == IInv /\ Acts => IInv'
<1> SUFFICES ASSUME IInv, Acts PROVE IInv' OBVIOUS
<1>1. ASSUME NEW p \in {"studio", "editor"}, Open(p) PROVE Safe
  <2>1. IsCall(FetchOf(p)) BY CallIsCall DEF FetchOf
  <2>2. ASSUME NEW c \in calls PROVE IsCall([c EXCEPT !.live = FALSE])
    <3>1. IsCall(c) BY DEF IInv
    <3> QED BY <3>1, AnyLive
  <2> QED BY <1>1, <2>1, <2>2 DEF Open, Cleared, Safe
<1>2. ASSUME NEW i \in Items, Select(i) \/ New(i) PROVE Safe
  <2>1. IsForm(Form(StoreCopy(i), Demanded)) /\ IsForm(Form(Copy(i, {}), {}))
    BY OpenedForm DEF IInv
  <2>2. ASSUME NEW d PROVE IsForm([Form(Copy(i, {}), {}) EXCEPT !.dirty = d])
    BY <2>1 DEF IsForm, Form, Ahead
  <2>3. CASE Select(i) BY <2>3, <2>1 DEF Select, Safe
  <2>4. CASE New(i) BY <2>4, <2>2 DEF New, Safe
  <2> QED BY <1>2, <2>3, <2>4
<1>3. ASSUME Edit PROVE Safe
  BY <1>3, OpenedForm DEF Edit, Safe, IInv
<1>4. ASSUME Save PROVE Safe
  <2>1. IsCall(Sent) BY <1>4, SaveIsComplete
  <2> QED BY <1>4, <2>1 DEF Save, Begin, local, Safe
<1>5. ASSUME Type \/ (\E x \in Demanded : FillOrClear(x)) \/ \E n \in 1 .. LastStep : GoTo(n) PROVE IInv'
  <2>1. IsForm(form)' /\ kind' = kind /\ calls' = calls BY <1>5, FormSteps
  <2>2. \A c \in calls' : IsCall(c)' BY <2>1 DEF IInv, IsCall, Demanded, Studio
  <2> QED BY <2>1, <2>2 DEF IInv
<1>6. ASSUME Cancel \/ CancelDelete \/ TypeJson \/ TypeVisual \/ \E n \in 1 .. Cardinality(Items) : Pick(n) PROVE Safe
  BY <1>6 DEF Cancel, CancelDelete, TypeJson, TypeVisual, Pick, EditorOnly, Safe
<1>7. ASSUME AddDomainValue PROVE Safe
  BY <1>7, Began DEF AddDomainValue, local, Safe
<1>8. ASSUME RequestDelete PROVE Safe
  BY <1>8, Began DEF RequestDelete, Safe
<1>9. ASSUME ConfirmDelete PROVE Safe
  BY <1>9, Began DEF ConfirmDelete, local, Safe
<1>10. ASSUME SaveJson PROVE Safe
  BY <1>10, Began DEF SaveJson, local, Safe
<1>11. ASSUME ResetToOob PROVE Safe
  <2>1. PICK i : Begin(Call("reset", i, {})) BY <1>11 DEF ResetToOob
  <2> QED BY <1>11, <2>1, Began DEF ResetToOob, local, Safe
<1> QED
  BY <1>1, <1>2, <1>3, <1>4, <1>5, <1>6, <1>7, <1>8, <1>9, <1>10, <1>11, SafeKeepsInvariant DEF Acts

(* The timer and the answers to calls open no form.                           *)
LEMMA Answering == IInv /\ (ParseJson \/ Answers \/ Failures) => IInv'
<1> SUFFICES ASSUME IInv, ParseJson \/ Answers \/ Failures PROVE Safe
  BY SafeKeepsInvariant
<1>1. ASSUME ParseJson PROVE Safe
  BY <1>1 DEF ParseJson, EditorOnly, Safe
<1>2. ASSUME NEW c \in calls, CarryOut(c) PROVE Safe
  <2>1. IsCall([c EXCEPT !.does = After(c.does)]) BY DEF IInv, IsCall
  <2>2. \A x \in calls' : x \in calls \/ IsCall(x) BY <1>2, <2>1 DEF CarryOut, Becomes
  <2>3. form' # None => form' = form \/ IsForm(form')
    <3>1. ASSUME form # None PROVE IsForm([form EXCEPT !.dirty = FALSE])
      <4>1. IsForm(form) BY <3>1 DEF IInv
      <4> QED BY <4>1, AnyDirty
    <3> QED BY <1>2, <3>1 DEF CarryOut
  <2> QED BY <1>2, <2>2, <2>3 DEF CarryOut, Safe
<1>3. ASSUME NEW c \in calls, Arrive(c) PROVE Safe
  <2>1. IsCall([c EXCEPT !.does = "find"]) BY DEF IInv, IsCall
  <2> QED BY <1>3, <2>1 DEF Arrive, AfterSave, Close, Becomes, Safe
<1>4. ASSUME NEW c \in calls, Find(c) \/ Told(c) \/ Refuse(c) \/ Fail(c) PROVE Safe
  BY <1>4 DEF Find, Told, Refuse, Fail, Ended, Safe
<1> QED BY <1>1, <1>2, <1>3, <1>4 DEF Answers, Failures

LEMMA Inductive == Init /\ [][Next]_vars => []IInv
<1>1. Init => IInv
  BY CallIsCall DEF Init, FetchOf, IInv
<1>2. IInv /\ [Next]_vars => IInv'
  <2> SUFFICES ASSUME IInv, [Next]_vars PROVE IInv' OBVIOUS
  <2>1. CASE UNCHANGED vars BY <2>1, SafeKeepsInvariant DEF vars, local, Safe
  <2> QED BY <2>1, Acting, Answering DEF Next
<1> QED BY <1>1, <1>2, PTL

(* Nothing incomplete is sent, however a user goes through a wizard.          *)
THEOREM CompleteItems == Spec => []SentItemsComplete
<1>1. IInv => SentItemsComplete
  BY DEF IInv, IsCall, SentItemsComplete, Doing
<1> QED BY <1>1, Inductive, PTL DEF Spec

-----------------------------------------------------------------------------
(* What holds as long as the user waits.  One request or one timer is under   *)
(* way at most; the store is the server's copy unless a list is on its way.   *)
Waited == /\ DOMAIN server = Items
          /\ \A c, d \in calls : c = d
          /\ \A c \in calls : c.live
          /\ json.timer # {} => calls = {}
          /\ Doing(Lists) = {} => store = server

(* What is open, and where.                                                   *)
Screen == /\ page \in {"studio", "editor"}
          /\ page = "editor" => HasEditor /\ selected = None /\ mode = "browse" /\ dialog = None
          /\ kind = "mappings" => selected = None /\ dialog = None
          /\ mode = "browse" => form = None
          /\ selected # None => selected.id \in Items
          /\ form # None => form.id \in Items
          /\ dialog # None => mode = "browse" /\ selected # None /\ dialog = selected.id

(* What a request under way stands for.                                       *)
Faithful == kind \notin ForgetfulStudios
Meant(c) ==
  /\ c.does \in {"put", "relist", "find"} => page = "studio" /\ dialog = None
  /\ c.does = "put" => form # None /\ c.id = form.id /\ (Faithful => c.marks = form.marks)
  /\ c.does \in {"relist", "find", "deleted"} => kind # "mappings"
  /\ c.does \in {"relist", "find"} => c.id \in Items
  /\ c.does = "relist" /\ Faithful => server[c.id] = c.marks
  /\ c.does = "find" => ~Faithful
  /\ c.does \in {"store", "refetch"} => kind # "mappings" /\ mode = "browse" /\ (Faithful => page = "editor")
  /\ c.does = "store" /\ Faithful /\ server[c.id] # None => server[c.id] \subseteq c.marks
  /\ c.does = "reset" => page = "editor"
  /\ c.does = "delete" => IF kind = "mappings" THEN form # None ELSE dialog # None /\ c.id = dialog
  /\ c.does = "ask" => kind # "mappings" /\ selected # None /\ mode = "browse" /\ c.id = selected.id

(* What is selected is stored, a form holds all that is stored of its item,   *)
(* and an item that is being made is not there.                               *)
Selected == Faithful /\ selected # None /\ Doing({"relist", "deleted"}) = {} => server[selected.id] = selected.marks
Filling == /\ Faithful /\ form # None /\ server[form.id] # None => server[form.id] \subseteq form.marks
           /\ mode = "create" /\ Doing({"relist"}) = {} => server[form.id] = None
           /\ kind = "mappings" /\ form # None /\ ~form.dirty => server[form.id] = form.marks

(* Both panels of the JSON editor hold the item that the menu names until a   *)
(* key is pressed, and then all that is stored of it, whatever id they say.   *)
Based(c) == LET row == RowAt(store, json.at) IN row # None /\ row.marks \subseteq c.marks
Panels ==
  /\ json = [at |-> json.at, data |-> json.data, text |-> json.text, timer |-> json.timer, valid |-> json.valid,
              typed |-> json.typed]
  /\ \A t \in json.timer : t.text = json.text
  /\ json.timer = {} /\ json.valid => json.data = json.text
  /\ page = "editor" => /\ json.timer # {} => json.typed
                        /\ json.typed => Based(json.data) /\ Based(json.text)
                        /\ ~json.typed => json.data = RowAt(store, json.at) /\ json.text = RowAt(store, json.at)

(* The editor filled from a list.                                             *)
LEMMA FilledPanels ==
  ASSUME NEW n, json' = Filled(store', n, {})
  PROVE  Panels' /\ json'.timer = {}
<1> DEFINE row == RowAt(store', n)
<1>1. json' = [at |-> n, data |-> row, text |-> row, timer |-> {}, valid |-> TRUE, typed |-> FALSE] BY DEF Filled
<1> HIDE DEF row
<1>2. /\ json'.at = n /\ json'.data = row /\ json'.text = row /\ json'.timer = {} /\ json'.typed = FALSE
      /\ json' = [at |-> json'.at, data |-> json'.data, text |-> json'.text, timer |-> json'.timer, valid |-> json'.valid,
                  typed |-> json'.typed]
  BY <1>1
<1>3. RowAt(store', json'.at) = row BY <1>2 DEF row
<1> QED BY <1>2, <1>3 DEF Panels

Calm == Waited /\ Screen /\ (\A c \in calls : Meant(c)) /\ Selected /\ Filling /\ Panels

-----------------------------------------------------------------------------
(* While nothing is under way a request is begun, and nothing else changes.   *)
LEMMA RequestBegun ==
  ASSUME Calm, calls = {}, json.timer = {}, NEW k, calls' = {k}, k.live, k.does \notin Lists, Meant(k),
         UNCHANGED <<kind, page, server, store, local>>
  PROVE  Calm'
<1> USE DEF local
<1>1. store = server BY DEF Calm, Waited, Doing
<1>2. Waited'
  <2>1. Doing(Lists)' = {} BY DEF Doing
  <2> QED BY <1>1 DEF Calm, Waited
<1>3. Screen' BY DEF Calm, Screen, HasEditor
<1>4. \A c \in calls' : Meant(c)' BY DEF Meant, Faithful
<1>5. Doing({"relist", "deleted"}) = {} /\ Doing({"relist"}) = {} BY DEF Doing
<1>6. Selected' BY <1>5 DEF Calm, Selected, Faithful
<1>7. Filling' BY <1>5 DEF Calm, Filling, Faithful
<1>8. Panels' BY DEF Calm, Panels, Based, RowAt, Clamp, ItemAt, Listed, Copy
<1> QED BY <1>2, <1>3, <1>4, <1>6, <1>7, <1>8 DEF Calm

(* While nothing is under way the screen changes, and no request is begun.    *)
LEMMA ScreenChanged ==
  ASSUME Calm, calls = {}, json.timer = {} \/ json.timer' = {}, UNCHANGED <<kind, page, server, store, calls>>,
         Screen', Selected', Filling', Panels'
  PROVE  Calm'
<1>1. store = server BY DEF Calm, Waited, Doing
<1>2. Waited' BY <1>1 DEF Calm, Waited
<1>3. \A c \in calls' : Meant(c)' OBVIOUS
<1> QED BY <1>2, <1>3 DEF Calm

LEMMA SameJson ==
  ASSUME Panels, UNCHANGED <<page, store, json>>
  PROVE  Panels'
BY DEF Panels, Based, RowAt, Clamp, ItemAt, Listed, Copy

(* The fields of a form and of the JSON editor that a step leaves.            *)
LEMMA FormFields ==
  ASSUME NEW f, IsForm(f)
  PROVE  /\ \A m : [f EXCEPT !.marks = m, !.dirty = TRUE].id = f.id
         /\ \A m : [f EXCEPT !.marks = m, !.dirty = TRUE].marks = m
         /\ \A m : [f EXCEPT !.marks = m, !.dirty = TRUE].dirty = TRUE
         /\ \A x : [f EXCEPT !.filled = x].id = f.id /\ [f EXCEPT !.filled = x].marks = f.marks
         /\ \A x : [f EXCEPT !.filled = x].dirty = f.dirty
         /\ \A x : [f EXCEPT !.step = x].id = f.id /\ [f EXCEPT !.step = x].marks = f.marks
         /\ \A x : [f EXCEPT !.step = x].dirty = f.dirty
         /\ [f EXCEPT !.dirty = FALSE].id = f.id /\ [f EXCEPT !.dirty = FALSE].marks = f.marks
BY DEF IsForm

(* Another page, or the same one anew.                                        *)
LEMMA OpenCalm ==
  ASSUME Calm, calls = {}, json.timer = {}, NEW p \in {"studio", "editor"}, Open(p)
  PROVE  Calm'
<1>1. /\ page' = p /\ selected' = None /\ mode' = "browse" /\ form' = None /\ dialog' = None
      /\ store' = IF kind = "mappings" THEN Nothing ELSE store
      /\ json' = IF p = "editor" THEN Filled(store, 1, {}) ELSE NoJson
      /\ calls' = {FetchOf(p)} /\ UNCHANGED <<kind, server>> /\ (p = "editor" => HasEditor)
  BY DEF Open, Cleared
<1>2. FetchOf(p).live /\ FetchOf(p).does \in {"load", "loadAll"} BY DEF FetchOf, Call
<1>3. Waited'
  <2>1. FetchOf(p) \in Doing(Lists)' BY <1>1, <1>2 DEF Doing, Lists
  <2>2. json'.timer = {} BY <1>1 DEF Filled, NoJson
  <2> QED BY <1>1, <1>2, <2>1, <2>2 DEF Calm, Waited
<1>4. Screen' BY <1>1 DEF Calm, Screen, HasEditor
<1>5. \A c \in calls' : Meant(c)' BY <1>1, <1>2 DEF Meant
<1>6. Selected' /\ Filling' BY <1>1 DEF Selected, Filling
<1>7. Panels'
  <2>1. CASE p = "studio"
    <3>1. json' = NoJson BY <1>1, <2>1
    <3>2. json' = Filled(Nothing, 1, {}) BY <3>1 DEF NoJson
    <3> QED BY <1>1, <2>1, <3>2 DEF Panels, Filled
  <2>2. CASE p = "editor"
    <3>1. json' = Filled(store', 1, {}) BY <1>1, <2>2 DEF HasEditor
    <3> QED BY <3>1, FilledPanels
  <2> QED BY <2>1, <2>2
<1> QED BY <1>3, <1>4, <1>5, <1>6, <1>7 DEF Calm

LEMMA SelectCalm ==
  ASSUME Calm, calls = {}, json.timer = {}, NEW i \in Items, Select(i)
  PROVE  Calm'
<1>1. /\ page = "studio" /\ dialog = None /\ store[i] # None /\ store = server
      /\ UNCHANGED <<kind, page, server, store, dialog, json, calls>>
  BY DEF Select, OnPage, Calm, Waited, Doing
<1>2. CASE kind = "mappings"
  <2>1. mode' = "edit" /\ form' = Form(StoreCopy(i), Demanded) /\ selected' = selected
    BY <1>2 DEF Select
  <2>2. form'.id = i /\ form'.marks = server[i] BY <1>1, <2>1 DEF Form, StoreCopy, Copy
  <2>3. Screen' BY <1>1, <2>1, <2>2 DEF Calm, Screen
  <2>4. Selected' BY <1>1, <1>2, <2>1 DEF Calm, Screen, Selected
  <2>5. Filling' BY <1>1, <2>1, <2>2 DEF Filling
  <2> QED BY <1>1, <2>3, <2>4, <2>5, ScreenChanged, SameJson DEF Calm
<1>3. CASE kind # "mappings"
  <2>1. mode' = "browse" /\ form' = None /\ selected' = StoreCopy(i) BY <1>3 DEF Select
  <2>2. selected'.id = i /\ selected'.marks = server[i] BY <1>1, <2>1 DEF StoreCopy, Copy
  <2>3. Screen' BY <1>1, <1>3, <2>1, <2>2 DEF Calm, Screen
  <2>4. Selected' BY <1>1, <2>2 DEF Selected
  <2>5. Filling' BY <2>1 DEF Filling
  <2> QED BY <1>1, <2>3, <2>4, <2>5, ScreenChanged, SameJson DEF Calm
<1> QED BY <1>2, <1>3

LEMMA NewCalm ==
  ASSUME Calm, calls = {}, json.timer = {}, NEW i \in Items, New(i), ~InUse
  PROVE  Calm'
<1>1. /\ page = "studio" /\ dialog = None /\ mode' = "create" /\ selected' = None
      /\ form' = [Form(Copy(i, {}), {}) EXCEPT !.dirty = (kind = "mappings")]
      /\ UNCHANGED <<kind, page, server, store, dialog, json, calls>>
  BY DEF New, OnPage
<1>2. form'.id = i /\ form'.marks = {} /\ form'.dirty = (kind = "mappings") BY <1>1 DEF Form, Copy
<1>3. server[i] = None
  <2>1. CASE mode = "create" /\ form'.id = form.id
    BY <1>2, <2>1 DEF Calm, Filling, Doing
  <2>2. CASE ~(mode = "create" /\ form'.id = form.id)
    BY <1>1, <1>2, <2>2 DEF InUse
  <2> QED BY <2>1, <2>2
<1>4. Screen' BY <1>1, <1>2 DEF Calm, Screen
<1>5. Selected' BY <1>1 DEF Selected
<1>6. Filling' BY <1>1, <1>2, <1>3 DEF Filling
<1> QED BY <1>1, <1>4, <1>5, <1>6, ScreenChanged, SameJson DEF Calm

LEMMA EditCancelCalm ==
  ASSUME Calm, calls = {}, json.timer = {}, Edit \/ Cancel \/ CancelDelete
  PROVE  Calm'
<1>1. UNCHANGED <<kind, page, server, store, selected, json, calls>> BY DEF Edit, Cancel, CancelDelete
<1>2. Selected' BY <1>1 DEF Calm, Selected, Faithful, Doing
<1>3. CASE Edit
  <2>1. /\ page = "studio" /\ dialog = None /\ dialog' = None /\ selected # None
        /\ mode' = "edit" /\ form' = Form(selected, Demanded)
    BY <1>3 DEF Edit, OnPage
  <2>2. form'.id = selected.id /\ form'.marks = selected.marks BY <2>1 DEF Form
  <2>3. Screen' BY <1>1, <2>1, <2>2 DEF Calm, Screen
  <2>4. Faithful => server[selected.id] = selected.marks BY <2>1 DEF Calm, Selected, Doing
  <2>5. Filling' BY <1>1, <2>1, <2>2, <2>4 DEF Calm, Screen, Filling, Faithful
  <2> QED BY <1>1, <1>2, <2>3, <2>5, ScreenChanged, SameJson DEF Calm
<1>4. CASE Cancel
  <2>1. mode' = "browse" /\ form' = None /\ dialog' = dialog BY <1>4 DEF Cancel
  <2>2. Screen' BY <1>1, <2>1 DEF Calm, Screen, HasEditor
  <2>3. Filling' BY <2>1 DEF Filling
  <2> QED BY <1>1, <1>2, <2>2, <2>3, ScreenChanged, SameJson DEF Calm
<1>5. CASE CancelDelete
  <2>1. dialog' = None /\ UNCHANGED <<mode, form>> BY <1>5 DEF CancelDelete
  <2>2. Screen' BY <1>1, <2>1 DEF Calm, Screen, HasEditor
  <2>3. Filling' BY <1>1, <2>1 DEF Calm, Filling, Faithful, Doing
  <2> QED BY <1>1, <1>2, <2>2, <2>3, ScreenChanged, SameJson DEF Calm
<1> QED BY <1>3, <1>4, <1>5

LEMMA FormCalm ==
  ASSUME IInv, Calm, calls = {}, json.timer = {},
         \/ Type
         \/ \E x \in Demanded : FillOrClear(x)
         \/ \E n \in 1 .. LastStep : GoTo(n)
  PROVE  Calm'
<1>1. /\ UNCHANGED <<kind, page, server, store, selected, mode, dialog, json, calls>> /\ form # None /\ IsForm(form)
      /\ dialog = None
  BY DEF Type, FillOrClear, GoTo, FormOnly, InForm, OnPage, IInv
<1>2. form'.id = form.id /\ (form'.dirty \/ (form'.marks = form.marks /\ form'.dirty = form.dirty))
      /\ form.marks \subseteq form'.marks
  <2>1. CASE Type
    <3>1. form' = [form EXCEPT !.marks = @ \cup {edits + 1}, !.dirty = TRUE] BY <2>1 DEF Type
    <3> DEFINE m == form.marks \cup {edits + 1}
    <3>2. form' = [form EXCEPT !.marks = m, !.dirty = TRUE] BY <3>1
    <3>3. form.marks \subseteq m OBVIOUS
    <3> HIDE DEF m
    <3>4. form'.id = form.id /\ form'.marks = m /\ form'.dirty = TRUE BY <1>1, <3>2, FormFields
    <3> QED BY <3>3, <3>4
  <2>2. ASSUME NEW x \in Demanded, FillOrClear(x)
        PROVE  form'.id = form.id /\ form'.marks = form.marks /\ form'.dirty = form.dirty
    <3> DEFINE full == IF x \in form.filled THEN form.filled \ {x} ELSE form.filled \cup {x}
    <3>1. form' = [form EXCEPT !.filled = full] BY <2>2 DEF FillOrClear
    <3> HIDE DEF full
    <3> QED BY <1>1, <3>1, FormFields
  <2>3. ASSUME NEW n \in 1 .. LastStep, GoTo(n)
        PROVE  form'.id = form.id /\ form'.marks = form.marks /\ form'.dirty = form.dirty
    <3>1. form' = [form EXCEPT !.step = n] BY <2>3 DEF GoTo
    <3> QED BY <1>1, <3>1, FormFields
  <2> QED BY <2>1, <2>2, <2>3
<1>3. Screen'
  <2>1. mode # "browse" BY <1>1 DEF Calm, Screen
  <2> QED BY <1>1, <1>2, <2>1 DEF Calm, Screen
<1>4. Selected' BY <1>1 DEF Calm, Selected, Faithful, Doing
<1>5. Filling' BY <1>1, <1>2 DEF Calm, Filling, Faithful, Doing
<1> QED BY <1>1, <1>3, <1>4, <1>5, ScreenChanged, SameJson DEF Calm

LEMMA StudioFacts ==
  ASSUME kind \in Kinds
  PROVE  /\ Faithful => Studio.whole = TRUE
         /\ kind \notin {"mappings", "useCases"} => Studio.after # "saved"
         /\ kind = "useCases" => Studio.after = "saved"
         /\ Faithful /\ kind \notin {"mappings", "useCases"} => Studio.after = "nothing"
         /\ Studio.after = "listed" => kind = "models"
BY KindsAssumption DEF Studio, Studios, SettingsManager, MetadataExplorer, EntityDesigner, ModelComposer, UseCaseStudio,
     MappingStudio, Faithful, ForgetfulStudios

LEMMA CallFields ==
  ASSUME NEW d, NEW i, NEW m
  PROVE  Call(d, i, m).does = d /\ Call(d, i, m).id = i /\ Call(d, i, m).marks = m /\ Call(d, i, m).live
BY DEF Call

LEMMA BeganAlone ==
  ASSUME calls = {}, NEW k, Begin(k)
  PROVE  calls' = {k}
BY DEF Begin

(* What the requests of a studio that is at rest stand for.                   *)
LEMMA SaveCalm ==
  ASSUME IInv, Calm, calls = {}, json.timer = {}, Save
  PROVE  Calm'
<1> DEFINE marks == IF Studio.whole THEN form.marks ELSE form.marks \ {0}
           put == Call("put", form.id, marks)
<1>1. /\ page = "studio" /\ dialog = None /\ form # None /\ calls' = {Sent}
      /\ UNCHANGED <<kind, page, server, store, local>>
  BY BeganAlone DEF Save, InForm, OnPage
<1>2. Sent = [put EXCEPT !.filled = form.filled, !.seen = store[form.id]] BY Zenon DEF Sent
<1>3. Faithful => marks = form.marks BY StudioFacts DEF IInv
<1> HIDE DEF marks
<1>4. Sent.does = "put" /\ Sent.id = form.id /\ Sent.marks = marks /\ Sent.live BY <1>2 DEF Call
<1>5. Meant(Sent) BY <1>1, <1>3, <1>4 DEF Meant, local, Faithful
<1>6. Sent.does \notin Lists BY <1>4 DEF Lists
<1> QED BY <1>1, <1>4, <1>5, <1>6, RequestBegun

LEMMA AddDomainValueCalm ==
  ASSUME Calm, calls = {}, json.timer = {}, AddDomainValue
  PROVE  Calm'
<1> DEFINE k == Call("store", selected.id, selected.marks \cup {edits + 1})
<1>1. /\ kind = "entities" /\ mode = "browse" /\ calls' = {k} /\ UNCHANGED <<kind, page, server, store, local>>
  BY BeganAlone DEF AddDomainValue
<1>2. k.does = "store" /\ k.live BY CallFields
<1> HIDE DEF k
<1>4. Meant(k) BY <1>1, <1>2 DEF Meant, local, Faithful, ForgetfulStudios
<1>5. k.does \notin Lists BY <1>2 DEF Lists
<1> QED BY <1>1, <1>2, <1>4, <1>5, RequestBegun

LEMMA RequestDeleteCalm ==
  ASSUME Calm, calls = {}, json.timer = {}, RequestDelete
  PROVE  Calm'
<1>1. /\ page = "studio" /\ dialog = None /\ mode = "browse" /\ selected # None /\ kind # "mappings"
      /\ UNCHANGED <<kind, page, server, store, selected, mode, form, json>>
  BY DEF RequestDelete, OnPage, Calm, Screen
<1>2. CASE Studio.asks
  <2> DEFINE k == Call("ask", selected.id, {})
  <2>1. dialog' = dialog /\ calls' = {k} BY <1>2, BeganAlone DEF RequestDelete
  <2>2. k.does = "ask" /\ k.id = selected.id /\ k.live BY CallFields
  <2> HIDE DEF k
  <2>3. Meant(k) BY <1>1, <2>2 DEF Meant
  <2>4. k.does \notin Lists BY <2>2 DEF Lists
  <2> QED BY <1>1, <2>1, <2>2, <2>3, <2>4, RequestBegun DEF local
<1>3. CASE ~Studio.asks
  <2>1. dialog' = selected.id /\ calls' = calls BY <1>3 DEF RequestDelete
  <2>2. Screen' BY <1>1, <2>1 DEF Calm, Screen
  <2>3. Selected' /\ Filling' BY <1>1, <2>1 DEF Calm, Selected, Filling, Faithful, Doing
  <2> QED BY <1>1, <2>1, <2>2, <2>3, ScreenChanged, SameJson DEF Calm
<1> QED BY <1>2, <1>3

LEMMA ConfirmDeleteCalm ==
  ASSUME Calm, calls = {}, json.timer = {}, ConfirmDelete
  PROVE  Calm'
<1> DEFINE k == Call("delete", Doomed.id, {})
<1>1. /\ IF kind = "mappings" THEN form # None ELSE dialog # None /\ Doomed = selected /\ selected # None
      /\ calls' = {k} /\ UNCHANGED <<kind, page, server, store, local>>
  BY BeganAlone DEF ConfirmDelete, Doomed
<1>2. k.does = "delete" /\ k.id = Doomed.id /\ k.live BY CallFields
<1> HIDE DEF k
<1>3. kind # "mappings" => dialog = selected.id BY <1>1 DEF Calm, Screen
<1>4. Meant(k) BY <1>1, <1>2, <1>3 DEF Meant, local
<1>5. k.does \notin Lists BY <1>2 DEF Lists
<1> QED BY <1>1, <1>2, <1>4, <1>5, RequestBegun

-----------------------------------------------------------------------------
(* The JSON editor.                                                           *)
LEMMA EditorTyped ==
  ASSUME Calm, calls = {}, json.timer = {} \/ json.timer' = {},
         UNCHANGED <<kind, page, server, store, selected, mode, form, dialog, calls>>,
         Panels'
  PROVE  Calm'
<1>1. Screen' BY DEF Calm, Screen, HasEditor
<1>2. Selected' /\ Filling' BY DEF Calm, Selected, Filling, Faithful, Doing
<1> QED BY <1>1, <1>2, ScreenChanged

LEMMA PickCalm ==
  ASSUME Calm, calls = {}, json.timer = {}, NEW n, Pick(n)
  PROVE  Calm'
<1>1. json' = Filled(store', n, {}) /\ UNCHANGED <<kind, page, server, store, selected, mode, form, dialog, calls>>
  BY DEF Pick, EditorOnly
<1>2. Panels' BY <1>1, FilledPanels
<1> QED BY <1>1, <1>2, EditorTyped

(* The JSON editor's fields after a step, whatever it left in them.           *)
LEMMA JsonTyped ==
  ASSUME Panels, NEW text, NEW timer, json' = [json EXCEPT !.text = text, !.typed = TRUE, !.timer = timer]
  PROVE  json' = [at |-> json.at, data |-> json.data, text |-> text, timer |-> timer, valid |-> json.valid, typed |-> TRUE]
BY DEF Panels

LEMMA JsonShown ==
  ASSUME Panels, NEW data, json' = [json EXCEPT !.data = data, !.text = data, !.valid = TRUE, !.typed = TRUE]
  PROVE  json' = [at |-> json.at, data |-> data, text |-> data, timer |-> json.timer, valid |-> TRUE, typed |-> TRUE]
BY DEF Panels

LEMMA JsonParsed ==
  ASSUME Panels, NEW valid, NEW data, json' = [json EXCEPT !.timer = {}, !.valid = valid, !.data = data]
  PROVE  json' = [at |-> json.at, data |-> data, text |-> json.text, timer |-> {}, valid |-> valid, typed |-> json.typed]
BY DEF Panels

LEMMA SameRow ==
  ASSUME store' = store, json'.at = json.at, NEW c, Based(c)
  PROVE  Based(c)'
BY DEF Based, RowAt, Clamp, ItemAt, Listed, Copy

LEMMA BasedGrows ==
  ASSUME NEW c, Based(c), NEW e, NEW i
  PROVE  Based(Copy(i, c.marks \cup {e}))
BY DEF Based, Copy

(* What a panel shows, if anything, is based on the row of the menu.          *)
LEMMA PanelsBased ==
  ASSUME Panels, page = "editor"
  PROVE  /\ json.data # None => Based(json.data)
         /\ json.text # None => Based(json.text)
<1>1. CASE json.typed BY <1>1 DEF Panels
<1>2. CASE ~json.typed
  <2> DEFINE row == RowAt(store, json.at)
  <2>1. json.data = row /\ json.text = row BY <1>2 DEF Panels
  <2>2. row # None => Based(row) BY DEF Based
  <2> HIDE DEF row
  <2> QED BY <2>1, <2>2
<1> QED BY <1>1, <1>2

LEMMA TypeJsonCalm ==
  ASSUME Calm, calls = {}, json.timer = {}, TypeJson
  PROVE  Calm'
<1>1. PICK i \in Items, parses \in BOOLEAN :
        LET text == Copy(i, json.text.marks \cup {edits + 1})
        IN  json' = [json EXCEPT !.text = text, !.typed = TRUE, !.timer = {[text |-> text, parses |-> parses]}]
  BY DEF TypeJson
<1>2. /\ page = "editor" /\ json.text # None
      /\ UNCHANGED <<kind, page, server, store, selected, mode, form, dialog, calls>>
  BY DEF TypeJson, OnPage, EditorOnly
<1>3. PICK t : t = Copy(i, json.text.marks \cup {edits + 1}) OBVIOUS
<1>4. PICK timer : timer = {[text |-> t, parses |-> parses]} OBVIOUS
<1>5. json' = [json EXCEPT !.text = t, !.typed = TRUE, !.timer = timer] BY <1>1, <1>3, <1>4
<1>6. json' = [at |-> json.at, data |-> json.data, text |-> t, timer |-> timer, valid |-> json.valid, typed |-> TRUE]
  BY <1>5, JsonTyped DEF Calm
<1>7. json'.at = json.at /\ json'.data = json.data /\ json'.text = t /\ json'.timer = timer /\ json'.typed = TRUE
  BY <1>6
<1>8. Based(json.text) BY <1>2, PanelsBased DEF Calm
<1>9. Based(t) BY <1>3, <1>8, BasedGrows
<1>10. Based(json.data)
  <2>1. CASE json.typed BY <1>2, <2>1 DEF Calm, Panels
  <2>2. CASE ~json.typed
    <3>1. json.data = json.text BY <1>2, <2>2 DEF Calm, Panels
    <3> QED BY <1>8, <3>1 DEF Based
  <2> QED BY <2>1, <2>2
<1>11. PICK d : d = json.data OBVIOUS
<1>12. Based(d) BY <1>10, <1>11 DEF Based
<1>13. Based(d)' /\ Based(t)' BY <1>2, <1>7, <1>9, <1>12, SameRow
<1>14. Panels'
  <2>1. json' = [at |-> json'.at, data |-> json'.data, text |-> json'.text, timer |-> json'.timer, valid |-> json'.valid,
                 typed |-> json'.typed]
    BY <1>6
  <2>2. Based(json.data)' /\ Based(json.text)' BY <1>7, <1>11, <1>13 DEF Based
  <2>3. (\A x \in json.timer : x.text = json.text)' /\ json'.timer # {} BY <1>4, <1>7
  <2> QED BY <1>7, <2>1, <2>2, <2>3 DEF Panels
<1> QED BY <1>2, <1>14, EditorTyped

LEMMA TypeVisualCalm ==
  ASSUME Calm, calls = {}, json.timer = {}, TypeVisual
  PROVE  Calm'
<1> DEFINE c == Copy(json.data.id, json.data.marks \cup {edits + 1})
<1>1. /\ page = "editor" /\ json.data # None /\ json' = [json EXCEPT !.data = c, !.text = c, !.valid = TRUE, !.typed = TRUE]
      /\ UNCHANGED <<kind, page, server, store, selected, mode, form, dialog, calls>>
  BY DEF TypeVisual, OnPage, EditorOnly
<1>2. Based(c)
  <2>1. Based(json.data) BY <1>1, PanelsBased DEF Calm
  <2> QED BY <2>1, BasedGrows
<1> HIDE DEF c
<1>3. json' = [at |-> json.at, data |-> c, text |-> c, timer |-> {}, valid |-> TRUE, typed |-> TRUE]
  BY <1>1, JsonShown DEF Calm
<1>4. json'.at = json.at /\ json'.data = c /\ json'.text = c /\ json'.timer = {} /\ json'.typed = TRUE BY <1>3
<1>5. PICK k : k = c OBVIOUS
<1>6. Based(k)' BY <1>1, <1>2, <1>4, <1>5, SameRow
<1>7. Panels'
  <2>1. json' = [at |-> json'.at, data |-> json'.data, text |-> json'.text, timer |-> json'.timer, valid |-> json'.valid,
                 typed |-> json'.typed]
    BY <1>3
  <2>2. Based(json.data)' /\ Based(json.text)' BY <1>4, <1>5, <1>6 DEF Based
  <2> QED BY <1>4, <2>1, <2>2 DEF Panels
<1> QED BY <1>1, <1>7, EditorTyped

(* The row of an item holds what the list says of it.                         *)
LEMMA RowSays ==
  ASSUME NEW rows, NEW n, RowAt(rows, n) # None
  PROVE  RowAt(rows, n).marks = rows[RowAt(rows, n).id]
BY DEF RowAt, Copy

(* What is saved under the id of the menu's item holds all that is stored of  *)
(* it; what is saved under another id overwrites nothing, or it is a slip.    *)
LEMMA SaveJsonCalm ==
  ASSUME Calm, calls = {}, json.timer = {}, SaveJson, ~InUse
  PROVE  Calm'
<1> DEFINE k == Call("store", json.data.id, json.data.marks)
<1>1. /\ page = "editor" /\ json.data # None /\ calls' = {k} /\ UNCHANGED <<kind, page, server, store, local>>
  BY BeganAlone DEF SaveJson, OnPage
<1>2. k.does = "store" /\ k.id = json.data.id /\ k.marks = json.data.marks /\ k.live BY CallFields
<1> HIDE DEF k
<1>3. kind # "mappings" /\ mode = "browse" /\ store = server
  BY <1>1 DEF Calm, Screen, HasEditor, Waited, Doing
<1>4. server[k.id] # None => server[k.id] \subseteq k.marks
  <2> DEFINE row == RowAt(store, json.at)
  <2>1. row # None /\ row.marks \subseteq k.marks BY <1>1, <1>2, PanelsBased DEF Calm, Based
  <2>2. row.marks = store[row.id] BY <2>1, RowSays
  <2>3. k.id = row.id \/ server[k.id] = None BY <1>1, <1>2 DEF InUse
  <2> HIDE DEF row
  <2> QED BY <1>3, <2>1, <2>2, <2>3
<1>5. Meant(k) BY <1>1, <1>2, <1>3, <1>4 DEF Meant
<1>6. k.does \notin Lists BY <1>2 DEF Lists
<1> QED BY <1>1, <1>2, <1>5, <1>6, RequestBegun

LEMMA ResetToOobCalm ==
  ASSUME Calm, calls = {}, json.timer = {}, ResetToOob
  PROVE  Calm'
<1>1. PICK i : page = "editor" /\ Begin(Call("reset", i, {})) /\ UNCHANGED <<kind, page, server, store, local>>
  BY DEF ResetToOob, OnPage
<1> DEFINE k == Call("reset", i, {})
<1>2. k.does = "reset" /\ k.live BY CallFields
<1>3. calls' = {k} BY <1>1, BeganAlone
<1> HIDE DEF k
<1>4. Meant(k) BY <1>1, <1>2 DEF Meant
<1>5. k.does \notin Lists BY <1>2 DEF Lists
<1> QED BY <1>1, <1>2, <1>3, <1>4, <1>5, RequestBegun

(* The timer parses the text that is shown.                                   *)
LEMMA ParseJsonCalm ==
  ASSUME Calm, ParseJson
  PROVE  Calm'
<1>1. PICK t \in json.timer : json' = [json EXCEPT !.timer = {}, !.valid = t.parses,
                                                   !.data = IF t.parses THEN t.text ELSE @]
  BY DEF ParseJson
<1>2. PICK text, data, valid : text = json.text /\ data = (IF t.parses THEN t.text ELSE json.data) /\ valid = t.parses
  OBVIOUS
<1>3. t.text = text /\ calls = {} BY <1>1, <1>2 DEF Calm, Panels, Waited
<1>4. json' = [json EXCEPT !.timer = {}, !.valid = valid, !.data = data] BY <1>1, <1>2, Zenon
<1>5. UNCHANGED <<kind, page, server, store, selected, mode, form, dialog, calls>> BY DEF ParseJson, EditorOnly
<1>6. valid => data = text BY <1>2, <1>3
<1>7. page = "editor" => json.typed /\ Based(data) /\ Based(text)
  <2> SUFFICES ASSUME page = "editor" PROVE json.typed /\ Based(data) /\ Based(text) OBVIOUS
  <2>1. json.typed /\ Based(json.data) /\ Based(json.text) BY <1>1 DEF Calm, Panels
  <2>2. data = json.data \/ data = json.text BY <1>2, <1>3
  <2> QED BY <1>2, <2>1, <2>2 DEF Based
<1>8. json' = [at |-> json.at, data |-> data, text |-> text, timer |-> {}, valid |-> valid, typed |-> json.typed]
  BY <1>2, <1>4, JsonParsed DEF Calm
<1>9. /\ json'.at = json.at /\ json'.data = data /\ json'.text = text /\ json'.timer = {} /\ json'.valid = valid
      /\ json'.typed = json.typed
  BY <1>8
<1>10. Panels'
  <2>1. json' = [at |-> json'.at, data |-> json'.data, text |-> json'.text, timer |-> json'.timer, valid |-> json'.valid,
                 typed |-> json'.typed]
    BY <1>8
  <2>2. ASSUME page' = "editor" PROVE json'.typed /\ Based(json.data)' /\ Based(json.text)'
    <3>1. Based(data)' /\ Based(text)' BY <1>5, <1>7, <1>9, <2>2, SameRow
    <3> QED BY <1>5, <1>7, <1>9, <2>2, <3>1 DEF Based
  <2> QED BY <1>6, <1>9, <2>1, <2>2 DEF Panels
<1> QED BY <1>3, <1>5, <1>9, <1>10, EditorTyped

-----------------------------------------------------------------------------
(* The one request under way is answered.                                     *)
LEMMA TurnedInto ==
  ASSUME IInv, NEW c \in calls, NEW d
  PROVE  /\ [c EXCEPT !.does = d].does = d /\ [c EXCEPT !.does = d].id = c.id
         /\ [c EXCEPT !.does = d].marks = c.marks /\ [c EXCEPT !.does = d].live = c.live
<1>1. IsCall(c) BY DEF IInv
<1> QED BY <1>1 DEF IsCall

LEMMA Undirtied ==
  ASSUME NEW f, IsForm(f)
  PROVE  [f EXCEPT !.dirty = FALSE].id = f.id /\ [f EXCEPT !.dirty = FALSE].marks = f.marks
BY FormFields

LEMMA CarryOutCalm ==
  ASSUME IInv, Calm, NEW c \in calls, CarryOut(c)
  PROVE  Calm'
<1> DEFINE written == IF c.does \in {"delete", "reset"} THEN Restored(c.id) ELSE c.marks
<1>0. PICK d : d = [c EXCEPT !.does = After(c.does)] OBVIOUS
<1>1. calls = {c} /\ c.live /\ json.timer = {} /\ Meant(c) /\ DOMAIN server = Items BY DEF Calm, Waited
<1>2. /\ c.does \in ToServer /\ server' = [server EXCEPT ![c.id] = written]
      /\ UNCHANGED <<kind, page, store, selected, dialog, json>>
      /\ calls' = {d}
  BY <1>0, <1>1 DEF CarryOut, Becomes
<1>3. IF kind # "mappings" THEN UNCHANGED <<mode, form>>
      ELSE IF c.does = "delete" THEN mode' = "browse" /\ form' = None
      ELSE /\ mode' = IF form = None THEN mode ELSE "edit"
           /\ form' = IF form = None THEN form ELSE [form EXCEPT !.dirty = FALSE]
  BY <1>1 DEF CarryOut
<1>4. d.does = After(c.does) /\ d.id = c.id /\ d.marks = c.marks /\ d.live = c.live BY <1>0, TurnedInto
<1>5. /\ c.does = "reset" \/ kind = "mappings" => d.does = "loadAll"
      /\ c.does = "put" /\ kind # "mappings" => d.does = "relist"
      /\ c.does = "store" /\ kind # "mappings" => d.does = "refetch"
      /\ c.does = "delete" /\ kind # "mappings" => d.does = "deleted"
  BY <1>4 DEF After
<1>6. c.does \in {"put", "store"} => written = c.marks BY DEF ToServer
<1> HIDE DEF written
<1>7. Waited'
  <2>1. d \in Doing(Lists)' BY <1>2, <1>5 DEF Doing, Lists, ToServer
  <2>2. DOMAIN server' = Items BY <1>1, <1>2
  <2> QED BY <1>1, <1>2, <1>4, <2>1, <2>2 DEF Waited
<1>8. form' # None => form # None /\ form'.id = form.id /\ form'.marks = form.marks
  <2>1. CASE form = None BY <1>3, <2>1
  <2>2. CASE form # None
    <3>1. IsForm(form) BY <2>2 DEF IInv
    <3> QED BY <1>3, <2>2, <3>1, Undirtied
  <2> QED BY <2>1, <2>2
<1>9. Screen'
  <2>1. mode' = "browse" => form' = None BY <1>3 DEF Calm, Screen
  <2>2. kind # "mappings" => mode' = mode BY <1>3
  <2> QED BY <1>2, <1>8, <2>1, <2>2 DEF Calm, Screen, HasEditor
<1>10. Meant(d)'
  <2>1. CASE kind = "mappings" \/ c.does = "reset" BY <1>5, <2>1 DEF Meant
  <2>2. CASE kind # "mappings" /\ c.does = "put"
    <3>1. d.does = "relist" /\ c.id \in Items /\ page = "studio" /\ dialog = None /\ (Faithful => c.marks = form.marks)
      BY <1>1, <1>5, <2>2 DEF Meant, Calm, Screen
    <3>2. server'[c.id] = c.marks BY <1>1, <1>2, <1>6, <2>2, <3>1
    <3> QED BY <1>2, <1>4, <2>2, <3>1, <3>2 DEF Meant
  <2>3. CASE kind # "mappings" /\ c.does = "store"
    BY <1>1, <1>2, <1>3, <1>5, <2>3 DEF Meant, Faithful
  <2>4. CASE kind # "mappings" /\ c.does = "delete"
    BY <1>2, <1>5, <2>4 DEF Meant
  <2> QED BY <1>2, <2>1, <2>2, <2>3, <2>4 DEF ToServer
<1>11. Selected'
  <2>1. SUFFICES ASSUME Faithful, selected # None, Doing({"relist", "deleted"})' = {} PROVE FALSE
    BY <1>2 DEF Selected, Faithful
  <2>2. d.does \notin {"relist", "deleted"} BY <1>2, <2>1 DEF Doing
  <2>3. kind # "mappings" /\ page # "editor" BY <2>1 DEF Calm, Screen
  <2> QED BY <1>1, <1>2, <1>5, <2>1, <2>2, <2>3 DEF Meant, ToServer
<1>12. Filling'
  <2>1. CASE c.does = "put"
    <3>1. form # None /\ c.id = form.id /\ (Faithful => c.marks = form.marks) /\ c.id \in Items
      BY <1>1, <2>1 DEF Meant, Calm, Screen
    <3>2. server'[form.id] = c.marks BY <1>1, <1>2, <1>6, <2>1, <3>1
    <3>3. kind # "mappings" => d \in Doing({"relist"})' BY <1>2, <1>5, <2>1 DEF Doing
    <3>4. kind = "mappings" => mode' = "edit" BY <1>3, <2>1, <3>1
    <3>5. kind = "mappings" => Faithful BY DEF Faithful, ForgetfulStudios
    <3> QED BY <1>2, <1>8, <3>1, <3>2, <3>3, <3>4, <3>5 DEF Filling, Faithful
  <2>2. CASE c.does # "put"
    <3>1. mode' = "browse" /\ form' = None
      <4>1. CASE kind = "mappings"
        <5>1. c.does = "delete" BY <1>1, <1>2, <2>2, <4>1 DEF Meant, Calm, Screen, HasEditor, ToServer
        <5> QED BY <1>3, <4>1, <5>1
      <4>2. CASE kind # "mappings"
        <5>1. mode = "browse" BY <1>1, <1>2, <2>2, <4>2 DEF Meant, Calm, Screen, ToServer
        <5> QED BY <1>3, <4>2, <5>1 DEF Calm, Screen
      <4> QED BY <4>1, <4>2
    <3> QED BY <3>1 DEF Filling
  <2> QED BY <2>1, <2>2
<1>13. Panels' BY <1>2, SameJson DEF Calm
<1> QED BY <1>2, <1>7, <1>9, <1>10, <1>11, <1>12, <1>13 DEF Calm

LEMMA RefuseCalm ==
  ASSUME Calm, NEW c \in calls, Refuse(c)
  PROVE  Calm'
<1>1. calls = {c} /\ json.timer = {} /\ DOMAIN server = Items BY DEF Calm, Waited
<1>2. c.does \in ToServer BY DEF Refuse
<1>3. calls' = {} /\ UNCHANGED <<kind, page, server, store, selected, mode, form, dialog, json>>
  BY <1>1, <1>2 DEF Refuse, Ended, ToServer
<1>4. store = server BY <1>1, <1>2 DEF Calm, Waited, Doing, Lists, ToServer
<1>5. Doing({"relist", "deleted"}) = {} /\ Doing({"relist"}) = {} BY <1>1, <1>2 DEF Doing, ToServer
<1>6. Waited' BY <1>1, <1>3, <1>4 DEF Waited
<1>7. Screen' BY <1>3 DEF Calm, Screen, HasEditor
<1>8. Selected' /\ Filling' BY <1>3, <1>5 DEF Calm, Selected, Filling, Faithful
<1>9. Panels' BY <1>3, SameJson DEF Calm
<1> QED BY <1>3, <1>6, <1>7, <1>8, <1>9 DEF Calm

(* The editor is filled from the list that arrives.                           *)
LEMMA RefilledPanels ==
  ASSUME Panels, json.timer = {}, store' = server, page' = page, Refill
  PROVE  Panels' /\ json'.timer = {}
<1>1. CASE page = "editor"
  <2>1. json' = Filled(store', json.at, {}) BY <1>1 DEF Refill
  <2> QED BY <2>1, FilledPanels
<1>2. CASE page # "editor"
  <2>1. json' = json BY <1>2 DEF Refill
  <2> QED BY <1>2, <2>1 DEF Panels
<1> QED BY <1>1, <1>2

LEMMA ArriveCalm ==
  ASSUME IInv, Calm, NEW c \in calls, Arrive(c)
  PROVE  Calm'
<1>0. PICK d : d = [c EXCEPT !.does = "find"] OBVIOUS
<1>1. calls = {c} /\ c.live /\ json.timer = {} /\ Meant(c) /\ DOMAIN server = Items BY DEF Calm, Waited
<1>2. /\ c.does \in {"load", "loadAll", "relist", "refetch", "deleted"} /\ store' = server /\ Refill
      /\ UNCHANGED <<kind, page, server>>
      /\ IF c.does = "relist" /\ Studio.after = "listed" THEN calls' = {d} ELSE calls' = {}
  BY <1>0, <1>1 DEF Arrive, Heard, Lists, Becomes
<1>3. /\ c.does = "relist" => AfterSave(c) /\ dialog' = dialog
      /\ c.does = "deleted" => selected' = None /\ mode' = "browse" /\ form' = None /\ dialog' = None
      /\ c.does \in {"load", "loadAll", "refetch"} => UNCHANGED <<selected, mode, form, dialog>>
  BY <1>1 DEF Arrive, Close
<1>4. d.does = "find" /\ d.id = c.id /\ d.live = c.live BY <1>0, TurnedInto
<1>5. c.does = "relist" => /\ mode' = "browse" /\ form' = None /\ dialog' = None /\ page = "studio"
                           /\ c.id \in Items /\ kind # "mappings"
                           /\ Faithful => selected' = None \/ (selected'.id = c.id /\ selected'.marks = server[c.id])
                           /\ selected' \in {None, selected} \/ selected'.id \in Items
  <2>1. SUFFICES ASSUME c.does = "relist"
                 PROVE  /\ mode' = "browse" /\ form' = None /\ dialog' = None /\ page = "studio"
                        /\ c.id \in Items /\ kind # "mappings"
                        /\ Faithful => selected' = None \/ (selected'.id = c.id /\ selected'.marks = server[c.id])
                        /\ selected' \in {None, selected} \/ selected'.id \in Items
    OBVIOUS
  <2>2. page = "studio" /\ dialog = None /\ c.id \in Items /\ kind # "mappings" /\ (Faithful => server[c.id] = c.marks)
    BY <1>1, <2>1 DEF Meant
  <2>3. AfterSave(c) /\ dialog' = dialog BY <1>3, <2>1
  <2>4. CASE Studio.after = "nothing"
    <3>1. Close(None) BY <2>3, <2>4 DEF AfterSave
    <3> QED BY <2>2, <2>3, <3>1 DEF Close
  <2>5. CASE Studio.after = "saved"
    <3>1. Close(Copy(c.id, c.marks)) BY <2>3, <2>5 DEF AfterSave
    <3> QED BY <2>2, <2>3, <3>1 DEF Close, Copy
  <2>6. CASE Studio.after \notin {"nothing", "saved"}
    <3>1. Close(selected) BY <2>3, <2>6 DEF AfterSave
    <3>2. ~Faithful BY <2>2, <2>6, StudioFacts DEF IInv
    <3> QED BY <2>2, <2>3, <3>1, <3>2 DEF Close
  <2> QED BY <2>4, <2>5, <2>6
<1>6. Panels' /\ json'.timer = {} BY <1>1, <1>2, RefilledPanels DEF Calm
<1>7. Waited' BY <1>1, <1>2, <1>4, <1>6 DEF Waited
<1>8. Screen' BY <1>2, <1>3, <1>5 DEF Calm, Screen, HasEditor
<1>9. \A x \in calls' : Meant(x)'
  <2>1. CASE c.does = "relist" /\ Studio.after = "listed"
    <3>1. kind = "models" BY <2>1, StudioFacts DEF IInv
    <3>2. Meant(d)' BY <1>2, <1>4, <1>5, <2>1, <3>1 DEF Meant, Faithful, ForgetfulStudios
    <3> QED BY <1>2, <2>1, <3>2
  <2>2. CASE ~(c.does = "relist" /\ Studio.after = "listed") BY <1>2, <2>2
  <2> QED BY <2>1, <2>2
<1>10. c.does \notin {"relist", "deleted"} => Doing({"relist", "deleted"}) = {} /\ Doing({"relist"}) = {}
  BY <1>1 DEF Doing
<1>11. Selected' BY <1>2, <1>3, <1>5, <1>10 DEF Calm, Selected, Faithful
<1>12. Filling' BY <1>2, <1>3, <1>5, <1>10 DEF Calm, Filling, Faithful
<1> QED BY <1>6, <1>7, <1>8, <1>9, <1>11, <1>12 DEF Calm

LEMMA FindCalm ==
  ASSUME Calm, NEW c \in calls, Find(c)
  PROVE  Calm'
<1>1. calls = {c} /\ json.timer = {} /\ Meant(c) /\ DOMAIN server = Items BY DEF Calm, Waited
<1>2. /\ c.does = "find" /\ store' = server /\ Refill /\ calls' = {} /\ UNCHANGED <<kind, page, server, mode, form, dialog>>
      /\ selected' = IF c.live /\ c.seen # None THEN Copy(c.id, c.seen) ELSE selected
  BY <1>1 DEF Find
<1>3. page = "studio" /\ dialog = None /\ kind # "mappings" /\ c.id \in Items /\ ~Faithful BY <1>1, <1>2 DEF Meant
<1>4. selected' = selected \/ selected'.id \in Items BY <1>2, <1>3 DEF Copy
<1>5. Panels' /\ json'.timer = {} BY <1>1, <1>2, RefilledPanels DEF Calm
<1>6. Waited' BY <1>1, <1>2, <1>5 DEF Waited
<1>7. Screen' BY <1>2, <1>3, <1>4 DEF Calm, Screen, HasEditor
<1>8. Selected' BY <1>2, <1>3 DEF Selected, Faithful
<1>9. Filling' BY <1>1, <1>2, <1>3 DEF Calm, Filling, Faithful, Doing
<1> QED BY <1>2, <1>5, <1>6, <1>7, <1>8, <1>9 DEF Calm

LEMMA ToldCalm ==
  ASSUME Calm, NEW c \in calls, Told(c)
  PROVE  Calm'
<1>1. calls = {c} /\ c.live /\ json.timer = {} /\ Meant(c) /\ DOMAIN server = Items BY DEF Calm, Waited
<1>2. /\ c.does = "ask" /\ dialog' = c.id /\ calls' = {}
      /\ UNCHANGED <<kind, page, server, store, selected, mode, form, json>>
  BY <1>1 DEF Told
<1>3. kind # "mappings" /\ selected # None /\ mode = "browse" /\ c.id = selected.id BY <1>1, <1>2 DEF Meant
<1>4. store = server BY <1>1, <1>2 DEF Calm, Waited, Doing, Lists
<1>5. Doing({"relist", "deleted"}) = {} /\ Doing({"relist"}) = {} BY <1>1, <1>2 DEF Doing
<1>6. Waited' BY <1>1, <1>2, <1>4 DEF Waited
<1>7. Screen' BY <1>2, <1>3 DEF Calm, Screen, HasEditor
<1>8. Selected' /\ Filling' BY <1>2, <1>5 DEF Calm, Selected, Filling, Faithful
<1>9. Panels' BY <1>2, SameJson DEF Calm
<1> QED BY <1>2, <1>6, <1>7, <1>8, <1>9 DEF Calm

-----------------------------------------------------------------------------
(* A user who waits finds what the last answer left.                          *)
HistoryInv == IInv /\ slips \in Nat /\ (straight => Calm)

LEMMA FirstCalm == Init => Calm
<1> SUFFICES ASSUME Init PROVE Calm OBVIOUS
<1>1. FetchOf("studio").live /\ FetchOf("studio").does \in {"load", "loadAll"} BY DEF FetchOf, Call
<1>2. /\ page = "studio" /\ selected = None /\ mode = "browse" /\ form = None /\ dialog = None
      /\ json = Filled(Nothing, 1, {}) /\ calls = {FetchOf("studio")} /\ DOMAIN server = Items
  BY DEF Init, NoJson
<1>3. json.timer = {} /\ json.data = json.text
      /\ json = [at |-> json.at, data |-> json.data, text |-> json.text, timer |-> json.timer, valid |-> json.valid,
                 typed |-> json.typed]
  BY <1>2 DEF Filled
<1>4. FetchOf("studio") \in Doing(Lists) BY <1>1, <1>2 DEF Doing, Lists
<1>5. Waited BY <1>1, <1>2, <1>3, <1>4 DEF Waited
<1>6. Screen BY <1>2 DEF Screen
<1>7. \A c \in calls : Meant(c) BY <1>1, <1>2 DEF Meant
<1>8. Selected /\ Filling BY <1>2 DEF Selected, Filling
<1>9. Panels BY <1>2, <1>3 DEF Panels
<1> QED BY <1>5, <1>6, <1>7, <1>8, <1>9 DEF Calm

LEMMA StillCalm ==
  ASSUME Calm, UNCHANGED vars
  PROVE  Calm'
<1> USE DEF vars, local
<1>1. Waited' BY DEF Calm, Waited, Doing
<1>2. Screen' BY DEF Calm, Screen, HasEditor
<1>3. \A c \in calls' : Meant(c)' BY DEF Calm, Meant, Faithful
<1>4. Selected' /\ Filling' BY DEF Calm, Selected, Filling, Faithful, Doing
<1>5. Panels' BY SameJson DEF Calm
<1> QED BY <1>1, <1>2, <1>3, <1>4, <1>5 DEF Calm

LEMMA ActsCalm ==
  ASSUME IInv, Calm, AtRest, ~InUse, Acts
  PROVE  Calm'
<1>1. calls = {} /\ json.timer = {} BY DEF AtRest
<1>2. ASSUME NEW i \in Items, Select(i) \/ New(i) PROVE Calm' BY <1>1, <1>2, SelectCalm, NewCalm
<1>3. ASSUME NEW p \in {"studio", "editor"}, Open(p) PROVE Calm' BY <1>1, <1>3, OpenCalm
<1>4. ASSUME NEW n \in 1 .. Cardinality(Items), Pick(n) PROVE Calm' BY <1>1, <1>4, PickCalm
<1>5. ASSUME Type \/ (\E x \in Demanded : FillOrClear(x)) \/ \E n \in 1 .. LastStep : GoTo(n) PROVE Calm'
  BY <1>1, <1>5, FormCalm
<1>6. ASSUME Edit \/ Cancel \/ CancelDelete PROVE Calm' BY <1>1, <1>6, EditCancelCalm
<1>7. ASSUME Save \/ AddDomainValue \/ RequestDelete \/ ConfirmDelete PROVE Calm'
  BY <1>1, <1>7, SaveCalm, AddDomainValueCalm, RequestDeleteCalm, ConfirmDeleteCalm
<1>8. ASSUME TypeJson \/ TypeVisual \/ SaveJson \/ ResetToOob PROVE Calm'
  BY <1>1, <1>8, TypeJsonCalm, TypeVisualCalm, SaveJsonCalm, ResetToOobCalm
<1> QED BY <1>2, <1>3, <1>4, <1>5, <1>6, <1>7, <1>8 DEF Acts

LEMMA AnswersCalm ==
  ASSUME IInv, Calm, Answers
  PROVE  Calm'
BY CarryOutCalm, RefuseCalm, ArriveCalm, FindCalm, ToldCalm DEF Answers

LEMMA HistoryInductive == HistorySpec => []HistoryInv
<1>1. Init /\ slips = 0 => HistoryInv
  BY FirstCalm, CallIsCall DEF HistoryInv, Init, FetchOf, IInv
<1>2. HistoryInv /\ [HistoryNext]_allVars => HistoryInv'
  <2> SUFFICES ASSUME HistoryInv, [HistoryNext]_allVars PROVE HistoryInv' OBVIOUS
  <2> USE DEF HistoryInv, straight
  <2>1. CASE Acts /\ slips' = slips + (IF AtRest /\ ~InUse THEN 0 ELSE 1)
    <3>1. IInv' BY <2>1, Acting
    <3>2. CASE AtRest /\ ~InUse
      <4>1. slips' = slips BY <2>1, <3>2
      <4>2. straight => Calm' BY <2>1, <3>2, ActsCalm
      <4> QED BY <3>1, <4>1, <4>2
    <3>3. CASE ~(AtRest /\ ~InUse)
      <4>1. slips' = slips + 1 BY <2>1, <3>3
      <4> QED BY <3>1, <4>1
    <3> QED BY <3>2, <3>3
  <2>2. CASE (ParseJson \/ Answers) /\ slips' = slips
    <3>1. IInv' BY <2>2, Answering
    <3>2. straight => Calm' BY <2>2, ParseJsonCalm, AnswersCalm
    <3> QED BY <2>2, <3>1, <3>2
  <2>3. CASE Failures /\ slips' = slips + 1
    <3>1. IInv' BY <2>3, Answering
    <3> QED BY <2>3, <3>1
  <2>4. CASE UNCHANGED allVars
    <3>1. UNCHANGED vars /\ slips' = slips BY <2>4 DEF allVars
    <3>2. IInv' BY <3>1, SafeKeepsInvariant DEF vars, local, Safe
    <3> QED BY <3>1, <3>2, StillCalm
  <2> QED BY <2>1, <2>2, <2>3, <2>4 DEF HistoryNext
<1> QED BY <1>1, <1>2, PTL DEF HistorySpec, HistoryInit

(* Whoever waits deletes the item that the dialog asked about.                *)
THEOREM DeletesAsked == HistorySpec => []DeletesWhatWasAsked
<1>1. HistoryInv => DeletesWhatWasAsked
  BY DEF HistoryInv, Calm, Meant, DeletesWhatWasAsked, Doing
<1> QED BY <1>1, HistoryInductive, PTL

(* Once the user has waited, what a page shows is what is stored.             *)
THEOREM PagesShowStored == HistorySpec => []ShownIsStored
<1>1. HistoryInv => ShownIsStored
  <2> SUFFICES ASSUME HistoryInv, straight, AtRest PROVE ShownIsStored BY DEF ShownIsStored
  <2>1. Calm /\ calls = {} /\ json.timer = {} BY DEF HistoryInv, AtRest
  <2>2. kind \notin ForgetfulStudios /\ mode = "browse" /\ selected # None => server[selected.id] = selected.marks
    BY <2>1 DEF Calm, Selected, Faithful, Doing
  <2>3. kind = "mappings" /\ form # None /\ ~form.dirty => server[form.id] = form.marks
    BY <2>1 DEF Calm, Filling
  <2>4. page = "editor" => /\ json.valid => json.data = json.text
                           /\ json.typed => Based(json.data)
                           /\ ~json.typed => json.data = RowAt(store, json.at)
    BY <2>1 DEF Calm, Panels
  <2>5. store = server BY <2>1 DEF Calm, Waited, Doing
  <2>6. page = "editor" => LET row == RowAt(server, json.at)
                           IN  IF json.typed THEN row # None /\ row.marks \subseteq json.data.marks ELSE json.data = row
    BY <2>4, <2>5 DEF Based
  <2> QED BY <2>2, <2>3, <2>4, <2>6 DEF ShownIsStored
<1> QED BY <1>1, HistoryInductive, PTL

(* Only the answer to a request writes ...                                    *)
LEMMA OneWrites ==
  ASSUME Next
  PROVE  server' = server \/ \E d \in calls : CarryOut(d)
<1> USE DEF local, FormOnly, EditorOnly
<1>1. CASE Acts
  BY <1>1 DEF Acts, Open, Select, New, Pick, Edit, Cancel, Type, Save, AddDomainValue, FillOrClear, GoTo,
              RequestDelete, CancelDelete, ConfirmDelete, TypeJson, TypeVisual, SaveJson, ResetToOob
<1>2. CASE ParseJson BY <1>2 DEF ParseJson
<1>3. CASE Answers BY <1>3 DEF Answers, Refuse, Ended, Arrive, Find, Told
<1>4. CASE Failures BY <1>4 DEF Failures, Fail, Ended
<1> QED BY <1>1, <1>2, <1>3, <1>4 DEF Next

(* ... and a save writes what was there and more.                             *)
LEMMA WritesMore ==
  ASSUME Calm, NEW c \in calls, CarryOut(c), c.does \in {"put", "store"}, Faithful, server[c.id] # None
  PROVE  server[c.id] \subseteq server'[c.id]
<1>1. Meant(c) /\ DOMAIN server = Items BY DEF Calm, Waited
<1>2. server' = [server EXCEPT ![c.id] = c.marks] BY DEF CarryOut
<1>3. server[c.id] \subseteq c.marks
  <2>1. CASE c.does = "put" BY <1>1, <2>1 DEF Meant, Calm, Filling
  <2>2. CASE c.does = "store" BY <1>1, <2>2 DEF Meant
  <2> QED BY <2>1, <2>2
<1>4. CASE c.id \in DOMAIN server BY <1>2, <1>3, <1>4
<1>5. CASE c.id \notin DOMAIN server BY <1>2, <1>5
<1> QED BY <1>4, <1>5

(* Whoever waits loses nothing that was saved.                                *)
THEOREM EditsKept == HistorySpec => SavesKeepEdits
<1> DEFINE Keeps == \A c \in Doing({"put", "store"}) :
             straight /\ kind \notin ForgetfulStudios /\ c \notin calls' /\ server[c.id] # None
               => server[c.id] \subseteq server'[c.id]
<1>1. HistoryInv /\ [HistoryNext]_allVars => [Keeps]_allVars
  <2> SUFFICES ASSUME HistoryInv, HistoryNext, NEW c \in Doing({"put", "store"}), straight, Faithful, server[c.id] # None
               PROVE  server[c.id] \subseteq server'[c.id]
    BY DEF Faithful
  <2>1. Calm /\ c \in calls /\ c.does \in {"put", "store"} BY DEF HistoryInv, Doing
  <2>2. server' = server \/ \E d \in calls : CarryOut(d) BY OneWrites DEF HistoryNext, Next
  <2>3. server' = server \/ CarryOut(c) BY <2>1, <2>2 DEF Calm, Waited
  <2> QED BY <2>1, <2>3, WritesMore
<1> QED BY <1>1, HistoryInductive, PTL DEF HistorySpec, SavesKeepEdits
=============================================================================
