------------------------------ MODULE Editors -------------------------------
(* The studios in which rules are written: lists of items on the server, the  *)
(* copy the store holds, the copy that is selected, the copy that a form is   *)
(* filled with, and the JSON editor over the same lists.  The user may act at *)
(* any time, requests are carried out and answered when the server gets to    *)
(* them and may fail, and a page that was left hears no answer.               *)
(* What an item says is a set of marks: 0 is the part that no form shows, and *)
(* every edit of the user adds a mark of its own.                             *)
EXTENDS Naturals, Sequences, FiniteSets

CONSTANTS Items, Shipped,  \* numbers in the order of the lists; those that come out of the box
          None,            \* nothing
          Kinds,           \* the studios that a behaviour may be about
          MaxEdits, MaxFailures, MaxCalls  \* bounds: edits, failed requests, calls under way

ASSUME EditorsAssumption ==
  Shipped \subseteq Items /\ Items \cup {MaxEdits, MaxFailures, MaxCalls} \subseteq Nat

(* A form of one page asks for a name (and an id, which is there once the     *)
(* form is about an item).  The two wizards ask step by step.                 *)
ModelSteps == <<{"name"}, {"calcs"}, {"threshold"}, {}, {}, {}, {}>>
UseCaseSteps == <<{"name"}, {}, {}, {}, {"name"}>>

(* What a studio does: its steps, what is selected once a save is through,    *)
(* whether the dependents of an item are asked for before a dialog is shown,  *)
(* whether a save sends the part that the form does not show, and whether     *)
(* the save button is off while a save is under way.                          *)
\* Mutant: a save of a setting leaves the old copy selected.
SettingsKeepCopy == [steps |-> <<{"name"}>>, after |-> "same", asks |-> TRUE, whole |-> TRUE, once |-> TRUE]
SettingsManager == [steps |-> <<{"name"}>>, after |-> "nothing", asks |-> TRUE, whole |-> TRUE, once |-> TRUE]
MetadataExplorer == [steps |-> <<{"name"}>>, after |-> "nothing", asks |-> TRUE, whole |-> TRUE, once |-> TRUE]
EntityDesigner == [steps |-> <<{"name"}>>, after |-> "nothing", asks |-> FALSE, whole |-> FALSE, once |-> TRUE]
ModelComposer == [steps |-> ModelSteps, after |-> "listed", asks |-> FALSE, whole |-> FALSE, once |-> TRUE]
UseCaseStudio == [steps |-> UseCaseSteps, after |-> "saved", asks |-> FALSE, whole |-> TRUE, once |-> FALSE]
MappingStudio == [steps |-> <<{}>>, after |-> "form", asks |-> FALSE, whole |-> TRUE, once |-> FALSE]
Studios == [settings |-> SettingsManager, calculations |-> MetadataExplorer, entities |-> EntityDesigner,
            models |-> ModelComposer, useCases |-> UseCaseStudio, mappings |-> MappingStudio]
ASSUME KindsAssumption == Kinds \subseteq DOMAIN Studios

VARIABLES kind,      \* what the behaviour's items are
          page,      \* the page that is mounted
          server, store,  \* item -> its marks, None if there is none
          selected,  \* the copy that is selected
          mode,      \* browse, create or edit
          form,      \* the form that is open
          dialog,    \* the item that the open dialog asks about
          json,      \* the JSON editor: its data, its text, what a timer will parse, its validity,
                     \* and, as history, whether a key was pressed since it was filled
          calls,     \* requests under way
          edits, failures
local == <<selected, mode, form, dialog, json>>
vars == <<kind, page, server, store, local, calls, edits, failures>>

Studio == Studios[kind]
Demanded == UNION {Studio.steps[n] : n \in DOMAIN Studio.steps}
Copy(i, marks) == [id |-> i, marks |-> marks]
StoreCopy(i) == IF store[i] = None THEN None ELSE Copy(i, store[i])
Call(does, i, marks) == [does |-> does, id |-> i, marks |-> marks, filled |-> Demanded, seen |-> None, live |-> TRUE]
Begin(c) == Cardinality(calls) < MaxCalls /\ calls' = calls \cup {c}
Doing(D) == {c \in calls : c.does \in D}

(* fetchAll of the metadata store puts a spinner in the place of the page,    *)
(* from whichever page it was begun; loadCatalogue of the mappings does for   *)
(* its own page.                                                              *)
Loading == \E c \in Doing({"loadAll"}) : c.live \/ kind # "mappings"
\* Mutant: the list behind an open dialog can be clicked.
OnPageBehind(p) == page = p /\ ~Loading
OnPage(p) == page = p /\ ~Loading /\ dialog = None

(* The JSON editor remembers the place of the picked item in the list.        *)
Listed(rows) == {i \in Items : rows[i] # None}
ItemAt(rows, n) == CHOOSE i \in Listed(rows) : Cardinality({k \in Listed(rows) : k < i}) = n - 1
Clamp(rows, n) == IF n > Cardinality(Listed(rows)) THEN Cardinality(Listed(rows)) ELSE n
RowAt(rows, n) == IF Listed(rows) = {} THEN None
                  ELSE LET i == ItemAt(rows, Clamp(rows, n)) IN Copy(i, rows[i])
Filled(rows, n, timer) == [at |-> n, data |-> RowAt(rows, n), text |-> RowAt(rows, n), timer |-> timer,
                           valid |-> TRUE, typed |-> FALSE]
Nothing == [i \in Items |-> None]
NoJson == Filled(Nothing, 1, {})
Cleared == selected' = None /\ mode' = "browse" /\ form' = None /\ dialog' = None

FetchOf(p) == Call(IF p = "editor" \/ kind = "mappings" THEN "loadAll" ELSE "load", None, {})
HasEditor == kind \notin {"useCases", "mappings"}
Init == /\ kind \in Kinds
        /\ page = "studio"
        /\ server = [i \in Items |-> IF i \in Shipped THEN {0} ELSE None]
        /\ store = Nothing
        /\ selected = None /\ mode = "browse" /\ form = None /\ dialog = None /\ json = NoJson
        /\ calls = {FetchOf("studio")}
        /\ edits = 0 /\ failures = 0

(* Another page is opened, or the same one anew: the component starts over    *)
(* and the answers to the old one change nothing on the screen.  The studio   *)
(* of mappings keeps its list itself, the others share a store.               *)
Open(p) == /\ p = "editor" => HasEditor
           /\ Doing({"load", "loadAll"}) = {}  \* bound: a page is left once its lists are there
           /\ page' = p
           /\ Cleared
           /\ store' = IF kind = "mappings" THEN Nothing ELSE store
           /\ json' = IF p = "editor" THEN Filled(store, 1, {}) ELSE NoJson
           /\ calls' = {[c EXCEPT !.live = FALSE] : c \in calls} \cup {FetchOf(p)}
           /\ UNCHANGED <<kind, server, edits, failures>>

-----------------------------------------------------------------------------
(* The list and the detail of a studio.                                       *)
Form(c, full) == [id |-> c.id, marks |-> c.marks, filled |-> full, step |-> 1, dirty |-> FALSE]

Select(i) == /\ OnPage("studio") /\ store[i] # None
             /\ IF kind = "mappings"  \* a menu, and what is selected is edited in place
                  THEN /\ mode = "edit" => form.id # i
                       /\ mode' = "edit" /\ form' = Form(StoreCopy(i), Demanded)
                       /\ UNCHANGED selected
                  ELSE mode' = "browse" /\ form' = None /\ selected' = StoreCopy(i)
             /\ UNCHANGED <<kind, page, server, store, dialog, json, calls, edits, failures>>

(* The id of a new item is typed, made from its name or, for a use case,      *)
(* drawn at random: nothing but chance keeps it from being in use.            *)
New(i) == /\ OnPage("studio")
          /\ kind = "useCases" => server[i] = None
          /\ selected' = None
          /\ mode' = "create"
          /\ form' = [Form(Copy(i, {}), {}) EXCEPT !.dirty = (kind = "mappings")]
          /\ UNCHANGED <<kind, page, server, store, dialog, json, calls, edits, failures>>

Edit == /\ OnPage("studio") /\ mode = "browse" /\ selected # None
        /\ mode' = "edit"
        /\ form' = Form(selected, Demanded)
        /\ UNCHANGED <<kind, page, server, store, selected, dialog, json, calls, edits, failures>>

Cancel == /\ OnPage("studio") /\ form # None /\ kind # "mappings"
          /\ mode' = "browse" /\ form' = None
          /\ UNCHANGED <<kind, page, server, store, selected, dialog, json, calls, edits, failures>>

-----------------------------------------------------------------------------
(* A form is filled in.                                                       *)
InForm == OnPage("studio") /\ form # None
FormOnly == UNCHANGED <<kind, page, server, store, selected, mode, dialog, json, calls, failures>>

Type == /\ InForm /\ edits < MaxEdits
        /\ edits' = edits + 1
        /\ form' = [form EXCEPT !.marks = @ \cup {edits + 1}, !.dirty = TRUE]
        /\ FormOnly

FillOrClear(x) == /\ InForm /\ x \in Studio.steps[form.step]
                  /\ form' = [form EXCEPT !.filled = IF x \in @ THEN @ \ {x} ELSE @ \cup {x}]
                  /\ UNCHANGED edits /\ FormOnly

LastStep == Len(Studio.steps)
CanProceed == Studio.steps[form.step] \subseteq form.filled
\* Mutant: the progress bar opens any step.
GoAnywhere(n) == /\ InForm /\ n \in 1 .. LastStep /\ n # form.step
                 /\ form' = [form EXCEPT !.step = n]
                 /\ UNCHANGED edits /\ FormOnly
(* Next wants the step complete, Back does not; a click on the progress bar   *)
(* goes back to any step and, in the wizard of models, to the next one.       *)
GoTo(n) == /\ InForm /\ n \in 1 .. LastStep /\ n # form.step
           /\ n > form.step => n = form.step + 1 /\ CanProceed
           /\ form' = [form EXCEPT !.step = n]
           /\ UNCHANGED edits /\ FormOnly
Saving == \E c \in Doing({"put", "relist"}) : c.live
(* What a save sends is made of the fields of the form.  The call remembers   *)
(* the list as it was rendered when the button was pressed.                   *)
Sent == [Call("put", form.id, IF Studio.whole THEN form.marks ELSE form.marks \ {0})
           EXCEPT !.filled = form.filled, !.seen = store[form.id]]
Save == /\ InForm /\ form.step = LastStep /\ CanProceed
        /\ Studio.once => ~Saving
        /\ kind = "mappings" => form.dirty
        /\ Begin(Sent)
        /\ UNCHANGED <<kind, page, server, store, local, edits, failures>>

(* A value is added to the domain of another field of the selected entity:    *)
(* it is saved at once, on top of the copy that was selected.                 *)
AddDomainValue == /\ OnPage("studio") /\ kind = "entities" /\ mode = "browse" /\ selected # None
                  /\ edits < MaxEdits
                  /\ edits' = edits + 1
                  /\ Begin(Call("store", selected.id, selected.marks \cup {edits + 1}))
                  /\ UNCHANGED <<kind, page, server, store, local, failures>>

-----------------------------------------------------------------------------
(* An item is deleted: the dialog asks first, in two studios once the server  *)
(* has said what depends on the item.  A mapping is deleted without a word.   *)
RequestDelete == /\ OnPage("studio") /\ mode = "browse" /\ selected # None
                 /\ IF Studio.asks
                      THEN Begin(Call("ask", selected.id, {})) /\ UNCHANGED dialog
                      ELSE dialog' = selected.id /\ UNCHANGED calls
                 /\ UNCHANGED <<kind, page, server, store, selected, mode, form, json, edits, failures>>
CancelDelete == /\ dialog # None
                /\ dialog' = None
                /\ UNCHANGED <<kind, page, server, store, selected, mode, form, json, calls, edits, failures>>
(* The handler deletes what is selected by now.                               *)
Doomed == IF kind = "mappings" THEN (IF mode = "edit" THEN form ELSE None) ELSE selected
ConfirmDelete == /\ IF kind = "mappings" THEN OnPage("studio") ELSE dialog # None
                 /\ Doomed # None
                 /\ Doing({"delete", "deleted"}) = {}
                 /\ Begin(Call("delete", Doomed.id, {}))
                 /\ UNCHANGED <<kind, page, server, store, local, edits, failures>>

-----------------------------------------------------------------------------
(* The JSON editor: a menu of items, a text panel and a visual panel.  Both   *)
(* are filled anew when another item is picked and when the lists change.     *)
EditorOnly == UNCHANGED <<kind, page, server, store, selected, mode, form, dialog, calls, failures>>

Pick(n) == /\ OnPage("editor") /\ n <= Cardinality(Listed(store)) /\ n # json.at
           /\ json' = Filled(store, n, json.timer)
           /\ UNCHANGED edits /\ EditorOnly

(* Text is parsed 400 ms after the last key, and the timer of an earlier key  *)
(* is cleared by the next key only.  The id is part of the text; a key may    *)
(* leave the text one that does not parse, and another one mend it.           *)
TypeJson == /\ OnPage("editor") /\ json.text # None /\ edits < MaxEdits
            /\ edits' = edits + 1
            /\ \E i \in Items, parses \in BOOLEAN :
                 LET text == Copy(i, json.text.marks \cup {edits + 1})
                 IN  json' = [json EXCEPT !.text = text, !.typed = TRUE,
                                          !.timer = {[text |-> text, parses |-> parses]}]
            /\ EditorOnly
ParseJson == /\ \E t \in json.timer :
                  json' = [json EXCEPT !.timer = {}, !.valid = t.parses,
                                       !.data = IF t.parses THEN t.text ELSE @]
             /\ UNCHANGED edits /\ EditorOnly
\* Mutant: the text panel does not follow the visual one.
TypeVisualOnly == /\ OnPage("editor") /\ json.data # None /\ edits < MaxEdits
                  /\ edits' = edits + 1
                  /\ json' = [json EXCEPT !.data = Copy(@.id, @.marks \cup {edits + 1}), !.valid = TRUE, !.typed = TRUE]
                  /\ EditorOnly
TypeVisual == /\ OnPage("editor") /\ json.data # None /\ edits < MaxEdits
              /\ edits' = edits + 1
              /\ LET c == Copy(json.data.id, json.data.marks \cup {edits + 1})
                 IN  json' = [json EXCEPT !.data = c, !.text = c, !.valid = TRUE, !.typed = TRUE]
              /\ EditorOnly

SavingJson == \E c \in Doing({"store", "refetch"}) : c.live
(* The data is saved under the id that it says.                               *)
SaveJson == /\ OnPage("editor") /\ json.valid /\ json.data # None /\ ~SavingJson
            /\ Listed(store) # {}
            /\ Begin(Call("store", json.data.id, json.data.marks))
            /\ UNCHANGED <<kind, page, server, store, local, edits, failures>>
(* The button and its dialog show for shipped items that were changed.        *)
ResetToOob == /\ OnPage("editor")
              /\ LET c == RowAt(store, json.at)
                 IN  /\ c # None /\ c.id \in Shipped /\ c.marks # {0}
                     /\ Begin(Call("reset", c.id, {}))
              /\ UNCHANGED <<kind, page, server, store, local, edits, failures>>

-----------------------------------------------------------------------------
(* The server carries out a change or refuses it.  A rule that is shipped is  *)
(* restored, not deleted, and there is nothing to delete in one that was not  *)
(* changed (a changed copy with the original's content is not told apart).    *)
Becomes(c, does) == calls' = (calls \ {c}) \cup {[c EXCEPT !.does = does]}
Restored(i) == IF HasEditor /\ i \in Shipped THEN {0} ELSE None
ToServer == {"put", "store", "delete", "reset"}
After(does) == IF does = "reset" \/ kind = "mappings" THEN "loadAll"
               ELSE [put |-> "relist", store |-> "refetch", delete |-> "deleted"][does]
Refused(c) == c.does = "delete" /\ server[c.id] \in {None, Restored(c.id)}

(* The studio of mappings takes the save for good before it lists again, and  *)
(* whatever is in its form by now counts as saved.                            *)
CarryOut(c) == /\ c.does \in ToServer /\ ~Refused(c)
               /\ server' = [server EXCEPT ![c.id] = IF c.does \in {"delete", "reset"} THEN Restored(c.id) ELSE c.marks]
               /\ Becomes(c, After(c.does))
               /\ IF kind # "mappings" \/ ~c.live THEN UNCHANGED <<mode, form>>
                  ELSE IF c.does = "delete" THEN mode' = "browse" /\ form' = None
                  ELSE /\ mode' = IF form = None THEN mode ELSE "edit"
                       /\ form' = IF form = None THEN form ELSE [form EXCEPT !.dirty = FALSE]
               /\ UNCHANGED <<kind, page, store, selected, dialog, json, edits, failures>>

(* A list arrives.  The answer to a save or a delete closes what the user was *)
(* in, whatever that is by now.                                               *)
Refill == json' = IF page = "editor" THEN Filled(server, json.at, json.timer) ELSE json
Close(chosen) == mode' = "browse" /\ form' = None /\ selected' = chosen
AfterSave(c) == CASE Studio.after = "nothing" -> Close(None)
                  [] Studio.after = "saved" -> Close(Copy(c.id, c.marks))
                  [] OTHER -> Close(selected)

Lists == {"load", "loadAll", "relist", "refetch", "deleted", "find"}
Heard(c) == c.live \/ kind # "mappings"
Arrive(c) == /\ c.does \in Lists \ {"find"}
             /\ store' = IF Heard(c) THEN server ELSE store
             /\ Refill
             /\ CASE c.live /\ c.does = "relist" -> AfterSave(c) /\ UNCHANGED dialog
                  [] c.live /\ c.does = "deleted" -> Close(None) /\ dialog' = None
                  [] OTHER -> UNCHANGED <<selected, mode, form, dialog>>
             /\ IF c.does = "relist" /\ Studio.after = "listed" THEN Becomes(c, "find") ELSE calls' = calls \ {c}
             /\ UNCHANGED <<kind, page, server, edits, failures>>

(* The composer fetches the models once more and then selects the saved one   *)
(* from the list that was rendered when the button was pressed.               *)
Find(c) == /\ c.does = "find"
           /\ store' = server
           /\ Refill
           /\ selected' = IF c.live /\ c.seen # None THEN Copy(c.id, c.seen) ELSE selected
           /\ calls' = calls \ {c}
           /\ UNCHANGED <<kind, page, server, mode, form, dialog, edits, failures>>

(* The dialog opens on the item that was selected when its dependents were    *)
(* asked for, whether or not they could be told.                              *)
Told(c) == /\ c.does = "ask"
           /\ dialog' = IF c.live THEN c.id ELSE dialog
           /\ calls' = calls \ {c}
           /\ UNCHANGED <<kind, page, server, store, selected, mode, form, json, edits, failures>>

(* A request that fails ends its handler, but for the composer's second       *)
(* fetch, whose failure the store keeps to itself.                            *)
Ended(c) == /\ selected' = IF c.does = "find" /\ c.live /\ c.seen # None THEN Copy(c.id, c.seen) ELSE selected
            /\ calls' = calls \ {c}
            /\ UNCHANGED <<kind, page, server, store, mode, form, dialog, json, edits>>
Refuse(c) == c.does \in ToServer /\ Refused(c) /\ Ended(c) /\ UNCHANGED failures
Fail(c) == /\ c.does # "ask" /\ failures < MaxFailures
           /\ failures' = failures + 1
           /\ Ended(c)

-----------------------------------------------------------------------------
Acts == \/ \E p \in {"studio", "editor"} : Open(p)
        \/ \E i \in Items : Select(i) \/ New(i)
        \/ \E n \in 1 .. Cardinality(Items) : Pick(n)
        \/ Edit \/ Cancel \/ Type \/ Save \/ AddDomainValue
        \/ \E x \in Demanded : FillOrClear(x)
        \/ \E n \in 1 .. LastStep : GoTo(n)
        \/ RequestDelete \/ CancelDelete \/ ConfirmDelete
        \/ TypeJson \/ TypeVisual \/ SaveJson \/ ResetToOob
Answers == \E c \in calls : CarryOut(c) \/ Refuse(c) \/ Arrive(c) \/ Find(c) \/ Told(c)
Failures == \E c \in calls : Fail(c)
Next == Acts \/ ParseJson \/ Answers \/ Failures
Spec == Init /\ [][Next]_vars

(* Nothing incomplete is sent: whichever way a user goes through a wizard,    *)
(* back, forth or by a click on its progress bar, and whatever is cleared on  *)
(* the way, all that its steps demand is there when it is saved.              *)
SentItemsComplete == \A c \in Doing({"put"}) : c.filled = Demanded

-----------------------------------------------------------------------------
(* A user who waits for every answer and timer, and whose requests do not     *)
(* fail; how often that is not so is kept as history.                         *)
CONSTANT MaxSlips  \* bound: times that the user acts before an answer or timer, takes an id in use, or a call fails
VARIABLE slips
allVars == <<vars, slips>>

AtRest == calls = {} /\ json.timer = {}
InUse == \/ mode' = "create" /\ (mode # "create" \/ form'.id # form.id) /\ server[form'.id] # None
         \/ \E c \in calls' \ calls : /\ c.does = "store" /\ page = "editor"
                                     /\ c.id # RowAt(store, json.at).id /\ server[c.id] # None
HistoryNext == \/ Acts /\ slips' = slips + (IF AtRest /\ ~InUse THEN 0 ELSE 1) /\ slips' <= MaxSlips
               \/ (ParseJson \/ Answers) /\ UNCHANGED slips
               \/ Failures /\ slips' = slips + 1 /\ slips' <= MaxSlips
HistoryInit == Init /\ slips = 0
HistorySpec == HistoryInit /\ [][HistoryNext]_allVars
straight == slips = 0

(* The composer opens a saved model from the list of before the save, its     *)
(* wizard and the form of entities send only what they show, and the values   *)
(* of a domain are added to the copy of before the last addition: in these    *)
(* two studios a second edit undoes the first.                                *)
ForgetfulStudios == {"models", "entities"}

(* Whoever waits loses nothing that was saved: no save takes away what an     *)
(* earlier save, of the studio or of the JSON editor, has put into an item.   *)
SavesKeepEdits == [][\A c \in Doing({"put", "store"}) :
   straight /\ kind \notin ForgetfulStudios /\ c \notin calls' /\ server[c.id] # None
     => server[c.id] \subseteq server'[c.id]]_allVars

(* Whoever waits deletes the item that the dialog asked about and no other.   *)
(* In the two studios that ask for the dependents first, the selection may    *)
(* move between the question and the answer; it is the selected item that     *)
(* goes.                                                                      *)
DeletesWhatWasAsked == \A c \in Doing({"delete"}) : straight /\ kind # "mappings" => c.id = dialog

(* Once the user has waited, what a page shows is what is stored: the         *)
(* selected copy, a mapping that counts as saved, and the JSON editor, whose  *)
(* panels agree.  They hold the item that the menu names or, once a key was   *)
(* pressed, all that is stored of it and the user's edits.                    *)
ShownIsStored == straight /\ AtRest =>
   /\ kind \notin ForgetfulStudios /\ mode = "browse" /\ selected # None => server[selected.id] = selected.marks
   /\ kind = "mappings" /\ form # None /\ ~form.dirty => server[form.id] = form.marks
   /\ page = "editor" => LET row == RowAt(server, json.at)
                         IN  /\ json.valid => json.data = json.text
                             /\ IF json.typed THEN row # None /\ row.marks \subseteq json.data.marks
                                              ELSE json.data = row

=============================================================================
