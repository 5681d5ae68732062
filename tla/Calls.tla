------------------------------- MODULE Calls -------------------------------
(* How the handlers of the front end call the back end.  A handler presses    *)
(* through stages: all requests of a stage are sent at once (Promise.all),    *)
(* and when the last has been answered the results are put where they are     *)
(* shown and the next stage begins.                                           *)
EXTENDS Naturals, Sequences, FiniteSets

NoFlag == "none"

(* Where an answer goes: into a slot, a copy of a resource of the server.      *)
(* One that "replaces" does so only if the slot shows the item that was asked *)
(* for.                                                                       *)
Into(slot, of) == [slot |-> slot, of |-> of, replaces |-> FALSE]
Replaced(slot, of) == [slot |-> slot, of |-> of, replaces |-> TRUE]
Copies(names) == {Into(n, n) : n \in names}

(* A stage changes resources of the server or reads them.                     *)
Change(resources) == [changes |-> resources, shows |-> {}]
Read(shows) == [changes |-> {}, shows |-> shows]
(* The call changes a resource and its own answer is shown.                   *)
Exchange(resources, shows) == [changes |-> resources, shows |-> shows]

(* A handler that shows no flag, is never disabled, asks for no item in       *)
(* particular and lives in the component that calls it.                       *)
Handler(stages) ==
    [stages   |-> stages,
     flag     |-> NoFlag,               \* the busy flag it sets first ...
     ends     |-> {"answer", "error"},  \* ... and what resets it: the last answer,
                                        \* an error, the answers of the first stage
     late     |-> FALSE,                \* sets it only when its last stage begins
     off      |-> {},                   \* flags that disable its control
     needs    |-> {},                   \* slots whose content its control needs
     unless   |-> {},                   \* slots whose content makes it return at once
     selects  |-> FALSE,                \* takes another item as the selected one
     opens    |-> FALSE,                \* is about an item it selects when it ends ...
     anew     |-> FALSE,                \* ... as a new object, so that effects begin again
     restarts |-> FALSE,                \* until it ends, the component is not mounted
     fromList |-> FALSE,                \* its control is only there while no item is selected
     ofChosen |-> FALSE,                \* is about the selected item
     drops    |-> {},                   \* slots it empties when it begins
     forgets  |-> {},                   \* slots it empties, when it ends, of its item
     leaves   |-> FALSE,                \* ends with no item selected
     picks    |-> FALSE,                \* ends with an item selected, if none was
     control  |-> TRUE,                 \* the user can press it; else an effect
     guarded  |-> FALSE,                \* its cleanup cancels an answer that comes too late
     patient  |-> FALSE,                \* catches the failure of each request alone
     kept     |-> FALSE]                \* its state is in a store, not in the component

Busy(flag, handler) == [handler EXCEPT !.flag = flag]
Off(flags, handler) == [handler EXCEPT !.off = flags]
Needs(slots, handler) == [handler EXCEPT !.needs = slots]
Unless(slots, handler) == [handler EXCEPT !.unless = slots]
Drops(slots, handler) == [handler EXCEPT !.drops = slots]
Forgets(slots, handler) == [handler EXCEPT !.forgets = slots]
OfChosen(handler) == [handler EXCEPT !.ofChosen = TRUE]
Selects(handler) == [handler EXCEPT !.selects = TRUE]
Opens(handler) == [handler EXCEPT !.opens = TRUE]
Anew(handler) == [handler EXCEPT !.opens = TRUE, !.anew = TRUE]
Restarts(handler) == [handler EXCEPT !.restarts = TRUE]
FromList(handler) == [handler EXCEPT !.fromList = TRUE]
Leaves(handler) == [handler EXCEPT !.leaves = TRUE]
Picks(handler) == [handler EXCEPT !.picks = TRUE]
Effect(handler) == [handler EXCEPT !.control = FALSE]
Guarded(handler) == [handler EXCEPT !.guarded = TRUE]
Patient(handler) == [handler EXCEPT !.patient = TRUE]
UntilFirst(handler) == [handler EXCEPT !.ends = {"first", "error"}]
Late(handler) == [handler EXCEPT !.late = TRUE]
OnlyOnError(handler) == [handler EXCEPT !.ends = {"error"}]

(* Calls of a store: their slots and flags outlive the component.             *)
Kept(handler) == [handler EXCEPT !.kept = TRUE]
Store(handlers) == [h \in DOMAIN handlers |-> Kept(handlers[h])]
(* A list that is read, and one that is read again after it was changed.      *)
Fetch(names) == Handler(<<Read(Copies(names))>>)
ChangeAndFetch(name) == Handler(<<Change({name}), Read(Copies({name}))>>)

(* A control that only changes what is selected: it keeps nothing of the item *)
(* before but what is not in drops.                                           *)
Select(drops) == Selects(Drops(drops, Handler(<<>>)))
Back(drops) == Leaves(Drops(drops, Handler(<<>>)))
(* The store's calls that a view uses, as effects or as controls.             *)
Effects(handlers) == [h \in DOMAIN handlers |-> Effect(handlers[h])]
Only(handlers, names) == [h \in names |-> handlers[h]]
(* One handler after the other.                                               *)
Then(first, second) == [first EXCEPT !.stages = @ \o second.stages]

(* A part of a view: what it shows, what it needs to be shown at all, the     *)
(* flags that hide it, and whether what it shows belongs to the selected item.*)
Part(shows) == [shows |-> shows, hidden |-> {}, about |-> FALSE]
HiddenBy(hidden, part) == [part EXCEPT !.hidden = hidden]
About(part) == [part EXCEPT !.about = TRUE]

(* A view: the effects begun when it is mounted and when an item is selected, *)
(* its parts and its handlers.                                                *)
View(mount, opened, parts, handlers) ==
    [mount |-> mount, opened |-> opened, parts |-> parts, handlers |-> handlers]
=============================================================================
