------------------------------ MODULE Screens -------------------------------
(* A view of the front end at work: the user enters and leaves it, presses    *)
(* its controls, and the requests its handlers send are served, answered or   *)
(* lost in any order.  What the handlers are is a constant; StoreCalls and    *)
(* ViewCalls say it for every store and view of the application.              *)
(* A behaviour plays a few handlers of one view: what two handlers do to each *)
(* other shows when both are in play, and the rest of the view only adds      *)
(* more of the same.                                                          *)
EXTENDS Calls, Integers, FiniteSetsExt

CONSTANTS Views,      \* name -> view
          Items,      \* what can be selected
          NoItem,
          Told,       \* flags that a message of the server is to reset
          LeftStale,  \* slots that no change is followed by a read of
          LeftBehind, \* slots of an item that stay when another is selected
          Cancelled,  \* slots of an item whose late answers are cancelled
          MaxPlay,    \* bound: handlers that are played together
          MaxActs,    \* bound: acts of the user
          MaxCalls    \* bound: calls that may be under way when the user presses a control

ASSUME ScreensAssumption == NoItem \notin Items /\ {MaxPlay, MaxActs, MaxCalls} \subseteq Nat

VARIABLES view,         \* the view, with those of its handlers that are played
          here,         \* the view is mounted
          mounting,     \* handlers its effects have yet to begin
          chosen,       \* the selected item
          slot,         \* slot -> what it shows
          flags,        \* busy flags that are set
          calls,        \* number of a call -> the call, while it is in flight
          acts,         \* what the user has done, counted
          server,       \* resource -> its version, counted by the changes
          waited, sound  \* the user has waited for every answer so far; no call has failed
vars == <<view, here, mounting, chosen, slot, flags, calls, acts, server, waited, sound>>

NotLoaded == [of |-> NoFlag, item |-> NoItem, version |-> -1]

ShowsOf(o) == UNION {o.stages[n].shows : n \in DOMAIN o.stages}
ChangesOf(o) == UNION {o.stages[n].changes : n \in DOMAIN o.stages}
Shown(o) == {x.slot : x \in ShowsOf(o)}
SlotsOf(o) == Shown(o) \cup o.drops \cup o.forgets \cup o.needs \cup o.unless
ResourcesOf(o) == {x.of : x \in ShowsOf(o)} \cup ChangesOf(o)

(* Handlers are worth playing together if they share something.  Those that   *)
(* send nothing, the selection above all, are always in play, and so are the  *)
(* effects that load what the others show.                                    *)
Calling(H) == {h \in DOMAIN H : H[h].stages # <<>>}
Related(a, b) == \/ SlotsOf(a) \cap SlotsOf(b) # {}
                 \/ ResourcesOf(a) \cap ResourcesOf(b) # {}
                 \/ a.flag # NoFlag /\ a.flag \in {b.flag} \cup b.off
                 \/ b.flag # NoFlag /\ b.flag \in a.off
Playable(H) == {hs \in UNION {kSubset(n, Calling(H)) : n \in 1 .. MaxPlay} :
                  \A a, b \in hs : Related(H[a], H[b])}
Along(H, hs) == {h \in Calling(H) : ~H[h].control /\ \E g \in hs : Shown(H[h]) \cap SlotsOf(H[g]) # {}}
Played(H, hs) == hs \cup Along(H, hs) \cup (DOMAIN H \ Calling(H))

Plays(v) == {[v EXCEPT !.mount = @ \cap P, !.opened = @ \cap P, !.handlers = [h \in P |-> v.handlers[h]]] :
               P \in {Played(v.handlers, hs) : hs \in Playable(v.handlers)}}

H(h) == view.handlers[h]
Play == DOMAIN view.handlers
KeptSlots == UNION {Shown(H(h)) : h \in {g \in Play : H(g).kept}}
KeptFlags == {H(h).flag : h \in {g \in Play : H(g).kept}}

Init == /\ view \in UNION {Plays(Views[v]) : v \in DOMAIN Views}
        /\ here = FALSE /\ mounting = {} /\ chosen = NoItem
        /\ slot = [s \in UNION {SlotsOf(H(h)) : h \in Play} |-> NotLoaded]
        /\ flags = {} /\ calls = <<>> /\ acts = 0
        /\ server = [r \in UNION {ResourcesOf(H(h)) : h \in Play} |-> 0]
        /\ waited = TRUE /\ sound = TRUE

-----------------------------------------------------------------------------
InFlight == DOMAIN calls
Free == CHOOSE i \in 1 .. (Cardinality(InFlight) + 1) : i \notin InFlight
Without(i) == [j \in InFlight \ {i} |-> calls[j]]
With(i, c) == [j \in InFlight \cup {i} |-> IF j = i THEN c ELSE calls[j]]

(* A request changes a resource or reads one for a slot; what shows the       *)
(* answer of a change is read after it.                                       *)
Requests(stage) == {[kind |-> "change", of |-> r, into |-> Into(r, r)] : r \in stage.changes}
                   \cup {[kind |-> "read", of |-> x.of, into |-> x] : x \in stage.shows}
Sendable(c, r) == r.kind = "change" \/ \A q \in c.waits : q.kind # "change"

Emptied(S) == [s \in DOMAIN slot |-> IF s \in S THEN NotLoaded ELSE slot[s]]

(* Beginning again cancels the calls of a guarded handler that are in flight; *)
(* one that restarts the component does away with the component's state.      *)
\* Mutant: no effect has a cleanup that cancels its late answers.
CancelsOnRestart(h, g) == H(h).restarts /\ ~H(g).kept
Cancels(h, g) == (H(h).guarded /\ g = h) \/ (H(h).restarts /\ ~H(g).kept)

(* The synchronous part of a handler.                                         *)
Begin(h, item) ==
    LET o == H(h)
        about == IF o.ofChosen THEN chosen ELSE IF o.selects \/ o.opens THEN item ELSE NoItem
        another == o.selects /\ item # chosen
        kept == [j \in InFlight |-> [calls[j] EXCEPT !.live = @ /\ ~Cancels(h, calls[j].handler),
                                                     !.home = @ /\ ~o.restarts]]
        emptied == o.drops \cup (IF o.restarts THEN DOMAIN slot \ KeptSlots ELSE {})
        c == [handler |-> h, item |-> about, stage |-> 1, live |-> TRUE, home |-> TRUE,
              waits |-> Requests(o.stages[1]), got |-> {}]
    IN /\ chosen' = IF o.selects THEN item
                    ELSE IF o.restarts \/ (o.leaves /\ o.stages = <<>>) THEN NoItem ELSE chosen
       /\ mounting' = (mounting \ {h}) \cup (IF another THEN view.opened ELSE {})
       /\ slot' = Emptied(IF o.selects /\ ~another THEN {} ELSE emptied)
       /\ IF o.stages = <<>>
          THEN calls' = kept /\ UNCHANGED flags
          ELSE /\ calls' = [j \in InFlight \cup {Free} |-> IF j = Free THEN c ELSE kept[j]]
               /\ flags' = (IF o.restarts THEN flags \cap KeptFlags ELSE flags)
                           \cup (IF o.late THEN {} ELSE {o.flag} \ {NoFlag})
       /\ UNCHANGED <<view, server, sound>>

AtRest == InFlight = {} /\ mounting = {}
(* What the user does is counted, and whether there was anything to wait for. *)
Act == acts < MaxActs /\ acts' = acts + 1 /\ waited' = (waited /\ AtRest)

Enter == /\ ~here
         /\ here' = TRUE /\ chosen' = NoItem
         /\ mounting' = view.mount
         /\ Act
         /\ UNCHANGED <<view, slot, flags, calls, server, sound>>

(* The effects begin one after the other, before anything else happens.        *)
Mount(h, item) ==
            /\ mounting # {} /\ h = CHOOSE e \in mounting : TRUE
            /\ UNCHANGED <<here, acts, waited>>
            /\ IF \A s \in H(h).unless : slot[s] = NotLoaded
               THEN Begin(h, item)
               ELSE /\ mounting' = mounting \ {h}
                    /\ UNCHANGED <<view, chosen, slot, flags, calls, server, sound>>

Press(h, item) == /\ here /\ mounting = {} /\ H(h).control
                  /\ H(h).off \cap flags = {}
                  /\ \A s \in H(h).needs : slot[s] # NotLoaded
                  /\ H(h).ofChosen => chosen # NoItem
                  /\ H(h).fromList => chosen = NoItem
                  /\ Cardinality(InFlight) <= MaxCalls
                  /\ Begin(h, item)
                  /\ Act
                  /\ UNCHANGED here

(* The component goes and its state with it; answers that are still to come   *)
(* only reach what a store keeps.                                             *)
Leave == /\ here /\ mounting = {}
         /\ here' = FALSE /\ chosen' = NoItem
         /\ slot' = Emptied(DOMAIN slot \ KeptSlots)
         /\ flags' = flags \cap KeptFlags
         /\ calls' = [i \in InFlight |-> [calls[i] EXCEPT !.live = @ /\ H(calls[i].handler).kept, !.home = FALSE]]
         /\ Act
         /\ UNCHANGED <<view, mounting, server, sound>>

(* The server takes the requests one by one.  Reads that nothing under way    *)
(* could change are taken together.                                           *)
Changing == {r.of : r \in {q \in UNION {calls[j].waits : j \in InFlight} : q.kind = "change"}}
Taken(i) == LET alone == {r \in calls[i].waits : r.of \in Changing \/ ~Sendable(calls[i], r)}
            IN {{r} : r \in {q \in alone : Sendable(calls[i], q)}} \cup ({calls[i].waits \ alone} \ {{}})
Reply(r) == [into |-> r.into, version |-> server[r.of]]
Serve(i) == /\ i \in InFlight /\ mounting = {}
            /\ \E R \in Taken(i) :
                  /\ server' = [r \in DOMAIN server |->
                                   IF \E q \in R : q.kind = "change" /\ q.of = r THEN server[r] + 1 ELSE server[r]]
                  /\ calls' = [calls EXCEPT ![i].waits = @ \ R,
                                            ![i].got = @ \cup {Reply(r) : r \in {q \in R : q.kind = "read"}}]
            /\ UNCHANGED <<view, here, mounting, chosen, slot, flags, acts, waited, sound>>

(* What slot s shows once call c has its answers.                              *)
Put(c, s) ==
    LET G == {g \in c.got : g.into.slot = s}
    IN IF ~c.live \/ G = {} THEN slot[s]
       ELSE LET g == CHOOSE x \in G : TRUE
            IN IF g.into.replaces /\ slot[s].item # c.item THEN slot[s]
               ELSE IF g.version = -1 THEN NotLoaded
               ELSE [of |-> g.into.of, item |-> c.item, version |-> g.version]

\* Mutant: a handler is over with the answers of its first stage.
OverAtFirst(c) == c.stage = 1
LastStage(c) == c.stage = Len(H(c.handler).stages)
\* Mutant: no flag is reset when a request fails.
EndedWell(c, how) == IF c.live /\ how \cap (H(c.handler).ends \ {"error"}) # {} /\ (H(c.handler).late => LastStage(c))
                     THEN flags \ {H(c.handler).flag} ELSE flags
Ended(c, how) == IF c.live /\ how \cap H(c.handler).ends # {} /\ (H(c.handler).late => LastStage(c))
                 THEN flags \ {H(c.handler).flag} ELSE flags
SetLate(c) == IF c.live /\ H(c.handler).late THEN {H(c.handler).flag} ELSE {}

(* What is selected, and what is begun then, once call c has ended: its       *)
(* component sees to that, if it is still there.                              *)
Opened(c) ==
    LET o == H(c.handler)
        item == IF o.opens THEN {c.item} ELSE IF o.picks /\ chosen = NoItem THEN Items ELSE {}
    IN IF c.live /\ c.home /\ item # {}
       THEN /\ chosen' \in item
            /\ mounting' = mounting \cup (IF o.anew \/ chosen' # chosen THEN view.opened ELSE {})
       ELSE /\ chosen' = IF c.live /\ c.home /\ o.leaves THEN NoItem ELSE chosen
            /\ mounting' = mounting \cup (IF here /\ o.restarts THEN view.mount ELSE {})

Answer(i) ==
    /\ i \in InFlight /\ mounting = {} /\ calls[i].waits = {}
    /\ LET c == calls[i]  o == H(c.handler)
           shown == [s \in DOMAIN slot |-> Put(c, s)]
       IN IF LastStage(c)
          THEN /\ slot' = [s \in DOMAIN slot |-> IF c.live /\ s \in o.forgets /\ shown[s].item = c.item
                                                 THEN NotLoaded ELSE shown[s]]
               /\ calls' = Without(i)
               /\ flags' = Ended(c, {"answer", "first"})
               /\ Opened(c)
          ELSE /\ slot' = shown
               /\ calls' = With(i, [c EXCEPT !.stage = @ + 1, !.got = {},
                                             !.waits = Requests(o.stages[c.stage + 1])])
               /\ flags' = Ended(c, {"first"}) \cup SetLate(c)
               /\ UNCHANGED <<chosen, mounting>>
    /\ UNCHANGED <<view, here, acts, server, waited, sound>>

(* A request fails, carried out or not.  A patient handler goes on without    *)
(* the answer and shows nothing in its place.                                 *)
Fail(i) ==
    /\ i \in InFlight /\ mounting = {}
    /\ sound' = FALSE
    /\ IF H(calls[i].handler).patient
       THEN \E r \in calls[i].waits :
               /\ calls' = [calls EXCEPT ![i].waits = @ \ {r}, ![i].got = @ \cup {[into |-> r.into, version |-> -1]}]
               /\ UNCHANGED flags
       ELSE calls' = Without(i) /\ flags' = Ended(calls[i], {"error"})
    /\ UNCHANGED <<view, here, mounting, chosen, slot, acts, server, waited>>

Next == \/ Enter \/ Leave
        \/ \E h \in Play, item \in Items : Mount(h, item) \/ Press(h, item)
        \/ \E i \in InFlight : Serve(i) \/ Answer(i) \/ Fail(i)

(* The browser and the server deal with every request in the end, and React   *)
(* with every effect.                                                         *)
Network == \E i \in InFlight : Serve(i) \/ Answer(i) \/ Fail(i)
Mounting == \E h \in Play, item \in Items : Mount(h, item)
Spec == Init /\ [][Next]_vars /\ WF_vars(Network) /\ WF_vars(Mounting)

-----------------------------------------------------------------------------
(* What keeps the flags right: a handler that sets one resets it when it has   *)
(* its answers and when one fails, one that can cancel calls makes a call of  *)
(* its own, and a flag is either in a store or in a component.                *)
Accountable(v) ==
    /\ "handlers" \in DOMAIN v
    /\ \A h \in DOMAIN v.handlers :
          LET o == v.handlers[h]
          IN /\ o.flag \notin Told => "error" \in o.ends /\ o.ends \cap {"answer", "first"} # {}
             /\ o.guarded \/ o.restarts => o.stages # <<>>
             /\ o.late => o.flag # NoFlag /\ Len(o.stages) = 2 /\ ~o.guarded
             /\ \A g \in DOMAIN v.handlers :
                   o.flag # NoFlag /\ v.handlers[g].flag = o.flag => v.handlers[g].kept = o.kept

(* What keeps the parts right: no effect changes anything on the server, and  *)
(* a handler that does reads again what is shown of it, has emptied it before *)
(* or ends with another object selected, for which it is loaded anew.         *)
EffectsOf(v) == v.mount \cup v.opened
Showing(v) == UNION {v.parts[n].shows : n \in DOMAIN v.parts}
Belonging(v) == UNION {v.parts[n].shows : n \in {m \in DOMAIN v.parts : v.parts[m].about}}
Fills(v) == UNION {ShowsOf(v.handlers[h]) : h \in DOMAIN v.handlers}

Reads(stage, s) == /\ \E x \in stage.shows : x.slot = s
                   /\ \A x \in stage.shows : x.slot = s => ~x.replaces
(* The effect e loads slot s for the selected item or empties it, each time.   *)
Renews(o, s) == /\ o.unless = {} /\ ~o.selects /\ o.ofChosen
                /\ s \in o.drops \/ \E n \in DOMAIN o.stages : Reads(o.stages[n], s)
Reopened(v, s) == \E e \in v.opened : Renews(v.handlers[e], s)
OnlyAbout(v, s) == \A n \in DOMAIN v.parts : s \in v.parts[n].shows => v.parts[n].about
Reselects(o) == IF o.opens THEN o.anew ELSE o.leaves

Calm(v) ==
    /\ EffectsOf(v) \subseteq DOMAIN v.handlers
    /\ \A h \in EffectsOf(v) : LET o == v.handlers[h]
                               IN ChangesOf(o) = {} /\ ~o.control /\ ~o.restarts /\ ~o.opens /\ ~o.leaves
    /\ \A h \in DOMAIN v.handlers : v.handlers[h].selects => v.handlers[h].stages = <<>>

Refreshing(v) ==
    /\ Calm(v)
    /\ \A h \in DOMAIN v.handlers : LET o == v.handlers[h] IN
          \A n \in DOMAIN o.stages : \A x \in Fills(v) :
             x.of \in o.stages[n].changes /\ x.slot \in Showing(v) \ LeftStale =>
                \/ \E m \in n .. Len(o.stages) : Reads(o.stages[m], x.slot)
                \/ x.slot \in o.drops \ Shown(o)
                \/ Reselects(o) /\ OnlyAbout(v, x.slot) /\ Reopened(v, x.slot)

(* What keeps them those of the selected item: what is loaded for a part of   *)
(* it is loaded by the handlers of the selected item alone, and whatever      *)
(* selects another loads the slot anew or has emptied it; at most one effect  *)
(* selects, before the others have loaded anything.                           *)
Owned(v) == (Belonging(v) \ LeftBehind) \cap {x.slot : x \in Fills(v)}
(* No item selected, nothing left of one.                                     *)
Cleared(v, s) == \A h \in DOMAIN v.handlers : LET o == v.handlers[h] IN
    /\ s \in Shown(o) => h \notin EffectsOf(v) /\ ~o.kept /\ (o.opens \/ ~o.leaves)
    /\ o.leaves \/ o.restarts => s \in o.drops
EmptiedFor(v, s) == \A h \in DOMAIN v.handlers : LET o == v.handlers[h] IN
    /\ ~o.picks
    /\ o.selects => s \in o.drops
    /\ o.opens => (o.ofChosen /\ ~o.restarts) \/ (o.fromList /\ Cleared(v, s))
(* The one handler that loads s cancels its calls that are still under way.   *)
CancelledFor(v, s) == \A h \in DOMAIN v.handlers : LET o == v.handlers[h] IN
    s \in Shown(o) =>
       /\ h \in v.opened /\ o.guarded /\ ~o.opens /\ Renews(o, s)
       /\ \E n \in DOMAIN o.stages : Reads(o.stages[n], s)
       /\ \A g \in DOMAIN v.handlers : s \in Shown(v.handlers[g]) => g = h

FollowsChosen(v) ==
    /\ Calm(v)
    /\ \A h \in v.opened : ~v.handlers[h].selects
    /\ \A g, h \in v.mount : v.handlers[g].selects /\ v.handlers[h].selects => g = h
    /\ (\E h \in v.mount : v.handlers[h].selects \/ v.handlers[h].picks) =>
          \A h \in v.mount : Shown(v.handlers[h]) \cap Owned(v) = {}
    /\ \A h \in DOMAIN v.handlers : LET o == v.handlers[h] IN
          Shown(o) \cap Owned(v) # {} => ~o.restarts /\ (o.ofChosen \/ (o.opens /\ Len(o.stages) = 1))
    /\ \A s \in Owned(v) : /\ Reopened(v, s) \/ EmptiedFor(v, s)
                           /\ s \in Cancelled => CancelledFor(v, s)

TypeOK ==
    /\ Accountable(view)
    /\ here \in BOOLEAN /\ mounting \subseteq Play /\ chosen \in Items \cup {NoItem}
    /\ slot \in [DOMAIN slot -> [of : DOMAIN server \cup {NoFlag}, item : Items \cup {NoItem}, version : Nat \cup {-1}]]
    /\ flags \subseteq {H(h).flag : h \in Play}
    /\ acts \in 0 .. MaxActs /\ InFlight \subseteq Nat
    /\ \A i \in InFlight : calls[i].handler \in Play /\ calls[i].stage \in DOMAIN H(calls[i].handler).stages

(* A busy flag that is set belongs to a call that is in flight: no spinner is *)
(* left turning and no button stays disabled after the last call has ended.   *)
FlagsHaveCalls == \A f \in flags \ Told : \E i \in InFlight : H(calls[i].handler).flag = f

(* The parts that are on screen, and what they show.                          *)
Visible == {p \in {view.parts[n] : n \in DOMAIN view.parts} :
              here /\ p.hidden \cap flags = {} /\ (p.about => chosen # NoItem)}
Seen(p) == {s \in p.shows \cap DOMAIN slot : slot[s] # NotLoaded}

(* If the calls of a user did not overlap and none failed, what is on screen  *)
(* afterwards is what the server has: each handler that changes something     *)
(* reads again all that is shown of it.                                       *)
OwnChangesShown == AtRest /\ waited /\ sound =>
    \A p \in Visible : \A s \in Seen(p) \ LeftStale : slot[s].version = server[slot[s].of]

(* What is on screen as belonging to the selected item does: in any order of  *)
(* answers where late ones are cancelled, elsewhere if the calls did not      *)
(* overlap; a request that failed may leave what was there.                   *)
ShownOfChosen == AtRest /\ sound =>
    \A p \in {q \in Visible : q.about} : \A s \in Seen(p) \ LeftBehind :
        waited \/ s \in Cancelled => slot[s].item = chosen

(* Once the user stops, the view settles, whatever becomes of the requests:   *)
(* no effect goes on setting itself off, no call stays open, no flag set.      *)
Settles == []<>(AtRest /\ flags \subseteq Told)
=============================================================================
