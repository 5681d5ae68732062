----------------------------- MODULE TourEngine -----------------------------
(***************************************************************************)
(* Guided tours and scenarios of the front end: the tour store, the        *)
(* runner that plays a scenario with timers (watch mode) or waits for the  *)
(* user (try mode), the overlays whose buttons drive the store and which   *)
(* send the browser to the page of their step, and what survives a reload  *)
(* in localStorage.                                                        *)
(*                                                                         *)
(* A store update renders before the next event or timer, and its effects  *)
(* run with it, so an action ends with the effects whose dependencies it   *)
(* changed (AutoPlayEffect, ValidationEffect, Overlays).  A navigation     *)
(* renders later, as a transition (Commit); it rebuilds the router's       *)
(* navigate function, on which the effects depend as well.                 *)
(***************************************************************************)
EXTENDS Naturals, Sequences, FiniteSets

CONSTANTS Scenario,   \* Scenario[id]: the definition of a scenario
          TourSteps,  \* TourSteps[id]: the pages of a tour's steps
          Menus,      \* menus that may be registered: [scenarios, tours]
          Pages,      \* pages the user can be at
          Redirects,  \* Redirects[p]: where a page that only redirects leads
          NoRoute,    \* the route of a step that stays on the page
          PageTours,  \* PageTours[p]: the tour the Tour button of a page asks for
          Guides,     \* tours the toolbar's Guide button asks for
          None,       \* null
          MaxFrames   \* bound: animation frames a replay has pending

VARIABLES scenarioDefinitions, definitions,                 \* registered ids
          activeTour, currentStep, completedTours,          \* the tour
          mode, activeScenario, scenarioStep,               \* the scenario
          isAutoPlaying, completedScenarios,
          timer,          \* timer of the auto-play effect, or None
          poll,           \* the validation poll runs
          stepValidated,  \* the runner lets a try-mode step be left
          frames,         \* replays waiting to switch auto-play on again
          welcome,        \* onboarding: "unseen", "shown" or "done"
          stored,         \* localStorage: completed lists and onboarding flag
          page, going,    \* the page on screen, the one the browser goes to or None
          acts, touched   \* history: automatic acts since the step and the page on
                          \* screen came up, and whether the user pressed a button

tour  == <<definitions, activeTour, currentStep, completedTours>>
scene == <<scenarioDefinitions, mode, activeScenario, scenarioStep,
           isAutoPlaying, completedScenarios>>
run   == <<timer, poll, stepValidated, frames, acts, touched>>
where == <<page, going>>
vars  == <<tour, scene, run, where, welcome, stored>>

Scenarios == DOMAIN Scenario
Tours     == DOMAIN TourSteps
Steps(s)  == Scenario[s].steps
Shown     == Steps(activeScenario)[scenarioStep + 1]
ShownRoute  == IF activeScenario # None /\ scenarioStep < Len(Steps(activeScenario))
               THEN Shown.route ELSE NoRoute
GuidedRoute == IF activeTour # None /\ currentStep < Len(TourSteps[activeTour])
               THEN TourSteps[activeTour][currentStep + 1] ELSE NoRoute

ASSUME CatalogAssumption ==
    /\ \A s \in Scenarios : Len(Steps(s)) \in Nat \ {0}
    /\ \A t \in Tours : Len(TourSteps[t]) \in Nat \ {0}
    /\ \A s \in Scenarios : \A i \in 1 .. Len(Steps(s)) : Steps(s)[i].route \in Pages \union {NoRoute}
    /\ \A t \in Tours : \A i \in 1 .. Len(TourSteps[t]) : TourSteps[t][i] \in Pages \union {NoRoute}
    /\ \A p \in DOMAIN Redirects : Redirects[p] \in Pages
    /\ None \notin Scenarios \union Tours \union Pages
    /\ \A menu \in Menus : menu.scenarios \subseteq Scenarios /\ menu.tours \subseteq Tours
    /\ MaxFrames \in Nat

Timers == [kind : {"act", "advance"}, of : Scenarios, step : Nat]

EngineTypeOK ==
    /\ scenarioDefinitions \subseteq Scenarios /\ definitions \subseteq Tours
    /\ activeTour \in definitions \union {None} /\ currentStep \in Nat
    /\ completedTours \subseteq Tours
    /\ mode \in {"watch", "try"} /\ isAutoPlaying \in BOOLEAN
    /\ activeScenario \in scenarioDefinitions \union {None}
    /\ scenarioStep \in Nat /\ completedScenarios \subseteq Scenarios
    /\ timer \in Timers \union {None}
    /\ poll \in BOOLEAN /\ stepValidated \in BOOLEAN /\ frames \in 0 .. MaxFrames
    /\ welcome \in {"unseen", "shown", "done"}
    /\ stored \in [tours : SUBSET Tours, scenarios : SUBSET Scenarios,
                   welcomed : BOOLEAN]
    /\ acts \in 0 .. 2 /\ touched \in BOOLEAN

Located == page \in Pages /\ going \in Pages \union {None}

TypeOK == EngineTypeOK /\ Located

-----------------------------------------------------------------------------
(* A page is loaded: state lives in memory, completed lists come from      *)
(* storage, the menu is registered by an effect of the layout.             *)

\* A page that redirects sends the browser on when it renders.
Redirected(p) == IF p \in DOMAIN Redirects THEN Redirects[p] ELSE None

Init ==
    /\ scenarioDefinitions = {} /\ definitions = {}
    /\ activeTour = None /\ currentStep = 0 /\ completedTours = {}
    /\ mode = "watch" /\ activeScenario = None /\ scenarioStep = 0
    /\ isAutoPlaying = FALSE /\ completedScenarios = {}
    /\ timer = None /\ poll = FALSE /\ stepValidated = FALSE /\ frames = 0
    /\ welcome = "unseen" /\ acts = 0 /\ touched = FALSE
    /\ page \in Pages /\ going = Redirected(page)
    /\ stored = [tours |-> {}, scenarios |-> {}, welcomed |-> FALSE]

Reload ==
    /\ scenarioDefinitions' = {} /\ definitions' = {}
    /\ activeTour' = None /\ currentStep' = 0 /\ completedTours' = stored.tours
    /\ mode' = "watch" /\ activeScenario' = None /\ scenarioStep' = 0
    /\ isAutoPlaying' = FALSE /\ completedScenarios' = stored.scenarios
    /\ timer' = None /\ poll' = FALSE /\ stepValidated' = FALSE /\ frames' = 0
    /\ welcome' = IF stored.welcomed THEN "done" ELSE "unseen"
    /\ acts' = 0 /\ touched' = FALSE
    /\ page' = IF going = None THEN page ELSE going
    /\ going' = Redirected(page')
    /\ UNCHANGED stored

Register(menu) ==
    /\ definitions = {} /\ scenarioDefinitions = {}
    /\ definitions' = menu.tours /\ scenarioDefinitions' = menu.scenarios
    /\ UNCHANGED <<activeTour, currentStep, completedTours, mode, activeScenario,
                   scenarioStep, isAutoPlaying, completedScenarios, run, where, welcome, stored>>

-----------------------------------------------------------------------------
(* The overlays, and the page.                                             *)

\* The router's location: at a page that is on screen nothing is pending.
Toward(p) == IF p = page' THEN None ELSE p

\* Mutant: an overlay does not go where the page already is.
IfElsewhere(pending) ==
    going' = IF ShownRoute' \notin {NoRoute, page'}
                /\ <<activeScenario, scenarioStep, page>>' # <<activeScenario, scenarioStep, page>>
             THEN ShownRoute'
             ELSE IF GuidedRoute' \notin {NoRoute, page'}
                     /\ <<activeTour, currentStep, page>>' # <<activeTour, currentStep, page>>
             THEN GuidedRoute'
             ELSE pending

\* Effects of both overlays: each goes to the page of its step when the step or
\* the page has changed; StepOverlay's runs last, and the last one wins.
\* pending is where the action itself leaves the browser going.
Overlays(pending) ==
    going' = IF ShownRoute' # NoRoute
                /\ <<activeScenario, scenarioStep, page>>' # <<activeScenario, scenarioStep, page>>
             THEN Toward(ShownRoute')
             ELSE IF GuidedRoute' # NoRoute
                     /\ <<activeTour, currentStep, page>>' # <<activeTour, currentStep, page>>
             THEN Toward(GuidedRoute')
             ELSE pending

(* Tours: TourOverlay's buttons drive the store, nothing else does.        *)

StartTour(t) == activeTour' = t /\ currentStep' = 0 /\ UNCHANGED <<definitions, completedTours>>

Toured == UNCHANGED <<scene, run, page>> /\ Overlays(going)

\* The header's Tour button: the page's tour, or the overview; not over another.
TourButton ==
    /\ activeTour = None
    /\ \/ PageTours[page] \in definitions /\ StartTour(PageTours[page])
       \/ PageTours[page] \notin definitions /\ "overview" \in definitions /\ StartTour("overview")
    /\ UNCHANGED <<welcome, stored>> /\ Toured

\* The demo toolbar's Guide button: the guide of the act, else the first one.
GuideButton(g) ==
    /\ activeTour = None
    /\ "act1_guide" \in definitions
    /\ StartTour(IF g \in definitions THEN g ELSE "act1_guide")
    /\ UNCHANGED <<welcome, stored>> /\ Toured

SkipTour == /\ activeTour' = None /\ currentStep' = 0
            /\ UNCHANGED <<definitions, completedTours, welcome, stored>> /\ Toured

\* Mutant: one step further.
PastLastOfTour == currentStep >= Len(TourSteps[activeTour])
LastOfTour == currentStep >= Len(TourSteps[activeTour]) - 1
CanGoBack == currentStep > 0

EndTour ==
    /\ activeTour' = None /\ currentStep' = 0
    /\ completedTours' = completedTours \union {activeTour}
    /\ stored' = IF activeTour \in completedTours THEN stored
                 ELSE [stored EXCEPT !.tours = completedTours']

NextStep ==
    /\ activeTour # None
    /\ \/ /\ ~LastOfTour
          /\ currentStep' = currentStep + 1
          /\ UNCHANGED <<activeTour, completedTours, stored>>
       \/ LastOfTour /\ EndTour
    /\ UNCHANGED <<definitions, welcome>> /\ Toured

PrevStep == /\ CanGoBack
            /\ currentStep' = currentStep - 1
            /\ UNCHANGED <<definitions, activeTour, completedTours, welcome, stored>> /\ Toured

(* Onboarding: shown half a second after the first visit, until dismissed. *)
ShowWelcome == /\ welcome = "unseen" /\ welcome' = "shown"
               /\ UNCHANGED <<tour, scene, run, where, stored>>

DismissWelcome(start) ==
    /\ welcome = "shown" /\ welcome' = "done"
    /\ stored' = [stored EXCEPT !.welcomed = TRUE]
    /\ IF start /\ "overview" \in definitions THEN StartTour("overview") ELSE UNCHANGED tour
    /\ Toured

-----------------------------------------------------------------------------
(* Effects of ScenarioRunner, run after an action that changed what they   *)
(* depend on; pending is the timer the action itself leaves.               *)

\* The dependencies of the effect, the page for performAutoAction, which is
\* rebuilt with navigate.  Mutant: without the step.
DepsWithoutStep == <<isAutoPlaying, mode, activeScenario, page>>
Deps == <<isAutoPlaying, mode, activeScenario, scenarioStep, page>>

AutoPlayEffect(pending) ==
    timer' = IF Deps' = Deps THEN pending
             ELSE IF isAutoPlaying' /\ mode' = "watch" /\ activeScenario' # None
             THEN [kind |-> "act", of |-> activeScenario', step |-> scenarioStep']
             ELSE None

ValidationEffect ==
    IF <<mode, activeScenario, scenarioStep>>' = <<mode, activeScenario, scenarioStep>>
    THEN UNCHANGED <<poll, stepValidated>>
    ELSE /\ stepValidated' = FALSE
         /\ poll' = (mode' = "try" /\ activeScenario' # None /\ Shown'.checks)

History(user) ==
    IF <<activeScenario, scenarioStep, page>>' = <<activeScenario, scenarioStep, page>>
    THEN touched' = (touched \/ user) /\ UNCHANGED acts
    ELSE touched' = FALSE /\ acts' = 0

Runner(pending, user) == AutoPlayEffect(pending) /\ ValidationEffect /\ History(user)

\* After an action that keeps the page.
Effects(pending, user) == UNCHANGED page /\ Overlays(going) /\ Runner(pending, user)

\* The user follows a link of the sidebar, say.
Visit(p) == /\ UNCHANGED page /\ going' = Toward(p)
            /\ UNCHANGED <<tour, scene, run, welcome, stored>>

\* The page the browser goes to is rendered: all that uses navigate runs again.
Commit == /\ going # None /\ page' = going
          /\ UNCHANGED <<tour, scene, frames, welcome, stored>>
          /\ Overlays(Redirected(page')) /\ Runner(timer, FALSE)

(* The store's operations on the scenario. *)

SetScene(s, i, playing) ==
    activeScenario' = s /\ scenarioStep' = i /\ isAutoPlaying' = playing

EndScenario ==
    /\ SetScene(None, 0, FALSE)
    /\ completedScenarios' = completedScenarios \union {activeScenario}
    /\ stored' = IF activeScenario \in completedScenarios THEN stored
                 ELSE [stored EXCEPT !.scenarios = completedScenarios']

\* Mutant: skipping records the scenario like its end.
SkipAsEnd == EndScenario
SkipScenario == SetScene(None, 0, FALSE) /\ UNCHANGED <<completedScenarios, stored>>

\* Mutant: the last step is not left.
StayAtEnd == UNCHANGED <<activeScenario, scenarioStep, isAutoPlaying, completedScenarios, stored>>
LeaveLast == EndScenario

NextScenarioStep ==
    /\ activeScenario # None
    /\ \/ /\ scenarioStep < Len(Steps(activeScenario)) - 1
          /\ SetScene(activeScenario, scenarioStep + 1, isAutoPlaying)
          /\ UNCHANGED <<completedScenarios, stored>>
       \/ scenarioStep >= Len(Steps(activeScenario)) - 1 /\ LeaveLast
    /\ UNCHANGED <<scenarioDefinitions, mode, tour, welcome>>

\* Both entry points of a card set the mode first, then start the scenario,
\* which ends any tour.
StartScenario(s, m) ==
    /\ s \in scenarioDefinitions
    /\ mode' = m
    /\ SetScene(s, 0, m = "watch")
    /\ activeTour' = None /\ currentStep' = 0
    /\ UNCHANGED <<scenarioDefinitions, definitions, completedTours,
                   completedScenarios, frames, welcome, stored>>
    /\ Effects(timer, TRUE)

-----------------------------------------------------------------------------
(* StepOverlay's buttons. *)

\* Next waits for the validation of a step that has one, in try mode.
PressNext ==
    /\ activeScenario # None
    /\ ~(mode = "try" /\ Shown.checks /\ ~stepValidated)
    /\ NextScenarioStep /\ Effects(timer, TRUE) /\ UNCHANGED frames

PressPrev ==
    /\ activeScenario # None /\ scenarioStep > 0
    /\ SetScene(activeScenario, scenarioStep - 1, isAutoPlaying)
    /\ UNCHANGED <<scenarioDefinitions, mode, completedScenarios, tour, frames, welcome, stored>>
    /\ Effects(timer, TRUE)

PressSkip ==
    /\ activeScenario # None
    /\ SkipScenario
    /\ UNCHANGED <<scenarioDefinitions, mode, tour, frames, welcome>>
    /\ Effects(timer, TRUE)

SetAutoPlay(playing, m, pending) ==
    /\ SetScene(activeScenario, scenarioStep, playing) /\ mode' = m
    /\ UNCHANGED <<scenarioDefinitions, completedScenarios, tour, welcome, stored>>
    /\ Effects(pending, TRUE)

PressPlayPause ==
    /\ activeScenario # None /\ mode = "watch"
    /\ SetAutoPlay(~isAutoPlaying, mode, timer) /\ UNCHANGED frames

\* Switching to watch starts auto-play, to try stops it.
PressMode(m) ==
    /\ activeScenario # None
    /\ SetAutoPlay(m = "watch", m, timer) /\ UNCHANGED frames

\* Replay drops the advance, then switches auto-play off, and on in a frame.
PressReplay ==
    /\ activeScenario # None /\ mode = "watch" /\ isAutoPlaying
    /\ frames < MaxFrames /\ frames' = frames + 1
    /\ SetAutoPlay(FALSE, mode, None)

Frame ==
    /\ frames > 0 /\ frames' = frames - 1
    /\ SetScene(activeScenario, scenarioStep, ~isAutoPlaying)
    /\ UNCHANGED <<scenarioDefinitions, mode, completedScenarios, tour, welcome, stored>>
    /\ Effects(timer, FALSE)

(* Timers of the runner. *)

\* The timer that is left when the action is done.  Mutant: an interval.
Repeated == timer
Scheduled == [timer EXCEPT !.kind = "advance"]

\* After 400 ms the step's action is performed and the advance is scheduled.
\* No step of the catalogue clicks a link or gives "navigate" a value, so the
\* action itself leads nowhere.
Act ==
    /\ timer # None /\ timer.kind = "act"
    /\ timer' = Scheduled
    /\ acts' = IF acts < 2 THEN acts + 1 ELSE acts
    /\ UNCHANGED <<tour, scene, poll, stepValidated, frames, touched, where, welcome, stored>>

Advance ==
    /\ timer # None /\ timer.kind = "advance"
    /\ NextScenarioStep /\ Effects(None, FALSE) /\ UNCHANGED frames

\* The poll finds the element, or gives up after ten seconds; either opens Next.
\* Mutant: only the element does.
OnlyIfFound(found) == found
Validated(found) == TRUE

PollEnds ==
    /\ poll /\ poll' = FALSE /\ \E found \in BOOLEAN : stepValidated' = Validated(found)
    /\ UNCHANGED <<tour, scene, timer, frames, acts, touched, where, welcome, stored>>

-----------------------------------------------------------------------------
\* What happens by itself.
Engine == Commit \/ Frame \/ Act \/ Advance \/ PollEnds

Next ==
    \/ Reload \/ \E menu \in Menus : Register(menu)
    \/ (\E p \in Pages : Visit(p)) \/ TourButton
    \/ \E g \in Guides : GuideButton(g)
    \/ SkipTour \/ NextStep \/ PrevStep
    \/ ShowWelcome \/ \E start \in BOOLEAN : DismissWelcome(start)
    \/ \E s \in Scenarios, m \in {"watch", "try"} : StartScenario(s, m)
    \/ PressNext \/ PressPrev \/ PressSkip \/ PressPlayPause \/ PressReplay
    \/ \E m \in {"watch", "try"} : PressMode(m)
    \/ Engine

\* The browser runs the timers that are due; nobody has to press anything.
Fairness == /\ WF_vars(Act) /\ WF_vars(Advance) /\ WF_vars(PollEnds) /\ WF_vars(Frame)
            /\ WF_vars(Commit)

Spec == Init /\ [][Next]_vars /\ Fairness

-----------------------------------------------------------------------------
(* A timer that is running belongs to the step on screen, while it plays:  *)
(* skipping, pausing, going back, switching the mode or starting another   *)
(* scenario leaves no timer that would act on or advance something else.   *)
TimerOfShownStep ==
    timer # None => /\ timer.of = activeScenario /\ timer.step = scenarioStep
                    /\ isAutoPlaying /\ mode = "watch"

(* As long as nobody intervenes a step's automatic action (a click on      *)
(* Save, say) is performed at most once while the step and its page are on *)
(* screen.  A page that comes up after the action has it performed again.  *)
ActsOnce == ~touched => acts <= 1

(* Whatever timers, polls, replays and reloads do, a scenario is walked    *)
(* step by step and recorded, in storage, only from its last step.         *)
Scenes == INSTANCE Playback WITH
    Items <- Scenarios, Length <- [s \in Scenarios |-> Len(Steps(s))], None <- None,
    playing <- activeScenario, at <- scenarioStep, done <- stored.scenarios
ScenesPlayback == Scenes!Spec

(* The same of tours.                                                      *)
Guided == INSTANCE Playback WITH
    Items <- Tours, Length <- [t \in Tours |-> Len(TourSteps[t])], None <- None,
    playing <- activeTour, at <- currentStep, done <- stored.tours
ToursPlayback == Guided!Spec

(* Auto-play never stalls: a step that plays on a page is left, or paused, *)
(* or the page changes, which starts the step's timers anew.               *)
Playing(s, i) == /\ activeScenario = s /\ scenarioStep = i
                 /\ isAutoPlaying /\ mode = "watch"
NoStepPlaysForever ==
    \A s \in Scenarios : \A i \in 0 .. Len(Steps(s)) - 1 :
        \A p \in Pages : (Playing(s, i) /\ page = p) ~> ~(Playing(s, i) /\ page = p)

(* Try mode never locks the user in: the Next button of a step opens, even *)
(* when the element it waits for never appears.                            *)
Trying(s, i) == activeScenario = s /\ scenarioStep = i /\ mode = "try"
NextOpens ==
    \A s \in Scenarios : \A i \in 0 .. Len(Steps(s)) - 1 :
        Trying(s, i) ~> (~Trying(s, i) \/ ENABLED PressNext)

(* Left alone, the browser comes to rest: a tour and a scenario that are   *)
(* both on screen, and a page that redirects, do not send it to and fro    *)
(* for ever.                                                               *)
LeftAlone == <>[][Engine]_vars
PageSettles == LeftAlone => <>[](going = None)

=============================================================================
