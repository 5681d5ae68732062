-------------------------- MODULE TourEngineProofs --------------------------
(***************************************************************************)
(* Scenarios and tours of any length and any menus: every timer belongs to *)
(* the step on screen, and both kinds of walkthrough are the playback they *)
(* promise.                                                                *)
(***************************************************************************)
EXTENDS TourEngine, TLAPS

(* A step is on screen exactly if something plays, and is one of its steps; *)
(* what the storage holds is what the page knows.                           *)
OnScreen ==
    /\ IF activeScenario = None THEN scenarioStep = 0
                                ELSE scenarioStep < Len(Steps(activeScenario))
    /\ IF activeTour = None THEN currentStep = 0
                            ELSE currentStep < Len(TourSteps[activeTour])
    /\ stored.scenarios = completedScenarios /\ stored.tours = completedTours

IInv == TypeOK /\ OnScreen /\ TimerOfShownStep

LEMMA InitIInv == Init => IInv
<1> SUFFICES ASSUME Init PROVE IInv
  OBVIOUS
<1>1. TypeOK
  <2>0. Located
    BY CatalogAssumption DEF Init, Located, Redirected
  <2>1. frames \in 0 .. MaxFrames /\ acts \in 0 .. 2 /\ currentStep \in Nat /\ scenarioStep \in Nat
    BY CatalogAssumption DEF Init
  <2>2. stored \in [tours : SUBSET Tours, scenarios : SUBSET Scenarios, welcomed : BOOLEAN]
    BY DEF Init
  <2>3. poll \in BOOLEAN /\ stepValidated \in BOOLEAN /\ isAutoPlaying \in BOOLEAN /\ touched \in BOOLEAN
    BY DEF Init
  <2>4. QED
    BY <2>0, <2>1, <2>2, <2>3 DEF Init, TypeOK, EngineTypeOK
<1>2. OnScreen /\ TimerOfShownStep
  BY DEF Init, OnScreen, TimerOfShownStep
<1>3. QED
  BY <1>1, <1>2 DEF IInv

LEMMA InSteps == \A i, n \in Nat : i < n => i + 1 \in 1 .. n
OBVIOUS

(* Wherever the overlays send the browser, it is a page.                    *)
LEMMA OverlaysLocate ==
    ASSUME page' \in Pages, activeScenario' \in Scenarios \union {None}, scenarioStep' \in Nat,
           activeTour' \in Tours \union {None}, currentStep' \in Nat,
           NEW pending \in Pages \union {None}, Overlays(pending)
    PROVE  Located'
<1>1. ShownRoute' \in Pages \union {NoRoute}
  <2>1. CASE activeScenario' # None /\ scenarioStep' < Len(Steps(activeScenario'))
    <3>0. Len(Steps(activeScenario')) \in Nat
      BY <2>1, CatalogAssumption
    <3>1. scenarioStep' + 1 \in 1 .. Len(Steps(activeScenario'))
      BY <2>1, <3>0, InSteps, Zenon
    <3>2. Steps(activeScenario')[scenarioStep' + 1].route \in Pages \union {NoRoute}
      BY <2>1, <3>1, CatalogAssumption
    <3>3. QED
      BY <2>1, <3>2 DEF ShownRoute, Shown
  <2>2. CASE ~(activeScenario' # None /\ scenarioStep' < Len(Steps(activeScenario')))
    BY <2>2 DEF ShownRoute
  <2>3. QED
    BY <2>1, <2>2
<1>2. GuidedRoute' \in Pages \union {NoRoute}
  <2>1. CASE activeTour' # None /\ currentStep' < Len(TourSteps[activeTour'])
    <3>0. Len(TourSteps[activeTour']) \in Nat
      BY <2>1, CatalogAssumption
    <3>1. currentStep' + 1 \in 1 .. Len(TourSteps[activeTour'])
      BY <2>1, <3>0, InSteps, Zenon
    <3>2. TourSteps[activeTour'][currentStep' + 1] \in Pages \union {NoRoute}
      BY <2>1, <3>1, CatalogAssumption
    <3>3. QED
      BY <2>1, <3>2 DEF GuidedRoute
  <2>2. CASE ~(activeTour' # None /\ currentStep' < Len(TourSteps[activeTour']))
    BY <2>2 DEF GuidedRoute
  <2>3. QED
    BY <2>1, <2>2
<1>3. going' \in Pages \union {None}
  BY <1>1, <1>2 DEF Overlays, Toward
<1>4. QED
  BY <1>3 DEF Located

(* What the effects leave, whatever action they follow.                     *)
LEMMA RunnerType ==
    ASSUME IInv, NEW pending \in {timer, None}, NEW user \in BOOLEAN,
           activeScenario' \in Scenarios \union {None}, scenarioStep' \in Nat,
           Runner(pending, user)
    PROVE  /\ timer' \in Timers \union {None}
           /\ poll' \in BOOLEAN /\ stepValidated' \in BOOLEAN
           /\ acts' \in 0 .. 2 /\ touched' \in BOOLEAN
<1>1. timer' \in Timers \union {None}
  BY DEF Runner, AutoPlayEffect, IInv, TypeOK, EngineTypeOK, Timers
<1>2. poll' \in BOOLEAN /\ stepValidated' \in BOOLEAN
  <2> DEFINE same == <<mode, activeScenario, scenarioStep>>' = <<mode, activeScenario, scenarioStep>>
             waits == mode' = "try" /\ activeScenario' # None /\ Shown'.checks
  <2>1. CASE same
    BY <2>1 DEF Runner, ValidationEffect, IInv, TypeOK, EngineTypeOK
  <2>2. CASE ~same
    <3>1. stepValidated' = FALSE /\ poll' = waits
      BY <2>2, Zenon DEF Runner, ValidationEffect
    <3>2. waits \in BOOLEAN
      BY Zenon
    <3>3. QED
      BY <3>1, <3>2
  <2>3. QED
    BY <2>1, <2>2
<1>3. acts' \in 0 .. 2 /\ touched' \in BOOLEAN
  <2>1. acts' \in 0 .. 2
    BY DEF Runner, History, IInv, TypeOK, EngineTypeOK
  <2>2. touched' = (touched \/ user) \/ touched' = FALSE
    BY Zenon DEF Runner, History
  <2>3. (touched \/ user) \in BOOLEAN
    BY Zenon
  <2>4. QED
    BY <2>1, <2>2, <2>3
<1>4. QED
  BY <1>1, <1>2, <1>3

LEMMA RunnerTimer ==
    ASSUME IInv, NEW pending \in {timer, None}, NEW user, Runner(pending, user)
    PROVE  TimerOfShownStep'
BY DEF Runner, AutoPlayEffect, Deps, IInv, TimerOfShownStep

(* The actions that leave the scenario and its runner alone, and those that *)
(* leave all but the flags of the runner alone.                             *)
TourActs == \/ TourButton
            \/ \E g \in Guides : GuideButton(g)
            \/ SkipTour \/ NextStep \/ PrevStep
            \/ ShowWelcome \/ \E start \in BOOLEAN : DismissWelcome(start)
SceneActs == \/ \E s \in Scenarios, m \in {"watch", "try"} : StartScenario(s, m)
             \/ PressNext \/ PressPrev \/ PressSkip \/ PressPlayPause \/ PressReplay
             \/ \E m \in {"watch", "try"} : PressMode(m)
             \/ Frame \/ Advance \/ Commit

LEMMA TourTypes ==
    ASSUME IInv, TourActs
    PROVE  EngineTypeOK' /\ UNCHANGED <<scene, run, page>> /\ (Overlays(going) \/ UNCHANGED where)
<1> USE DEF IInv, TypeOK, EngineTypeOK, scene, run, tour, where, Toured
<1>1. CASE TourButton
  BY <1>1 DEF TourButton, StartTour
<1>2. ASSUME NEW g \in Guides, GuideButton(g) PROVE EngineTypeOK' /\ UNCHANGED <<scene, run, page>> /\ (Overlays(going) \/ UNCHANGED where)
  BY <1>2 DEF GuideButton, StartTour
<1>3. CASE SkipTour
  BY <1>3 DEF SkipTour
<1>4. CASE NextStep
  <2>1. CASE ~LastOfTour
    BY <1>4, <2>1 DEF NextStep
  <2>2. CASE LastOfTour
    <3>1. activeTour \in Tours /\ completedTours' = completedTours \union {activeTour}
      BY <1>4, <2>2 DEF NextStep, EndTour
    <3>2. stored' = stored \/ stored' = [stored EXCEPT !.tours = completedTours']
      BY <1>4, <2>2 DEF NextStep, EndTour
    <3>3. stored' \in [tours : SUBSET Tours, scenarios : SUBSET Scenarios, welcomed : BOOLEAN]
      BY <3>1, <3>2
    <3>4. QED
      BY <1>4, <2>2, <3>1, <3>3 DEF NextStep, EndTour
  <2>3. QED
    BY <2>1, <2>2
<1>5. CASE PrevStep
  BY <1>5 DEF PrevStep, CanGoBack
<1>6. CASE ShowWelcome
  BY <1>6 DEF ShowWelcome
<1>7. ASSUME NEW start \in BOOLEAN, DismissWelcome(start) PROVE EngineTypeOK' /\ UNCHANGED <<scene, run, page>> /\ (Overlays(going) \/ UNCHANGED where)
  <2>1. stored' \in [tours : SUBSET Tours, scenarios : SUBSET Scenarios, welcomed : BOOLEAN]
    BY <1>7 DEF DismissWelcome
  <2>2. QED
    BY <1>7, <2>1 DEF DismissWelcome, StartTour
<1>8. QED
  BY <1>1, <1>2, <1>3, <1>4, <1>5, <1>6, <1>7 DEF TourActs

(* What an action on the scenario leaves of it and of the tour; its effects *)
(* have run, and to whom looks at the screen it was a step of the playback. *)
Screen == /\ mode \in {"watch", "try"} /\ isAutoPlaying \in BOOLEAN
          /\ activeScenario \in scenarioDefinitions \union {None}
          /\ IF activeScenario = None THEN scenarioStep = 0
                                      ELSE scenarioStep \in 0 .. Len(Steps(activeScenario)) - 1
          /\ completedScenarios \subseteq Scenarios /\ stored.scenarios = completedScenarios
          /\ stored \in [tours : SUBSET Tours, scenarios : SUBSET Scenarios, welcomed : BOOLEAN]
          /\ frames \in 0 .. MaxFrames
Ran == /\ \E pending \in {timer, None}, user \in BOOLEAN : Runner(pending, user)
       /\ page' \in Pages /\ \E target \in Pages \union {None} : Overlays(target)
Seen == Scenes!Next \/ UNCHANGED <<activeScenario, scenarioStep, stored.scenarios>>
Apart == /\ UNCHANGED <<scenarioDefinitions, definitions, completedTours, welcome, stored.tours>>
         /\ UNCHANGED <<activeTour, currentStep>> \/ (activeTour' = None /\ currentStep' = 0)

LEMMA ScreenNow ==
    ASSUME IInv
    PROVE  Screen /\ \A s \in Scenarios : Len(Steps(s)) \in Nat \ {0}
BY CatalogAssumption DEF IInv, TypeOK, EngineTypeOK, OnScreen, Screen

LEMMA EffectsRan ==
    ASSUME IInv, NEW pending \in {timer, None}, NEW user \in BOOLEAN, Effects(pending, user)
    PROVE  Ran
BY DEF Effects, Ran, IInv, TypeOK, Located

LEMMA StepForward ==
    ASSUME IInv, NextScenarioStep, UNCHANGED frames
    PROVE  Screen' /\ Seen /\ Apart
<1> USE DEF NextScenarioStep, SetScene
<1>1. activeScenario \in Scenarios
  BY DEF IInv, TypeOK, EngineTypeOK
<1>2. CASE scenarioStep < Len(Steps(activeScenario)) - 1
  <2>1. Screen' /\ Apart
    BY <1>1, <1>2, ScreenNow DEF Screen, Apart, tour
  <2>2. Scenes!Forward
    BY <1>1, <1>2, ScreenNow DEF Screen, Scenes!Forward
  <2>3. QED
    BY <2>1, <2>2 DEF Seen, Scenes!Next
<1>3. CASE scenarioStep >= Len(Steps(activeScenario)) - 1
  <2>1. /\ activeScenario' = None /\ scenarioStep' = 0 /\ isAutoPlaying' = FALSE
        /\ completedScenarios' = completedScenarios \union {activeScenario}
        /\ stored' = IF activeScenario \in completedScenarios THEN stored
                     ELSE [stored EXCEPT !.scenarios = completedScenarios']
    BY <1>1, <1>3, ScreenNow DEF Screen, LeaveLast, EndScenario
  <2>2. /\ stored'.scenarios = completedScenarios' /\ stored'.tours = stored.tours
        /\ stored' \in [tours : SUBSET Tours, scenarios : SUBSET Scenarios, welcomed : BOOLEAN]
    BY <1>1, <2>1, ScreenNow DEF Screen
  <2>3. Screen' /\ Apart
    BY <1>1, <2>1, <2>2, ScreenNow DEF Screen, Apart, tour
  <2>4. Scenes!Finish
    BY <1>1, <1>3, <2>1, <2>2, ScreenNow DEF Screen, Scenes!Finish
  <2>5. QED
    BY <2>3, <2>4 DEF Seen, Scenes!Next
<1>4. QED
  BY <1>1, <1>2, <1>3, ScreenNow DEF Screen

(* The other operations of the runner's buttons and timers.                 *)
LEMMA SceneChanges ==
    ASSUME IInv, SceneActs
    PROVE  Screen' /\ Seen /\ Apart /\ Ran
<1>1. CASE \E s \in Scenarios, m \in {"watch", "try"} : StartScenario(s, m)
  <2>1. PICK s \in Scenarios, m \in {"watch", "try"} : StartScenario(s, m)
    BY <1>1
  <2>2. Screen' /\ Apart
    BY <2>1, ScreenNow, CatalogAssumption DEF StartScenario, SetScene, Screen, Apart
  <2>3. Seen
    BY <2>1 DEF StartScenario, SetScene, Seen, Scenes!Next, Scenes!Start
  <2>4. QED
    BY <2>1, <2>2, <2>3, EffectsRan DEF StartScenario
<1>2. CASE PressNext
  BY <1>2, StepForward, EffectsRan DEF PressNext
<1>3. CASE Advance
  BY <1>3, StepForward, EffectsRan DEF Advance
<1>4. CASE PressPrev
  <2>1. Screen' /\ Apart
    BY <1>4, ScreenNow DEF PressPrev, SetScene, Screen, Apart, tour, IInv, TypeOK, EngineTypeOK
  <2>2. Scenes!Back
    BY <1>4 DEF PressPrev, SetScene, Scenes!Back
  <2>3. QED
    BY <1>4, <2>1, <2>2, EffectsRan DEF PressPrev, Seen, Scenes!Next
<1>5. CASE PressSkip
  <2>1. Screen' /\ Apart
    BY <1>5, ScreenNow DEF PressSkip, SkipScenario, SetScene, Screen, Apart, tour
  <2>2. Scenes!Leave
    BY <1>5 DEF PressSkip, SkipScenario, SetScene, Scenes!Leave
  <2>3. QED
    BY <1>5, <2>1, <2>2, EffectsRan DEF PressSkip, Seen, Scenes!Next
<1>6. ASSUME NEW playing \in BOOLEAN, NEW m \in {"watch", "try"}, NEW pending \in {timer, None},
             SetAutoPlay(playing, m, pending), frames' \in 0 .. MaxFrames
      PROVE  Screen' /\ Seen /\ Apart /\ Ran
  BY <1>6, ScreenNow, EffectsRan DEF SetAutoPlay, SetScene, Screen, Apart, tour, Seen
<1>7. CASE PressPlayPause
  <2>1. (~isAutoPlaying) \in BOOLEAN
    BY Zenon
  <2>2. mode \in {"watch", "try"} /\ frames' \in 0 .. MaxFrames
    BY <1>7, ScreenNow DEF PressPlayPause, Screen
  <2>3. SetAutoPlay(~isAutoPlaying, mode, timer)
    BY <1>7 DEF PressPlayPause
  <2>4. QED
    BY <1>6, <2>1, <2>2, <2>3
<1>8. CASE PressReplay
  <2>1. frames' \in 0 .. MaxFrames
    BY <1>8, ScreenNow, CatalogAssumption DEF PressReplay, Screen
  <2>2. QED
    BY <1>6, <1>8, <2>1 DEF PressReplay
<1>9. CASE \E m \in {"watch", "try"} : PressMode(m)
  BY <1>6, <1>9, ScreenNow DEF PressMode, Screen
<1>10. CASE Frame
  <2>1. isAutoPlaying' \in BOOLEAN
    <3>1. (~isAutoPlaying) \in BOOLEAN
      BY Zenon
    <3>2. QED
      BY <1>10, <3>1 DEF Frame, SetScene
  <2>2. frames' \in 0 .. MaxFrames
    BY <1>10, ScreenNow, CatalogAssumption DEF Frame, Screen
  <2>3. UNCHANGED <<mode, activeScenario, scenarioStep, scenarioDefinitions, completedScenarios, stored>>
    BY <1>10 DEF Frame, SetScene
  <2>4. Screen' /\ Seen
    BY <2>1, <2>2, <2>3, ScreenNow DEF Screen, Seen
  <2>5. Apart /\ Ran
    BY <1>10, EffectsRan DEF Frame, SetScene, Apart, tour
  <2>6. QED
    BY <2>4, <2>5
<1>11. CASE Commit
  <2>1. Screen' /\ Seen /\ Apart
    BY <1>11, ScreenNow DEF Commit, Screen, Seen, Apart, tour, scene
  <2>2. page' \in Pages /\ Redirected(page') \in Pages \union {None}
    BY <1>11, CatalogAssumption DEF Commit, Redirected, IInv, TypeOK, Located
  <2>3. Ran
    BY <1>11, <2>2 DEF Commit, Ran
  <2>4. QED
    BY <2>1, <2>3
<1>12. QED
  BY <1>1, <1>2, <1>3, <1>4, <1>5, <1>7, <1>8, <1>9, <1>10, <1>11 DEF SceneActs

LEMMA SceneKeeps ==
    ASSUME IInv, SceneActs
    PROVE  IInv'
<1>1. Screen' /\ Apart /\ Ran
  BY SceneChanges
<1>2. PICK pending \in {timer, None}, user \in BOOLEAN : Runner(pending, user)
  BY <1>1 DEF Ran
<1>3. /\ activeScenario' \in Scenarios \union {None} /\ scenarioStep' \in Nat
      /\ activeTour' \in definitions' \union {None} /\ definitions' \subseteq Tours /\ currentStep' \in Nat
  BY <1>1, ScreenNow DEF Screen, Apart, IInv, TypeOK, EngineTypeOK
<1>4. /\ timer' \in Timers \union {None} /\ poll' \in BOOLEAN /\ stepValidated' \in BOOLEAN
      /\ acts' \in 0 .. 2 /\ touched' \in BOOLEAN
  BY <1>2, <1>3, RunnerType
<1>5. EngineTypeOK'
  BY <1>1, <1>3, <1>4 DEF IInv, TypeOK, EngineTypeOK, Screen, Apart
<1>6. Located'
  <2>1. PICK target \in Pages \union {None} : Overlays(target)
    BY <1>1 DEF Ran
  <2>2. activeTour' \in Tours \union {None} /\ page' \in Pages
    BY <1>1, <1>3 DEF Ran
  <2>3. QED
    BY <1>3, <2>1, <2>2, OverlaysLocate
<1>7. OnScreen'
  BY <1>1, <1>3, ScreenNow DEF IInv, OnScreen, TypeOK, EngineTypeOK, Screen, Apart
<1>8. TimerOfShownStep'
  BY <1>2, RunnerTimer
<1>9. QED
  BY <1>5, <1>6, <1>7, <1>8 DEF IInv, TypeOK

(* A tour is the playback it promises, and tours leave the scenario alone.  *)
Followed == Guided!Next \/ UNCHANGED <<activeTour, currentStep, stored.tours>>
Guiding == /\ IF activeTour = None THEN currentStep = 0 ELSE currentStep < Len(TourSteps[activeTour])
           /\ stored.scenarios = completedScenarios /\ stored.tours = completedTours

LEMMA TourChanges ==
    ASSUME IInv, TourActs
    PROVE  Guiding' /\ Followed /\ stored'.scenarios = stored.scenarios
<1> USE CatalogAssumption DEF IInv, TypeOK, EngineTypeOK, OnScreen, Guiding, scene, run, tour, Toured
<1>1. ASSUME NEW t \in Tours, StartTour(t), stored' \in {stored, [stored EXCEPT !.welcomed = TRUE]},
             UNCHANGED scene
      PROVE  Guiding' /\ Followed /\ stored'.scenarios = stored.scenarios
  BY <1>1 DEF StartTour, Followed, Guided!Next, Guided!Start
<1>2. CASE TourButton
  BY <1>1, <1>2 DEF TourButton
<1>3. CASE \E g \in Guides : GuideButton(g)
  BY <1>1, <1>3 DEF GuideButton
<1>4. CASE SkipTour
  BY <1>4 DEF SkipTour, Followed, Guided!Next, Guided!Leave
<1>5. CASE NextStep
  <2>1. CASE ~LastOfTour
    <3>1. Guided!Forward
      BY <1>5, <2>1 DEF NextStep, LastOfTour, Guided!Forward
    <3>2. QED
      BY <1>5, <2>1, <3>1 DEF NextStep, LastOfTour, Followed, Guided!Next
  <2>2. CASE LastOfTour
    <3>1. /\ activeTour \in Tours /\ activeTour' = None /\ currentStep' = 0
          /\ completedTours' = completedTours \union {activeTour}
          /\ stored' = IF activeTour \in completedTours THEN stored
                       ELSE [stored EXCEPT !.tours = completedTours']
          /\ completedScenarios' = completedScenarios
      BY <1>5, <2>2 DEF NextStep, EndTour
    <3>2. stored'.tours = completedTours' /\ stored'.scenarios = stored.scenarios
      BY <3>1
    <3>3. Guided!Finish
      BY <2>2, <3>1, <3>2 DEF LastOfTour, Guided!Finish
    <3>4. QED
      BY <3>1, <3>2, <3>3 DEF Followed, Guided!Next
  <2>3. QED
    BY <2>1, <2>2
<1>6. CASE PrevStep
  BY <1>6 DEF PrevStep, CanGoBack, Followed, Guided!Next, Guided!Back
<1>7. CASE ShowWelcome
  BY <1>7 DEF ShowWelcome, Followed
<1>8. CASE \E start \in BOOLEAN : DismissWelcome(start)
  <2>1. PICK start \in BOOLEAN : DismissWelcome(start)
    BY <1>8
  <2>2. CASE start /\ "overview" \in definitions
    BY <1>1, <2>1, <2>2 DEF DismissWelcome
  <2>3. CASE ~(start /\ "overview" \in definitions)
    BY <2>1, <2>3 DEF DismissWelcome, Followed
  <2>4. QED
    BY <2>2, <2>3
<1>9. QED
  BY <1>2, <1>3, <1>4, <1>5, <1>6, <1>7, <1>8 DEF TourActs

LEMMA TourKeeps ==
    ASSUME IInv, TourActs
    PROVE  IInv'
<1>1. /\ EngineTypeOK' /\ Guiding' /\ UNCHANGED <<scene, run, page>>
      /\ Overlays(going) \/ UNCHANGED where
  BY TourTypes, TourChanges
<1>2. OnScreen' /\ TimerOfShownStep'
  BY <1>1 DEF IInv, OnScreen, Guiding, TimerOfShownStep, scene, run
<1>3. Located'
  <2>1. CASE UNCHANGED where
    BY <2>1 DEF where, IInv, TypeOK, Located
  <2>2. CASE Overlays(going)
    <3>1. /\ page' \in Pages /\ going \in Pages \union {None}
          /\ activeScenario' \in Scenarios \union {None} /\ scenarioStep' \in Nat
      BY <1>1 DEF IInv, TypeOK, EngineTypeOK, Located, scene
    <3>2. activeTour' \in Tours \union {None} /\ currentStep' \in Nat
      BY <1>1 DEF EngineTypeOK
    <3>3. QED
      BY <2>2, <3>1, <3>2, OverlaysLocate
  <2>3. QED
    BY <1>1, <2>1, <2>2
<1>4. QED
  BY <1>1, <1>2, <1>3 DEF IInv, TypeOK

(* The page and its timers: neither moves what is on screen, but a reload   *)
(* clears it.                                                               *)
PageActs == \/ Reload \/ (\E menu \in Menus : Register(menu)) \/ (\E p \in Pages : Visit(p))
            \/ Act \/ PollEnds \/ UNCHANGED vars

LEMMA PageKeeps ==
    ASSUME IInv, PageActs
    PROVE  /\ IInv' /\ UNCHANGED <<stored.tours, stored.scenarios>>
           /\ (activeScenario' = None /\ scenarioStep' = 0) \/ UNCHANGED <<activeScenario, scenarioStep>>
           /\ (activeTour' = None /\ currentStep' = 0) \/ UNCHANGED <<activeTour, currentStep>>
<1> USE DEF vars, tour, scene, run, where
<1>1. CASE Reload
  <2>1. stored' = stored /\ stored.tours \subseteq Tours /\ stored.scenarios \subseteq Scenarios
    BY <1>1 DEF Reload, IInv, TypeOK, EngineTypeOK, Located
  <2>2. frames' \in 0 .. MaxFrames /\ acts' \in 0 .. 2 /\ timer' = None
    BY <1>1, CatalogAssumption DEF Reload
  <2>3. EngineTypeOK' /\ Located'
    BY <1>1, <2>1, <2>2, CatalogAssumption DEF Reload, Redirected, IInv, TypeOK, EngineTypeOK, Located
  <2>4. OnScreen' /\ TimerOfShownStep'
    BY <1>1, <2>1, <2>2 DEF Reload, OnScreen, TimerOfShownStep
  <2>5. QED
    BY <1>1, <2>3, <2>4 DEF Reload, IInv, TypeOK
<1>2. CASE \E menu \in Menus : Register(menu)
  <2>1. /\ definitions = {} /\ scenarioDefinitions = {}
        /\ definitions' \subseteq Tours /\ scenarioDefinitions' \subseteq Scenarios
        /\ UNCHANGED <<activeTour, currentStep, completedTours, mode, activeScenario, scenarioStep,
                       isAutoPlaying, completedScenarios, run, where, welcome, stored>>
    BY <1>2, CatalogAssumption DEF Register
  <2>2. EngineTypeOK' /\ Located'
    BY <2>1 DEF IInv, TypeOK, EngineTypeOK, Located
  <2>3. QED
    BY <2>1, <2>2 DEF IInv, TypeOK, OnScreen, TimerOfShownStep
<1>3. CASE Act
  <2>1. /\ timer' = Scheduled /\ acts' \in 0 .. 2
        /\ UNCHANGED <<tour, scene, poll, stepValidated, frames, touched, where, welcome, stored>>
    BY <1>3 DEF Act, IInv, TypeOK, EngineTypeOK, Located
  <2>2. timer \in Timers
    BY <1>3 DEF Act, IInv, TypeOK, EngineTypeOK, Located
  <2>3. Scheduled \in Timers /\ Scheduled.of = timer.of /\ Scheduled.step = timer.step
    BY <2>2 DEF Scheduled, Timers
  <2>4. EngineTypeOK' /\ Located'
    BY <2>1, <2>3 DEF IInv, TypeOK, EngineTypeOK, Located
  <2>5. TimerOfShownStep'
    BY <1>3, <2>1, <2>3 DEF Act, IInv, TimerOfShownStep
  <2>6. QED
    BY <2>1, <2>4, <2>5 DEF IInv, TypeOK, OnScreen
<1>4. CASE PollEnds
  <2>1. /\ poll' = FALSE /\ stepValidated' = TRUE
        /\ UNCHANGED <<tour, scene, timer, frames, acts, touched, where, welcome, stored>>
    BY <1>4 DEF PollEnds, Validated
  <2>2. QED
    BY <2>1 DEF IInv, TypeOK, EngineTypeOK, Located, OnScreen, TimerOfShownStep
<1>5. CASE UNCHANGED vars
  BY <1>5 DEF IInv, TypeOK, EngineTypeOK, Located, OnScreen, TimerOfShownStep
<1>6. CASE \E p \in Pages : Visit(p)
  <2>1. /\ page' = page /\ going' \in Pages \union {None}
        /\ UNCHANGED <<tour, scene, run, welcome, stored>>
    BY <1>6 DEF Visit, Toward
  <2>2. QED
    BY <2>1 DEF IInv, TypeOK, EngineTypeOK, Located, OnScreen, TimerOfShownStep
<1>7. QED
  BY <1>1, <1>2, <1>3, <1>4, <1>5, <1>6 DEF PageActs

LEMMA Acts == [Next]_vars => TourActs \/ SceneActs \/ PageActs
BY DEF Next, Engine, TourActs, SceneActs, PageActs

LEMMA Invariance == Spec => []IInv
<1>1. IInv /\ [Next]_vars => IInv'
  BY Acts, TourKeeps, SceneKeeps, PageKeeps
<1>2. QED
  BY InitIInv, <1>1, PTL DEF Spec

(* For scenarios and tours of any length: every variable keeps its type.    *)
THEOREM Typing == Spec => []TypeOK
<1>1. IInv => TypeOK
  BY DEF IInv
<1>2. QED
  BY Invariance, <1>1, PTL

(* Whatever is pressed while a timer runs, the timer that is left belongs   *)
(* to the step on screen, which plays.                                      *)
THEOREM TimersFollowTheScreen == Spec => []TimerOfShownStep
<1>1. IInv => TimerOfShownStep
  BY DEF IInv
<1>2. QED
  BY Invariance, <1>1, PTL

(* A scenario is walked step by step and recorded only from its last step.  *)
THEOREM ScenariosArePlayback == Spec => ScenesPlayback
<1>1. Init => Scenes!Init
  BY DEF Init, Scenes!Init
<1>2. IInv /\ [Next]_vars => [Scenes!Next]_(Scenes!playback)
  <2> SUFFICES ASSUME IInv, [Next]_vars PROVE [Scenes!Next]_(Scenes!playback)
    OBVIOUS
  <2>1. CASE TourActs
    BY <2>1, TourTypes, TourChanges DEF Scenes!playback, scene
  <2>2. CASE SceneActs
    BY <2>2, SceneChanges DEF Seen, Scenes!playback
  <2>3. CASE PageActs
    BY <2>3, PageKeeps DEF Scenes!Next, Scenes!Leave, Scenes!playback
  <2>4. QED
    BY <2>1, <2>2, <2>3, Acts
<1>3. QED
  BY <1>1, <1>2, Invariance, PTL DEF Spec, ScenesPlayback, Scenes!Spec

(* The same of tours.                                                       *)
THEOREM ToursArePlayback == Spec => ToursPlayback
<1>1. Init => Guided!Init
  BY DEF Init, Guided!Init
<1>2. IInv /\ [Next]_vars => [Guided!Next]_(Guided!playback)
  <2> SUFFICES ASSUME IInv, [Next]_vars PROVE [Guided!Next]_(Guided!playback)
    OBVIOUS
  <2>1. CASE TourActs
    BY <2>1, TourChanges DEF Followed, Guided!playback
  <2>2. CASE SceneActs
    BY <2>2, SceneChanges DEF Apart, Guided!Next, Guided!Leave, Guided!playback
  <2>3. CASE PageActs
    BY <2>3, PageKeeps DEF Guided!Next, Guided!Leave, Guided!playback
  <2>4. QED
    BY <2>1, <2>2, <2>3, Acts
<1>3. QED
  BY <1>1, <1>2, Invariance, PTL DEF Spec, ToursPlayback, Guided!Spec

(* An automatic act that nobody asked for is the only one at its step: after *)
(* it the timer advances, and auto-play that stands still stays so, for no   *)
(* replay is pending that would switch it on.                                *)
OnceMore == ~touched /\ acts # 0 =>
    /\ acts = 1
    /\ timer # None => timer.kind = "advance"
    /\ ~isAutoPlaying => frames = 0

\* What a button does: another step comes up, or the user has intervened.
LEMMA Intervened ==
    ASSUME NEW pending, Effects(pending, TRUE)
    PROVE  touched' \/ acts' = 0
BY Zenon DEF Effects, Runner, History

LEMMA OnceMoreKeeps ==
    ASSUME MaxFrames <= 1, IInv, OnceMore, [Next]_vars
    PROVE  OnceMore'
<1>1. CASE TourActs
  <2>1. UNCHANGED <<touched, acts, timer, isAutoPlaying, frames>>
    BY <1>1, TourTypes DEF scene, run
  <2>2. QED
    BY <2>1 DEF OnceMore
<1>2. CASE SceneActs
  <2>1. ASSUME NEW pending, Effects(pending, TRUE) PROVE OnceMore'
    BY <2>1, Intervened DEF OnceMore
  <2>2. CASE Advance
    <3>1. activeScenario \in Scenarios /\ scenarioStep \in Nat /\ None \notin Scenarios
      BY <2>2, CatalogAssumption DEF Advance, NextScenarioStep, IInv, TypeOK, EngineTypeOK
    <3>2. activeScenario' = None \/ scenarioStep' = scenarioStep + 1
      BY <2>2 DEF Advance, NextScenarioStep, LeaveLast, EndScenario, SetScene
    <3>3. <<activeScenario, scenarioStep>>' # <<activeScenario, scenarioStep>>
      BY <3>1, <3>2
    <3>4. acts' = 0
      BY <2>2, <3>3 DEF Advance, Effects, Runner, History
    <3>5. QED
      BY <3>4 DEF OnceMore
  <2>3. CASE Frame
    <3>1. /\ frames \in 0 .. MaxFrames /\ frames > 0 /\ frames' = frames - 1 /\ MaxFrames \in Nat
          /\ mode' = mode /\ activeScenario' = activeScenario /\ scenarioStep' = scenarioStep
          /\ Effects(timer, FALSE)
      BY <2>3, CatalogAssumption DEF Frame, SetScene, IInv, TypeOK, EngineTypeOK
    <3>2. frames # 0 /\ frames' = 0
      BY <3>1
    <3>3. acts' = acts /\ touched' = (touched \/ FALSE)
      BY <3>1 DEF Effects, Runner, History
    <3>4. isAutoPlaying' = ~isAutoPlaying
      BY <2>3 DEF Frame, SetScene
    <3>5. ASSUME ~touched', acts' # 0 PROVE timer' = None /\ acts = 1
      <4>1. ~touched /\ acts # 0
        BY <3>3, <3>5
      <4>2. acts = 1 /\ isAutoPlaying
        BY <3>2, <4>1 DEF OnceMore
      <4>3. ~isAutoPlaying'
        BY <3>4, <4>2
      <4>4. Deps' # Deps
        BY <4>2, <4>3 DEF Deps
      <4>5. timer' = None
        BY <3>1, <4>3, <4>4 DEF Effects, Runner, AutoPlayEffect
      <4>6. QED
        BY <4>2, <4>5
    <3>6. QED
      BY <3>2, <3>3, <3>5 DEF OnceMore
  <2>4. ASSUME NEW m \in {"watch", "try"}, PressMode(m) PROVE OnceMore'
    BY <2>1, <2>4 DEF PressMode, SetAutoPlay
  <2>5. CASE Commit
    <3>1. Runner(timer, FALSE) /\ UNCHANGED <<scene, frames>>
      BY <2>5 DEF Commit
    <3>2. CASE page' = page
      <4>1. UNCHANGED <<acts, timer, frames, isAutoPlaying>> /\ touched' = (touched \/ FALSE)
        BY <3>1, <3>2 DEF Runner, History, AutoPlayEffect, Deps, scene
      <4>2. QED
        BY <4>1 DEF OnceMore
    <3>3. CASE page' # page
      BY <3>1, <3>3 DEF Runner, History, OnceMore
    <3>4. QED
      BY <3>2, <3>3
  <2>6. QED
    BY <1>2, <2>1, <2>2, <2>3, <2>4, <2>5
       DEF SceneActs, StartScenario, PressNext, PressPrev, PressSkip, PressPlayPause, PressReplay, SetAutoPlay
<1>3. CASE PageActs
  <2> USE DEF vars, tour, scene, run, where
  <2>1. CASE Reload
    BY <2>1 DEF Reload, OnceMore
  <2>2. CASE \E menu \in Menus : Register(menu)
    BY <2>2 DEF Register, OnceMore
  <2>3. CASE Act
    <3>1. /\ timer \in Timers /\ timer.kind = "act" /\ isAutoPlaying /\ acts \in 0 .. 2
          /\ touched' = touched /\ isAutoPlaying' = isAutoPlaying /\ timer' = Scheduled
          /\ acts' = IF acts < 2 THEN acts + 1 ELSE acts
      BY <2>3 DEF Act, IInv, TypeOK, EngineTypeOK, TimerOfShownStep
    <3>2. Scheduled.kind = "advance"
      BY <3>1 DEF Scheduled, Timers
    <3>3. timer # None
      BY <2>3 DEF Act
    <3>4. ~touched => acts = 0
      BY <3>1, <3>3 DEF OnceMore
    <3>5. QED
      BY <3>1, <3>2, <3>4 DEF OnceMore
  <2>4. CASE PollEnds
    BY <2>4 DEF PollEnds, OnceMore
  <2>5. CASE UNCHANGED vars
    BY <2>5 DEF OnceMore
  <2>6. CASE \E p \in Pages : Visit(p)
    BY <2>6 DEF Visit, OnceMore
  <2>7. QED
    BY <1>3, <2>1, <2>2, <2>3, <2>4, <2>5, <2>6 DEF PageActs
<1>4. QED
  BY <1>1, <1>2, <1>3, Acts

(* If no two replays wait for their frame at once, a step's automatic action *)
(* is performed at most once on the page it came up with or that came up     *)
(* after it, unless the user intervenes (ScenarioRunner's auto-play effect); *)
(* with two replays, a frame after the act would start it anew.              *)
THEOREM ActionsOnce ==
    ASSUME MaxFrames <= 1
    PROVE  Spec => []ActsOnce
<1>1. Init => OnceMore
  BY DEF Init, OnceMore
<1>2. IInv /\ OnceMore /\ [Next]_vars => OnceMore'
  BY OnceMoreKeeps
<1>3. IInv /\ OnceMore => ActsOnce
  BY DEF IInv, TypeOK, EngineTypeOK, OnceMore, ActsOnce
<1>4. QED
  BY Invariance, <1>1, <1>2, <1>3, PTL DEF Spec
=============================================================================
