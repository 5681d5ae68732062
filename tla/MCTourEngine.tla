---------------------------- MODULE MCTourEngine ----------------------------
(* The engine over a scenario of the catalogue that waits for an element   *)
(* in its second step, and two tours, one of which leads to a page that    *)
(* redirects, all cut to their first steps; the catalogue itself is        *)
(* checked as a whole.                                                     *)
EXTENDS TourEngine, ScenarioCatalog, SequencesExt

CONSTANTS ScenarioIds, TourIds,   \* what is registered
          MaxSteps, MaxTour       \* bounds: steps kept of a scenario, of a tour

MCScenario == [s \in ScenarioIds |-> [SCENARIOS[s] EXCEPT !.steps = SubSeq(@, 1, MaxSteps)]]
MCTours    == [t \in TourIds |-> SubSeq(TOURS[t], 1, MaxTour)]
MCMenus    == {[scenarios |-> ScenarioIds, tours |-> TourIds]}
MCRedirects == "data" :> "schema"
MCPageTours == [p \in Pages |-> PageTour[p]]
MCGuides   == {"act1_guide", "act2_guide"}

\* Scenarios that can be met by someone who plays prerequisites first, in at
\* most n rounds.
Met[n \in 0 .. 40] ==
    IF n = 0 THEN {}
    ELSE LET met == Met[n - 1]
         IN  {s \in DOMAIN SCENARIOS : SCENARIOS[s].requires \subseteq met}

InSelector == Listed("all")

\* The catalogue is playable: what plays, and all that could, is listed in the
\* selector, and prerequisites can be met in some order; steps lead to pages the
\* router has, and what a page or a guide asks for is a tour.
Playable ==
    /\ InSelector = DOMAIN SCENARIOS
    /\ DOMAIN SCENARIOS = Met[40]
    /\ \A s \in DOMAIN SCENARIOS : \A i \in DOMAIN SCENARIOS[s].steps :
          SCENARIOS[s].steps[i].route \in DOMAIN ROUTES \union {Here}
    /\ \A t \in DOMAIN TOURS : \A i \in DOMAIN TOURS[t] : TOURS[t][i] \in DOMAIN ROUTES \union {Here}
    /\ \A p \in DOMAIN PageTour : PageTour[p] \in DOMAIN TOURS
    /\ MCGuides \subseteq DOMAIN TOURS
CatalogPlayable == Playable /\ activeScenario \in InSelector \union {None}
=============================================================================
