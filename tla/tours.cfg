\* A scenario and two tours that lead to different pages, reloads anywhere, one
\* replay pending.
CONSTANTS
  Scenario <- MCScenario
  TourSteps <- MCTours
  Menus <- MCMenus
  Redirects <- MCRedirects
  NoRoute <- Here
  PageTours <- MCPageTours
  Guides <- MCGuides
  None = none
  MaxFrames = 1
  ScenarioIds = {"s18_implement_feedback"}
  TourIds = {"overview", "act1_guide"}
  Pages = {"submissions", "data", "schema"}
  MaxSteps = 2
  MaxTour = 2
SPECIFICATION Spec
INVARIANTS TimerOfShownStep ActsOnce CatalogPlayable
PROPERTIES ScenesPlayback ToursPlayback
  NoStepPlaysForever NextOpens PageSettles
