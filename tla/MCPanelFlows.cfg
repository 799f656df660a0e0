SPECIFICATION FairPanelSpec
CONSTANT MaxBegun = 3
CHECK_DEADLOCK FALSE
INVARIANTS PanelSafety
PROPERTIES LateAnswersHarmless PanelComesToRest
