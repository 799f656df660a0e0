SPECIFICATION FairSpec
CONSTANT MaxActs = 4
CHECK_DEADLOCK FALSE
INVARIANTS WindowSafety
PROPERTIES StepsTouchTheirOwn WindowComesToRest
