SPECIFICATION FairSpec
CONSTANTS
  CoordinationSupported = TRUE
  Requests = {"MAIN", "SUB", "COORDINATION", "FULL"}
  Reports = {"EXPAND", "FOLDED"}
  Scenarios <- MCScenarios
CONSTRAINT Followed
CHECK_DEADLOCK FALSE
INVARIANTS
  TypeOK
  CountIsOwed
  ModeAgrees
  ActivePanelIsLit
  PanelsFollowMode
PROPERTY
  Settles
