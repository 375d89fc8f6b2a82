SPECIFICATION FairSpec
CONSTANTS
  N = 2
  Items = 5
  Demands = {"all", "one"}
  Infinity = 9
  SyncErrors = TRUE
CHECK_DEADLOCK FALSE
INVARIANTS Safety DemandReachesSources
PROPERTIES Ending
