SPECIFICATION StagesSpec
CONSTANTS
  Packets = 4
  Elements = 3
  Demands = {"all", "one"}
  Cancels <- TakesAll
  Eager <- EmptyResults
  Operations = {"map", "take", "take_while", "do_finally", "timeout"}
  Limits = {0, 1, 3}
  Supply = 4
CHECK_DEADLOCK FALSE
INVARIANTS StagesSafety DemandIsPassedOn
PROPERTIES StagesEnding
