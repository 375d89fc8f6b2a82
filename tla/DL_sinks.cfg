SPECIFICATION SourcesFairSpec
CONSTANTS
  Items = 6
  LowWatermark = 3
  Demands = {"all", "eagerly", "lazily"}
  Infinity = 20
  Kinds = {"file", "loop", "camera", "replay", "any"}
  Length = 4
CHECK_DEADLOCK FALSE
INVARIANTS SourcesSafety DemandLasts
PROPERTIES SourcesEnding
