SPECIFICATION FairSpec
CONSTANTS
  Frames = 4
  BatchSize = 3
  Controls = 1
  Halves = {1}
  Modes = {"file", "rtm", "batch"}
CHECK_DEADLOCK FALSE
INVARIANTS Safety FreshAndForward
PROPERTIES BotIsShutDown
