SPECIFICATION FairSpec
CONSTANTS
  Times <- SixTimes
  Durations <- Options
  Inputs = {"channel", "camera"}
  TimeLimits = {TRUE, FALSE}
  Signals = 2
CHECK_DEADLOCK FALSE
INVARIANTS Safety NoneSwallowed FilesAreSound
PROPERTIES Ending
