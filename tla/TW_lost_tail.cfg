SPECIFICATION Spec
CONSTANTS
  Items = 2
  MaxQueuedFrames = 2
  MaxRequested = 2
  RequestsFrom = {"worker"}
  CancelsFrom = {}
CHECK_DEADLOCK FALSE
INVARIANTS AllHandedOverAtCompletion
