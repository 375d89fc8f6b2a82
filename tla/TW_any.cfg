SPECIFICATION FairSpec
CONSTANTS
  Items = 3
  MaxQueuedFrames = 2
  MaxRequested = 3
  RequestsFrom = {"worker", "requester"}
  CancelsFrom = {"worker", "canceller"}
CHECK_DEADLOCK FALSE
INVARIANTS Safety Inductive NoCheckFails
PROPERTIES SilentAfterCancel ImplementsHandOff StageIsDeleted QueuedIsHandedOver
