SPECIFICATION FairSpec
CONSTANTS
  Subs = {a, b}
  NoSub = none
  Worlds <- Four
  MaxId = 3
  MaxInbox = 1
CHECK_DEADLOCK FALSE
INVARIANTS Safety Accounted KeepAlive
PROPERTIES EveryRequestEnds HeldIsServed LoopIsReleased
