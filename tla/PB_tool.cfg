SPECIFICATION BroadcastSpec
CONSTANTS
  Packets <- FivePackets
  Inputs = {"worker", "url"}
  Faults = {"restart", "refused", "error", "late", "broken"}
  Period = 2
  Group = 2
  Streams = 2
  Breaks = 1
  Ahead = 2
CHECK_DEADLOCK FALSE
INVARIANTS BroadcastSafety WaitsForAll
PROPERTIES BroadcastEnding
