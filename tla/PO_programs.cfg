SPECIFICATION ProgramsSpec
CONSTANTS
  Programs = {"bot", "recorder"}
  MaxStreams = 5
  Signals = 3
  Channels <- SomeChannels
  Interrupts = 2
  Surfaces = 2
CHECK_DEADLOCK FALSE
INVARIANTS ProgramsSafety
PROPERTIES ProgramsEnding
