SPECIFICATION TranscoderSpec
CONSTANTS
  Uses <- SomeUses
  EncoderLag = 2
  CodecFaults = {"open", "send", "receive"}
CHECK_DEADLOCK FALSE
INVARIANTS TranscoderSafety KeysInStep
PROPERTIES TranscoderEnds
