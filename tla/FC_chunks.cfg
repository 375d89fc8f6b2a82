SPECIFICATION WireSpec
CONSTANTS
  Frames = 3
  Sizes = {0, 1, 5, 13, 16, 17}
  ChunkSize = 2
  ByteRange = 8
  MaxLost = 2
  Group = 3
  Byte = 4
  Widths <- Scaled
  Packets <- SomePackets
  Styles = {"same", "chunked", "floats"}
CHECK_DEADLOCK FALSE
INVARIANTS WireSafety InStepAfterALastChunk OneLossNeverSplices
