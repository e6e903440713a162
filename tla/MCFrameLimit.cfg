SPECIFICATION LimitSpec
CONSTANTS
  Streams <- SmallStreams
  Buffered = {0, 1, 8}
  ReadSizes = {1, 2, 7, 16}
  maxMessageBytes = 3
INVARIANTS
  OversizedNeverPasses
  CutForCause
  StaysInSync
CHECK_DEADLOCK FALSE
