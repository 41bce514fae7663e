SPECIFICATION FairSpec
CONSTANTS
  MaxControl = 3
  MaxFrame = 3
  MaxMessage = 2
  ChanCap = 1
  MaxRead = 2
  MaxPuts = 2
  MaxPings = 1
  BinaryValues <- MCBinaryValues
  ClientFrames <- MCClientFrames
INVARIANTS
  TypeOK
  FramesWhole
  FlushedBeforeClose
PROPERTIES
  StreamRefined
  ReturnCloses
  PumpsEnd
  ReaderEndsUnlessFull
CHECK_DEADLOCK FALSE
