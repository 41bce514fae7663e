SPECIFICATION EchoSpec
CONSTANTS
  MaxControl = 2
  MaxFrame = 2
  MaxMessage = 2
  ChanCap = 1
  MaxRead = 4
  MaxPuts = 4
  MaxPings = 1
  BinaryValues <- NoBinary
  ClientFrames <- EchoFrames
PROPERTIES
  EchoEnds
CHECK_DEADLOCK FALSE
