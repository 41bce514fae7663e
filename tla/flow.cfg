SPECIFICATION FairSpec
CONSTANTS
  Sources = 2
  Items = 2
  SourceCap = 2
  Stages = 1
  Workers = 2
INVARIANTS
  NoSendOnClosed
  SourceOrder
  FanOutComplete
  SwapAtomic
PROPERTY FanOutEnds
CHECK_DEADLOCK FALSE
