SPECIFICATION FairSpec
CONSTANTS
  Requests = {"a", "b"}
  Streaming = {"a"}
  Chains <- MCChains
  Events = 2
  EventCap = 1
INVARIANTS
  StreamWhole
  DrainsRequests
PROPERTIES
  TimeoutAnswers
  LateHandlersEnd
  
  AnsweredOnce
CHECK_DEADLOCK FALSE
