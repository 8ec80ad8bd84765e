SPECIFICATION Spec
CONSTANTS
  WordBits = 2
  WordsPerPage = 2
  LowPages = 1
  CounterMod = 10
  IntSpan = 4
  MemoryMaps <- AllMaps
  CallRanges <- SomeRanges
INVARIANTS
  TypeOK
  TakenFramesMarked
  ClearFramesUsable
  CountersExact
  CallsMatchLoops
PROPERTIES
  RequestedFrameFresh
  ReleasedFrameFound
  ImplementsFrameAllocator
