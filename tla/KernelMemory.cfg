SPECIFICATION BootSpec
CONSTANTS
  WordBits = 2
  WordsPerPage = 8
  LowPages = 2
  CounterMod = 100
  IntSpan = 64
  Fanout = 3
  MemoryMaps <- AllMaps
  MappedPages = {}
  Targets = {}
  KernelPages = 1
  FrameBuffers <- SomeFrameBuffers
  TestPage = 78
  TestFrame = 1
CHECK_DEADLOCK FALSE
INVARIANTS
  NewFramesApart
  IdentityMapped
  TestWriteHarmless
