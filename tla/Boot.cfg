SPECIFICATION SystemSpec
CONSTANTS
  WordBits = 2
  WordsPerPage = 8
  LowPages = 2
  CounterMod = 400
  IntSpan = 64
  Fanout = 4
  MemoryMaps = {}
  MappedPages = {}
  Targets = {}
  KernelPages = 5
  FrameBuffers <- SomeFrameBuffers
  TestPage = 252
  TestFrame = 1
  Memories <- AllMemories
  Segments <- TwoSegments
  Stack = {31}
  Pool = {3, 7, 9, 11, 29}
  Growth <- FileCalls
CHECK_DEADLOCK FALSE
INVARIANTS
  KernelTakesOnlyListedFree
  BootFitsExactly
  InUseMapped
