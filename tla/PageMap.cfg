SPECIFICATION Spec
CONSTANTS
  WordBits = 2
  WordsPerPage = 8
  LowPages = 1
  CounterMod = 20
  IntSpan = 16
  Fanout = 2
  MemoryMaps <- AllMaps
  MappedPages <- SomePages
  Targets = {0, 3}
CHECK_DEADLOCK FALSE
INVARIANTS
  TablesFormTree
  TablesKept
PROPERTIES
  LostOnlyWhenFull
  ImplementsAddressSpace
