SPECIFICATION Spec
CONSTANTS
  FifoDepth = 2
  EarlyLines = 1
  LateLines = 1
  LineLength = 1
  KeyLength = 2
  WaitMs = 2
  Second = 2
  ClockCap = 3
  MaxKeys = 2
  MaxTyped = 3
  Ports = {"off", "absent"}
  Wired = {0, 1, 2}
  EntryFlags = {TRUE, FALSE}
INVARIANTS
  InterruptsBalanced
  FullBufferSignalled
  TicksAccounted
  LogIntact
  TypedAccounted
  StrayOnlyBeforeCli
PROPERTIES
  StampTimely
