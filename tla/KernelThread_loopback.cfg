SPECIFICATION Spec
CONSTANTS
  FifoDepth = 2
  EarlyLines = 1
  LateLines = 1
  LineLength = 1
  KeyLength = 2
  WaitMs = 2
  Second = 2
  ClockCap = 3
  MaxKeys = 1
  MaxTyped = 0
  Ports = {"off", "absent"}
  Wired = {0, 1}
  EntryFlags = {FALSE}
INVARIANT LoopbackOnlyIfFaulty
