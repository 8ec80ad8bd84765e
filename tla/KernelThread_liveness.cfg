SPECIFICATION FairSpec
CONSTANTS
  FifoDepth = 2
  EarlyLines = 1
  LateLines = 1
  LineLength = 1
  KeyLength = 2
  WaitMs = 1
  Second = 1
  ClockCap = 1
  MaxKeys = 1
  MaxTyped = 1
  Ports = {"off", "absent"}
  Wired = {0, 1}
  EntryFlags = {TRUE, FALSE}
PROPERTIES
  BootFinishes
  KeyServed
  TypedEchoed
CHECK_DEADLOCK FALSE
