SPECIFICATION Spec
CONSTANTS
  Memories <- AllMemories
  Segments <- TwoSegments
  Stack = {4}
  Pool <- AllFrames
  Growth <- FileCalls
CHECK_DEADLOCK FALSE
INVARIANTS
  NeededFramesListed
  EnteredWithBootServices
PROPERTY MapLoopEnds
