SPECIFICATION Spec
CONSTANTS
  Modes <- AllModes
  PitchMod = 100
  CellWidth = 2
  CellHeight = 4
  Table <- SmallTable
  Limit = 300
  Texts <- SomeTexts
  Colours <- SomeColours
  Positions <- SomePositions
  Logo = 3
  MaxCalls = 3
CHECK_DEADLOCK FALSE
PROPERTY ImplementsTerminal
