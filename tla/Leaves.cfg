SPECIFICATION LeavesSpec
CONSTANTS
  Flags = {0, 1, 2, 3, 4, 5, 6, 7}
  LowBits = 32
  First = 12
  AddrBits = 40
  WordBits = 64
  Masks <- SomeMasks
  Addresses <- SomeAddresses
  Words <- SomeWords
  Offsets <- SomeOffsets
  Leftovers <- SomeLeftovers
  Places = {"long", "short"}
  Size <- SomeSizes
  Letters = {44, 97, 200}
  Delims <- SomeDelims
  Texts <- SomeTexts
CHECK_DEADLOCK FALSE
INVARIANTS
  EntryReadsBack
  DecodesWritten
  NumeralReadsBack
  GatesEnterHandlers
PROPERTY ImplementsWords
