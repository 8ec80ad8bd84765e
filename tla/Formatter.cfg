SPECIFICATION Spec
CONSTANTS
  CharBits = 2
  ShortBits = 4
  IntBits = 8
  LongBits = 16
  BufferSize = 8
  Formats <- AllFormats
  Arguments <- AllArguments
CHECK_DEADLOCK FALSE
INVARIANTS
  ValueReadsBack
  FieldFilled
  BufferKept
