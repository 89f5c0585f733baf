SPECIFICATION Spec
CONSTANTS
  IntBits = 5
  LongBits = 7
  SizeBits = 10
  Default = 3
  Second = 20
  Reservable = 60
  NoDigits = NoDigits
  Numbers <- MCNumbers
  MaxOptions = 3
CHECK_DEADLOCK FALSE
INVARIANT TypeOK
INVARIANT VerdictKept
INVARIANT SamplesAsAsked
