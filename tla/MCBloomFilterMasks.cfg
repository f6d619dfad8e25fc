\* Eight 5-bit masks in a table of 16 bits; words of 8 bits, bytes of 4.
SPECIFICATION Spec
CONSTANTS
  ByteBits = 4
  WordBits = 8
  numberMasks = 8
  minBitsSet = 2
  maxBitsSet = 3
INVARIANTS
  TypeOK
  EveryWindowBounded
  LookupReadsWindow
PROPERTIES
  Terminates
CHECK_DEADLOCK FALSE
