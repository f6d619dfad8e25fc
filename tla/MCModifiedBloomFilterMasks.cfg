\* Five different masks of two bits, out of the six that four bits allow.
SPECIFICATION Spec
CONSTANTS
  ByteBits = 4
  WordBits = 4
  numberMasks = 5
  bitsPerMask = 2
INVARIANTS
  TypeOK
  EntriesDistinct
PROPERTIES
  Terminates
CHECK_DEADLOCK FALSE
