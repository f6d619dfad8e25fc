\* Every number of rows of 8 bits, the wrap of rows * 4 included.
SPECIFICATION Spec
CONSTANTS
  ByteBits = 4
  WordBits = 4
  HashBits = 8
  bitsPerKey = 4
  min_num_bits = 8
INVARIANTS
  TypeOK
  SameSize
CHECK_DEADLOCK FALSE
