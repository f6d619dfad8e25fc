SPECIFICATION Spec
CONSTANTS
  ByteBits = 4
  WordBits = 4
  HashBits = 7
  MurmurShift = 4
  Factor1 = 77
  Factor2 = 83
  Golden = 79
  num_hashes = 2
  Sizes = {6, 8}
  MaxBatch = 5
  Hashes <- MCHashes
  Batches <- MCBatches
  bit_of <- MCBitOf
INVARIANTS
  TypeOK
  BitsOfInserted
PROPERTIES
  RefinesSpec
