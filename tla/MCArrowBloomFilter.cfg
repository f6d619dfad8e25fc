SPECIFICATION Spec
CONSTANTS
  ByteBits = 4
  WordBits = 8
  minBitsSet = 2
  maxBitsSet = 3
  numberMasks = 4
  HashBits = 7
  bitsPerKey = 8
  min_num_bits = 16
  Lanes = 2
  MaxBatch = 5
  RowCounts = {1, 3}
  Hashes <- MCHashes
  Batches <- MCBatches
  MaskTables <- MCMaskTables
INVARIANTS
  TypeOK
  NoFalseNegatives
  BitsOfInserted
  AnswersExact
PROPERTIES
  CallsReturn
  RefinesSpec
