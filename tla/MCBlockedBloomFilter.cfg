SPECIFICATION Spec
CONSTANTS
  ByteBits = 4
  WordBits = 8
  HashBits = 6
  bitsPerKey = 8
  min_num_bits = 16
  num_hashes = 2
  MaxBatch = 5
  RowCounts <- MCRowCounts
  Hashes <- MCHashes
  Batches <- MCBatches
  BlockMask <- MCMasks
INVARIANTS
  TypeOK
  AnswersExact
PROPERTIES
  RefinesSpec
