SPECIFICATION Spec
CONSTANTS
  ByteBits = 4
  WordBits = 4
  numberMasks = 4
  HashBits = 5
  bitsPerKey = 4
  min_num_bits = 8
  Lanes = 2
  MaxBatch = 5
  RowCounts = {1, 3}
  Hashes <- MCHashes
  Batches <- MCBatches
  MaskTables <- MCMaskTables
INVARIANTS
  TypeOK
  BitsOfInserted
  AnswersExact
PROPERTIES
  OnlyReplyBytesWritten
  RefinesSpec
