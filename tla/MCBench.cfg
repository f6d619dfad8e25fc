\* The seeds are so close that three rows make the two sets overlap.
SPECIFICATION Spec
CONSTANTS
  ByteBits = 2
  WordBits = 2
  HashBits = 7
  MurmurShift = 4
  Factor1 = 77
  Factor2 = 83
  Golden = 79
  murmur <- MCMurmur
  default_rows = 2
  default_hot_runs = 2
  default_warmup_runs = 1
  RowTexts <- MCRowTexts
  RunTexts <- MCRunTexts
  WarmupTexts <- MCWarmupTexts
  MaxArgs = 3
  InsertSeed = 1
  NotPresentSeed = 3
  max_size <- MCMaxSize
  bitsPerKey = 8
  min_num_bits = 16
  EventNames <- MCEventNames
  CounterBits = 3
  MaxReadErrors = 1
  Benchmarks <- MCBenchmarks
INVARIANTS
  TypeOK
  QuerySetsDisjoint
  RunsPrepared
  AnswersCounted
PROPERTIES
  FiguresMeasureRuns
  Finishes
CHECK_DEADLOCK FALSE
