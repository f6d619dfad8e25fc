\* Two options with values; rows and runs that are zero and that are not.
SPECIFICATION ParseSpec
CONSTANTS
  HashBits = 7
  default_rows = 2
  default_hot_runs = 1
  default_warmup_runs = 1
  RowTexts = {0, 3}
  RunTexts = {0, 2}
  WarmupTexts = {0}
  MaxArgs = 4
INVARIANT
  ZeroMessageIsAboutRuns
CHECK_DEADLOCK FALSE
