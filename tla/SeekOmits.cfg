CONSTANTS
  Names = {a, b}
  ReservedIds = {1}
  Times = {0, 1, 2, 3}
  SeekPeriod = 1
  Budgets <- MCRewrites
  Filters = {{}, {a}}
  kMinSpacing = 1
  a = a
  b = b
SPECIFICATION AllSpec
INVARIANT LogSeekFindsAll
CHECK_DEADLOCK FALSE
