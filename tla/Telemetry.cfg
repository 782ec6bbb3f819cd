CONSTANTS
  Names = {a, b}
  ReservedIds = {1}
  Times = {0, 1, 2, 3}
  SeekPeriod = 1
  Budgets <- MCBudgets
  Filters = {{}, {a}}
  kMinSpacing = 1
  a = a
  b = b
SPECIFICATION AllSpec
INVARIANTS FileRight LogItems LogSeek SchemaRight EvolutionRight Json5Right
CHECK_DEADLOCK FALSE
