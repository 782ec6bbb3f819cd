CONSTANTS
  Parts = {"command", "timer", "sequence", "executor", "copy", "server"}
  Period <- MCPeriod
  MaxTime = 4
  MaxStarts = 2
  MaxItems = 4
  MaxWork = 3
  MaxExecutes = 6
  ReadSizes = {0, 1}
  WriteSizes = {1, 3}
  CopySize = 2
  MaxBytes = 3
  MaxCancels = 1
  MaxClients = 3
  MaxOps = 5
  Commands = {c1, c2, c3, c4}
  None = None
SPECIFICATION AllSpec
INVARIANTS OneToken InOrder StreamsKept RatesKept
PROPERTY EveryCommandFinishes
CHECK_DEADLOCK FALSE
