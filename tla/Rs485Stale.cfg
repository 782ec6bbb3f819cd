CONSTANTS
  Parts = {"rs485"}
  None = None
  Messages <- MCMessages
  Base = 4
  Width = 512
  Low = 3
  High = 5
  Noises <- MCNoises
  Untimed = {}
  MaxReads = 2
  MaxCancels = 0
  CanMessages <- MCCanMessages
  CanBatches = {1, 2}
  FdcanusbWrites = 1
  SocketcanWrites = 2
  SocketcanErrors = 1
  MaxLineLength = 4
SPECIFICATION AllSpec
INVARIANT AbortedInTime
CHECK_DEADLOCK FALSE
