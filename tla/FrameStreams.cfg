CONSTANTS
  Parts = {"rs485", "fdcanusb", "socketcan", "client"}
  None = None
  Messages <- MCMessages
  Base = 4
  Width = 512
  Low = 3
  High = 5
  Noises <- MCNoises
  Untimed = {2}
  MaxReads = 3
  MaxCancels = 1
  CanMessages <- MCCanMessages
  CanBatches = {1, 2}
  FdcanusbWrites = 1
  SocketcanWrites = 2
  SocketcanErrors = 1
  MaxLineLength = 4
SPECIFICATION AllSpec
INVARIANTS ReadsAnswered FramesDelivered
PROPERTIES EveryReadEnds CompletesUnlessDropped CanceledReadIsTold
CHECK_DEADLOCK FALSE
