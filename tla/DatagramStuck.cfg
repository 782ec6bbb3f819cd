CONSTANTS
  Parts = {"datagram"}
  Messages <- MCMessages
  Base = 4
  Width = 512
  Low = 3
  High = 5
  BufferSize = 16
  UserSize = 2
  NoiseBytes = {0, 3, 5}
  MaxFaults = 1
SPECIFICATION AllSpec
INVARIANT WaitingMeansReading
CHECK_DEADLOCK FALSE
