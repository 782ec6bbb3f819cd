CONSTANTS
  Transmits = {"t1"}
  Requests <- MCRequests
  Reads = {"r1", "r2"}
  Writes = {"w1"}
  TunnelId = 1
  Rooms = {0, 2}
  MaxPolls = 2
  MaxCancels = 1
  MaxBytes = 3
  MaxChunk = 2
  WriteErrors = TRUE
  None = None
SPECIFICATION Spec
INVARIANTS LockRespected HandlersOnce TunnelInOrder ReplyFromItsServer
PROPERTY CanceledBufferUntouched
CHECK_DEADLOCK FALSE
