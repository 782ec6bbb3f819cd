CONSTANTS
  Transmits = {"t2"}
  Requests <- MCRequests
  Reads = {"r1"}
  Writes = {}
  TunnelId = 1
  Rooms = {2}
  MaxPolls = 2
  MaxCancels = 1
  MaxBytes = 1
  MaxChunk = 1
  WriteErrors = FALSE
  None = None
SPECIFICATION FairSpec
PROPERTY TransmitCompletes
CHECK_DEADLOCK FALSE
