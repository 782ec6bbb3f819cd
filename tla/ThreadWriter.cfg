CONSTANTS
  Buffers <- MCBuffers
  BufferSize <- MCBufferSize
  Modes = {TRUE, FALSE}
  BlockSize = 2
  InitialCapacity = 1
  PipeCapacity = 2
SPECIFICATION FairSpec
INVARIANTS NothingLost FadviseBehind ReclaimedIsFree
PROPERTIES ImplementsLog SignalsTakeEffect
CHECK_DEADLOCK FALSE
