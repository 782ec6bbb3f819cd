CONSTANTS
  Parts = {"datagram", "server", "console", "config", "python", "pipe", "table", "filter",
           "tool"}
  Messages <- MCMessages
  Base = 4
  Width = 512
  Low = 3
  High = 5
  BufferSize = 16
  UserSize = 2
  NoiseBytes = {0, 3, 5}
  MaxFaults = 2
SPECIFICATION AllSpec
INVARIANTS
  DeliveredAsSent NothingHeldBack ServerAsAsked TunnelServed ConsoleRight ConfigKept
  PythonTunnel PartsRight
CHECK_DEADLOCK FALSE
