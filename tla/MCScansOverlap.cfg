CONSTANTS
  CorePool = 2
  MaxPool = 3
  QueueSize = 1
  FromPorts = {1}
  ToPorts = {1, 2}
  MaxPort = 2
  Modes = {"UDP"}
  DefaultPorts = 3
  MaxChunks = 0
  MaxRuns = 3
  MaxTouches = 0
SPECIFICATION Spec
INVARIANT OneScanAtATime
CHECK_DEADLOCK FALSE
