CONSTANTS
  CorePool = 2
  MaxPool = 2
  QueueSize = 1
  FromPorts = {1}
  ToPorts = {1, 2}
  MaxPort = 1
  Modes = {"UDP", "SYN"}
  DefaultPorts = 1
  MaxChunks = 1
  MaxRuns = 2
  MaxTouches = 1
SPECIFICATION FairSpec
INVARIANT TypeOK
INVARIANT StopIsPrompt
INVARIANT ListIsSaved
INVARIANT DoneIsTrue
INVARIANT DoneInv
PROPERTY ClosedScanIsDone
CHECK_DEADLOCK FALSE
