CONSTANTS
  CorePool = 1
  MaxPool = 2
  QueueSize = 1
  Lows = {1, 2}
  Sizes = {2}
  ArpCache = {1}
  Modes = {"normal"}
  MaxRuns = 2
  MaxTouches = 1
SPECIFICATION FairSpec
INVARIANT TypeOK
INVARIANT ListIsWhatWasReported
INVARIANT StopHasATask
INVARIANT DiesOnlyOf
INVARIANT StopIsPrompt
CHECK_DEADLOCK FALSE
PROPERTY EveryDiscoveryEnds
