CONSTANTS
  Clients = {c1, c2}
  ScanIds = {i1, i2}
  NoId = NoId
  MaxStarts = 1
  MaxOut = 0
  MaxIncarnations = 2
  MaxBacklog = 0
  Failures = {"process"}
SPECIFICATION Spec
INVARIANT NoEarlyStart
INVARIANT IInv
PROPERTY LifecycleSpec
CHECK_DEADLOCK FALSE
