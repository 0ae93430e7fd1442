CONSTANTS
  Clients = {c1}
  ScanIds = {i1, i2}
  NoId = NoId
  MaxStarts = 2
  MaxOut = 1
  MaxIncarnations = 1
  MaxBacklog = 1
  Failures = {"io", "activity"}
SPECIFICATION Spec
SYMMETRY Symmetry
INVARIANT TypeOK
INVARIANT EveryRunIsKnown
INVARIANT CompleteResults
INVARIANT UnknownWasStopped
INVARIANT LifeInv
INVARIANT FieldInv
CHECK_DEADLOCK FALSE
