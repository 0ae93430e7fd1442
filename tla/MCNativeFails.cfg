CONSTANTS
  Clients = {c1}
  ScanIds = {i1}
  NoId = NoId
  MaxStarts = 1
  MaxOut = 0
  MaxIncarnations = 1
  MaxBacklog = 0
  Failures = {}
SPECIFICATION Spec
INVARIANT NoNativeNoScanning
CHECK_DEADLOCK FALSE
