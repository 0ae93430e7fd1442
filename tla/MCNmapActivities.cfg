CONSTANTS
  Clients = {c1, c2}
  ScanIds = {i1, i2}
  NoId = NoId
  MaxStarts = 1
  MaxOut = 0
  MaxIncarnations = 1
  MaxBacklog = 0
  Failures = {}
SPECIFICATION FairSpec
INVARIANT NoForgottenRequest
INVARIANT ScanFieldIsTrue
PROPERTY AnsweredOnceSetUp
PROPERTY StartedIsCollected
PROPERTY ServiceStops
CHECK_DEADLOCK FALSE
