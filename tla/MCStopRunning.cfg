CONSTANTS
  Clients = {c1}
  ScanIds = {i1}
  NoId = NoId
  MaxStarts = 1
  MaxOut = 0
  MaxIncarnations = 1
  MaxBacklog = 1
  Failures = {}
SPECIFICATION Spec
PROPERTY StoppingIsManaged
CHECK_DEADLOCK FALSE
