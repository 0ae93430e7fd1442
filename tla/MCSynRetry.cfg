CONSTANTS
  Modes = {"syn"}
  low = 1
  high = 3
  PortSpace = 8
  tries = 3
  threadCount = 2
  Rates = {1}
  Targets = {"filtered"}
  MaxPackets = 2
  Failures = {"stray"}
SPECIFICATION Spec
INVARIANT TypeOK
INVARIANT IInv
INVARIANT UnansweredIsListed
INVARIANT WalkMissesNothing
CHECK_DEADLOCK FALSE
