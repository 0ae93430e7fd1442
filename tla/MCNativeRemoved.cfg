CONSTANTS
  Modes = {"fin"}
  low = 1
  high = 3
  PortSpace = 8
  tries = 1
  threadCount = 2
  Rates = {1}
  Targets = {"closed"}
  MaxPackets = 3
  Failures = {}
SPECIFICATION Spec
INVARIANT AnsweredIsRemoved
CHECK_DEADLOCK FALSE
