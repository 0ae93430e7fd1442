CONSTANTS
  Modes = {"syn", "fin"}
  low = 1
  high = 3
  PortSpace = 8
  tries = 2
  threadCount = 2
  Rates = {0, 1}
  Targets = {"closed"}
  MaxPackets = 2
  Failures = {"send", "race", "pcap"}
SPECIFICATION FairSpec
INVARIANT CountIsExact
INVARIANT CountInv
INVARIANT ThreadsBounded
PROPERTY ScanEnds
CHECK_DEADLOCK FALSE
