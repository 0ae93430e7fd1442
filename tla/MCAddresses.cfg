CONSTANTS
  OctetBits = 3
  Octets = 2
SPECIFICATION Spec
INVARIANT TypeOK
INVARIANT RangeIsUsable
INVARIANT DiscoveryRange
INVARIANT ValidIsUsable
INVARIANT ThrowsOnlyWithoutHosts
PROPERTY RangeIsFound
CHECK_DEADLOCK FALSE
