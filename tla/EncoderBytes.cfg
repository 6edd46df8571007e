SPECIFICATION Spec
CONSTANTS
  ByteSize = 4
  MaxTravel = 8
  MaxReversals = 1
INVARIANT HostReadsTheCount
