SPECIFICATION Spec
CONSTANTS
  Wheels = {"left", "right"}
  Radix = 4
  Ticks <- MCTicks
  Time = 1
  Travel <- MCTravel
  MaxTime = 3
INVARIANTS OdometryInv
PROPERTIES ExactIfBytesAgree RefusedUntilNearer
CHECK_DEADLOCK FALSE
