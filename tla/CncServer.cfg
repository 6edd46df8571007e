SPECIFICATION FairServerSpec
CONSTANTS
  Clients = {"a", "b"}
  Keys = {"W", "F12"}
  Chords <- MCChords
  MaxDown = 2
  MaxUp = 2
  MaxFaults = 1
INVARIANTS ServerInv MovesAsHeld
PROPERTIES StuckForGood Answered
CHECK_DEADLOCK FALSE
