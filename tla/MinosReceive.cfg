SPECIFICATION Spec
CONSTANTS
  Slots = 7
  Text <- MCText
  SplitAt = {1}
  Sequence <- MCSequence
  FirstReading = 181
  MaxPackets = 3
  MaxBytes = 70
INVARIANTS ReceiveInv NothingInvented NothingLost EncodersWithinOnePoll
PROPERTIES ShortReadsAreSafe NoticedUnlessExact
