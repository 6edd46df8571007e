SPECIFICATION FairSpec
CONSTANTS
  Packet <- MCPacket
  TxCapacity = 2
  PrintLength = 2
  FifoDepth = 2
  MaxPackets = 2
  MaxBad = 1
INVARIANTS LinkInv CommandsInOrder
PROPERTIES FailuresLast TransmitterStopsOnlyStalled NoOtherLoss
