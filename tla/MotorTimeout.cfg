SPECIFICATION FairSpec
CONSTANTS
  Reading = {0}
  Packet <- MCPacket
PROPERTY StopsAfterTimeout
