SPECIFICATION Spec
CONSTANTS
  Reading = {0, 500, 1021}
  Packet <- MCPacket
INVARIANTS TypeOK MotorsObey ReplyShowsManoeuvre
PROPERTIES ReversalPassesThroughOff
