SPECIFICATION Spec
CONSTANTS
  ByteSize = 4
  MaxTravel = 14
  MaxReversals = 2
INVARIANTS TypeOK DriftBounded ReportWrongOnlyByCarry
