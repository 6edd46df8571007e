SPECIFICATION Spec
CONSTANTS
  MAX_BUFFSIZE = 4
  Char <- MCChar
INVARIANT TypeOK
PROPERTY ImplementsFifo
CHECK_DEADLOCK TRUE
