SPECIFICATION Spec
CONSTANTS
  K = 2
  NBlocks = 2
  Requests <- MCRequests
  MaxRequests = 3
INVARIANT RequestsRight
PROPERTY RequestEnds
CHECK_DEADLOCK FALSE
