SPECIFICATION Spec
CONSTANTS
  Top = 1
  Arch <- MCArch
  Insts <- MCInsts
  NR_WP = 2
  Exprs <- MCExprs
  Vals <- MCVals
  Device = Device
  Nowhere = Nowhere
  NULL = NULL
  Batch = {TRUE, FALSE}
  Steps <- MCSteps
  UINT64_MAX = 3
INVARIANTS StaysInSync EndIsFinal WatchesStop BatchVerdict
PROPERTY CommandEnds
