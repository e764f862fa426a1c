SPECIFICATION Spec
CONSTANTS
  Regs <- MCRegs
  PCs <- MCPCs
  Programs <- MCPrograms
  NR_WP = 1
  Exprs <- MCExprs
  Vals <- MCVals
  Device = Device
  Nowhere = Nowhere
  NULL = NULL
  Batch = {TRUE, FALSE}
  Steps <- MCSteps
  UINT64_MAX = 3
INVARIANTS RegsInSync EndIsFinal BatchStatus
