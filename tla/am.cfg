SPECIFICATION MCSpec
CONSTANTS
  Cpus = {"c0", "c1"}
  Boot = "c0"
  Users = {u1, u2}
  Kthreads = {"k"}
  VAs = {1}
  Junk = "c0"
  None = "none"
  Stacks <- MCStacks
  StackSize = 25
  BootThread = 0
  Vals = {7}
  MaxWords = 4
  MaxYields = 1
  MaxWork = 2
  Others = {"c1", "c2"}
  KeyQueueLen = 3
  MaxEvents = 5
  PipeSize = 3
  PipeBuf = 2
  Lens = {1, 2, 3}
  MaxBytes = 5
  StreamLen = 2
SYMMETRY Symmetry
INVARIANTS OwnPages ContextsKept RiscvContextsKept IoeOnce NativeKeysInOrder 
CHECK_DEADLOCK FALSE
