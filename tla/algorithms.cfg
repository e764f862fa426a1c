SPECIFICATION Spec
CONSTANTS
  W = 8
  Regs <- MCRegs
  Mem <- MCMem
  Nums = {0, 7}
  Ops = {"+", "-", "*", "/", "<", "&&"}
  MaxSize = 3
  MaxText = 4
  B = 4
  Halves <- MCHalves
  IntMin <- MCIntMin
  IntMax = 127
  HeapStart = 3
  HeapEnd = 60
  Cells = 4
  Sizes = {0, 1, 8, 9, 20}
  MaxAllocs = 4
  MaxFmt = 2
  SymType <- MCSymType
  Rank <- MCRank
  Parsed <- MCParsed
  MaxDeps = 2
  Keys = {"up", "down", "ppage", "npage", "home", "end", "left", "right", "tab", "bs", "a", "b", "h", "o", "s", "y", "l", " ", "/", "nl", "x", "esc"}
  MaxChars = 5
INVARIANTS DebuggersAgreeWithC ArithmeticRight KlibRight SimplifyKeepsValue BoxesRight
CHECK_DEADLOCK FALSE
