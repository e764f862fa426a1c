SPECIFICATION MCSpec
CONSTANTS
  WORD = 4
  MaxTime = 12
  PageSize = 4
  IoSpaceMax = 12
  NrMap = 2
  PortMax = 14
  MBase = 8
  MSize = 4
  AddrSpace = 16
  Regions <- MCRegions
  Widths = {1, 2, 4}
  MaxWrites = 2
  RingMax = 3
  Fns = {"main", "f", "g"}
  Main = "main"
  MaxFrames = 4
  MaxInst = 7
INVARIANTS UptimeIsATime UptimesAgree RegionsKeepApart TracesRight
CHECK_DEADLOCK FALSE
