SPECIFICATION Spec
CONSTANTS
  Mtu = 2
  Regs = 2
  DutRegs = 1
  Addr = 3
  Values = {17, 34}
  StartValue = 17
  Images <- MCImages
  Noise <- MCNoise
  MaxFaults = 2
  MaxCalls = 2
INVARIANT ReferenceAsAsked
PROPERTY CallsReturn
