SPECIFICATION MCSpec
CONSTANTS
  Pc = {4, 6}
  NumRegs = 2
  Val = {0, 1}
  Byte = {0}
  Lanes = 2
  XferBytes = {1, 2}
  XSignals <- PlainX
  MSignals <- PlainM
  BusTraffic <- NoTraffic
  MaxCycles = 6
INVARIANTS
  NeverComplains
  OccupancyFaithful
  TraceTrusted
CHECK_DEADLOCK FALSE
