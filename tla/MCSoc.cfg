SPECIFICATION MCSpec
CONSTANTS
  Pc = {4, 6}
  NumRegs = 2
  Val = {0, 1}
  Byte = {0, 1}
  Lanes = 2
  XferBytes = {1, 2}
  XSignals <- TidyX
  MSignals <- TidyM
  BusTraffic <- AllTraffic
  MemBase = 4
  MemSize = 4
  IoBase = 12
  AddrSpace = 32
  NoBreak = 99
  FaultKinds = {"Stop", "Fatal"}
  Images <- SomeImages
  LoadAddrs = {3, 4, 7}
  PokeAddrs = {4, 8}
  Budgets = {0, 2}
  MaxCycles = 4
  Sims = {s1, s2, s3}
  Faults = {finish, fatal}
  NoFault = none
INVARIANTS
  TypeOK
  TrackerAgrees
  ReadsAttributed
  ShadowAgrees
  CallStopsInTime
  OutputDelivered
  FaultReported
PROPERTIES
  ViewSpec
  ReadsCoherent
  RetirementSeenInM
  BreakpointNeverOverrun
  StoppedStateIsKept
