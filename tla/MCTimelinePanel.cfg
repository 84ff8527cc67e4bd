SPECIFICATION Spec
CONSTANTS
  Pc = {4, 6}
  NumRegs = 1
  Val = {0}
  Byte = {0}
  Lanes = 2
  XferBytes = {1, 2}
  XSignals <- PlainX
  MSignals <- PlainM
  BusTraffic <- NoTraffic
  HISTORY = 3
  WINDOW = 2
  Clients = {"stepCycle", "stepInstruction", "run", "runFast"}
  StepLimit = 3
  Budgets = {1, 2}
  MaxCycles = 4
INVARIANTS
  HistoryOfThisRun
  HistoryComplete
