SPECIFICATION Spec
CONSTANTS
  Reg = {0, 1}
  Val = {0, 1}
  Fetches <- TwoFetches
  Instructions <- SomeInstructions
  Stale <- OneStale
  Alu <- AddBits
  DecayCycles = 3
  ReadDecayCycles = 2
  MaxCycles = 4
INVARIANT WireFromWShowsTheOperand
