SPECIFICATION Spec
CONSTANTS
  Reg = {0, 1, 2}
  Val = {7}
  DecayCycles = 3
  ReadDecayCycles = 2
  MaxCycles = 5
INVARIANT EveryWriteReported
PROPERTIES
  NewsIsBright
  NewestIsBrightest
  NoSpuriousRestart
