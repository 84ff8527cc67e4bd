SPECIFICATION Spec
CONSTANTS
  Reg = {0, 1}
  Val = {0, 1}
  Fetches <- TwoFetches
  Instructions <- SomeInstructions
  Stale <- OneStale
  Alu <- AddBits
  DecayCycles = 1
  ReadDecayCycles = 1
  MaxCycles = 4
INVARIANTS
  WiresConnect
  TablesInOrder
  DarkWiresAreSilent
  SelectedInputIsLive
  RowsMatchDiagram
PROPERTIES
  OperandShownIsNewest
  GuessIsHarmless
  FlashFollowsStrobe
