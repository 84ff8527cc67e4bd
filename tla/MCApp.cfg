\* A page whose simulator failed to load shows the error and does nothing more.
CHECK_DEADLOCK FALSE
SPECIFICATION Spec
CONSTANTS
  p = p
  q = q
  Examples = {p}
  Fetched = {q}
  First = p
  StepLimit = 2
  MaxBudget = 2
  CycleRange = 3
  MaxPrinted = 2
  MaxFetches = 1
  Callbacks = {1, 2, 3, 4}
INVARIANTS ScreenFaithful NoteFaithful
PROPERTIES MenuAgrees MovesOnlyWhenLabelled RunAdvances RunEnds OneLoop
