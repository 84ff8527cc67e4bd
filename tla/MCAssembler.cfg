SPECIFICATION MCSpec
CONSTANTS
  Base = 2097152
  AddrSpace = 8388608
  Labels = {"a", "b"}
  Plain <- Instructions
  Kinds <- SomeKinds
  Links = {"zero", "ra"}
  Runs <- AroundReach
  MaxItems = 2
INVARIANTS
  OperandsReadBack
  TargetsReadBack
