SPECIFICATION Spec
CONSTANTS
  Keys = {a, b, c}
  Limit = 2
  Window = 3
  MaxKeys = 2
  TicksPerSecond = 2
  MaxTime = 7
SYMMETRY Symmetry
INVARIANTS
  SlidingWindow
  WaitIsExact
  FailsOpenOnlyWhenFull
CHECK_DEADLOCK FALSE
