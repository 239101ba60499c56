SPECIFICATION Spec
CHECK_DEADLOCK FALSE
CONSTANTS
  Calls = {c1, c2}
  MaxSaves = 1
  FailuresBeforePause = 2
SYMMETRY Symmetry
INVARIANTS
  SyncedIsIndexed
  WaitsAreForSomething

  
