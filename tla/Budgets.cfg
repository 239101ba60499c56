SPECIFICATION Spec
CHECK_DEADLOCK FALSE
CONSTANTS
  Callers = {c1, c2}
  Requests = {r1}
  Amounts = {1, 2}
  Initial <- MCInitial
  QueueSize = 2
  BatchSize = 2
  MaxCalls = 2
  MaxWrites = 1
  MaxFaults = 1
  LastMonth = 2
SYMMETRY Symmetry
INVARIANTS
  BookAccounts
  
PROPERTY
  StopHolds
