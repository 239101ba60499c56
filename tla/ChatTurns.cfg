SPECIFICATION Spec
CHECK_DEADLOCK FALSE
CONSTANTS
  r1 = r1
  r2 = r2
  Requests = {r1, r2}
  Nobody = Nobody
  MaxToolRounds = 1
  MaxContinuations = 1
  CallCounts = {0, 2}
  Ops <- AskAndAny
  Seed <- TwoReplies
  MaxMishaps = 1
INVARIANTS
  TurnsAreChains
  
  SendableHistory
  EndingsShown
  LeaseIsHeld
