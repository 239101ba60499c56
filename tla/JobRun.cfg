SPECIFICATION JobFairSpec
CHECK_DEADLOCK FALSE
INVARIANTS
  SignalReaches
  TokenGone

  
