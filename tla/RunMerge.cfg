SPECIFICATION Spec
CONSTANTS
  Users = {alice, bob}
  NoUser = NoUser
  Estimates = {small, large}
  NoEstimate = NoEstimate
  NoJob = NoJob
  MaxMerges = 3
SYMMETRY People
INVARIANTS
  UnionOfWork
  SpendsAsAsked
  ChargedAsQuoted
