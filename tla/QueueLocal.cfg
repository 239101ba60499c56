SPECIFICATION Spec
CONSTANTS
  p1 = p1
  p2 = p2
  p3 = p3
  acme = acme
  beta = beta
  alice = alice
  bob = bob
  Users = {alice, bob}
  NoUser = NoUser
  Estimates = {}
  NoEstimate = NoEstimate
  Projects = {p1, p2}
  Orgs = {acme, beta}
  OrgOf <- OneOrg
  Importing = {}
  Source = "local"
  Asks <- LocalAsks
  Callers = {c1, c2}
  MaxConcurrent = 1
  MaxRuns = 2
  MaxFaults = 0
  MaxStops = 0
SYMMETRY Symmetry
INVARIANTS
  JobsAreLimited
  AnsweredWorkKept
  
PROPERTY
  EndedStaysEnded
