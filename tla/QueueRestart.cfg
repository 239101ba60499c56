SPECIFICATION Spec
CONSTANTS
  p1 = p1
  p2 = p2
  p3 = p3
  acme = acme
  beta = beta
  alice = alice
  bob = bob
  Users = {alice, bob}
  NoUser = NoUser
  Estimates = {}
  NoEstimate = NoEstimate
  Projects = {p1}
  Orgs = {acme, beta}
  OrgOf <- OneOrg
  Importing = {}
  Source = "github"
  Asks <- ScanAndPush
  Callers = {c1}
  MaxConcurrent = 1
  MaxRuns = 2
  MaxFaults = 1
  MaxStops = 1
SYMMETRY Symmetry
INVARIANTS
  RowsMatchQueue
PROPERTIES
  KeepsPromises
  
