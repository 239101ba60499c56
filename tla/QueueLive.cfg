SPECIFICATION FairSpec
CONSTANTS
  p1 = p1
  p2 = p2
  p3 = p3
  acme = acme
  beta = beta
  alice = alice
  bob = bob
  Users = {alice, bob}
  NoUser = NoUser
  Estimates = {}
  NoEstimate = NoEstimate
  Projects = {p1, p2, p3}
  Orgs = {acme, beta}
  OrgOf <- OneOrg
  Importing = {p1, p2}
  Source = "github"
  Asks <- ForgeAsks
  Callers = {c1}
  MaxConcurrent = 2
  MaxRuns = 2
  MaxFaults = 0
  MaxStops = 0
PROPERTY
  QueuedRunsEnd
INVARIANT
  OneImportPerOrg
