SPECIFICATION FairSpec
CONSTANTS
  p1 = p1
  p2 = p2
  acme = acme
  Projects = {p1, p2}
  Orgs = {acme}
  OrgOf <- OneOrg
  Imported = {p2}
  Actors = {a1, a2}
INVARIANTS
  ClaimsCounted
  RemovalsAlone
  GoneHasNoRuns
PROPERTY
  DeletionGoesOn
