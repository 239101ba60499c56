SPECIFICATION TransferSpec
CHECK_DEADLOCK FALSE
CONSTANTS
  Projects = {p, q}
  Members = {admin}
  Homes = {p}
  Renewed = {"purpose"}
  Admins = {admin}
  Bodies = {b1, b2}
  Kinds = {"agent", "purpose"}
  Anchors = {"symbol"}
  None = None
  MAX_PENDING = 1
  MaxNotes = 2
SYMMETRY Symmetry
INVARIANTS
  OnePurpose
  OneConfirmedVersion
  ReimportingIsSafe
PROPERTY
  HistoryKept
