SPECIFICATION SyncFairSpec
CONSTANTS
  Commits <- MCCommits
  First = "a"
  Tracking = {"t"}
  DeliveryIdsMax = 1
  MaxEvents = 2
  MaxFaults = 2
PROPERTIES
  CatchesUp
  LossIsNoticed
  NothingScannedTwice
