SPECIFICATION DriverFairSpec
CONSTANTS
  RetryBudget = 3
  Hashes = {zero, old, new}
  NoHash = NoHash
  ZeroHash = zero
  OldHash = old
  Kinds = {"cli", "dashboard", "reviewer"}
  FlakyStages <- MCFlakyStages
  OldManifests <- MCOldManifests
INVARIANTS
  DriverTypeOK
  
  SuccessMeansPublished
PROPERTIES
  DashboardSettles
  DriversOnlySignal
