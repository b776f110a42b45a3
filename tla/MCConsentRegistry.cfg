SPECIFICATION FairSpec
CONSTANTS
  Versions = {1, 2}
  RetryBudget = 3
  MaxSeeds = 2
  MaxWithdrawals = 2
  MaxErrors = 1
  MaxMisses = 3
INVARIANTS
  ReferencesResolve
  WithdrawalStopsProviders
  MixedPairsNeedReseeds
PROPERTIES
  RunEndsUnderConsent
