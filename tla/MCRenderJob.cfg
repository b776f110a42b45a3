SPECIFICATION RenderFairSpec
CONSTANTS
  Workers = {w1}
  RetryBudget = 3
  MaxCrashes = 1
  MaxErrors = 1
  MaxSlow = 1
  MaxFailedTalks = 1
INVARIANTS
  RenderTypeOK
  TalksHaveCauses
  PassedRendersAreKept
PROPERTIES
  FeedbackNeverStale
  StageResolves
