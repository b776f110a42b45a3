SPECIFICATION Spec
CONSTANTS
  RetryBudget = 3
  Hashes = {h1, h2}
  NoHash = NoHash
  FlakyStages = {}
INVARIANTS
  ApprovalNamesPublishedVideo
