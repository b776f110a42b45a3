SPECIFICATION Spec
CONSTANTS
  Workers = {w1, w2}
  RetryBudget = 3
  MaxCrashes = 0
  MaxErrors = 0
  MaxSlow = 1
INVARIANTS
  TelemetryIsTruth
