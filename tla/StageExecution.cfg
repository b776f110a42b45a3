SPECIFICATION InTimeSpec
CONSTANTS
  Workers = {w1, w2}
  RetryBudget = 3
  MaxCrashes = 2
  MaxErrors = 2
  MaxSlow = 0
INVARIANTS
  TypeOK
  RecordMatchesDelivery
  ExtraCallsHaveFaults
PROPERTIES
  StageImplementsContract
