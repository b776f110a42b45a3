SPECIFICATION FairSpec
CONSTANTS
  RetryBudget = 3
  Hashes = {h1, h2}
  NoHash = NoHash
  FlakyStages <- MCFlakyStages
INVARIANTS
  TypeOK
  UpstreamPassed
  CorrectionHistory
  FailureLeavesEvidence
  PublishNeedsApproval
  LateApprovalNamesMaster
PROPERTIES
  RunEnds
  RowsNeverRewritten
  PipelineImplementsGate
  PipelineFollowsChain
