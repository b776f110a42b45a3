SPECIFICATION Spec
CONSTANTS
  RetryBudget = 3
  ScriptLengths <- MCScriptLengths
  Narrations <- MCNarrations
  RenderDrifts <- MCRenderDrifts
  Transcripts <- MCTranscripts
INVARIANTS
  TypeOK
  MasterFollowsNarration
  MasterIsTheRunsOwn
  FreshIdentity
  SyncedToNarration
  FacelessRendersHold
  RepairSparesRetries
  CuesAreShown
PROPERTIES
  MediaFollowChain
