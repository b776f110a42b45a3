SPECIFICATION Spec
CONSTANTS
  RetryBudget = 3
  ScriptLengths <- MCScriptLengths
  Narrations <- MCNarrations
  RenderDrifts <- MCRenderDrifts
  Transcripts <- MCTranscripts
INVARIANT ScriptFitsSynthesis
