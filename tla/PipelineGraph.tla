---------------------------- MODULE PipelineGraph ----------------------------
(***************************************************************************)
(* The stage graph every other module walks: graph/pipeline_graph.py with  *)
(* the G80 gate put where orchestrator/manifest_store.py sorts it, the     *)
(* failure types of the exit validators, and the correction policy of      *)
(* orchestrator/pipeline.py.                                               *)
(*                                                                         *)
(* A stage is its index in CANONICAL_STAGE_ORDER, so "upstream of" is <.   *)
(***************************************************************************)
EXTENDS Naturals

CONSTANT RetryBudget     \* DEFAULT_RETRY_BUDGET, 3 in the code

ASSUME RetryBudgetAssumption == RetryBudget \in Nat \ {0}

S00  == 1     \* intake
S10  == 2     \* script_generation
S20  == 3     \* voice_synthesis
S30  == 4     \* avatar_render
S40  == 5     \* media_sync
S50  == 6     \* caption_generation
S60  == 7     \* assembly
S70  == 8     \* quality_control
G80  == 9     \* human approval: a signal wait, not a provider call
G90  == 10    \* disclosure_check
S100 == 11    \* publish

Stages == S00..S100

\* STAGE_SEQUENCE: the stages that have a provider.
ProviderStages == Stages \ {G80}

\* The attempt numbers the correction loop can reach.
Attempts == 1..RetryBudget

\* What the exit validator registered for each stage can report.  Only S10
\* still runs the generic hash check; every other stage overrides it.
FailureTypes(s) ==
  CASE s = S00  -> {"intake_mismatch"}
    [] s = S10  -> {"malformed_script", "hash_mismatch"}
    [] s = S20  -> {"voice_invalid", "speaker_similarity_low"}
    [] s = S30  -> {"avatar_render_invalid", "identity_similarity_low"}
    [] s = S40  -> {"sync_duration_mismatch"}
    [] s = S50  -> {"caption_timing_invalid"}
    [] s = S60  -> {"assembly_failed", "assembly_duration_mismatch"}
    [] s = S70  -> {"qc_failed", "subjective_quality_check_failed"}
    [] s = G90  -> {"disclosure_missing_synthetic_flag",
                    "disclosure_synthetic_flag_false"}
    [] s = S100 -> {"publish_precondition_failed"}
    [] OTHER    -> {"approval_rejected"}

\* RETRYABLE_VALIDATION_FAILURE_TYPES
RetryableTypes ==
  {"hash_mismatch", "assembly_failed", "assembly_duration_mismatch",
   "caption_timing_invalid", "malformed_script", "voice_invalid",
   "speaker_similarity_low", "avatar_render_invalid",
   "identity_similarity_low", "sync_duration_mismatch", "intake_mismatch"}

\* Faulty variants: one retry too many; the failure type not looked at.
RetryableOneMore(type, attempt) ==
  type \in RetryableTypes /\ attempt <= RetryBudget
RetryableAnyType(type, attempt) == attempt < RetryBudget

\* CorrectionPlanV1.retryable as the correction loop computes it.
Retryable(type, attempt) == type \in RetryableTypes /\ attempt < RetryBudget
=============================================================================
