--------------------------- MODULE AvatarPipeline ---------------------------
(***************************************************************************)
(* The Temporal workflow AvatarPipeline of orchestrator/pipeline.py: the   *)
(* stage loop with its correction retries, the identity fetches, the G80   *)
(* signal gate with its timeout, and the gated stages G90 and S100.        *)
(*                                                                         *)
(* An activity is one step here: the rows it writes and the answer the     *)
(* workflow gets.  What happens inside an activity when workers crash or   *)
(* answers come late is module StageExecution's subject.  An activity that *)
(* raises anything but a ValidationFailure is retried by Temporal with the *)
(* same arguments, without end: nothing changes for the workflow until     *)
(* what makes it raise (an obstacle) is gone.                              *)
(***************************************************************************)
EXTENDS PipelineGraph

CONSTANTS
  Hashes,         \* content hashes a video can have, or an approval can name
  NoHash,         \* None
  FlakyStages     \* bound: the stages whose validator may report a failure

ASSUME HashAssumption == NoHash \notin Hashes /\ Hashes # {}
ASSUME FlakyAssumption == FlakyStages \subseteq ProviderStages

VARIABLES
  modality,       \* idea["modality"]; AVATAR runs carry an identity_id
  obstacles,      \* what makes the pending activity raise now
  awaiting,       \* what the run coroutine is suspended on
  stage, attempt, \* the stage being run, and the correction loop's counter
  renderHash,     \* hash of S30's video in _stage_outputs
  masterHash,     \* _current_master_hash
  approval,       \* _approval
  recorded,       \* the decision handed to record_g80_approval
  disclosed,      \* master_video_hash of G90's disclosure decision
  manifest,       \* manifest_stage_records of this run, by stage and attempt
  evidence        \* failure_type in the report stored for a failed attempt

vars == <<modality, obstacles, awaiting, stage, attempt, renderHash, masterHash,
          approval, recorded, disclosed, manifest, evidence>>

inputs == <<modality, obstacles>>
gate   == <<approval, recorded>>

Decisions == {"approved", "rejected", "changes_requested"}

\* A signal's payload.  early is a history field: the signal was accepted
\* while _current_master_hash was still None.
Approvals == [decision : Decisions, hash : Hashes, early : BOOLEAN]
NoApproval == [decision |-> "none", hash |-> NoHash, early |-> FALSE]

Ended == {"completed", "failed"}
Awaits == {"run_stage", "fetch_identity", "refetch_identity", "approval",
           "record_g80"} \cup Ended

\* What an activity answers with an exception that Temporal's default policy
\* retries with the same arguments: fetch_identity_reference with a withdrawn
\* consent; S20's provider with a withdrawn voice consent, or with a narration
\* over its caps of 1500 characters and of 50 seconds; "fault" is everything
\* else (PostgreSQL, MinIO or a provider that fails, an unknown capability).
Obstacles == {"identity_consent", "voice_consent", "script_length", "fault"}

\* Those the pending activity can meet.
Obstructing ==
  CASE awaiting \in {"fetch_identity", "refetch_identity"}
         -> {"identity_consent", "fault"}
    [] awaiting = "run_stage" /\ stage = S20
         -> {"voice_consent", "script_length", "fault"}
    [] awaiting \in {"run_stage", "record_g80"} -> {"fault"}
    [] OTHER -> {}

\* The pending activity passes or fails validation only without any of them.
Unobstructed == obstacles = {}

\* What a stored report can say of an attempt; "none" without a report.
Reports == {"none"} \cup UNION {FailureTypes(s) : s \in Stages}

NoRows == [s \in Stages |-> [k \in Attempts |-> "none"]]

Init ==
  /\ modality \in {"AVATAR", "FACELESS"}
  /\ obstacles = {}                \* validate_run has just checked consents
  /\ awaiting = "run_stage"
  /\ stage = S00 /\ attempt = 1
  /\ renderHash = NoHash /\ masterHash = NoHash /\ disclosed = NoHash
  /\ approval = NoApproval /\ recorded = NoApproval
  /\ manifest = NoRows /\ evidence = NoRows
-----------------------------------------------------------------------------
(* run_stage and run_intake_stage *)

Record(status) ==
  manifest' = [manifest EXCEPT ![stage][attempt] = status]

\* Where the coroutine goes once the current stage has passed.
ProceedTo(await, s) ==
  /\ awaiting' = await
  /\ stage' = s
  /\ attempt' = 1

IntakePasses ==
  /\ awaiting = "run_stage" /\ stage = S00 /\ Unobstructed
  /\ Record("passed")
  /\ IF modality = "AVATAR" THEN ProceedTo("fetch_identity", S00)
                            ELSE ProceedTo("run_stage", S10)
  /\ UNCHANGED <<inputs, gate, renderHash, masterHash, disclosed, evidence>>

\* The last stage of the loop over STAGE_SEQUENCE[1:8].
LastStageOffByOne == S60
LastLoopStage == S70

\* S10..S70; S30 leaves the first video in the artifact chain, S60 the master.
\* S10 caps the sum of its scenes' lengths, and S20 adds the blanks and speaks
\* them: a script that passed may be too long for it.
MediaStagePasses(h) ==
  /\ awaiting = "run_stage" /\ stage \in S10..LastLoopStage /\ Unobstructed
  /\ Record("passed")
  /\ IF stage = LastLoopStage THEN ProceedTo("approval", G80)
                              ELSE ProceedTo("run_stage", stage + 1)
  /\ renderHash' = IF stage = S30 THEN h ELSE renderHash
  /\ masterHash' = IF stage = S60 THEN h ELSE masterHash
  /\ obstacles' \in IF stage = S10 THEN {{}, {"script_length"}} ELSE {{}}
  /\ UNCHANGED <<modality, gate, disclosed, evidence>>

\* The disclosure provider signs the first video among the upstream refs.
DisclosurePasses ==
  /\ awaiting = "run_stage" /\ stage = G90 /\ Unobstructed
  /\ Record("passed")
  /\ disclosed' = renderHash
  /\ ProceedTo("run_stage", S100)
  /\ UNCHANGED <<inputs, gate, renderHash, masterHash, evidence>>

PublishPasses ==
  /\ awaiting = "run_stage" /\ stage = S100 /\ Unobstructed
  /\ Record("passed")
  /\ ProceedTo("completed", S100)
  /\ UNCHANGED <<inputs, gate, renderHash, masterHash, disclosed, evidence>>

\* A ValidationFailure: the report and the FAILED row are stored, then the
\* correction plan retries in place, re-fetching S30's identity first, or the
\* exception leaves the workflow.
StageFails(type) ==
  /\ awaiting = "run_stage" /\ stage \in FlakyStages /\ Unobstructed
  /\ type \in FailureTypes(stage)
  /\ type = "identity_similarity_low" => modality = "AVATAR"
  /\ Record("failed")
  /\ evidence' = [evidence EXCEPT ![stage][attempt] = type]
  /\ \/ /\ ~ Retryable(type, attempt)
        /\ awaiting' = "failed"
        /\ UNCHANGED attempt
     \/ /\ Retryable(type, attempt)
        /\ stage = S30 /\ modality = "AVATAR"
        /\ awaiting' = "refetch_identity"
        /\ UNCHANGED attempt
     \/ /\ Retryable(type, attempt)
        /\ ~ (stage = S30 /\ modality = "AVATAR")
        /\ attempt' = attempt + 1
        /\ UNCHANGED awaiting
  /\ UNCHANGED <<inputs, gate, stage, renderHash, masterHash, disclosed>>
-----------------------------------------------------------------------------
(* fetch_identity_reference: raises while the identity's consent is withdrawn *)

FetchIdentity ==
  /\ awaiting = "fetch_identity" /\ Unobstructed
  /\ ProceedTo("run_stage", S10)
  /\ UNCHANGED <<inputs, gate, renderHash, masterHash, disclosed, manifest,
                 evidence>>

\* Faulty: the retry reuses the attempt number of the failure.
RefetchSameAttempt ==
  /\ awaiting = "refetch_identity" /\ Unobstructed
  /\ awaiting' = "run_stage"
  /\ UNCHANGED <<inputs, gate, stage, attempt, renderHash, masterHash,
                 disclosed, manifest, evidence>>

RefetchIdentity ==
  /\ awaiting = "refetch_identity" /\ Unobstructed
  /\ awaiting' = "run_stage"
  /\ attempt' = attempt + 1
  /\ UNCHANGED <<inputs, gate, stage, renderHash, masterHash, disclosed,
                 manifest, evidence>>
-----------------------------------------------------------------------------
(* The G80 gate *)

\* Faulty: the gate before it was hardened took any decision.
AcceptsAny(hash) == TRUE

\* The handler's test of decision["master_video_hash"].
Accepts(hash) == masterHash = NoHash \/ hash = masterHash

\* The approve signal handler; Temporal delivers a signal in any phase of a
\* running workflow.
Approve(decision, hash) ==
  /\ awaiting \notin Ended
  /\ approval' = IF Accepts(hash)
                   THEN [decision |-> decision, hash |-> hash,
                         early |-> masterHash = NoHash]
                   ELSE approval
  /\ UNCHANGED <<inputs, awaiting, stage, attempt, renderHash, masterHash,
                 recorded, disclosed, manifest, evidence>>

GateOpens ==
  /\ awaiting = "approval" /\ approval # NoApproval
  /\ awaiting' = "record_g80"
  /\ recorded' = approval
  /\ UNCHANGED <<inputs, stage, attempt, renderHash, masterHash, approval,
                 disclosed, manifest, evidence>>

\* Faulty: the timeout is logged and the wait starts again.
GateWaitsAgain ==
  /\ awaiting = "approval" /\ approval = NoApproval
  /\ UNCHANGED vars

\* wait_condition raises after 30 minutes; no row is written.
GateTimesOut ==
  /\ awaiting = "approval" /\ approval = NoApproval
  /\ awaiting' = "failed"
  /\ UNCHANGED <<inputs, gate, stage, attempt, renderHash, masterHash,
                 disclosed, manifest, evidence>>

\* Faulty: a refusal is recorded and the run goes on to G90.
RecordAndGoOn ==
  /\ awaiting = "record_g80" /\ Unobstructed
  /\ Record(IF recorded.decision = "approved" THEN "passed" ELSE "failed")
  /\ ProceedTo("run_stage", G90)
  /\ UNCHANGED <<inputs, gate, renderHash, masterHash, disclosed, evidence>>

\* Faulty: every decision is recorded as a pass.
RecordAlwaysPasses ==
  /\ awaiting = "record_g80" /\ Unobstructed
  /\ Record("passed")
  /\ ProceedTo("run_stage", G90)
  /\ UNCHANGED <<inputs, gate, renderHash, masterHash, disclosed, evidence>>

\* Faulty: a refusal stops the run but leaves no row.
RefuseWithoutRow ==
  /\ awaiting = "record_g80" /\ Unobstructed
  /\ IF recorded.decision = "approved"
       THEN Record("passed") /\ ProceedTo("run_stage", G90)
       ELSE awaiting' = "failed" /\ UNCHANGED <<stage, attempt, manifest>>
  /\ UNCHANGED <<inputs, gate, renderHash, masterHash, disclosed, evidence>>

RecordApproval ==
  /\ awaiting = "record_g80" /\ Unobstructed
  /\ IF recorded.decision = "approved"
       THEN /\ Record("passed")
            /\ ProceedTo("run_stage", G90)
            /\ UNCHANGED evidence
       ELSE /\ Record("failed")
            /\ evidence' = [evidence EXCEPT ![stage][attempt] =
                              "approval_rejected"]
            /\ awaiting' = "failed"
            /\ UNCHANGED <<stage, attempt>>
  /\ UNCHANGED <<inputs, gate, renderHash, masterHash, disclosed>>
-----------------------------------------------------------------------------
\* The owner of a face or a voice withdraws consent or grants it again, and
\* services come and go; only what the pending activity meets matters, and
\* nothing makes a script shorter.
ObstacleChanges(o) ==
  /\ o \in Obstructing \ {"script_length"}
  /\ obstacles' = IF o \in obstacles THEN obstacles \ {o}
                                    ELSE obstacles \cup {o}
  /\ UNCHANGED <<modality, awaiting, stage, attempt, renderHash, masterHash,
                 gate, disclosed, manifest, evidence>>

\* A finished workflow takes no further step.
Finished ==
  /\ awaiting \in Ended
  /\ UNCHANGED vars

Workflow ==
  \/ IntakePasses
  \/ \E h \in Hashes : MediaStagePasses(h)
  \/ DisclosurePasses
  \/ PublishPasses
  \/ \E type \in FailureTypes(stage) : StageFails(type)
  \/ FetchIdentity
  \/ RefetchIdentity
  \/ GateOpens
  \/ GateTimesOut
  \/ RecordApproval

Next ==
  \/ Workflow
  \/ \E d \in Decisions, h \in Hashes : Approve(d, h)
  \/ \E o \in Obstacles : ObstacleChanges(o)
  \/ Finished

\* Temporal dispatches the pending activity, retries what raised and fires the
\* gate's timer, for as long as a worker polls the task queue.  An activity
\* owes an answer only while it meets no obstacle, and nobody owes the end of
\* an obstacle.
Fairness == WF_vars(Workflow)

Spec == Init /\ [][Next]_vars

FairSpec == Spec /\ Fairness
-----------------------------------------------------------------------------
(* Properties *)

\* Every variable has the type of what it stands for in the code.
TypeOK ==
  /\ modality \in {"AVATAR", "FACELESS"}
  /\ obstacles \subseteq Obstacles
  /\ awaiting \in Awaits
  /\ stage \in Stages
  /\ attempt \in Attempts
  /\ renderHash \in Hashes \cup {NoHash}
  /\ masterHash \in Hashes \cup {NoHash}
  /\ disclosed \in Hashes \cup {NoHash}
  /\ approval \in Approvals \cup {NoApproval}
  /\ recorded \in Approvals \cup {NoApproval}
  /\ manifest \in [Stages -> [Attempts -> {"none", "passed", "failed"}]]
  /\ evidence \in [Stages -> [Attempts -> Reports]]

Attempted(s) == \E k \in Attempts : manifest[s][k] # "none"
Passed(s)    == \E k \in Attempts : manifest[s][k] = "passed"

\* No stage, the gate included, has a row before everything upstream of it
\* has a PASSED row: retries stay local and nothing downstream ever has to be
\* invalidated (correction_plan.py: "nothing is actually invalidated yet").
UpstreamPassed ==
  \A s \in Stages : Attempted(s) => \A u \in Stages : u < s => Passed(u)

\* A row for attempt k means attempts 1..k-1 all failed validation, each for a
\* type the correction loop may retry: no attempt is skipped, none follows a
\* pass or a terminal failure.
CorrectionHistory ==
  \A s \in Stages, k, j \in Attempts :
    manifest[s][k] # "none" /\ j < k =>
      manifest[s][j] = "failed" /\ evidence[s][j] \in RetryableTypes

\* A run that failed can be explained from what it stored: the stage it stopped
\* at has a FAILED row whose stored report rules out another retry, or it
\* stopped at G80 without ever accepting a decision.
FailureLeavesEvidence ==
  awaiting = "failed" =>
    \/ /\ manifest[stage][attempt] = "failed"
       /\ evidence[stage][attempt] \in FailureTypes(stage)
       /\ ~ Retryable(evidence[stage][attempt], attempt)
    \/ stage = G80 /\ approval = NoApproval /\ ~ Attempted(G80)

\* The publish provider is reached only in a run whose reviewer approved: a
\* rejection, a change request or silence never gets there, whatever signals
\* arrive in whatever phase.
PublishNeedsApproval ==
  Attempted(S100) => manifest[G80][1] = "passed" /\ recorded.decision = "approved"

\* A decision that was accepted once the master existed and then recorded is
\* about that very master, although later signals may replace _approval.
LateApprovalNamesMaster ==
  recorded # NoApproval /\ ~ recorded.early => recorded.hash = masterHash

\* The row an activity leaves when it answers is the row that stays: no retry
\* reuses the number of an attempt that has answered (what several tries of
\* one activity do to its row is StageExecution's RecordMatchesDelivery).
RowsNeverRewritten ==
  [][\A s \in Stages, k \in Attempts :
       manifest[s][k] # "none" => manifest'[s][k] = manifest[s][k]]_vars

\* The verdict on record, and the video a passed S100 has released.
Verdict == CASE manifest[G80][1] = "passed" -> "approved"
             [] manifest[G80][1] = "failed" -> "refused"
             [] OTHER -> "open"
Released == IF Passed(S100) THEN masterHash ELSE NoHash

\* The gate the whole workflow implements.
Gate == INSTANCE PublishGate WITH
  master <- masterHash, verdict <- Verdict, released <- Released

\* Stages, retries, identity fetches and signals together do nothing but
\* assemble one master, decide once about it, and release it if approved.
PipelineImplementsGate == Gate!Spec

\* The run as a chain of stages; the identity is fetched after S00 has passed.
Chain == INSTANCE StageChain WITH
  FirstStage <- S00, GateStage <- G80, LastStage <- S100,
  stage   <- IF awaiting = "fetch_identity" THEN S10 ELSE stage,
  attempt <- IF awaiting = "fetch_identity" THEN 1 ELSE attempt,
  ended   <- IF awaiting \in Ended THEN awaiting ELSE "no"

\* Two correction loops, two stage loops cut at the gate, and fetches in between
\* amount to one chain of stages passed in order and retried in place; module
\* MediaChain implements the same one.
PipelineFollowsChain == Chain!Spec

\* A run ends, approved or not, if from some point on nothing makes its
\* activities raise: identity and voice consent are there, the script fits the
\* voice provider, services answer.  Then no correction loop and no gate waits
\* for ever.  Without the premise a run may never end, since raised exceptions
\* other than a ValidationFailure are retried without end.
RunEnds == <>[]Unobstructed => <>(awaiting \in Ended)

\* g80_approval.py:30 says a decision applies to exactly the video its hash
\* names; here: what is published is the video the recorded decision named.
ApprovalNamesPublishedVideo ==
  Passed(S100) => recorded.hash = masterHash

\* g90_disclosure.py:26 says the disclosure's hash is the master video's.
DisclosureNamesMaster ==
  disclosed # NoHash => disclosed = masterHash
-----------------------------------------------------------------------------
(* The inductive invariant behind the safety properties: the position of the
   coroutine determines which rows exist. *)

\* Only an attempt that is not the last one waits for a fresh identity.
TypeInv ==
  /\ TypeOK
  /\ awaiting = "refetch_identity" => attempt < RetryBudget

\* Everything upstream of the coroutine has passed, nothing downstream of it
\* has been tried.
ChainInv ==
  /\ \A s \in Stages : s < stage => Passed(s)
  /\ \A s \in Stages, k \in Attempts : s > stage => manifest[s][k] = "none"

\* A retryable failure is on record.
FailedRetryably(s, k) ==
  manifest[s][k] = "failed" /\ evidence[s][k] \in RetryableTypes

\* The rows of the stage the coroutine is at, by what it is suspended on.
StageInv ==
  /\ awaiting \in {"run_stage", "approval", "record_g80"} =>
       \A k \in Attempts : k >= attempt => manifest[stage][k] = "none"
  /\ awaiting \in {"run_stage", "refetch_identity"} =>
       \A k \in Attempts : k < attempt => FailedRetryably(stage, k)
  /\ awaiting = "refetch_identity" =>
       /\ stage = S30
       /\ FailedRetryably(stage, attempt)
       /\ \A k \in Attempts : k > attempt => manifest[stage][k] = "none"
  /\ awaiting = "fetch_identity" => stage = S00 /\ Passed(S00)
  /\ awaiting = "completed" => stage = S100 /\ Passed(S100)

\* Where the gate stands, and what has been decided and about which video.
GateInv ==
  /\ awaiting \in {"approval", "record_g80"} => stage = G80
  /\ stage = G80 => /\ awaiting \in {"approval", "record_g80", "failed"}
                    /\ attempt = 1
                    /\ manifest[G80][1] # "passed"
  /\ awaiting = "approval" \/ stage < G80 => recorded = NoApproval
  /\ awaiting = "record_g80" => recorded # NoApproval
  /\ stage > G80 => manifest[G80][1] = "passed" /\ recorded.decision = "approved"

\* The master exists from S60 on, and a late decision names it.
MasterInv ==
  /\ stage <= S60 => masterHash = NoHash
  /\ stage > S60 => masterHash \in Hashes
  /\ approval # NoApproval /\ ~ approval.early =>
       masterHash # NoHash /\ approval.hash = masterHash
  /\ LateApprovalNamesMaster

\* What module AvatarPipelineProofs shows every step to preserve.
IInv == ChainInv /\ StageInv /\ CorrectionHistory /\ GateInv /\ MasterInv
=============================================================================
