------------------------ MODULE AvatarPipelineProofs ------------------------
(***************************************************************************)
(* Proofs about AvatarPipeline, for every retry budget, every set of       *)
(* hashes and every choice of stages that may fail.                        *)
(*                                                                         *)
(* TypeInv is inductive by itself.  IInv is inductive under TypeInv; its   *)
(* parts about rows (ChainInv, StageInv, CorrectionHistory) are shown once *)
(* for "the stage passed, on to the next" and once for "the stage failed", *)
(* its parts about the gate (GateInv, MasterInv) action by action.         *)
(***************************************************************************)
EXTENDS AvatarPipeline, TLAPS

-----------------------------------------------------------------------------
(* Facts about the constants *)

\* Every report a validator can store is a report.
LEMMA FailureTypesAreReports ==
  /\ \A s \in Stages : FailureTypes(s) \subseteq Reports
  /\ "approval_rejected" \in FailureTypes(G80)
BY DEF Reports, FailureTypes, S00, S10, S20, S30, S40, S50, S60, S70, G80, G90,
       S100

\* 1 is an attempt number, attempts are naturals, and a retried attempt stays
\* within the budget.
LEMMA AttemptNumbers ==
  /\ 1 \in Attempts /\ Attempts \subseteq Nat
  /\ \A k \in Attempts : k >= 1
  /\ \A k \in Attempts : k < RetryBudget => k + 1 \in Attempts
BY RetryBudgetAssumption DEF Attempts

\* The stages are the naturals from S00 to S100.
LEMMA StageNumbers ==
  /\ Stages \subseteq Nat /\ ProviderStages \subseteq Stages
  /\ \A s \in Stages : s >= S00 /\ s <= S100
  /\ {S00, S10, S30, S60, S70, G80, G90, S100} \subseteq Stages
  /\ S10 = S00 + 1 /\ G80 = S70 + 1 /\ G90 = G80 + 1 /\ S100 = G90 + 1
  /\ \A s \in S10..S70 : s + 1 \in Stages
BY DEF ProviderStages, Stages, S00, S10, S30, S60, S70, G80, G90, S100

\* No decision is no approval.
LEMMA NoApprovalIsNone == NoApproval \notin Approvals
BY HashAssumption DEF NoApproval, Approvals, Decisions

\* A stored row changes that row only.
LEMMA RecordsOneRow ==
  ASSUME TypeOK, NEW st, Record(st)
  PROVE  \A s \in Stages, k \in Attempts :
           manifest'[s][k] = IF s = stage /\ k = attempt THEN st
                                                         ELSE manifest[s][k]
BY DEF TypeOK, Record
-----------------------------------------------------------------------------
(* Types *)

\* A step of the workflow keeps every variable in its type.
LEMMA WorkflowKeepsTypes == TypeInv /\ Workflow => TypeInv'
<1> SUFFICES ASSUME TypeInv, Workflow PROVE TypeInv'
  OBVIOUS
<1> USE AttemptNumbers, HashAssumption DEF TypeInv, TypeOK
<1>s. {S00, S10, S70, G80, G90, S100} \subseteq Stages
  BY StageNumbers
<1>1. CASE IntakePasses
  BY <1>1, <1>s DEF IntakePasses, Record, ProceedTo, Awaits, inputs, gate
<1>2. ASSUME NEW h \in Hashes, MediaStagePasses(h) PROVE TypeInv'
  <2>1. stage + 1 \in Stages
    BY <1>2, StageNumbers DEF MediaStagePasses, LastLoopStage
  <2>2. obstacles' \subseteq Obstacles
    BY <1>2 DEF MediaStagePasses, Obstacles
  <2> QED
    BY <1>2, <2>1, <2>2, <1>s
       DEF MediaStagePasses, Record, ProceedTo, Awaits, inputs, gate
<1>3. CASE DisclosurePasses
  BY <1>3, <1>s DEF DisclosurePasses, Record, ProceedTo, Awaits, inputs, gate
<1>4. CASE PublishPasses
  BY <1>4, <1>s
     DEF PublishPasses, Record, ProceedTo, Awaits, Ended, inputs, gate
<1>5. ASSUME NEW type \in FailureTypes(stage), StageFails(type) PROVE TypeInv'
  <2>1. type \in Reports
    BY FailureTypesAreReports
  <2>2. attempt' \in Attempts
    BY <1>5 DEF StageFails, Retryable
  <2>3. evidence' \in [Stages -> [Attempts -> Reports]]
    BY <1>5, <2>1 DEF StageFails
  <2>4. awaiting' \in Awaits
    BY <1>5 DEF StageFails, Awaits, Ended
  <2>5. manifest' \in [Stages -> [Attempts -> {"none", "passed", "failed"}]]
    BY <1>5 DEF StageFails, Record
  <2>6. awaiting' = "refetch_identity" => attempt' < RetryBudget
    BY <1>5 DEF StageFails, Retryable
  <2> QED
    BY <1>5, <2>2, <2>3, <2>4, <2>5, <2>6 DEF StageFails, inputs, gate
<1>6. CASE FetchIdentity
  BY <1>6, <1>s DEF FetchIdentity, ProceedTo, Awaits, inputs, gate
<1>7. CASE RefetchIdentity
  BY <1>7 DEF RefetchIdentity, Awaits, inputs, gate
<1>8. CASE GateOpens
  BY <1>8 DEF GateOpens, Awaits, inputs
<1>9. CASE GateTimesOut
  BY <1>9 DEF GateTimesOut, Awaits, Ended, inputs, gate
<1>10. CASE RecordApproval
  <2>1. "approval_rejected" \in Reports
    BY FailureTypesAreReports, StageNumbers
  <2>2. CASE recorded.decision = "approved"
    <3>1. manifest' \in [Stages -> [Attempts -> {"none", "passed", "failed"}]]
      BY <1>10, <2>2 DEF RecordApproval, Record
    <3> QED
      BY <1>10, <1>s, <2>2, <3>1 DEF RecordApproval, ProceedTo, Awaits, inputs, gate
  <2>3. CASE recorded.decision # "approved"
    <3>1. manifest' \in [Stages -> [Attempts -> {"none", "passed", "failed"}]]
      BY <1>10, <2>3 DEF RecordApproval, Record
    <3>2. evidence' \in [Stages -> [Attempts -> Reports]]
      BY <1>10, <2>3, <2>1 DEF RecordApproval
    <3> QED
      BY <1>10, <2>3, <3>1, <3>2 DEF RecordApproval, Awaits, Ended, inputs, gate
  <2> QED
    BY <2>2, <2>3
<1> QED
  BY <1>1, <1>2, <1>3, <1>4, <1>5, <1>6, <1>7, <1>8, <1>9, <1>10 DEF Workflow

\* So does every other step.
LEMMA NextKeepsTypes == TypeInv /\ [Next]_vars => TypeInv'
<1> SUFFICES ASSUME TypeInv, [Next]_vars PROVE TypeInv'
  OBVIOUS
<1>1. CASE Workflow
  BY <1>1, WorkflowKeepsTypes
<1>2. ASSUME NEW d \in Decisions, NEW h \in Hashes, Approve(d, h) PROVE TypeInv'
  <2>1. approval' \in Approvals \cup {NoApproval}
    BY <1>2 DEF TypeInv, TypeOK, Approve, Approvals
  <2> QED
    BY <1>2, <2>1 DEF TypeInv, TypeOK, Approve, inputs
<1>3. ASSUME NEW o \in Obstacles, ObstacleChanges(o) PROVE TypeInv'
  BY <1>3 DEF TypeInv, TypeOK, ObstacleChanges, gate
<1>4. CASE UNCHANGED vars
  BY <1>4 DEF TypeInv, TypeOK, vars
<1> QED
  BY <1>1, <1>2, <1>3, <1>4 DEF Next, Finished

\* A run starts in its types.
LEMMA InitHasTypes == Init => TypeInv
BY AttemptNumbers, StageNumbers, RetryBudgetAssumption
   DEF Init, TypeInv, TypeOK, Awaits, NoRows, Reports

\* In every state the inductive type invariant holds.
LEMMA TypeInvariant == Spec => []TypeInv
BY InitHasTypes, NextKeepsTypes, PTL DEF Spec

\* Every variable always has the type of what it stands for in the code; the
\* attempt counter in particular never leaves the budget.
THEOREM TypeCorrect == Spec => []TypeOK
<1>1. TypeInv => TypeOK
  BY DEF TypeInv
<1> QED
  BY <1>1, TypeInvariant, PTL
-----------------------------------------------------------------------------
(* The rows *)

RowsInv == ChainInv /\ StageInv /\ CorrectionHistory

\* A stage that runs, or the gate, passes and the coroutine goes on to the
\* next stage.
LEMMA PassKeepsRows ==
  ASSUME TypeInv, RowsInv,
         awaiting \in {"run_stage", "record_g80"},
         awaiting = "record_g80" => attempt = 1,
         Record("passed"), evidence' = evidence,
         stage' = stage + 1, stage' \in Stages, attempt' = 1,
         awaiting' \in {"run_stage", "approval"}
  PROVE  RowsInv'
<1> USE AttemptNumbers, StageNumbers
<1>t. stage \in Stages /\ attempt \in Attempts /\ stage \in Nat
  BY DEF TypeInv, TypeOK
<1>r. \A s \in Stages, k \in Attempts :
        manifest'[s][k] = IF s = stage /\ k = attempt THEN "passed"
                                                      ELSE manifest[s][k]
  BY RecordsOneRow DEF TypeInv
<1>n. \A k \in Attempts : k >= attempt => manifest[stage][k] = "none"
  BY DEF RowsInv, StageInv
<1>f. \A k \in Attempts : k < attempt => FailedRetryably(stage, k)
  BY DEF RowsInv, StageInv
<1>1. ChainInv'
  <2>1. ASSUME NEW s \in Stages, s < stage' PROVE Passed(s)'
    <3>1. CASE s = stage
      BY <3>1, <1>t, <1>r DEF Passed
    <3>2. CASE s # stage
      BY <2>1, <3>2, <1>t, <1>r DEF Passed, RowsInv, ChainInv
    <3> QED
      BY <3>1, <3>2
  <2>2. ASSUME NEW s \in Stages, NEW k \in Attempts, s > stage'
        PROVE manifest'[s][k] = "none"
    BY <2>2, <1>t, <1>r DEF RowsInv, ChainInv
  <2> QED
    BY <2>1, <2>2 DEF ChainInv
<1>2. StageInv'
  <2>1. \A k \in Attempts : manifest'[stage'][k] = "none"
    BY <1>t, <1>r DEF RowsInv, ChainInv
  <2>2. \A k \in Attempts : ~ (k < attempt')
    BY <1>t
  <2> QED
    BY <2>1, <2>2 DEF StageInv
<1>3. CorrectionHistory'
  <2> SUFFICES ASSUME NEW s \in Stages, NEW k \in Attempts, NEW j \in Attempts,
                      manifest'[s][k] # "none", j < k
               PROVE  manifest'[s][j] = "failed" /\ evidence[s][j] \in RetryableTypes
    BY DEF CorrectionHistory
  <2>1. CASE s = stage
    BY <2>1, <1>t, <1>r, <1>n, <1>f DEF FailedRetryably
  <2>2. CASE s # stage
    BY <2>2, <1>t, <1>r DEF RowsInv, CorrectionHistory
  <2> QED
    BY <2>1, <2>2
<1> QED
  BY <1>1, <1>2, <1>3 DEF RowsInv

\* A stage passes and the coroutine stays where it is: S00 while the identity
\* is fetched, S100 for good.
LEMMA LastPassKeepsRows ==
  ASSUME TypeInv, RowsInv, awaiting = "run_stage",
         Record("passed"), evidence' = evidence, stage' = stage,
         \/ awaiting' = "fetch_identity" /\ stage = S00
         \/ awaiting' = "completed" /\ stage = S100
  PROVE  RowsInv'
<1> USE AttemptNumbers, StageNumbers
<1>t. stage \in Stages /\ attempt \in Attempts /\ stage \in Nat
  BY DEF TypeInv, TypeOK
<1>r. \A s \in Stages, k \in Attempts :
        manifest'[s][k] = IF s = stage /\ k = attempt THEN "passed"
                                                      ELSE manifest[s][k]
  BY RecordsOneRow DEF TypeInv
<1>n. \A k \in Attempts : k >= attempt => manifest[stage][k] = "none"
  BY DEF RowsInv, StageInv
<1>f. \A k \in Attempts : k < attempt => FailedRetryably(stage, k)
  BY DEF RowsInv, StageInv
<1>1. ChainInv'
  <2>1. ASSUME NEW s \in Stages, s < stage' PROVE Passed(s)'
    BY <2>1, <1>t, <1>r DEF Passed, RowsInv, ChainInv
  <2>2. ASSUME NEW s \in Stages, NEW k \in Attempts, s > stage'
        PROVE manifest'[s][k] = "none"
    <3>1. s > stage /\ s # stage /\ manifest[s][k] = "none"
      BY <2>2, <1>t DEF RowsInv, ChainInv
    <3> QED
      BY <3>1, <1>r
  <2> QED
    BY <2>1, <2>2 DEF ChainInv
<1>2. StageInv'
  <2>1. \E k \in Attempts : manifest'[stage'][k] = "passed"
    BY <1>t, <1>r
  <2>2. awaiting' = "fetch_identity" => stage' = S00 /\ Passed(S00)'
    BY <2>1 DEF Passed
  <2>3. awaiting' = "completed" => stage' = S100 /\ Passed(S100)'
    BY <2>1 DEF Passed
  <2> QED
    BY <2>2, <2>3 DEF StageInv
<1>3. CorrectionHistory'
  <2> SUFFICES ASSUME NEW s \in Stages, NEW k \in Attempts, NEW j \in Attempts,
                      manifest'[s][k] # "none", j < k
               PROVE  manifest'[s][j] = "failed" /\ evidence[s][j] \in RetryableTypes
    BY DEF CorrectionHistory
  <2>1. CASE s = stage
    BY <2>1, <1>t, <1>r, <1>n, <1>f DEF FailedRetryably
  <2>2. CASE s # stage
    BY <2>2, <1>t, <1>r DEF RowsInv, CorrectionHistory
  <2> QED
    BY <2>1, <2>2
<1> QED
  BY <1>1, <1>2, <1>3 DEF RowsInv

\* A stage, or the gate, fails: the run ends, the attempt is repeated, or the
\* identity is fetched anew first.
LEMMA FailureKeepsRows ==
  ASSUME TypeInv, RowsInv, NEW type \in Reports,
         awaiting \in {"run_stage", "record_g80"},
         awaiting = "record_g80" => attempt = 1,
         Record("failed"),
         evidence' = [evidence EXCEPT ![stage][attempt] = type],
         stage' = stage,
         \/ awaiting' = "failed" /\ attempt' = attempt
         \/ /\ awaiting' = "refetch_identity" /\ attempt' = attempt
            /\ type \in RetryableTypes /\ stage = S30
         \/ /\ awaiting' = "run_stage" /\ attempt' = attempt + 1
            /\ type \in RetryableTypes /\ awaiting = "run_stage"
  PROVE  RowsInv'
<1> USE AttemptNumbers, StageNumbers
<1>t. stage \in Stages /\ attempt \in Attempts /\ stage \in Nat
  BY DEF TypeInv, TypeOK
<1>r. \A s \in Stages, k \in Attempts :
        manifest'[s][k] = IF s = stage /\ k = attempt THEN "failed"
                                                      ELSE manifest[s][k]
  BY RecordsOneRow DEF TypeInv
<1>e. \A s \in Stages, k \in Attempts :
        evidence'[s][k] = IF s = stage /\ k = attempt THEN type
                                                      ELSE evidence[s][k]
  BY DEF TypeInv, TypeOK
<1>n. \A k \in Attempts : k >= attempt => manifest[stage][k] = "none"
  BY DEF RowsInv, StageInv
<1>f. \A k \in Attempts : k < attempt => FailedRetryably(stage, k)
  BY DEF RowsInv, StageInv
<1>g. \A k \in Attempts : k < attempt => FailedRetryably(stage, k)'
  BY <1>t, <1>f, <1>r, <1>e DEF FailedRetryably
<1>h. manifest'[stage][attempt] = "failed" /\ evidence'[stage][attempt] = type
  BY <1>t, <1>r, <1>e
<1>1. ChainInv'
  <2>1. ASSUME NEW s \in Stages, s < stage' PROVE Passed(s)'
    BY <2>1, <1>t, <1>r DEF Passed, RowsInv, ChainInv
  <2>2. ASSUME NEW s \in Stages, NEW k \in Attempts, s > stage'
        PROVE manifest'[s][k] = "none"
    <3>1. s > stage /\ s # stage /\ manifest[s][k] = "none"
      BY <2>2, <1>t DEF RowsInv, ChainInv
    <3> QED
      BY <3>1, <1>r
  <2> QED
    BY <2>1, <2>2 DEF ChainInv
<1>2. StageInv'
  <2>1. CASE awaiting' = "failed"
    BY <2>1 DEF StageInv
  <2>2. CASE /\ awaiting' = "refetch_identity" /\ attempt' = attempt
             /\ type \in RetryableTypes /\ stage = S30
    <3>1. \A k \in Attempts : k > attempt => manifest'[stage][k] = "none"
      BY <1>t, <1>n, <1>r
    <3> QED
      BY <2>2, <3>1, <1>g, <1>h DEF StageInv, FailedRetryably
  <2>3. CASE /\ awaiting' = "run_stage" /\ attempt' = attempt + 1
             /\ type \in RetryableTypes
    <3>1. \A k \in Attempts : k >= attempt + 1 => manifest'[stage][k] = "none"
      BY <1>t, <1>n, <1>r
    <3>2. \A k \in Attempts : k < attempt + 1 => FailedRetryably(stage, k)'
      <4>1. \A k \in Attempts : k < attempt + 1 => k < attempt \/ k = attempt
        BY <1>t
      <4> QED
        BY <4>1, <1>g, <1>h, <2>3 DEF FailedRetryably
    <3> QED
      BY <2>3, <3>1, <3>2 DEF StageInv, FailedRetryably
  <2> QED
    BY <2>1, <2>2, <2>3
<1>3. CorrectionHistory'
  <2> SUFFICES ASSUME NEW s \in Stages, NEW k \in Attempts, NEW j \in Attempts,
                      manifest'[s][k] # "none", j < k
               PROVE  manifest'[s][j] = "failed" /\ evidence'[s][j] \in RetryableTypes
    BY DEF CorrectionHistory
  <2>1. CASE s = stage
    <3>1. k = attempt \/ k < attempt
      BY <2>1, <1>t, <1>n, <1>r
    <3>2. FailedRetryably(stage, j)'
      BY <3>1, <1>t, <1>g
    <3> QED
      BY <3>2, <2>1 DEF FailedRetryably
  <2>2. CASE s # stage
    BY <2>2, <1>t, <1>r, <1>e DEF RowsInv, CorrectionHistory
  <2> QED
    BY <2>1, <2>2
<1> QED
  BY <1>1, <1>2, <1>3 DEF RowsInv

\* Whatever leaves the rows, the reports and the coroutine alone keeps them.
LEMMA StutterKeepsRows ==
  ASSUME RowsInv, UNCHANGED <<awaiting, stage, attempt, manifest, evidence>>
  PROVE  RowsInv'
BY DEF RowsInv, ChainInv, StageInv, CorrectionHistory, FailedRetryably, Passed

\* A step of the workflow keeps the rows in order.
LEMMA WorkflowKeepsRows == TypeInv /\ IInv /\ Workflow => RowsInv'
<1> SUFFICES ASSUME TypeInv, IInv, Workflow PROVE RowsInv'
  OBVIOUS
<1>r. RowsInv
  BY DEF IInv, RowsInv
<1>t. stage \in Stages /\ stage' \in Stages /\ attempt \in Attempts
  BY WorkflowKeepsTypes DEF TypeInv, TypeOK
<1>1. CASE IntakePasses
  <2>1. CASE modality = "AVATAR"
    BY <1>1, <2>1, <1>r, LastPassKeepsRows DEF IntakePasses, ProceedTo
  <2>2. CASE modality # "AVATAR"
    BY <1>1, <2>2, <1>r, <1>t, StageNumbers, PassKeepsRows
       DEF IntakePasses, ProceedTo
  <2> QED
    BY <2>1, <2>2
<1>2. ASSUME NEW h \in Hashes, MediaStagePasses(h) PROVE RowsInv'
  BY <1>2, <1>r, <1>t, StageNumbers, PassKeepsRows
     DEF MediaStagePasses, LastLoopStage, ProceedTo
<1>3. CASE DisclosurePasses
  BY <1>3, <1>r, <1>t, StageNumbers, PassKeepsRows DEF DisclosurePasses, ProceedTo
<1>4. CASE PublishPasses
  BY <1>4, <1>r, LastPassKeepsRows DEF PublishPasses, ProceedTo
<1>5. ASSUME NEW type \in FailureTypes(stage), StageFails(type) PROVE RowsInv'
  <2>1. Retryable(type, attempt) => type \in RetryableTypes
    BY DEF Retryable
  <2>2. \/ awaiting' = "failed" /\ attempt' = attempt
        \/ /\ awaiting' = "refetch_identity" /\ attempt' = attempt
           /\ type \in RetryableTypes /\ stage = S30
        \/ /\ awaiting' = "run_stage" /\ attempt' = attempt + 1
           /\ type \in RetryableTypes /\ awaiting = "run_stage"
    BY <1>5, <2>1 DEF StageFails
  <2>3. /\ Record("failed") /\ awaiting = "run_stage" /\ stage' = stage
        /\ evidence' = [evidence EXCEPT ![stage][attempt] = type]
    BY <1>5 DEF StageFails
  <2>4. /\ awaiting \in {"run_stage", "record_g80"}
        /\ awaiting = "record_g80" => attempt = 1
    BY <2>3
  <2>5. type \in Reports
    BY <1>t, FailureTypesAreReports
  <2> QED
    BY <1>r, <2>2, <2>3, <2>4, <2>5, FailureKeepsRows
<1>6. CASE FetchIdentity
  <2>1. /\ stage = S00 /\ Passed(S00) /\ manifest' = manifest
        /\ evidence' = evidence /\ stage' = S10 /\ awaiting' = "run_stage"
        /\ attempt' = 1
    BY <1>6, <1>r DEF RowsInv, StageInv, FetchIdentity, ProceedTo
  <2>2. \A s \in Stages : s < S10 => s = S00
    BY StageNumbers DEF S00, S10
  <2>3. \A s \in Stages : s > S10 => s > S00
    BY StageNumbers DEF S00, S10
  <2>4. ChainInv'
    BY <2>1, <2>2, <2>3, <1>r DEF RowsInv, ChainInv, Passed
  <2>5. \A k \in Attempts : manifest[S10][k] = "none" /\ ~ (k < 1)
    BY <2>1, <1>r, StageNumbers, AttemptNumbers DEF RowsInv, ChainInv, S00, S10
  <2>6. StageInv'
    BY <2>1, <2>5 DEF StageInv
  <2> QED
    BY <2>1, <2>4, <2>6, <1>r DEF RowsInv, CorrectionHistory
<1>7. CASE RefetchIdentity
  <2>1. /\ manifest' = manifest /\ evidence' = evidence /\ stage' = stage
        /\ awaiting = "refetch_identity"
        /\ awaiting' = "run_stage" /\ attempt' = attempt + 1
    BY <1>7 DEF RefetchIdentity
  <2>2. ChainInv'
    BY <2>1, <1>r DEF RowsInv, ChainInv, Passed
  <2>3. StageInv'
    BY <2>1, <1>r, <1>t, AttemptNumbers DEF RowsInv, StageInv, FailedRetryably
  <2> QED
    BY <2>1, <2>2, <2>3, <1>r DEF RowsInv, CorrectionHistory
<1>8. CASE GateOpens
  <2>1. StageInv'
    BY <1>8, <1>r DEF GateOpens, RowsInv, StageInv, FailedRetryably
  <2> QED
    BY <1>8, <1>r, <2>1 DEF GateOpens, RowsInv, ChainInv, CorrectionHistory, Passed
<1>9. CASE GateTimesOut
  <2>1. StageInv'
    BY <1>9 DEF GateTimesOut, StageInv
  <2> QED
    BY <1>9, <1>r, <2>1
       DEF GateTimesOut, gate, RowsInv, ChainInv, CorrectionHistory, Passed
<1>10. CASE RecordApproval
  <2>1. stage = G80 /\ attempt = 1
    BY <1>10 DEF IInv, GateInv, RecordApproval
  <2>2. CASE recorded.decision = "approved"
    BY <1>10, <1>r, <1>t, <2>1, <2>2, StageNumbers, PassKeepsRows
       DEF RecordApproval, ProceedTo
  <2>3. CASE recorded.decision # "approved"
    BY <1>10, <1>r, <2>1, <2>3, FailureTypesAreReports, StageNumbers,
       FailureKeepsRows
       DEF RecordApproval
  <2> QED
    BY <2>2, <2>3
<1> QED
  BY <1>1, <1>2, <1>3, <1>4, <1>5, <1>6, <1>7, <1>8, <1>9, <1>10 DEF Workflow
-----------------------------------------------------------------------------
(* The gate *)

\* A step of the workflow keeps the gate's state in order.
LEMMA WorkflowKeepsGate == TypeInv /\ IInv /\ Workflow => GateInv'
<1> SUFFICES ASSUME TypeInv, IInv, Workflow PROVE GateInv'
  OBVIOUS
<1> USE DEF GateInv
<1>g. GateInv
  BY DEF IInv
<1>n. /\ S00 < G80 /\ S10 < G80 /\ S70 < G80 /\ G80 < G90 /\ G90 < S100
      /\ {S00, S10, S70, G80, G90, S100} \subseteq Nat
  BY DEF S00, S10, S70, G80, G90, S100
<1>t. stage \in Nat /\ stage' \in Stages /\ stage \in Stages
      /\ attempt \in Attempts
  BY WorkflowKeepsTypes, StageNumbers DEF TypeInv, TypeOK
<1>k. G80 \in Stages /\ 1 \in Attempts
  BY StageNumbers, AttemptNumbers
\* Only a row of G80 itself touches its row.
<1>r. ASSUME NEW st, Record(st), stage # G80
      PROVE  manifest'[G80][1] = manifest[G80][1]
  BY <1>r, <1>k, RecordsOneRow DEF TypeInv
<1>1. CASE IntakePasses
  BY <1>1, <1>n, <1>g DEF IntakePasses, ProceedTo, gate
<1>2. ASSUME NEW h \in Hashes, MediaStagePasses(h) PROVE GateInv'
  <2>1. stage < G80 /\ stage \in Nat /\ recorded' = recorded
    BY <1>2, <1>t DEF MediaStagePasses, LastLoopStage, S70, G80, S10, gate
  <2>2. manifest'[G80][1] = "none"
    <3>1. manifest[G80][1] = "none"
      BY <2>1, <1>k, <1>t, <1>n DEF IInv, ChainInv
    <3>2. Record("passed") /\ stage # G80
      BY <1>2, <2>1, <1>n DEF MediaStagePasses
    <3> QED
      BY <3>1, <3>2, <1>r
  <2>3. CASE stage = S70
    BY <1>2, <2>1, <2>2, <2>3, <1>g, <1>n
       DEF MediaStagePasses, LastLoopStage, ProceedTo
  <2>4. CASE stage # S70
    <3>1. stage' = stage + 1 /\ stage' < G80 /\ awaiting' = "run_stage"
      BY <1>2, <2>4, <2>1, <1>t
         DEF MediaStagePasses, LastLoopStage, ProceedTo, S10, S70, G80
    <3> QED
      BY <3>1, <2>1, <1>g, <1>n
  <2> QED
    BY <2>3, <2>4
<1>3. CASE DisclosurePasses
  <2>1. Record("passed") /\ stage # G80 /\ stage > G80
    BY <1>3, <1>n DEF DisclosurePasses
  <2> QED
    BY <1>3, <2>1, <1>r, <1>n, <1>g DEF DisclosurePasses, ProceedTo, gate
<1>4. CASE PublishPasses
  <2>1. Record("passed") /\ stage # G80 /\ stage > G80
    BY <1>4, <1>n DEF PublishPasses
  <2> QED
    BY <1>4, <2>1, <1>r, <1>n, <1>g DEF PublishPasses, ProceedTo, gate
<1>5. ASSUME NEW type \in FailureTypes(stage), StageFails(type) PROVE GateInv'
  <2>1. /\ Record("failed") /\ awaiting = "run_stage" /\ stage' = stage
        /\ recorded' = recorded
        /\ awaiting' \in {"failed", "refetch_identity", "run_stage"}
    BY <1>5 DEF StageFails, gate
  <2>2. stage # G80 /\ manifest'[G80][1] = manifest[G80][1]
    BY <2>1, <1>g, <1>r
  <2> QED
    BY <2>1, <2>2, <1>g
<1>6. CASE FetchIdentity
  <2>1. stage = S00
    BY <1>6 DEF IInv, StageInv, FetchIdentity
  <2> QED
    BY <1>6, <2>1, <1>n, <1>g DEF FetchIdentity, ProceedTo, gate
<1>7. CASE RefetchIdentity
  <2>1. stage # G80 /\ stage' = stage /\ recorded' = recorded
        /\ manifest' = manifest /\ awaiting' = "run_stage"
    BY <1>7, <1>g DEF RefetchIdentity, gate
  <2> QED
    BY <2>1, <1>g
<1>8. CASE GateOpens
  BY <1>8, <1>g, <1>n DEF GateOpens
<1>9. CASE GateTimesOut
  BY <1>9, <1>g, <1>n DEF GateTimesOut, gate
<1>10. CASE RecordApproval
  <2>1. stage = G80 /\ attempt = 1
    BY <1>10, <1>g DEF RecordApproval
  <2>2. \A st : Record(st) => manifest'[G80][1] = st
    BY <2>1, <1>k, RecordsOneRow DEF TypeInv
  <2>3. CASE recorded.decision = "approved"
    BY <1>10, <2>1, <2>2, <2>3, <1>n DEF RecordApproval, ProceedTo, gate
  <2>4. CASE recorded.decision # "approved"
    BY <1>10, <2>1, <2>2, <2>4, <1>n, <1>g DEF RecordApproval, gate
  <2> QED
    BY <2>3, <2>4
<1> QED
  BY <1>1, <1>2, <1>3, <1>4, <1>5, <1>6, <1>7, <1>8, <1>9, <1>10 DEF Workflow

\* A step of the workflow keeps the decision about the master it has.
LEMMA WorkflowKeepsMaster == TypeInv /\ IInv /\ Workflow => MasterInv'
<1> SUFFICES ASSUME TypeInv, IInv, Workflow PROVE MasterInv'
  OBVIOUS
<1> USE DEF MasterInv, LateApprovalNamesMaster
<1>m. MasterInv /\ GateInv
  BY DEF IInv
<1>n. /\ S00 <= S60 /\ S10 <= S60 /\ G80 > S60 /\ G90 > S60 /\ S100 > S60
      /\ {S00, S10, S60, S70, G80, G90, S100} \subseteq Nat
  BY DEF S00, S10, S60, S70, G80, G90, S100
<1>t. stage \in Nat
  BY StageNumbers DEF TypeInv, TypeOK
<1>1. CASE IntakePasses
  BY <1>1, <1>n, <1>m DEF IntakePasses, ProceedTo, gate
<1>2. ASSUME NEW h \in Hashes, MediaStagePasses(h) PROVE MasterInv'
  <2>1. /\ approval' = approval /\ recorded' = recorded /\ stage < G80
        /\ stage' = stage + 1
        /\ masterHash' = IF stage = S60 THEN h ELSE masterHash
    BY <1>2, <1>t DEF MediaStagePasses, LastLoopStage, ProceedTo, gate, S10, S70, G80
  <2>2. recorded = NoApproval
    BY <2>1, <1>m DEF GateInv
  <2>3. CASE stage = S60
    BY <2>1, <2>2, <2>3, <1>m, <1>n, HashAssumption
  <2>4. CASE stage # S60
    <3>1. stage + 1 <= S60 <=> stage <= S60
      BY <2>4, <1>t, <1>n
    <3> QED
      BY <2>1, <2>2, <2>4, <3>1, <1>m, <1>n, <1>t
  <2> QED
    BY <2>3, <2>4
<1>3. CASE DisclosurePasses
  BY <1>3, <1>n, <1>m DEF DisclosurePasses, ProceedTo, gate
<1>4. CASE PublishPasses
  BY <1>4, <1>n, <1>m DEF PublishPasses, ProceedTo, gate
<1>5. ASSUME NEW type \in FailureTypes(stage), StageFails(type) PROVE MasterInv'
  BY <1>5, <1>m DEF StageFails, gate
<1>6. CASE FetchIdentity
  <2>1. stage = S00
    BY <1>6 DEF IInv, StageInv, FetchIdentity
  <2> QED
    BY <1>6, <2>1, <1>n, <1>m DEF FetchIdentity, ProceedTo, gate
<1>7. CASE RefetchIdentity
  BY <1>7, <1>m DEF RefetchIdentity, gate
<1>8. CASE GateOpens
  BY <1>8, <1>m DEF GateOpens
<1>9. CASE GateTimesOut
  BY <1>9, <1>m DEF GateTimesOut, gate
<1>10. CASE RecordApproval
  <2>1. /\ stage = G80 /\ stage' \in {G80, G90}
        /\ UNCHANGED <<approval, recorded, masterHash>>
    BY <1>10, <1>m DEF RecordApproval, ProceedTo, GateInv, gate
  <2> QED
    BY <2>1, <1>m, <1>n
<1> QED
  BY <1>1, <1>2, <1>3, <1>4, <1>5, <1>6, <1>7, <1>8, <1>9, <1>10 DEF Workflow

\* A signal changes _approval and nothing else, and a late one only to name
\* the master.
LEMMA ApproveKeepsInv ==
  ASSUME TypeInv, IInv, NEW d \in Decisions, NEW h \in Hashes, Approve(d, h)
  PROVE  IInv'
<1>1. /\ UNCHANGED <<awaiting, stage, attempt, manifest, evidence>>
      /\ UNCHANGED <<masterHash, recorded>>
  BY DEF Approve
<1>2. RowsInv'
  BY <1>1, StutterKeepsRows DEF IInv, RowsInv
<1>3. GateInv'
  BY <1>1 DEF IInv, GateInv
<1>4. approval' # NoApproval /\ ~ approval'.early =>
        masterHash # NoHash /\ approval'.hash = masterHash
  <2>1. CASE Accepts(h)
    BY <2>1 DEF Approve, Accepts
  <2>2. CASE ~ Accepts(h)
    BY <2>2 DEF Approve, IInv, MasterInv
  <2> QED
    BY <2>1, <2>2
<1>5. MasterInv'
  BY <1>1, <1>4 DEF IInv, MasterInv, LateApprovalNamesMaster
<1> QED
  BY <1>2, <1>3, <1>5 DEF IInv, RowsInv

\* Every step keeps the inductive invariant.
LEMMA NextKeepsInv == TypeInv /\ IInv /\ [Next]_vars => IInv'
<1> SUFFICES ASSUME TypeInv, IInv, [Next]_vars PROVE IInv'
  OBVIOUS
<1>1. CASE Workflow
  BY <1>1, WorkflowKeepsRows, WorkflowKeepsGate, WorkflowKeepsMaster
     DEF IInv, RowsInv
<1>2. ASSUME NEW d \in Decisions, NEW h \in Hashes, Approve(d, h) PROVE IInv'
  BY <1>2, ApproveKeepsInv
<1>3. CASE (\E o \in Obstacles : ObstacleChanges(o)) \/ UNCHANGED vars
  <2>1. UNCHANGED <<awaiting, stage, attempt, manifest, evidence, masterHash,
                    approval, recorded>>
    BY <1>3 DEF ObstacleChanges, gate, vars
  <2>2. RowsInv'
    BY <2>1, StutterKeepsRows DEF IInv, RowsInv
  <2>3. GateInv' /\ MasterInv'
    BY <2>1 DEF IInv, GateInv, MasterInv, LateApprovalNamesMaster
  <2> QED
    BY <2>2, <2>3 DEF IInv, RowsInv
<1> QED
  BY <1>1, <1>2, <1>3 DEF Next, Finished

\* A run starts with no rows, no master and no decision.
LEMMA InitHasInv == Init => IInv
<1> SUFFICES ASSUME Init PROVE IInv
  OBVIOUS
<1> USE DEF Init
<1>1. \A s \in Stages, k \in Attempts : manifest[s][k] = "none"
  BY DEF NoRows
<1>2. \A s \in Stages : ~ (s < stage)
  BY StageNumbers DEF S00
<1>3. \A k \in Attempts : ~ (k < attempt)
  BY AttemptNumbers
<1>4. ChainInv /\ CorrectionHistory
  BY <1>1, <1>2 DEF ChainInv, CorrectionHistory
<1>5. StageInv
  BY <1>1, <1>3, StageNumbers DEF StageInv
<1>6. GateInv /\ MasterInv
  BY DEF GateInv, MasterInv, LateApprovalNamesMaster, S00, S60, G80
<1> QED
  BY <1>4, <1>5, <1>6 DEF IInv

\* In every state the position of the coroutine determines the rows.
LEMMA Invariance == Spec => [](TypeInv /\ IInv)
<1>1. Init => IInv
  BY InitHasInv
<1>2. TypeInv /\ IInv /\ [Next]_vars => IInv'
  BY NextKeepsInv
<1> QED
  BY <1>1, <1>2, TypeInvariant, PTL DEF Spec
-----------------------------------------------------------------------------
(* The safety properties *)

\* No stage has a row before everything upstream of it has passed.
THEOREM UpstreamAlwaysPassed == Spec => []UpstreamPassed
<1>1. TypeInv /\ IInv => UpstreamPassed
  <2> SUFFICES ASSUME TypeInv, IInv, NEW s \in Stages, Attempted(s),
                      NEW u \in Stages, u < s
               PROVE  Passed(u)
    BY DEF UpstreamPassed
  <2>1. ~ (s > stage)
    BY DEF IInv, ChainInv, Attempted
  <2>2. u < stage
    BY <2>1, StageNumbers DEF TypeInv, TypeOK
  <2> QED
    BY <2>2 DEF IInv, ChainInv
<1> QED
  BY <1>1, Invariance, PTL

\* Attempts are made in order, each after a retryable failure of the last.
THEOREM CorrectionHistoryHolds == Spec => []CorrectionHistory
<1>1. IInv => CorrectionHistory
  BY DEF IInv
<1> QED
  BY <1>1, Invariance, PTL

\* Nothing is published without the reviewer's approval on record.
THEOREM PublishingIsApproved == Spec => []PublishNeedsApproval
<1>1. TypeInv /\ IInv => PublishNeedsApproval
  <2> SUFFICES ASSUME TypeInv, IInv, Attempted(S100)
               PROVE  manifest[G80][1] = "passed" /\ recorded.decision = "approved"
    BY DEF PublishNeedsApproval
  <2>1. ~ (S100 > stage)
    BY StageNumbers DEF IInv, ChainInv, Attempted
  <2>2. stage > G80
    BY <2>1, StageNumbers DEF TypeInv, TypeOK, G80, S100
  <2> QED
    BY <2>2 DEF IInv, GateInv
<1> QED
  BY <1>1, Invariance, PTL

\* A decision accepted once the master existed is about that master.
THEOREM LateApprovalsNameMaster == Spec => []LateApprovalNamesMaster
<1>1. IInv => LateApprovalNamesMaster
  BY DEF IInv, MasterInv
<1> QED
  BY <1>1, Invariance, PTL

\* Every step leaves the rows that exist alone, but for one new row.
LEMMA StepAddsRows ==
  ASSUME TypeInv, IInv, [Next]_vars, NEW s \in Stages, NEW k \in Attempts,
         manifest[s][k] # "none"
  PROVE  manifest'[s][k] = manifest[s][k]
<1>1. ASSUME NEW st, Record(st), awaiting \in {"run_stage", "record_g80"}
      PROVE  manifest'[s][k] = manifest[s][k]
  <2>1. attempt \in Attempts /\ manifest[stage][attempt] = "none"
    BY <1>1, AttemptNumbers DEF IInv, StageInv, TypeInv, TypeOK
  <2>2. ~ (s = stage /\ k = attempt)
    BY <2>1
  <2> QED
    BY <1>1, <2>2, RecordsOneRow DEF TypeInv
<1>2. CASE Workflow
  <2>1. \/ Record("passed") /\ awaiting \in {"run_stage", "record_g80"}
        \/ Record("failed") /\ awaiting \in {"run_stage", "record_g80"}
        \/ UNCHANGED manifest
    BY <1>2 DEF Workflow, IntakePasses, MediaStagePasses, DisclosurePasses,
                PublishPasses, StageFails, FetchIdentity, RefetchIdentity,
                GateOpens, GateTimesOut, RecordApproval
  <2> QED
    BY <1>1, <2>1
<1>3. CASE ~ Workflow
  BY <1>3 DEF Next, Approve, ObstacleChanges, Finished, vars
<1> QED
  BY <1>2, <1>3

\* A row once written is never written again.
THEOREM RowsStay == Spec => RowsNeverRewritten
<1>1. TypeInv /\ IInv /\ [Next]_vars =>
        [\A s \in Stages, k \in Attempts :
           manifest[s][k] # "none" => manifest'[s][k] = manifest[s][k]]_vars
  BY StepAddsRows
<1> QED
  BY <1>1, Invariance, PTL DEF Spec, RowsNeverRewritten
-----------------------------------------------------------------------------
(* A failed run explains itself *)

\* Every step keeps the explanation, or gives it.
LEMMA NextKeepsEvidence ==
  TypeInv /\ IInv /\ FailureLeavesEvidence /\ [Next]_vars =>
    FailureLeavesEvidence'
<1> SUFFICES ASSUME TypeInv, IInv, FailureLeavesEvidence, [Next]_vars,
                    awaiting' = "failed"
             PROVE  \/ /\ manifest'[stage'][attempt'] = "failed"
                       /\ evidence'[stage'][attempt'] \in FailureTypes(stage')
                       /\ ~ Retryable(evidence'[stage'][attempt'], attempt')
                    \/ /\ stage' = G80 /\ approval' = NoApproval
                       /\ ~ Attempted(G80)'
  BY DEF FailureLeavesEvidence
<1>t. stage \in Stages /\ attempt \in Attempts
  BY DEF TypeInv, TypeOK
<1>1. CASE awaiting = "failed"
  <2>1. UNCHANGED vars
    BY <1>1 DEF Next, Workflow, IntakePasses, MediaStagePasses,
        DisclosurePasses, PublishPasses, StageFails, FetchIdentity,
        RefetchIdentity, GateOpens, GateTimesOut, RecordApproval, Approve,
        ObstacleChanges, Obstructing, Finished, Ended
  <2> QED
    BY <1>1, <2>1 DEF FailureLeavesEvidence, vars, Attempted
<1>2. CASE awaiting # "failed"
  <2>1. \/ \E type \in FailureTypes(stage) : StageFails(type)
        \/ GateTimesOut
        \/ RecordApproval /\ recorded.decision # "approved"
    BY <1>2 DEF Next, Workflow, IntakePasses, MediaStagePasses,
        DisclosurePasses, PublishPasses, FetchIdentity, RefetchIdentity,
        GateOpens, RecordApproval, Approve, ObstacleChanges, Finished,
        ProceedTo, vars
  <2>2. ASSUME NEW type \in FailureTypes(stage), StageFails(type)
        PROVE /\ manifest'[stage'][attempt'] = "failed"
              /\ evidence'[stage'][attempt'] \in FailureTypes(stage')
              /\ ~ Retryable(evidence'[stage'][attempt'], attempt')
    <3>1. /\ ~ Retryable(type, attempt) /\ attempt' = attempt
          /\ stage' = stage /\ Record("failed")
          /\ evidence' = [evidence EXCEPT ![stage][attempt] = type]
      BY <2>2, <1>2 DEF StageFails
    <3>2. evidence'[stage][attempt] = type
      BY <3>1, <1>t DEF TypeInv, TypeOK
    <3>3. manifest'[stage][attempt] = "failed"
      BY <3>1, <1>t, RecordsOneRow DEF TypeInv
    <3> QED
      BY <3>1, <3>2, <3>3
  <2>3. CASE GateTimesOut
    <3>1. /\ stage' = G80 /\ stage = G80 /\ approval' = NoApproval
          /\ manifest' = manifest /\ attempt = 1
      BY <2>3 DEF GateTimesOut, gate, IInv, GateInv
    <3>2. \A k \in Attempts : manifest[G80][k] = "none"
      BY <2>3, <3>1, AttemptNumbers DEF GateTimesOut, IInv, StageInv
    <3> QED
      BY <3>1, <3>2 DEF Attempted
  <2>4. CASE RecordApproval /\ recorded.decision # "approved"
    <3>1. /\ stage = G80 /\ stage' = stage /\ attempt' = attempt
          /\ Record("failed")
          /\ evidence' = [evidence EXCEPT ![stage][attempt] =
                            "approval_rejected"]
      BY <2>4 DEF RecordApproval, IInv, GateInv
    <3>2. evidence'[stage][attempt] = "approval_rejected"
      BY <3>1, <1>t DEF TypeInv, TypeOK
    <3>3. manifest'[stage][attempt] = "failed"
      BY <3>1, <1>t, RecordsOneRow DEF TypeInv
    <3>4. ~ Retryable("approval_rejected", attempt)
      BY DEF Retryable, RetryableTypes
    <3> QED
      BY <3>1, <3>2, <3>3, <3>4, FailureTypesAreReports
  <2> QED
    BY <2>1, <2>2, <2>3, <2>4
<1> QED
  BY <1>1, <1>2

\* A run that failed can be explained from what it stored.
THEOREM FailuresLeaveEvidence == Spec => []FailureLeavesEvidence
<1>1. Init => FailureLeavesEvidence
  BY DEF Init, FailureLeavesEvidence
<1> QED
  BY <1>1, NextKeepsEvidence, Invariance, PTL DEF Spec
-----------------------------------------------------------------------------
(* The workflow implements the gate *)

\* The verdict is the status of the gate's one row.
LEMMA VerdictIsRow ==
  /\ manifest[G80][1] = "passed" => Verdict = "approved"
  /\ manifest[G80][1] = "failed" => Verdict = "refused"
  /\ manifest[G80][1] = "none"   => Verdict = "open"
BY DEF Verdict

\* A step that leaves the gate's row, S100's passes and the master alone is a
\* stutter of the gate.
LEMMA GateStutters ==
  ASSUME UNCHANGED masterHash, manifest'[G80][1] = manifest[G80][1],
         Passed(S100)' = Passed(S100)
  PROVE  UNCHANGED Gate!vars
BY DEF Gate!vars, Verdict, Released

\* Every step of the workflow is a step of the gate or a stutter.
LEMMA WorkflowRefinesGate ==
  ASSUME TypeInv, IInv, Workflow
  PROVE  Gate!Next \/ UNCHANGED Gate!vars
<1>n. /\ {S10, S60, S70, G80, S100} \subseteq Nat
      /\ S60 < G80 /\ S70 < G80 /\ G80 < S100 /\ S60 < S100 /\ S00 < G80
      /\ G90 > G80 /\ G90 < S100
  BY DEF S00, S10, S60, S70, G80, G90, S100
<1>t. /\ stage \in Stages /\ attempt \in Attempts /\ stage \in Nat
      /\ {G80, S100} \subseteq Stages /\ 1 \in Attempts
  BY StageNumbers, AttemptNumbers DEF TypeInv, TypeOK
\* A row of another stage is none of the gate's business.
<1>r. ASSUME NEW st, Record(st), stage \notin {G80, S100}
      PROVE  /\ manifest'[G80][1] = manifest[G80][1]
             /\ Passed(S100)' = Passed(S100)
  <2>1. \A s \in {G80, S100}, k \in Attempts : manifest'[s][k] = manifest[s][k]
    BY <1>r, <1>t, RecordsOneRow DEF TypeInv
  <2> QED
    BY <2>1, <1>t DEF Passed
<1>1. CASE IntakePasses
  <2>1. stage \notin {G80, S100} /\ Record("passed") /\ UNCHANGED masterHash
    BY <1>1, <1>n DEF IntakePasses, S00, G80, S100
  <2> QED
    BY <2>1, <1>r, GateStutters
<1>2. ASSUME NEW h \in Hashes, MediaStagePasses(h)
      PROVE  Gate!Next \/ UNCHANGED Gate!vars
  <2>1. stage \notin {G80, S100} /\ Record("passed") /\ stage < G80
    BY <1>2, <1>n, <1>t DEF MediaStagePasses, LastLoopStage
  <2>2. manifest'[G80][1] = manifest[G80][1] /\ Passed(S100)' = Passed(S100)
    BY <2>1, <1>r
  <2>3. CASE stage = S60
    <3>1. masterHash = NoHash /\ masterHash' = h
      BY <1>2, <2>3, <1>n DEF MediaStagePasses, IInv, MasterInv
    <3>2. manifest[G80][1] = "none" /\ ~ Passed(S100)
      BY <2>3, <1>t, <1>n DEF IInv, ChainInv, Passed
    <3>3. Verdict = "open" /\ Verdict' = "open"
      BY <3>2, <2>2, VerdictIsRow DEF Verdict
    <3>4. UNCHANGED Released
      BY <3>2, <2>2 DEF Released
    <3> QED
      BY <3>1, <3>3, <3>4 DEF Gate!Next, Gate!Assemble
  <2>4. CASE stage # S60
    <3>1. UNCHANGED masterHash
      BY <1>2, <2>4 DEF MediaStagePasses
    <3> QED
      BY <3>1, <2>2, GateStutters
  <2> QED
    BY <2>3, <2>4
<1>3. CASE DisclosurePasses
  <2>1. stage \notin {G80, S100} /\ Record("passed") /\ UNCHANGED masterHash
    BY <1>3, <1>n DEF DisclosurePasses, G80, G90, S100
  <2> QED
    BY <2>1, <1>r, GateStutters
<1>4. CASE PublishPasses
  <2>1. /\ stage = S100 /\ Record("passed") /\ UNCHANGED masterHash
        /\ awaiting = "run_stage"
    BY <1>4 DEF PublishPasses
  <2>2. \A k \in Attempts : manifest[S100][k] # "passed"
    <3>1. ASSUME NEW k \in Attempts PROVE manifest[S100][k] # "passed"
      <4>1. CASE k >= attempt
        BY <2>1, <4>1 DEF IInv, StageInv
      <4>2. CASE k < attempt
        BY <2>1, <4>2 DEF IInv, StageInv, FailedRetryably
      <4> QED
        BY <4>1, <4>2, <1>t, AttemptNumbers
    <3> QED
      BY <3>1
  <2>3. manifest[G80][1] = "passed"
    BY <2>1, <1>n DEF IInv, GateInv
  <2>4. \A k \in Attempts : /\ manifest'[G80][k] = manifest[G80][k]
                            /\ manifest'[S100][attempt] = "passed"
    BY <2>1, <1>t, <1>n, RecordsOneRow DEF TypeInv
  <2>5. Verdict = "approved" /\ Verdict' = "approved"
    BY <2>3, <2>4, <1>t, VerdictIsRow DEF Verdict
  <2>6. Released = NoHash /\ Released' = masterHash
    BY <2>1, <2>2, <2>4, <1>t DEF Released, Passed
  <2> QED
    BY <2>1, <2>5, <2>6 DEF Gate!Next, Gate!Release
<1>5. ASSUME NEW type \in FailureTypes(stage), StageFails(type)
      PROVE  Gate!Next \/ UNCHANGED Gate!vars
  <2>1. /\ Record("failed") /\ awaiting = "run_stage" /\ stage # G80
        /\ UNCHANGED masterHash
    BY <1>5 DEF StageFails, IInv, GateInv
  <2>2. manifest[stage][attempt] = "none"
    BY <2>1, <1>t, AttemptNumbers DEF IInv, StageInv
  <2>3. \A s \in Stages, k \in Attempts :
          manifest'[s][k] = "passed" <=> manifest[s][k] = "passed"
    BY <2>1, <2>2, <1>t, RecordsOneRow DEF TypeInv
  <2>4. Passed(S100)' = Passed(S100)
    BY <2>3, <1>t DEF Passed
  <2>5. manifest'[G80][1] = manifest[G80][1]
    BY <2>1, <1>t, RecordsOneRow DEF TypeInv
  <2> QED
    BY <2>1, <2>4, <2>5, GateStutters
<1>6. CASE FetchIdentity \/ RefetchIdentity \/ GateOpens \/ GateTimesOut
  <2>1. UNCHANGED <<manifest, masterHash>>
    BY <1>6 DEF FetchIdentity, RefetchIdentity, GateOpens, GateTimesOut
  <2> QED
    BY <2>1, GateStutters DEF Passed
<1>7. CASE RecordApproval
  <2>1. stage = G80 /\ attempt = 1 /\ UNCHANGED masterHash
    BY <1>7 DEF RecordApproval, IInv, GateInv
  <2>2. masterHash # NoHash
    BY <2>1, <1>n, HashAssumption DEF IInv, MasterInv
  <2>3. manifest[G80][1] = "none" /\ \A k \in Attempts : manifest[S100][k] = "none"
    BY <1>7, <2>1, <1>t, <1>n, AttemptNumbers
       DEF IInv, StageInv, ChainInv, RecordApproval
  <2>4. ASSUME NEW st \in {"passed", "failed"}, Record(st)
        PROVE  Gate!Next
    <3>1. manifest'[G80][1] = st
      BY <2>1, <2>4, <1>t, RecordsOneRow DEF TypeInv
    <3>2. \A k \in Attempts : manifest'[S100][k] = "none"
      BY <2>1, <2>3, <2>4, <1>t, <1>n, RecordsOneRow DEF TypeInv
    <3>3. Verdict = "open" /\ Verdict' \in {"approved", "refused"}
      BY <2>3, <3>1, VerdictIsRow DEF Verdict
    <3>4. Released = NoHash /\ Released' = NoHash
      BY <2>3, <3>2 DEF Released, Passed
    <3> QED
      BY <2>1, <2>2, <3>3, <3>4 DEF Gate!Next, Gate!Decide
  <2> QED
    BY <1>7, <2>4 DEF RecordApproval
<1> QED
  BY <1>1, <1>2, <1>3, <1>4, <1>5, <1>6, <1>7 DEF Workflow

\* Stages, retries, identity fetches and signals together implement the gate.
THEOREM PipelineRefinesGate == Spec => PipelineImplementsGate
<1>1. Init => Gate!Init
  <2> SUFFICES ASSUME Init PROVE Gate!Init
    OBVIOUS
  <2>1. \A s \in Stages, k \in Attempts : manifest[s][k] = "none"
    BY DEF Init, NoRows
  <2>2. Verdict = "open" /\ Released = NoHash
    BY <2>1, StageNumbers, AttemptNumbers, VerdictIsRow DEF Released, Passed
  <2> QED
    BY <2>2 DEF Init, Gate!Init
<1>2. TypeInv /\ IInv /\ [Next]_vars => [Gate!Next]_(Gate!vars)
  <2> SUFFICES ASSUME TypeInv, IInv, [Next]_vars
               PROVE  Gate!Next \/ UNCHANGED Gate!vars
    OBVIOUS
  <2>1. CASE Workflow
    BY <2>1, WorkflowRefinesGate
  <2>2. CASE ~ Workflow
    <3>1. UNCHANGED <<manifest, masterHash>>
      BY <2>2 DEF Next, Approve, ObstacleChanges, Finished, vars
    <3> QED
      BY <3>1, GateStutters DEF Passed
  <2> QED
    BY <2>1, <2>2
<1> QED
  BY <1>1, <1>2, Invariance, PTL DEF Spec, PipelineImplementsGate, Gate!Spec
-----------------------------------------------------------------------------
(* The run as a chain of stages *)

\* Where the chain stands, and that the stages are consecutive numbers.
LEMMA ChainNumbers ==
  /\ S00 = 1 /\ S10 = 2 /\ S30 = 4 /\ S70 = 8 /\ G80 = 9 /\ G90 = 10 /\ S100 = 11
  /\ ProviderStages \subseteq Nat /\ G80 \notin ProviderStages
BY DEF S00, S10, S30, S70, G80, G90, S100, ProviderStages, Stages

\* A step of the workflow is a step of the chain, or none.
LEMMA WorkflowFollowsChain ==
  TypeInv /\ IInv /\ Workflow => Chain!Next \/ UNCHANGED Chain!vars
<1> SUFFICES ASSUME TypeInv, IInv, Workflow
             PROVE  Chain!Next \/ UNCHANGED Chain!vars
  OBVIOUS
<1> USE ChainNumbers DEF Chain!Next, Chain!vars, Ended
<1>t. stage \in Nat /\ attempt \in Nat /\ RetryBudget \in Nat
  BY AttemptNumbers, StageNumbers, RetryBudgetAssumption DEF TypeInv, TypeOK
<1>1. CASE IntakePasses
  BY <1>1 DEF IntakePasses, ProceedTo, Chain!Pass
<1>2. ASSUME NEW h \in Hashes, MediaStagePasses(h)
      PROVE  Chain!Next \/ UNCHANGED Chain!vars
  <2>1. stage \in 2..8 /\ awaiting = "run_stage"
    BY <1>2 DEF MediaStagePasses, LastLoopStage
  <2>2. stage' = stage + 1 /\ attempt' = 1
    BY <1>2, <2>1 DEF MediaStagePasses, LastLoopStage, ProceedTo
  <2>3. awaiting' \in {"approval", "run_stage"}
    BY <1>2 DEF MediaStagePasses, ProceedTo
  <2>4. awaiting \notin Ended /\ awaiting' \notin Ended
        /\ awaiting # "fetch_identity" /\ awaiting' # "fetch_identity"
    BY <2>1, <2>3
  <2>5. stage < S100
    BY <2>1
  <2> QED
    BY <2>2, <2>4, <2>5 DEF Chain!Pass
<1>3. CASE DisclosurePasses
  BY <1>3 DEF DisclosurePasses, ProceedTo, Chain!Pass
<1>4. CASE PublishPasses
  BY <1>4 DEF PublishPasses, ProceedTo, Chain!Complete
<1>5. ASSUME NEW type \in FailureTypes(stage), StageFails(type)
      PROVE  Chain!Next \/ UNCHANGED Chain!vars
  <2>1. stage # G80 /\ awaiting = "run_stage"
    BY <1>5, FlakyAssumption DEF StageFails
  <2> QED
    BY <1>5, <2>1, <1>t DEF StageFails, Retryable, Chain!Retry, Chain!Fail
<1>6. CASE FetchIdentity
  BY <1>6 DEF FetchIdentity, ProceedTo
<1>7. CASE RefetchIdentity
  <2>1. stage = S30 /\ attempt < RetryBudget
    BY <1>7 DEF RefetchIdentity, IInv, StageInv, TypeInv
  <2> QED
    BY <1>7, <2>1 DEF RefetchIdentity, Chain!Retry
<1>8. CASE GateOpens
  BY <1>8 DEF GateOpens
<1>9. CASE GateTimesOut
  BY <1>9 DEF GateTimesOut, Chain!Fail
<1>10. CASE RecordApproval
  <2>1. stage = G80
    BY <1>10 DEF RecordApproval, IInv, GateInv
  <2> QED
    BY <1>10, <2>1 DEF RecordApproval, ProceedTo, Chain!Pass, Chain!Fail
<1> QED
  BY <1>1, <1>2, <1>3, <1>4, <1>5, <1>6, <1>7, <1>8, <1>9, <1>10 DEF Workflow

\* Correction loops, fetches and the gate amount to one chain of stages.
THEOREM PipelineIsChain == Spec => PipelineFollowsChain
<1>1. Init => Chain!Init
  BY DEF Init, Chain!Init, Ended
<1>2. TypeInv /\ IInv /\ [Next]_vars => [Chain!Next]_(Chain!vars)
  <2> SUFFICES ASSUME TypeInv, IInv, [Next]_vars
               PROVE  Chain!Next \/ UNCHANGED Chain!vars
    OBVIOUS
  <2>1. CASE Workflow
    BY <2>1, WorkflowFollowsChain
  <2>2. CASE ~ Workflow
    <3>1. UNCHANGED <<awaiting, stage, attempt>>
      BY <2>2 DEF Next, Approve, ObstacleChanges, Finished, vars
    <3> QED
      BY <3>1 DEF Chain!vars
  <2> QED
    BY <2>1, <2>2
<1> QED
  BY <1>1, <1>2, Invariance, PTL DEF Spec, PipelineFollowsChain, Chain!Spec

\* The inductive invariant itself, part of what Invariance states.
THEOREM InductiveInvariantHolds == Spec => []IInv
<1>1. TypeInv /\ IInv => IInv
  OBVIOUS
<1> QED
  BY <1>1, Invariance, PTL
=============================================================================
