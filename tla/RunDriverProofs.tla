--------------------------- MODULE RunDriverProofs ---------------------------
(***************************************************************************)
(* Proofs about RunDriver, for any drivers, hashes, budget, flaky stages   *)
(* and rows of an earlier run.  The driver reads the workflow's rows and   *)
(* signals it, so the workflow's invariants are carried along: that a      *)
(* driver's step is a step of the workflow depends on the hash it found,   *)
(* and the hash on the rows.                                               *)
(***************************************************************************)
EXTENDS RunDriver, AvatarPipelineProofs, FiniteSetTheorems

\* S60's rows name a video.
HashInv == \A k \in Attempts : manifest[S60][k] = "passed" => masterHash \in Hashes

\* A driver verifies what has completed.
PhaseInv == phase \in {"verifying", "succeeded"} => awaiting = "completed"

\* The workflow gives S60's row and its hash in one step.
LEMMA WorkflowKeepsHash ==
  ASSUME TypeInv, IInv, HashInv, [Next]_vars
  PROVE  HashInv'
<1> SUFFICES ASSUME NEW k \in Attempts, manifest'[S60][k] = "passed"
             PROVE  masterHash' \in Hashes
  BY DEF HashInv
<1>n. S60 \in Stages /\ S60 # S00 /\ S60 # G80 /\ S60 # G90 /\ S60 # S100
  BY DEF S60, S00, G80, G90, S100, Stages
<1>0. TypeOK
  BY DEF TypeInv
<1>1. CASE UNCHANGED <<manifest, masterHash>>
  BY <1>1 DEF HashInv
<1>2. ASSUME NEW st, Record(st), stage # S60, UNCHANGED masterHash
      PROVE  masterHash' \in Hashes
  BY <1>0, <1>2, <1>n, RecordsOneRow DEF HashInv
<1>3. ASSUME NEW h \in Hashes, MediaStagePasses(h) PROVE masterHash' \in Hashes
  <2>1. CASE stage = S60
    BY <1>3, <2>1 DEF MediaStagePasses
  <2>2. CASE stage # S60
    BY <1>2, <1>3, <2>2 DEF MediaStagePasses
  <2> QED
    BY <2>1, <2>2
<1>4. ASSUME NEW type, StageFails(type) PROVE masterHash' \in Hashes
  <2>1. Record("failed") /\ UNCHANGED masterHash
    BY <1>4 DEF StageFails
  <2>2. manifest[S60][k] = "passed"
    BY <1>0, <1>n, <2>1, RecordsOneRow
  <2> QED
    BY <2>1, <2>2 DEF HashInv
<1>5. CASE IntakePasses \/ DisclosurePasses \/ PublishPasses
  BY <1>2, <1>5, <1>n DEF IntakePasses, DisclosurePasses, PublishPasses
<1>6. CASE RecordApproval
  <2>1. stage = G80
    BY <1>6 DEF RecordApproval, IInv, GateInv
  <2> QED
    BY <1>2, <1>6, <1>n, <2>1 DEF RecordApproval
<1>7. CASE FetchIdentity \/ RefetchIdentity \/ GateOpens \/ GateTimesOut
  BY <1>1, <1>7 DEF FetchIdentity, RefetchIdentity, GateOpens, GateTimesOut
<1>8. ASSUME NEW d, NEW h, Approve(d, h) PROVE masterHash' \in Hashes
  BY <1>1, <1>8 DEF Approve
<1>9. CASE (\E o \in Obstacles : ObstacleChanges(o)) \/ Finished \/ UNCHANGED vars
  BY <1>1, <1>9 DEF ObstacleChanges, Finished, vars
<1> QED
  BY <1>3, <1>4, <1>5, <1>6, <1>7, <1>8, <1>9 DEF Next, Workflow

\* A workflow that has completed takes no further step.
LEMMA CompletedStays ==
  ASSUME [Next]_vars, awaiting = "completed"
  PROVE  awaiting' = "completed"
BY DEF Next, Workflow, IntakePasses, MediaStagePasses, DisclosurePasses,
       PublishPasses, StageFails, FetchIdentity, RefetchIdentity, GateOpens,
       GateTimesOut, RecordApproval, Approve, ObstacleChanges, Finished, vars, Ended

DriverInv == TypeInv /\ IInv /\ HashInv /\ DriverTypeOK /\ PhaseInv

\* What a driver does to the workflow is nothing, or a signal.
LEMMA DriverStepIsWorkflowStep ==
  ASSUME DriverInv, [DriverNext]_allVars
  PROVE  [Next]_vars
<1>1. CASE PipelineSteps
  <2>1. Hashes \ {ZeroHash, OldHash} \subseteq Hashes
    OBVIOUS
  <2> QED
    BY <1>1, <2>1 DEF PipelineSteps, Next, Workflow
<1>2. ASSUME NEW d \in Decisions, Signs(d) PROVE Next
  <2>1. signing \in Hashes /\ Approve(d, signing)
    BY <1>2 DEF Signs, DriverInv, DriverTypeOK
  <2> QED
    BY <2>1 DEF Next
<1>3. CASE SeesGate \/ WaitExpires \/ LooksUpHash \/ SignsTooLate \/ SeesCompletion
           \/ CompletionRaises \/ Verifies \/ DashboardRestarts \/ AnotherRunStarts
  BY <1>3 DEF SeesGate, WaitExpires, LooksUpHash, SignsTooLate, SeesCompletion,
              CompletionRaises, Verifies, DashboardRestarts, AnotherRunStarts
<1>4. CASE (\E o \in Obstacles : ObstacleChanges(o)) \/ Finished
  BY <1>4 DEF Next
<1>5. CASE UNCHANGED allVars
  BY <1>5 DEF allVars
<1> QED
  BY <1>1, <1>2, <1>3, <1>4, <1>5 DEF DriverNext, DriverSteps, ReviewerSteps

\* The driver's variables keep their types: what is signed is a hash.
LEMMA DriverKeepsTypes ==
  ASSUME DriverInv, [DriverNext]_allVars
  PROVE  DriverTypeOK'
<1> USE DriverAssumption DEF DriverTypeOK, Phases, Over
<1>0. DriverTypeOK /\ HashInv /\ TypeOK
  BY DEF DriverInv, TypeInv
<1>1. CASE UNCHANGED driver
  BY <1>0, <1>1 DEF driver
<1>2. CASE LooksUpHash
  <2>1. S60Hashes \cup {ZeroHash} \subseteq Hashes
    BY <1>0 DEF S60Hashes, HashInv
  <2>2. signing' \in Hashes /\ phase' = "signing" /\ UNCHANGED <<kind, serving, oldRows>>
    BY <1>2, <2>1 DEF LooksUpHash
  <2> QED
    BY <1>0, <2>2
<1>3. ASSUME NEW d \in Decisions, Signs(d) PROVE DriverTypeOK'
  BY <1>0, <1>3 DEF Signs
<1>4. CASE SeesGate \/ WaitExpires \/ SignsTooLate \/ SeesCompletion
           \/ CompletionRaises \/ Verifies
  BY <1>0, <1>4 DEF SeesGate, WaitExpires, SignsTooLate, SeesCompletion,
                    CompletionRaises, Verifies
<1>5. CASE DashboardRestarts \/ AnotherRunStarts
  BY <1>0, <1>5 DEF DashboardRestarts, AnotherRunStarts
<1> QED
  BY <1>1, <1>2, <1>3, <1>4, <1>5
     DEF DriverNext, DriverSteps, ReviewerSteps, PipelineSteps, allVars

\* A driver goes on to verify when it has seen the workflow complete.
LEMMA DriverKeepsPhase ==
  ASSUME DriverInv, [DriverNext]_allVars
  PROVE  PhaseInv'
<1>0. PhaseInv
  BY DEF DriverInv
<1>1. awaiting = "completed" => awaiting' = "completed"
  BY DriverStepIsWorkflowStep, CompletedStays
<1>2. \/ phase' = phase
      \/ awaiting = "completed"
      \/ phase' \notin {"verifying", "succeeded"}
      \/ phase = "verifying"
  BY DEF DriverNext, DriverSteps, ReviewerSteps, PipelineSteps, allVars,
         driver, SeesGate, WaitExpires, LooksUpHash, Signs, SignsTooLate,
         SeesCompletion, CompletionRaises, Verifies, DashboardRestarts,
         AnotherRunStarts
<1> QED
  BY <1>0, <1>1, <1>2 DEF PhaseInv

\* Every step of driver and workflow keeps the invariants of both.
LEMMA DriverInvariance == DriverSpec => []DriverInv
<1>1. DriverInit => DriverInv
  <2> SUFFICES ASSUME DriverInit PROVE DriverInv
    OBVIOUS
  <2>1. Init /\ TypeInv /\ IInv
    BY InitHasTypes, InitHasInv DEF DriverInit
  <2>2. HashInv
    BY <2>1 DEF Init, HashInv, NoRows, Stages, S60, S00, S100
  <2>3. oldRows \in OldManifests
    BY DriverAssumption DEF DriverInit
  <2>4. NoHash \in Hashes \cup {NoHash} /\ phase = "waiting" /\ phase \in Phases
    BY DEF DriverInit, Phases
  <2>5. DriverTypeOK /\ PhaseInv
    BY <2>3, <2>4 DEF DriverInit, DriverTypeOK, PhaseInv
  <2> QED
    BY <2>1, <2>2, <2>5 DEF DriverInv
<1>2. DriverInv /\ [DriverNext]_allVars => DriverInv'
  <2> SUFFICES ASSUME DriverInv, [DriverNext]_allVars PROVE DriverInv'
    OBVIOUS
  <2>1. [Next]_vars
    BY DriverStepIsWorkflowStep
  <2>2. TypeInv /\ IInv /\ HashInv
    BY DEF DriverInv
  <2>3. TypeInv' /\ IInv' /\ HashInv'
    BY <2>1, <2>2, NextKeepsTypes, NextKeepsInv, WorkflowKeepsHash
  <2>4. DriverTypeOK' /\ PhaseInv'
    BY DriverKeepsTypes, DriverKeepsPhase
  <2> QED
    BY <2>3, <2>4 DEF DriverInv
<1> QED
  BY <1>1, <1>2, PTL DEF DriverSpec

\* The driver's variables have the types of what they stand for.
THEOREM DriverTypeCorrect == DriverSpec => []DriverTypeOK
<1>1. DriverInv => DriverTypeOK
  BY DEF DriverInv
<1> QED
  BY <1>1, DriverInvariance, PTL

\* Whatever drives it, and whatever an earlier run with its id left, the
\* workflow behaves as module AvatarPipeline says: everything proved of that
\* specification holds of a driven run.
THEOREM DriversSignalOnly == DriverSpec => DriversOnlySignal
<1>1. DriverInit => Init
  BY DEF DriverInit
<1>2. DriverInv /\ [DriverNext]_allVars => [Next]_vars
  BY DriverStepIsWorkflowStep
<1> QED
  BY <1>1, <1>2, DriverInvariance, PTL DEF DriverSpec, DriversOnlySignal, Spec

\* "M1 RESULT: PASS" and the dashboard's "completed" are about a run all of
\* whose stages passed.
THEOREM SuccessIsPublished == DriverSpec => []SuccessMeansPublished
<1>1. DriverInv => SuccessMeansPublished
  <2> SUFFICES ASSUME DriverInv, phase = "succeeded", NEW s \in Stages
               PROVE  Passed(s)
    BY DEF SuccessMeansPublished
  <2>1. stage = S100 /\ Passed(S100)
    BY DEF DriverInv, PhaseInv, IInv, StageInv
  <2>2. s = S100 \/ s < stage
    BY <2>1, StageNumbers
  <2> QED
    BY <2>1, <2>2 DEF DriverInv, IInv, ChainInv
<1> QED
  BY <1>1, DriverInvariance, PTL
-----------------------------------------------------------------------------
(* What a driver signs *)

\* Between counting and signing the master exists; no decision is early.
SignInv ==
  kind # "reviewer" =>
    /\ phase \in {"approving", "signing"} => masterHash # NoHash
    /\ approval # NoApproval => ~ approval.early
    /\ recorded # NoApproval => ~ recorded.early

\* Until S60 has passed, the driver counts less than eight PASSED rows: at most
\* one for each stage before S60, and the earlier run's surplus.
LEMMA TooFewRows ==
  ASSUME DriverInv, OneSurplusRow, masterHash = NoHash
  PROVE  Cardinality(PassedRows) \in Nat /\ Cardinality(PassedRows) < 8
<1> DEFINE D == PassedRows \ Surplus(oldRows)
           f == [p \in D |-> p[1]]
<1>n. S00 = 1 /\ S60 = 7 /\ S00 \in Stages /\ S60 \in Stages /\ Stages \subseteq Nat
      /\ Stages = 1..11
  BY DEF S00, S60, S100, Stages
<1>k. 1 \in Attempts /\ Attempts \subseteq Nat /\ \A k \in Attempts : k >= 1
  BY AttemptNumbers
<1>1. stage \in Stages /\ stage <= S60
  <2>1. stage \in Stages /\ ~ (stage > S60)
    BY HashAssumption DEF DriverInv, TypeInv, TypeOK, IInv, MasterInv
  <2> QED
    BY <2>1, <1>n
<1>2. \A s \in Stages, k \in Attempts : manifest[s][k] = "passed" => s < S60
  <2> SUFFICES ASSUME NEW s \in Stages, NEW k \in Attempts, manifest[s][k] = "passed"
               PROVE  s < S60
    OBVIOUS
  <2>1. ~ (s > stage)
    BY DEF DriverInv, IInv, ChainInv
  <2>2. s # S60
    BY HashAssumption DEF DriverInv, HashInv
  <2> QED
    BY <2>1, <2>2, <1>1, <1>n
<1>3. \A s \in Stages, k \in Attempts, j \in Attempts :
        manifest[s][k] # "none" /\ j < k => manifest[s][j] = "failed"
  BY DEF DriverInv, IInv, CorrectionHistory
<1>4. \A p \in D : /\ p[1] \in Stages /\ p[2] \in Attempts
                   /\ \/ manifest[p[1]][p[2]] = "passed"
                      \/ manifest[p[1]][p[2]] = "none" /\ p[1] < S60 /\ p[2] = 1
  <2> SUFFICES ASSUME NEW p \in D
               PROVE  /\ p[1] \in Stages /\ p[2] \in Attempts
                      /\ \/ manifest[p[1]][p[2]] = "passed"
                         \/ manifest[p[1]][p[2]] = "none" /\ p[1] < S60 /\ p[2] = 1
    OBVIOUS
  <2>1. p \in Stages \X Attempts /\ Seen(p[1], p[2]) = "passed"
    BY DEF PassedRows
  <2>2. CASE manifest[p[1]][p[2]] # "none"
    BY <2>1, <2>2 DEF Seen
  <2>3. CASE manifest[p[1]][p[2]] = "none"
    <3>1. oldRows[p[1]][p[2]] = "passed"
      BY <2>1, <2>3 DEF Seen
    <3>2. ~ (p[1] >= S60 \/ p[2] > 1)
      BY <2>1, <3>1 DEF Surplus
    <3>3. p[1] \in Nat /\ p[2] \in Nat /\ p[2] >= 1
      BY <2>1, <1>n, <1>k
    <3> QED
      BY <2>1, <2>3, <3>2, <3>3, <1>n
  <2> QED
    BY <2>2, <2>3
<1>5. \A p \in D, q \in D : p[1] = q[1] => p[2] = q[2]
  <2> SUFFICES ASSUME NEW p \in D, NEW q \in D, p[1] = q[1], p[2] # q[2]
               PROVE  FALSE
    OBVIOUS
  <2>1. p[2] \in Nat /\ q[2] \in Nat /\ p[2] >= 1 /\ q[2] >= 1
    BY <1>4, <1>k
  <2>2. CASE p[2] < q[2]
    <3>1. manifest[q[1]][q[2]] = "passed"
      BY <2>1, <2>2, <1>4
    <3>2. manifest[p[1]][p[2]] = "failed"
      BY <2>2, <3>1, <1>3, <1>4
    <3> QED
      BY <3>2, <1>4
  <2>3. CASE q[2] < p[2]
    <3>1. manifest[p[1]][p[2]] = "passed"
      BY <2>1, <2>3, <1>4
    <3>2. manifest[q[1]][q[2]] = "failed"
      BY <2>3, <3>1, <1>3, <1>4
    <3> QED
      BY <3>2, <1>4
  <2> QED
    BY <2>1, <2>2, <2>3
<1>6. IsFiniteSet(D) /\ Cardinality(D) <= 6
  <2>1. \A p \in D : p[1] \in 1..6
    BY <1>2, <1>4, <1>n
  <2>2. \A p \in D, q \in D : p[1] = q[1] => p = q
    BY <1>5 DEF PassedRows
  <2>3. f \in [D -> 1..6]
    BY <2>1
  <2>4. f \in Injection(D, 1..6)
    BY <2>2, <2>3 DEF Injection, IsInjective
  <2>5. IsFiniteSet(1..6) /\ Cardinality(1..6) = 6
    <3>1. 1 \in Int /\ 6 \in Int
      OBVIOUS
    <3>2. /\ IsFiniteSet(1..6)
          /\ Cardinality(1..6) = IF 1 > 6 THEN 0 ELSE 6 - 1 + 1
      BY ONLY <3>1, FS_Interval
    <3> QED
      BY ONLY <3>2
  <2> HIDE DEF D, f
  <2> QED
    BY <2>4, <2>5, FS_Injection
<1>7. IsFiniteSet(Surplus(oldRows)) /\ Cardinality(Surplus(oldRows)) <= 1
  <2>1. IsFiniteSet(Stages \X Attempts)
    <3>1. IsFiniteSet(1..11) /\ IsFiniteSet(1..RetryBudget)
      <4>1. 1 \in Int /\ 11 \in Int /\ RetryBudget \in Int
        BY RetryBudgetAssumption
      <4> QED
        BY ONLY <4>1, FS_Interval
    <3> QED
      BY <3>1, <1>n, FS_Product DEF Attempts
  <2>2. Surplus(oldRows) \subseteq Stages \X Attempts
    BY DEF Surplus
  <2>3. oldRows \in OldManifests
    BY DEF DriverInv, DriverTypeOK
  <2> QED
    BY <2>1, <2>2, <2>3, FS_Subset DEF OneSurplusRow
<1>8. PassedRows \subseteq D \cup Surplus(oldRows)
  OBVIOUS
<1> HIDE DEF D, f
<1>9. /\ IsFiniteSet(D \cup Surplus(oldRows))
      /\ Cardinality(D \cup Surplus(oldRows)) <= 7
  <2>1. /\ IsFiniteSet(D \cup Surplus(oldRows))
        /\ Cardinality(D \cup Surplus(oldRows))
             = Cardinality(D) + Cardinality(Surplus(oldRows))
                 - Cardinality(D \cap Surplus(oldRows))
    BY <1>6, <1>7, FS_Union
  <2>2. IsFiniteSet(D \cap Surplus(oldRows))
    BY <1>6, FS_Subset
  <2>3. /\ Cardinality(D) \in Nat /\ Cardinality(Surplus(oldRows)) \in Nat
        /\ Cardinality(D \cap Surplus(oldRows)) \in Nat
    BY <1>6, <1>7, <2>2, FS_CardinalityType
  <2> QED
    BY <1>6, <1>7, <2>1, <2>3
<1>10. /\ Cardinality(PassedRows) <= Cardinality(D \cup Surplus(oldRows))
       /\ Cardinality(PassedRows) \in Nat
       /\ Cardinality(D \cup Surplus(oldRows)) \in Nat
  BY <1>8, <1>9, FS_Subset, FS_CardinalityType
<1> QED
  BY <1>9, <1>10

\* A master, once assembled, is not taken back.
LEMMA MasterStays ==
  ASSUME [Next]_vars, masterHash # NoHash
  PROVE  masterHash' # NoHash
BY HashAssumption
   DEF Next, Workflow, IntakePasses, MediaStagePasses, DisclosurePasses,
       PublishPasses, StageFails, FetchIdentity, RefetchIdentity, GateOpens,
       GateTimesOut, RecordApproval, Approve, ObstacleChanges, Finished, vars

\* A driver that has counted eight rows signs when the master exists, and the
\* gate takes nothing but the master's hash then.
LEMMA DriverKeepsSigning ==
  ASSUME DriverInv, SignInv, OneSurplusRow, [DriverNext]_allVars
  PROVE  SignInv'
<1> SUFFICES ASSUME kind' # "reviewer"
             PROVE  /\ phase' \in {"approving", "signing"} => masterHash' # NoHash
                    /\ approval' # NoApproval => ~ approval'.early
                    /\ recorded' # NoApproval => ~ recorded'.early
  BY DEF SignInv
<1>1. kind' = kind
  BY DEF DriverNext, DriverSteps, ReviewerSteps, PipelineSteps, allVars,
         driver, SeesGate, WaitExpires, LooksUpHash, Signs, SignsTooLate,
         SeesCompletion, CompletionRaises, Verifies, DashboardRestarts,
         AnotherRunStarts
<1>2. /\ phase \in {"approving", "signing"} => masterHash # NoHash
      /\ approval # NoApproval => ~ approval.early
      /\ recorded # NoApproval => ~ recorded.early
  BY <1>1 DEF SignInv
<1>3. masterHash # NoHash => masterHash' # NoHash
  BY DriverStepIsWorkflowStep, MasterStays
<1>4. CASE PipelineSteps
  <2>1. phase' = phase /\ approval' = approval /\ recorded' \in {recorded, approval}
    BY <1>4 DEF PipelineSteps, driver, IntakePasses, MediaStagePasses,
                DisclosurePasses, PublishPasses, StageFails, FetchIdentity,
                RefetchIdentity, GateOpens, GateTimesOut, RecordApproval, gate
  <2> QED
    BY <2>1, <1>2, <1>3
<1>5. CASE SeesGate
  <2>1. masterHash # NoHash
    BY <1>5, TooFewRows DEF SeesGate
  <2> QED
    BY <1>5, <2>1, <1>2 DEF SeesGate, vars
<1>6. CASE LooksUpHash
  BY <1>1, <1>2, <1>6 DEF LooksUpHash, vars
<1>7. ASSUME NEW d \in Decisions, Signs(d) PROVE SignInv'
  <2>1. /\ masterHash # NoHash /\ Approve(d, signing) /\ phase' = "completing"
    BY <1>1, <1>2, <1>7 DEF Signs
  <2>2. approval' = approval \/ ~ approval'.early
    BY <2>1 DEF Approve
  <2> QED
    BY <2>1, <2>2, <1>2 DEF Approve, SignInv
<1>8. CASE WaitExpires \/ SignsTooLate \/ SeesCompletion \/ CompletionRaises
           \/ Verifies \/ DashboardRestarts \/ AnotherRunStarts
  BY <1>1, <1>2, <1>8
     DEF WaitExpires, SignsTooLate, SeesCompletion, CompletionRaises, Verifies,
         DashboardRestarts, AnotherRunStarts, vars
<1>9. CASE \/ (\E o \in Obstacles : ObstacleChanges(o)) /\ UNCHANGED driver
           \/ Finished /\ UNCHANGED driver
           \/ UNCHANGED allVars
  BY <1>2, <1>9 DEF ObstacleChanges, Finished, allVars, vars, driver, gate
<1> QED
  BY <1>1, <1>4, <1>5, <1>6, <1>7, <1>8, <1>9 DEF DriverNext, DriverSteps, ReviewerSteps, SignInv

\* The command line and the dashboard approve the master of their run and
\* nothing else, whatever fails and is retried and whatever hash the lookup
\* returns; what an earlier run with the id left must contain at most one row
\* that counts in addition.
THEOREM DriverSignsMaster ==
  ASSUME OneSurplusRow
  PROVE  DriverSpec => []DriverSignsItsMaster
<1>1. DriverInit => SignInv
  BY DEF DriverInit, Init, SignInv
<1>2. DriverInv /\ SignInv /\ [DriverNext]_allVars => SignInv'
  BY DriverKeepsSigning
<1>3. DriverInv /\ SignInv => DriverSignsItsMaster
  BY DEF DriverInv, IInv, MasterInv, LateApprovalNamesMaster, SignInv,
         DriverSignsItsMaster
<1> QED
  BY <1>1, <1>2, <1>3, DriverInvariance, PTL DEF DriverSpec
=============================================================================
