----------------------------- MODULE RunDriver -----------------------------
(***************************************************************************)
(* Who starts a run, watches its rows and signs at G80, beside the         *)
(* workflow of module AvatarPipeline:                                      *)
(*   cli        cli.py main(): its worker is a daemon thread, so it stops  *)
(*              when the command ends, however it ends; what it leaves     *)
(*              waits for another worker on the queue all runs share;      *)
(*   dashboard  orchestrator/dashboard_api.py _background_run: the same    *)
(*              helpers in a thread of a process that lives on, until it   *)
(*              is restarted and knows nothing of the run any more;        *)
(*   reviewer   scripts/run_pipeline.py with a standalone worker, and      *)
(*              scripts/approve.py run by a person at any time.            *)
(*                                                                         *)
(* All of them learn about the run only from PostgreSQL, where an earlier  *)
(* run with the same id (scripts/kill_drill.sh) may have left rows.        *)
(***************************************************************************)
EXTENDS AvatarPipeline, FiniteSets

CONSTANTS
  Kinds,          \* drivers considered
  ZeroHash,       \* "0" * 64, which no video has
  OldHash,        \* S60 hash of the earlier run
  OldManifests    \* rows an earlier run with this id may have left

ASSUME DriverAssumption ==
  /\ Kinds \subseteq {"cli", "dashboard", "reviewer"}
  /\ {ZeroHash, OldHash} \subseteq Hashes /\ ZeroHash # OldHash
  /\ OldManifests \subseteq [Stages -> [Attempts -> {"none", "passed", "failed"}]]
  /\ NoRows \in OldManifests        \* most ids are new

VARIABLES
  kind,           \* who drives the run
  phase,          \* how far the driver is
  signing,        \* the hash it is about to sign
  serving,        \* a dashboard's worker polls the task queue
  oldRows         \* rows of an earlier run with this id

driver   == <<kind, phase, signing, serving, oldRows>>
allVars  == <<vars, driver>>

\* "lost": the dashboard process that held the run in _runs is gone.
Over   == {"succeeded", "gave_up", "lost"}
Phases == {"waiting", "approving", "signing", "completing", "verifying"}
            \cup Over

DriverInit ==
  /\ Init
  /\ kind \in Kinds
  /\ phase = "waiting"
  /\ signing = NoHash
  /\ serving = (kind = "dashboard")
  /\ oldRows \in IF kind = "dashboard" THEN {NoRows} ELSE OldManifests

\* Faulty: the dashboard's worker stops with the thread that drove the run.
WorkerStopsWithDriver == kind = "reviewer" \/ phase \notin Over

\* The command's own worker dies with it; a standalone worker stays.
WorkerAlive ==
  \/ kind = "cli" /\ phase \notin Over
  \/ kind = "reviewer"
  \/ serving

\* SELECT ... WHERE run_id = id: rows are upserted by stage and attempt.
Seen(s, k) == IF manifest[s][k] # "none" THEN manifest[s][k] ELSE oldRows[s][k]

\* Faulty: the status is not part of the WHERE clause.
AllRows == {p \in Stages \X Attempts : Seen(p[1], p[2]) # "none"}

PassedRows == {p \in Stages \X Attempts : Seen(p[1], p[2]) = "passed"}

\* PASSED rows an earlier run left that its successor need not have replaced
\* by the time it has run S50: whatever the successor does with a stage, it
\* writes the row of attempt 1.
Surplus(rows) ==
  {p \in Stages \X Attempts :
     rows[p[1]][p[2]] = "passed" /\ (p[1] >= S60 \/ p[2] > 1)}

OneSurplusRow == \A rows \in OldManifests : Cardinality(Surplus(rows)) <= 1

\* Output hashes of S60 in stage_run_records; a failed attempt's is NULL.
S60Hashes ==
  {masterHash : k \in {j \in Attempts : manifest[S60][j] = "passed"}}
    \cup {OldHash : k \in {j \in Attempts : /\ manifest[S60][j] = "none"
                                            /\ oldRows[S60][j] = "passed"}}

PipelineSteps ==
  /\ WorkerAlive
  /\ \/ IntakePasses
     \/ \E h \in Hashes \ {ZeroHash, OldHash} : MediaStagePasses(h)
     \/ DisclosurePasses
     \/ PublishPasses
     \/ \E type \in FailureTypes(stage) : StageFails(type)
     \/ FetchIdentity
     \/ RefetchIdentity
     \/ GateOpens
     \/ GateTimesOut
     \/ RecordApproval
  /\ UNCHANGED driver
-----------------------------------------------------------------------------
(* _wait_for_g80 *)

SeesGate ==
  /\ kind # "reviewer" /\ phase = "waiting"
  /\ Cardinality(PassedRows) >= 8
  /\ phase' = "approving"
  /\ UNCHANGED <<vars, kind, signing, serving, oldRows>>

\* 680 s without enough rows; the dashboard reports a failed row if it finds
\* one and the timeout otherwise.
WaitExpires ==
  /\ kind # "reviewer" /\ phase = "waiting"
  /\ phase' = "gave_up"
  /\ UNCHANGED <<vars, kind, signing, serving, oldRows>>
-----------------------------------------------------------------------------
(* _approve and scripts/approve.py *)

\* Faulty: the column is taken as it is.
LooksUpNullHash ==
  /\ phase = IF kind = "reviewer" THEN "waiting" ELSE "approving"
  /\ signing' \in S60Hashes \cup {NoHash}
  /\ phase' = "signing"
  /\ UNCHANGED <<vars, kind, serving, oldRows>>

\* One row of S60, in no particular order; the fallback when that row is a
\* failed attempt's, when there is none, or when the query raises.
LooksUpHash ==
  /\ phase = IF kind = "reviewer" THEN "waiting" ELSE "approving"
  /\ signing' \in S60Hashes \cup {ZeroHash}
  /\ phase' = "signing"
  /\ UNCHANGED <<vars, kind, serving, oldRows>>

\* Faulty: the decision goes past the handler's test.
SignsUnchecked(decision) ==
  /\ phase = "signing" /\ awaiting \notin Ended
  /\ kind # "reviewer" => decision = "approved"
  /\ approval' = [decision |-> decision, hash |-> signing, early |-> FALSE]
  /\ phase' = IF kind = "reviewer" THEN "waiting" ELSE "completing"
  /\ UNCHANGED <<inputs, awaiting, stage, attempt, renderHash, masterHash,
                 recorded, disclosed, manifest, evidence, kind, signing, serving,
                 oldRows>>

Signs(decision) ==
  /\ phase = "signing"
  /\ kind # "reviewer" => decision = "approved"
  /\ Approve(decision, signing)
  /\ phase' = IF kind = "reviewer" THEN "waiting" ELSE "completing"
  /\ UNCHANGED <<kind, signing, serving, oldRows>>

\* handle.signal raises: the workflow is already closed.
SignsTooLate ==
  /\ phase = "signing" /\ awaiting \in Ended
  /\ phase' = IF kind = "reviewer" THEN "waiting" ELSE "gave_up"
  /\ UNCHANGED <<vars, kind, signing, serving, oldRows>>
-----------------------------------------------------------------------------
(* _wait_for_completion and _verify *)

\* Faulty: a workflow that failed counts as finished.
SeesAnyEnd ==
  /\ phase = "completing" /\ awaiting \in Ended
  /\ phase' = IF kind = "cli" THEN "verifying" ELSE "succeeded"
  /\ UNCHANGED <<vars, kind, signing, serving, oldRows>>

SeesCompletion ==
  /\ phase = "completing" /\ awaiting = "completed"
  /\ phase' = IF kind = "cli" THEN "verifying" ELSE "succeeded"
  /\ UNCHANGED <<vars, kind, signing, serving, oldRows>>

\* The workflow failed, or 60 s passed.
CompletionRaises ==
  /\ phase = "completing" /\ awaiting # "completed"
  /\ phase' = "gave_up"
  /\ UNCHANGED <<vars, kind, signing, serving, oldRows>>

\* _verify: every stage with a row has a PASSED one; the receipt and the
\* disclosure flag come with the result of a completed workflow.
VerifyPasses ==
  \A s \in Stages :
    (\E k \in Attempts : Seen(s, k) # "none") =>
      \E k \in Attempts : Seen(s, k) = "passed"

Verifies ==
  /\ phase = "verifying"
  /\ phase' = IF VerifyPasses THEN "succeeded" ELSE "gave_up"
  /\ UNCHANGED <<vars, kind, signing, serving, oldRows>>

-----------------------------------------------------------------------------
(* The dashboard process *)

\* It stops at any moment, and with it its worker thread and, if it drives the
\* run, that thread and _runs; get_run_status answers "unknown" from then on.
DashboardRestarts ==
  /\ serving
  /\ serving' = FALSE
  /\ phase' = IF kind = "dashboard" THEN "lost" ELSE phase
  /\ UNCHANGED <<vars, kind, signing, oldRows>>

\* Somebody starts another run from a dashboard: its worker polls the queue all
\* runs share, and takes over what a command or a restart has left behind.
AnotherRunStarts ==
  /\ kind # "reviewer" /\ ~ serving
  /\ serving' = TRUE
  /\ UNCHANGED <<vars, kind, phase, signing, oldRows>>

DriverSteps ==
  \/ SeesGate
  \/ WaitExpires
  \/ kind # "reviewer" /\ LooksUpHash
  \/ kind # "reviewer" /\ \E d \in Decisions : Signs(d)
  \/ kind # "reviewer" /\ SignsTooLate
  \/ SeesCompletion
  \/ CompletionRaises
  \/ Verifies

ReviewerSteps ==
  /\ kind = "reviewer"
  /\ \/ LooksUpHash
     \/ \E d \in Decisions : Signs(d)
     \/ SignsTooLate

DriverNext ==
  \/ PipelineSteps
  \/ DriverSteps
  \/ ReviewerSteps
  \/ DashboardRestarts
  \/ AnotherRunStarts
  \/ (\E o \in Obstacles : ObstacleChanges(o)) /\ UNCHANGED driver
  \/ Finished /\ UNCHANGED driver

\* A polling worker gets an answer from every activity that meets no obstacle,
\* and driver calls all carry a timeout; a reviewer, the owners of faces and
\* voices and whoever starts the next run owe nothing.
DriverFairness == WF_allVars(PipelineSteps) /\ WF_allVars(DriverSteps)

DriverSpec == DriverInit /\ [][DriverNext]_allVars

DriverFairSpec == DriverSpec /\ DriverFairness
-----------------------------------------------------------------------------
(* Properties *)

\* The driver's variables have the types of what they stand for.
DriverTypeOK ==
  /\ kind \in Kinds
  /\ phase \in Phases
  /\ signing \in Hashes \cup {NoHash}
  /\ phase = "signing" => signing \in Hashes     \* a str in HumanApprovalV1
  /\ serving \in BOOLEAN
  /\ oldRows \in OldManifests

\* The command line and the dashboard approve the master this run assembled,
\* once it exists, and nothing else: counting rows is as good as asking the
\* workflow where it is, retries and the rows of an earlier run included, as
\* long as that run left one surplus row at most.
DriverSignsItsMaster ==
  kind # "reviewer" /\ recorded # NoApproval =>
    /\ recorded.hash = masterHash
    /\ ~ recorded.early

\* "M1 RESULT: PASS" and the dashboard's "completed" are about this run: all
\* eleven stages passed in it, the approval among them.
SuccessMeansPublished ==
  phase = "succeeded" => \A s \in Stages : Passed(s)

\* Whatever drives it, the workflow behaves as module AvatarPipeline says: a
\* driver has no other way to influence it than the approve signal.
DriversOnlySignal == Spec

\* A dashboard run comes to an end on both sides: its status stops changing,
\* and the workflow ends even after the dashboard has given up on it or lost
\* it, as long as some run's worker goes on polling the queue and, as in
\* RunEnds, nothing makes its activities raise for ever.
DashboardSettles ==
  (kind = "dashboard" /\ <>[]Unobstructed /\ <>[]serving) =>
    <>(phase \in Over /\ awaiting \in Ended)
=============================================================================
