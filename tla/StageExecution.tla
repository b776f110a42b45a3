--------------------------- MODULE StageExecution ---------------------------
(***************************************************************************)
(* One stage of one run, seen from inside: the correction loop of          *)
(* orchestrator/pipeline.py asks Temporal for an activity; a worker        *)
(* process takes the task and walks through execute_stage of               *)
(* orchestrator/stage_executor.py, one step per effect that can be lost,   *)
(* repeated or come late: the provider call, the manifest upsert, the      *)
(* telemetry upsert, the answer.                                           *)
(*                                                                         *)
(* A worker is an OS process: its two dictionaries, _stage_result_cache    *)
(* and _stage_feedback_cache, die with it.  Activities are coroutines with *)
(* a blocking body, so a process executes one at a time.  Every provider   *)
(* call makes a new output; an output is the number of the call, 0 is      *)
(* None or NULL.                                                           *)
(***************************************************************************)
EXTENDS Naturals

CONSTANTS
  Workers,        \* processes polling the task queue
  RetryBudget,    \* DEFAULT_RETRY_BUDGET
  MaxCrashes,     \* bound: processes killed
  MaxErrors,      \* bound: exceptions other than ValidationFailure
  MaxSlow         \* bound: activities that outlive STAGE_TIMEOUT

ASSUME BudgetAssumption == RetryBudget \in Nat \ {0}
ASSUME FaultAssumption ==
  MaxCrashes \in Nat /\ MaxErrors \in Nat /\ MaxSlow \in Nat

VARIABLES
  attempt, status, result,  \* correction loop: counter, outcome, output
  lastFailure,              \* call whose report the loop last got back
  task,                     \* Temporal's activity task: try and state
  exec,                     \* per worker, the execute_stage call it is in
  cache, feedback,          \* per worker, the two module dictionaries
  manifest, telemetry,      \* the rows of this run and stage, by attempt
  calls,                    \* provider invocations so far
  crashes, errors, slow     \* faults so far

loop   == <<attempt, status, result, lastFailure>>
rows   == <<manifest, telemetry>>
memory == <<cache, feedback>>
faults == <<crashes, errors, slow>>
vars   == <<loop, task, exec, memory, rows, calls, faults>>

Attempts == 1..RetryBudget
Verdicts == {"passed", "retryable", "terminal"}
Steps    == {"idle", "run", "save", "telemetry", "reply"}

Idle == [pc |-> "idle", attempt |-> 1, try |-> 0, verdict |-> "terminal",
         out |-> 0]

Init ==
  /\ attempt = 1 /\ status = "running" /\ result = 0 /\ lastFailure = 0
  /\ task = [try |-> 1, state |-> "queued"]
  /\ exec = [w \in Workers |-> Idle]
  /\ cache = [w \in Workers |-> 0] /\ feedback = [w \in Workers |-> 0]
  /\ manifest = [k \in Attempts |-> "none"]
  /\ telemetry = [k \in Attempts |-> 0]
  /\ calls = 0 /\ crashes = 0 /\ errors = 0 /\ slow = 0

\* The worker holds the try the server is waiting for; the server rejects
\* whatever any other execution reports.
Current(w) ==
  /\ exec[w].pc # "idle"
  /\ task.state = "running"
  /\ exec[w].attempt = attempt
  /\ exec[w].try = task.try

Requeued == [try |-> task.try + 1, state |-> "queued"]
-----------------------------------------------------------------------------
(* execute_stage *)

Poll(w) ==
  /\ task.state = "queued" /\ exec[w].pc = "idle"
  /\ task' = [task EXCEPT !.state = "running"]
  /\ exec' = [exec EXCEPT ![w] =
                [pc |-> "run", attempt |-> attempt, try |-> task.try,
                 verdict |-> "terminal", out |-> 0]]
  /\ UNCHANGED <<loop, memory, rows, calls, faults>>

Judged(w, verdict, out) ==
  exec' = [exec EXCEPT ![w] = [pc |-> "save", attempt |-> @.attempt,
                               try |-> @.try, verdict |-> verdict, out |-> out]]

\* Faulty: a cached answer is returned before the rows are written.
HitCacheAndReturn(w) ==
  /\ exec[w].pc = "run" /\ cache[w] # 0
  /\ exec' = [exec EXCEPT ![w].pc = "reply", ![w].verdict = "passed",
                          ![w].out = cache[w]]
  /\ UNCHANGED <<loop, task, memory, rows, calls, faults>>

\* The cache key holds neither the attempt nor the provider, so any output
\* this process validated for the same envelope is returned unexamined.  The
\* key does hold the hashes upstream; they stay the same from attempt to attempt
\* here, as they do unless an identity is reseeded before S30 is retried.
HitCache(w) ==
  /\ exec[w].pc = "run" /\ cache[w] # 0
  /\ Judged(w, "passed", cache[w])
  /\ UNCHANGED <<loop, task, memory, rows, calls, faults>>

\* Faulty: the first report is kept until a pass.
KeepFirstFeedback(w, call) ==
  feedback' = [feedback EXCEPT ![w] = IF @ = 0 THEN call ELSE @]

KeepFeedback(w, call) == feedback' = [feedback EXCEPT ![w] = call]

\* Faulty: nothing that was validated is remembered.
CallProviderForgetting(w, verdict) ==
  /\ exec[w].pc = "run"
  /\ calls' = calls + 1
  /\ Judged(w, verdict, calls + 1)
  /\ IF verdict = "passed" THEN feedback' = [feedback EXCEPT ![w] = 0]
                           ELSE KeepFeedback(w, calls + 1)
  /\ UNCHANGED <<loop, task, cache, rows, faults>>

\* provider.run, the exit validator and the stored report; a pass forgets the
\* feedback and fills the cache, a failure leaves feedback for the retry.
CallProvider(w, verdict) ==
  /\ exec[w].pc = "run" /\ cache[w] = 0
  /\ calls' = calls + 1
  /\ Judged(w, verdict, calls + 1)
  /\ IF verdict = "passed"
       THEN /\ cache' = [cache EXCEPT ![w] = calls + 1]
            /\ feedback' = [feedback EXCEPT ![w] = 0]
       ELSE KeepFeedback(w, calls + 1) /\ UNCHANGED cache
  /\ UNCHANGED <<loop, task, rows, faults>>

SaveRecord(w) ==
  /\ exec[w].pc = "save"
  /\ manifest' = [manifest EXCEPT ![exec[w].attempt] =
                    IF exec[w].verdict = "passed" THEN "passed" ELSE "failed"]
  /\ exec' = [exec EXCEPT ![w].pc = "telemetry"]
  /\ UNCHANGED <<loop, task, memory, telemetry, calls, faults>>

RecordTelemetry(w) ==
  /\ exec[w].pc = "telemetry"
  /\ telemetry' = [telemetry EXCEPT ![exec[w].attempt] =
                     IF exec[w].verdict = "passed" THEN exec[w].out ELSE 0]
  /\ exec' = [exec EXCEPT ![w].pc = "reply"]
  /\ UNCHANGED <<loop, task, memory, manifest, calls, faults>>
-----------------------------------------------------------------------------
(* The answer, and what the correction loop makes of it *)

\* Faulty: one retry more than the budget.
OneMoreRetry == attempt <= RetryBudget

RetryLeft == attempt < RetryBudget

StagePasses(w) ==
  /\ exec[w].verdict = "passed"
  /\ status' = "passed" /\ result' = exec[w].out
  /\ task' = [task EXCEPT !.state = "closed"]
  /\ UNCHANGED <<attempt, lastFailure>>

\* Faulty: the failure is left to Temporal, which replays the same attempt.
StageReplays(w) ==
  /\ exec[w].verdict = "retryable" /\ RetryLeft
  /\ lastFailure' = exec[w].out
  /\ task' = Requeued
  /\ UNCHANGED <<attempt, status, result>>

StageRetries(w) ==
  /\ exec[w].verdict = "retryable" /\ RetryLeft
  /\ attempt' = attempt + 1
  /\ lastFailure' = exec[w].out
  /\ task' = [try |-> 1, state |-> "queued"]
  /\ UNCHANGED <<status, result>>

StageGivesUp(w) ==
  /\ \/ exec[w].verdict = "terminal"
     \/ exec[w].verdict = "retryable" /\ ~ RetryLeft
  /\ status' = "failed"
  /\ lastFailure' = exec[w].out
  /\ task' = [task EXCEPT !.state = "closed"]
  /\ UNCHANGED <<attempt, result>>

Reply(w) ==
  /\ exec[w].pc = "reply"
  /\ exec' = [exec EXCEPT ![w] = Idle]
  /\ IF Current(w)
       THEN StagePasses(w) \/ StageRetries(w) \/ StageGivesUp(w)
       ELSE UNCHANGED <<loop, task>>
  /\ UNCHANGED <<memory, rows, calls, faults>>
-----------------------------------------------------------------------------
(* Faults *)

\* An exception that is not a ValidationFailure leaves the activity: from the
\* provider, before or after it did its work, from put_artifact once the
\* feedback was dropped, or from either database write.  Temporal replays the
\* envelope.
Raise(w) ==
  /\ exec[w].pc \in {"run", "save", "telemetry"}
  /\ errors < MaxErrors
  /\ errors' = errors + 1
  /\ \/ UNCHANGED <<calls, feedback>>
     \/ /\ exec[w].pc = "run" /\ cache[w] = 0
        /\ calls' = calls + 1
        /\ \/ UNCHANGED feedback
           \/ feedback' = [feedback EXCEPT ![w] = 0]
  /\ task' = IF Current(w) THEN Requeued ELSE task
  /\ exec' = [exec EXCEPT ![w] = Idle]
  /\ UNCHANGED <<loop, cache, rows, crashes, slow>>

\* The process is killed, at any point, and a fresh one polls in its place.
Crash(w) ==
  /\ crashes < MaxCrashes
  /\ crashes' = crashes + 1
  /\ exec' = [exec EXCEPT ![w] = Idle]
  /\ cache' = [cache EXCEPT ![w] = 0]
  /\ feedback' = [feedback EXCEPT ![w] = 0]
  /\ UNCHANGED <<loop, task, rows, calls, errors, slow>>

\* Faulty: an activity without a timeout.
LostTryIsAwaited ==
  /\ task.state = "running"
  /\ ~ \E w \in Workers : Current(w)
  /\ UNCHANGED vars

\* start_to_close_timeout: nobody is left executing the try.
LostTryTimesOut ==
  /\ task.state = "running"
  /\ ~ \E w \in Workers : Current(w)
  /\ task' = Requeued
  /\ UNCHANGED <<loop, exec, memory, rows, calls, faults>>

\* start_to_close_timeout while the worker is still at it: the execution goes
\* on, and so does a second one.
SlowTryTimesOut ==
  /\ slow < MaxSlow
  /\ \E w \in Workers : Current(w)
  /\ slow' = slow + 1
  /\ task' = Requeued
  /\ UNCHANGED <<loop, exec, memory, rows, calls, crashes, errors>>

Resolved ==
  /\ status # "running"
  /\ UNCHANGED vars

Execute(w) ==
  \/ HitCache(w)
  \/ \E v \in Verdicts : CallProvider(w, v)
  \/ SaveRecord(w)
  \/ RecordTelemetry(w)
  \/ Reply(w)

\* Every activity ends within STAGE_TIMEOUT, or is lost with its process.
InTimeNext ==
  \/ \E w \in Workers : Poll(w) \/ Execute(w) \/ Raise(w) \/ Crash(w)
  \/ LostTryTimesOut
  \/ Resolved

Next == InTimeNext \/ SlowTryTimesOut

InTimeSpec == Init /\ [][InTimeNext]_vars

Spec == Init /\ [][Next]_vars
-----------------------------------------------------------------------------
(* Properties *)

\* Every variable has the type of what it stands for in the code.
TypeOK ==
  /\ attempt \in Attempts
  /\ status \in {"running", "passed", "failed"}
  /\ result \in Nat /\ lastFailure \in Nat
  /\ task \in [try : Nat, state : {"queued", "running", "closed"}]
  /\ exec \in [Workers -> [pc : Steps, attempt : Attempts, try : Nat,
                           verdict : Verdicts, out : Nat]]
  /\ cache \in [Workers -> Nat] /\ feedback \in [Workers -> Nat]
  /\ manifest \in [Attempts -> {"none", "passed", "failed"}]
  /\ telemetry \in [Attempts -> Nat]
  /\ calls \in Nat /\ crashes \in Nat /\ errors \in Nat /\ slow \in Nat

\* The rows tell what the workflow was told: every attempt it retried is on
\* record as failed with no output, and an attempt that ended the stage is on
\* record with its verdict and with the very output the workflow went on with,
\* whichever worker wrote last and however often.
RecordMatchesDelivery ==
  /\ \A k \in Attempts :
       k < attempt => manifest[k] = "failed" /\ telemetry[k] = 0
  /\ status = "passed" => /\ manifest[attempt] = "passed"
                          /\ telemetry[attempt] = result
  /\ status = "failed" => /\ manifest[attempt] = "failed"
                          /\ telemetry[attempt] = 0

\* A provider, publishing included, is called once per attempt of the
\* correction loop, and once more for each fault at most.
ExtraCallsHaveFaults == calls <= attempt + crashes + errors + slow

\* What a provider reads with get_stage_feedback is nothing, or the report of
\* the failure being corrected, or of a try of this attempt whose row could not
\* be saved; with one process it is never the report of an older attempt.
FeedbackNeverStale ==
  [][\A w \in Workers :
       calls' > calls /\ exec[w].pc = "run" /\ exec'[w].pc = "save" =>
         feedback[w] = 0 \/ feedback[w] >= lastFailure]_vars

\* dashboard_api.py:183 reads the telemetry row as "the durable source of truth
\* for what actually happened"; here: the output on record for a passed stage
\* is the output the workflow went on with.
TelemetryIsTruth == status = "passed" => telemetry[attempt] = result

\* The stage as the workflow may think of it.
Contract == INSTANCE StageContract WITH
  rows   <- [k \in Attempts |-> IF k < attempt \/ status # "running"
                                  THEN manifest[k] ELSE "none"],
  output <- IF status = "passed" THEN telemetry[attempt] ELSE 0

\* Crashes, replays and cached answers are invisible to the workflow.
StageImplementsContract == Contract!Spec

\* With finitely many faults the correction loop comes to an end.
StageResolves == <>(status # "running")
=============================================================================
