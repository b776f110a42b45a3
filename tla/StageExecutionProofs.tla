------------------------ MODULE StageExecutionProofs ------------------------
(***************************************************************************)
(* Proofs about StageExecution, for any number of processes, any budget    *)
(* and any number of faults.                                               *)
(***************************************************************************)
EXTENDS StageExecution, FiniteSetTheorems, TLAPS

Tasks == [try : Nat, state : {"queued", "running", "closed"}]
Execs == [pc : Steps, attempt : Attempts, try : Nat, verdict : Verdicts, out : Nat]

\* A worker whose execution goes on changes its own record only.
LEMMA Proceeding ==
  ASSUME exec \in [Workers -> Execs], NEW w \in Workers, NEW p \in Steps,
         exec' = [exec EXCEPT ![w].pc = p]
  PROVE  /\ exec' \in [Workers -> Execs]
         /\ exec'[w] = [pc |-> p, attempt |-> exec[w].attempt,
                        try |-> exec[w].try, verdict |-> exec[w].verdict,
                        out |-> exec[w].out]
         /\ \A x \in Workers : x # w => exec'[x] = exec[x]
<1>1. exec[w] \in Execs
  OBVIOUS
<1>2. [exec[w] EXCEPT !.pc = p] =
        [pc |-> p, attempt |-> exec[w].attempt, try |-> exec[w].try,
         verdict |-> exec[w].verdict, out |-> exec[w].out]
  BY <1>1 DEF Execs
<1>3. exec' = [exec EXCEPT ![w] = [exec[w] EXCEPT !.pc = p]]
  OBVIOUS
<1>4. [exec[w] EXCEPT !.pc = p] \in Execs
  BY <1>1, <1>2 DEF Execs
<1> QED
  BY <1>2, <1>3, <1>4

\* A judged execution keeps its attempt and its try.
LEMMA Judging ==
  ASSUME exec \in [Workers -> Execs], NEW w \in Workers, NEW v \in Verdicts,
         NEW o \in Nat, Judged(w, v, o)
  PROVE  /\ exec' \in [Workers -> Execs]
         /\ exec'[w] = [pc |-> "save", attempt |-> exec[w].attempt,
                        try |-> exec[w].try, verdict |-> v, out |-> o]
         /\ \A x \in Workers : x # w => exec'[x] = exec[x]
<1> DEFINE r == [pc |-> "save", attempt |-> exec[w].attempt,
                 try |-> exec[w].try, verdict |-> v, out |-> o]
<1>1. exec[w] \in Execs
  OBVIOUS
<1>2. r \in Execs
  BY <1>1 DEF Execs, Steps
<1>3. exec' = [exec EXCEPT ![w] = r]
  BY DEF Judged
<1> QED
  BY <1>2, <1>3

\* An execution that ends leaves the others alone.
LEMMA Ending ==
  ASSUME exec \in [Workers -> Execs], NEW w \in Workers,
         exec' = [exec EXCEPT ![w] = Idle]
  PROVE  exec' \in [Workers -> Execs]
<1>1. Idle \in Execs
  BY BudgetAssumption DEF Idle, Execs, Steps, Verdicts, Attempts
<1> QED
  BY <1>1

\* Every step of the stage keeps the types.
LEMMA TypeStep == ASSUME TypeOK, [Next]_vars PROVE TypeOK'
<1> USE BudgetAssumption, FaultAssumption DEF TypeOK
<1>0. task \in Tasks /\ exec \in [Workers -> Execs] /\ Requeued \in Tasks
  BY DEF Tasks, Execs, Requeued
<1> SUFFICES /\ task' \in Tasks /\ exec' \in [Workers -> Execs]
             /\ attempt' \in Attempts /\ status' \in {"running", "passed", "failed"}
             /\ result' \in Nat /\ lastFailure' \in Nat
             /\ cache' \in [Workers -> Nat] /\ feedback' \in [Workers -> Nat]
             /\ manifest' \in [Attempts -> {"none", "passed", "failed"}]
             /\ telemetry' \in [Attempts -> Nat]
             /\ calls' \in Nat /\ crashes' \in Nat /\ errors' \in Nat
             /\ slow' \in Nat
  BY DEF Tasks, Execs
<1> USE DEF loop, rows, memory, faults
<1>1. ASSUME NEW w \in Workers, Poll(w)
      PROVE  task' \in Tasks /\ exec' \in [Workers -> Execs]
  <2> DEFINE r == [pc |-> "run", attempt |-> attempt, try |-> task.try,
                   verdict |-> "terminal", out |-> 0]
  <2>1. r \in Execs
    BY <1>0 DEF Execs, Tasks, Steps, Verdicts
  <2>2. exec' = [exec EXCEPT ![w] = r] /\ task' = [task EXCEPT !.state = "running"]
    BY <1>1 DEF Poll
  <2>3. task' \in Tasks
    BY <1>0, <2>2 DEF Tasks
  <2>4. exec' \in [Workers -> Execs]
    BY <1>0, <2>1, <2>2
  <2> QED
    BY <2>3, <2>4
<1>2. ASSUME NEW w \in Workers, HitCache(w)
      PROVE  exec' \in [Workers -> Execs]
  <2>1. cache[w] \in Nat /\ "passed" \in Verdicts /\ Judged(w, "passed", cache[w])
    BY <1>2 DEF HitCache, Verdicts
  <2> QED
    BY <1>0, <2>1, Judging
<1>3. ASSUME NEW w \in Workers, NEW v \in Verdicts, CallProvider(w, v)
      PROVE  /\ exec' \in [Workers -> Execs] /\ calls' \in Nat
             /\ cache' \in [Workers -> Nat] /\ feedback' \in [Workers -> Nat]
  <2>1. calls + 1 \in Nat /\ Judged(w, v, calls + 1) /\ calls' = calls + 1
    BY <1>3 DEF CallProvider
  <2>2. exec' \in [Workers -> Execs]
    BY <1>0, <2>1, Judging
  <2>3. cache' \in [Workers -> Nat] /\ feedback' \in [Workers -> Nat]
    BY <1>3, <2>1 DEF CallProvider, KeepFeedback
  <2> QED
    BY <2>1, <2>2, <2>3
<1>4. ASSUME NEW w \in Workers, SaveRecord(w)
      PROVE  /\ exec' \in [Workers -> Execs]
             /\ manifest' \in [Attempts -> {"none", "passed", "failed"}]
  <2>1. "telemetry" \in Steps /\ exec' = [exec EXCEPT ![w].pc = "telemetry"]
    BY <1>4 DEF SaveRecord, Steps
  <2>2. exec' \in [Workers -> Execs]
    BY <1>0, <2>1, Proceeding
  <2> QED
    BY <1>4, <2>2 DEF SaveRecord
<1>5. ASSUME NEW w \in Workers, RecordTelemetry(w)
      PROVE  exec' \in [Workers -> Execs] /\ telemetry' \in [Attempts -> Nat]
  <2>1. "reply" \in Steps /\ exec' = [exec EXCEPT ![w].pc = "reply"]
    BY <1>5 DEF RecordTelemetry, Steps
  <2>2. exec' \in [Workers -> Execs]
    BY <1>0, <2>1, Proceeding
  <2>3. exec[w].out \in Nat
    BY <1>0 DEF Execs
  <2> QED
    BY <1>5, <2>2, <2>3 DEF RecordTelemetry
<1>6. ASSUME NEW w \in Workers, Reply(w)
      PROVE  /\ task' \in Tasks /\ exec' \in [Workers -> Execs]
             /\ attempt' \in Attempts
             /\ status' \in {"running", "passed", "failed"}
             /\ result' \in Nat /\ lastFailure' \in Nat
  <2>1. exec' \in [Workers -> Execs]
    BY <1>0, <1>6, Ending DEF Reply
  <2>2. exec[w].out \in Nat
    BY <1>0 DEF Execs
  <2>3. CASE StagePasses(w)
    BY <1>0, <2>1, <2>2, <2>3 DEF StagePasses, Tasks
  <2>4. CASE StageRetries(w)
    <3>1. attempt' \in Attempts /\ task' \in Tasks
      BY <2>4 DEF StageRetries, RetryLeft, Tasks, Attempts
    <3> QED
      BY <2>1, <2>2, <2>4, <3>1 DEF StageRetries
  <2>5. CASE StageGivesUp(w)
    BY <1>0, <2>1, <2>2, <2>5 DEF StageGivesUp, Tasks
  <2>6. CASE UNCHANGED <<loop, task>>
    BY <1>0, <2>1, <2>6
  <2> QED
    BY <1>6, <2>3, <2>4, <2>5, <2>6 DEF Reply
<1>7. ASSUME NEW w \in Workers, Raise(w)
      PROVE  /\ task' \in Tasks /\ exec' \in [Workers -> Execs]
             /\ feedback' \in [Workers -> Nat]
             /\ calls' \in Nat /\ errors' \in Nat
  <2>1. exec' \in [Workers -> Execs]
    BY <1>0, <1>7, Ending DEF Raise
  <2> QED
    BY <1>0, <1>7, <2>1 DEF Raise
<1>8. ASSUME NEW w \in Workers, Crash(w)
      PROVE  /\ exec' \in [Workers -> Execs] /\ cache' \in [Workers -> Nat]
             /\ feedback' \in [Workers -> Nat] /\ crashes' \in Nat
  <2>1. exec' \in [Workers -> Execs]
    BY <1>0, <1>8, Ending DEF Crash
  <2> QED
    BY <1>8, <2>1 DEF Crash
<1>9. CASE LostTryTimesOut \/ SlowTryTimesOut
  BY <1>0, <1>9 DEF LostTryTimesOut, SlowTryTimesOut
<1>10. CASE UNCHANGED vars
  BY <1>0, <1>10 DEF vars
<1>11. ASSUME NEW w \in Workers, Poll(w) \/ Execute(w) \/ Raise(w) \/ Crash(w)
       PROVE  /\ task' \in Tasks /\ exec' \in [Workers -> Execs]
              /\ attempt' \in Attempts /\ status' \in {"running", "passed", "failed"}
              /\ result' \in Nat /\ lastFailure' \in Nat
              /\ cache' \in [Workers -> Nat] /\ feedback' \in [Workers -> Nat]
              /\ manifest' \in [Attempts -> {"none", "passed", "failed"}]
              /\ telemetry' \in [Attempts -> Nat]
              /\ calls' \in Nat /\ crashes' \in Nat /\ errors' \in Nat
              /\ slow' \in Nat
  <2>1. CASE Poll(w)
    BY <1>1, <2>1 DEF Poll
  <2>2. CASE HitCache(w)
    BY <1>0, <1>2, <2>2 DEF HitCache
  <2>3. ASSUME NEW v \in Verdicts, CallProvider(w, v)
        PROVE  /\ task' = task /\ UNCHANGED loop
               /\ UNCHANGED rows /\ UNCHANGED faults
    BY <2>3 DEF CallProvider
  <2>4. CASE SaveRecord(w)
    BY <1>0, <1>4, <2>4 DEF SaveRecord
  <2>5. CASE RecordTelemetry(w)
    BY <1>0, <1>5, <2>5 DEF RecordTelemetry
  <2>6. CASE Reply(w)
    BY <1>6, <2>6 DEF Reply
  <2>7. CASE Raise(w)
    BY <1>7, <2>7 DEF Raise
  <2>8. CASE Crash(w)
    BY <1>0, <1>8, <2>8 DEF Crash
  <2>9. CASE \E v \in Verdicts : CallProvider(w, v)
    BY <1>0, <1>3, <2>3, <2>9
  <2> QED
    BY <1>11, <2>1, <2>2, <2>4, <2>5, <2>6, <2>7, <2>8, <2>9 DEF Execute
<1> QED
  BY <1>9, <1>10, <1>11 DEF Next, InTimeNext, Resolved

\* Every variable has the type of what it stands for in the code.
THEOREM TypeCorrect == Spec => []TypeOK
<1>1. Init => TypeOK
  BY BudgetAssumption DEF TypeOK, Init, Attempts, Verdicts, Steps, Idle
<1>2. TypeOK /\ [Next]_vars => TypeOK'
  BY TypeStep
<1> QED
  BY <1>1, <1>2, PTL DEF Spec
-----------------------------------------------------------------------------
(* Records, when no activity outlives its timeout *)

Verdict(v) == IF v = "passed" THEN "passed" ELSE "failed"

\* The server waits for whoever executes, and one process at most does.
OneExecution ==
  /\ task.state = "closed" <=> status # "running"
  /\ \A w \in Workers : exec[w].pc # "idle" => Current(w)
  /\ \A w, x \in Workers :
       exec[w].pc # "idle" /\ exec[x].pc # "idle" => w = x

\* Old attempts are on record as failed, coming ones not at all, and the
\* present one as far as its execution has written.
RowsInOrder ==
  /\ \A k \in Attempts : k < attempt => manifest[k] = "failed" /\ telemetry[k] = 0
  /\ \A k \in Attempts : k > attempt => manifest[k] = "none"

RowsWritten ==
  \A w \in Workers :
    /\ exec[w].pc \in {"telemetry", "reply"} =>
         manifest[attempt] = Verdict(exec[w].verdict)
    /\ exec[w].pc = "reply" =>
         telemetry[attempt] = IF exec[w].verdict = "passed" THEN exec[w].out ELSE 0

\* An output is the number of a call; only a passed stage has a result.
Outputs ==
  /\ \A w \in Workers : cache[w] <= calls
  /\ \A w \in Workers : exec[w].pc \in {"save", "telemetry", "reply"} =>
                          exec[w].out > 0
  /\ status # "passed" => result = 0
  /\ status = "passed" => result > 0

Verdicted ==
  /\ status = "passed" => manifest[attempt] = "passed" /\ telemetry[attempt] = result
  /\ status = "failed" => manifest[attempt] = "failed" /\ telemetry[attempt] = 0

RecordInv == OneExecution /\ RowsInOrder /\ RowsWritten /\ Outputs /\ Verdicted

LEMMA RecordInvInit == Init => RecordInv
BY BudgetAssumption
   DEF Init, RecordInv, OneExecution, RowsInOrder, RowsWritten, Outputs,
       Verdicted, Idle, Attempts

\* Whoever executes holds the try that is waited for, and nobody else executes.
LEMMA Alone ==
  ASSUME OneExecution, NEW w \in Workers, exec[w].pc # "idle"
  PROVE  /\ status = "running" /\ task.state = "running"
         /\ exec[w].attempt = attempt /\ exec[w].try = task.try /\ Current(w)
         /\ \A x \in Workers : x # w => exec[x].pc = "idle"
BY DEF OneExecution, Current

\* A step of the one execution that goes on: the loop and the task stay.
LEMMA StillOne ==
  ASSUME OneExecution, NEW w \in Workers, exec[w].pc # "idle",
         exec'[w].attempt = exec[w].attempt, exec'[w].try = exec[w].try,
         exec'[w].pc # "idle",
         \A x \in Workers : x # w => exec'[x] = exec[x],
         UNCHANGED <<loop, task>>
  PROVE  OneExecution'
BY DEF OneExecution, Current, loop

\* Once the one execution is over nobody executes.
LEMMA NobodyLeft ==
  ASSUME OneExecution, exec \in [Workers -> Execs], NEW w \in Workers,
         exec[w].pc # "idle", exec' = [exec EXCEPT ![w] = Idle]
  PROVE  \A x \in Workers : exec'[x].pc = "idle"
BY DEF OneExecution, Idle

\* Every step of the stage keeps the records in order.
LEMMA RecordInvStep ==
  ASSUME TypeOK, RecordInv, [InTimeNext]_vars
  PROVE  RecordInv'
<1> USE BudgetAssumption
<1>0. /\ exec \in [Workers -> Execs] /\ task \in Tasks /\ attempt \in Attempts
      /\ manifest \in [Attempts -> {"none", "passed", "failed"}]
      /\ telemetry \in [Attempts -> Nat] /\ calls \in Nat
      /\ cache \in [Workers -> Nat]
  BY DEF TypeOK, Execs, Tasks
<1>i. OneExecution /\ RowsInOrder /\ RowsWritten /\ Outputs /\ Verdicted
  BY DEF RecordInv
<1> USE DEF loop, rows, memory, faults
<1>1. ASSUME NEW w \in Workers, Poll(w) PROVE RecordInv'
  <2>1. \A x \in Workers : exec[x].pc = "idle"
    BY <1>1, <1>i, Alone DEF Poll
  <2>2. /\ \A x \in Workers : x # w => exec'[x].pc = "idle"
        /\ exec'[w].pc = "run" /\ exec'[w].attempt = attempt
        /\ exec'[w].try = task.try
        /\ task'.state = "running" /\ task'.try = task.try
        /\ task.state = "queued" /\ UNCHANGED <<loop, memory, rows, calls>>
    BY <1>0, <1>1, <2>1 DEF Poll, Tasks
  <2>3. OneExecution'
    BY <1>i, <2>2 DEF OneExecution, Current
  <2>4. RowsInOrder' /\ RowsWritten' /\ Outputs' /\ Verdicted'
    BY <1>i, <2>2 DEF RowsInOrder, RowsWritten, Outputs, Verdicted
  <2> QED
    BY <2>3, <2>4 DEF RecordInv
<1>2. ASSUME NEW w \in Workers, NEW v \in Verdicts, NEW o \in Nat \ {0},
             exec[w].pc = "run", Judged(w, v, o),
             UNCHANGED <<loop, task, rows>>, calls' >= calls, calls' \in Nat,
             \A x \in Workers : cache'[x] <= calls'
      PROVE  RecordInv'
  <2>1. /\ exec'[w].pc = "save" /\ exec'[w].attempt = exec[w].attempt
        /\ exec'[w].try = exec[w].try /\ exec'[w].out = o
        /\ \A x \in Workers : x # w => exec'[x] = exec[x]
    <3>1. o \in Nat /\ exec \in [Workers -> Execs] /\ Judged(w, v, o)
      BY <1>0, <1>2
    <3>2. /\ exec'[w] = [pc |-> "save", attempt |-> exec[w].attempt,
                          try |-> exec[w].try, verdict |-> v, out |-> o]
          /\ \A x \in Workers : x # w => exec'[x] = exec[x]
      BY ONLY <3>1, Judging
    <3> QED
      BY ONLY <3>2
  <2>2. OneExecution'
    BY <1>i, <1>2, <2>1, StillOne
  <2>3. RowsInOrder' /\ RowsWritten' /\ Outputs' /\ Verdicted'
    BY <1>i, <1>2, <2>1 DEF RowsInOrder, RowsWritten, Outputs, Verdicted
  <2> QED
    BY <2>2, <2>3 DEF RecordInv
<1>3. ASSUME NEW w \in Workers, HitCache(w) PROVE RecordInv'
  <2>1. cache[w] \in Nat \ {0} /\ "passed" \in Verdicts
    BY <1>0, <1>3 DEF HitCache, Verdicts
  <2>2. \A x \in Workers : cache[x] <= calls
    BY <1>0, <1>i DEF Outputs
  <2>3. /\ exec[w].pc = "run" /\ Judged(w, "passed", cache[w])
        /\ UNCHANGED <<loop, task, rows>> /\ calls' = calls /\ cache' = cache
    BY <1>3 DEF HitCache
  <2> QED
    BY <1>0, <1>2, <2>1, <2>2, <2>3
<1>4. ASSUME NEW w \in Workers, NEW v \in Verdicts, CallProvider(w, v)
      PROVE  RecordInv'
  <2>1. /\ exec[w].pc = "run" /\ Judged(w, v, calls + 1)
        /\ UNCHANGED <<loop, task, rows>> /\ calls' = calls + 1
        /\ cache' \in {cache, [cache EXCEPT ![w] = calls + 1]}
    BY <1>4 DEF CallProvider
  <2>2. \A x \in Workers : cache'[x] <= calls'
    BY <1>0, <1>i, <2>1 DEF Outputs
  <2>3. calls + 1 \in Nat \ {0}
    BY <1>0
  <2> QED
    BY <1>0, <1>2, <2>1, <2>2, <2>3
<1>5. ASSUME NEW w \in Workers, SaveRecord(w) PROVE RecordInv'
  <2>1. /\ status = "running" /\ exec[w].attempt = attempt
        /\ \A x \in Workers : x # w => exec[x].pc = "idle"
    BY <1>5, <1>i, Alone DEF SaveRecord
  <2>2. /\ exec'[w].pc = "telemetry" /\ exec'[w].attempt = exec[w].attempt
        /\ exec'[w].try = exec[w].try /\ exec'[w].out = exec[w].out
        /\ exec'[w].verdict = exec[w].verdict
        /\ \A x \in Workers : x # w => exec'[x] = exec[x]
    BY <1>0, <1>5, Proceeding DEF SaveRecord, Steps
  <2>3. /\ manifest'[attempt] = Verdict(exec[w].verdict)
        /\ \A k \in Attempts : k # attempt => manifest'[k] = manifest[k]
        /\ exec[w].pc = "save"
        /\ UNCHANGED <<loop, task, telemetry, calls, cache>>
    BY <1>0, <1>5, <2>1 DEF SaveRecord, Verdict
  <2>4. OneExecution'
    BY <1>i, <2>2, <2>3, StillOne
  <2>5. RowsInOrder' /\ Verdicted'
    BY <1>0, <1>i, <2>1, <2>3 DEF RowsInOrder, Verdicted, Attempts
  <2>6. RowsWritten'
    BY <2>1, <2>2, <2>3 DEF RowsWritten
  <2>7. Outputs'
    BY <1>i, <2>2, <2>3 DEF Outputs
  <2> QED
    BY <2>4, <2>5, <2>6, <2>7 DEF RecordInv
<1>6. ASSUME NEW w \in Workers, RecordTelemetry(w) PROVE RecordInv'
  <2>1. /\ status = "running" /\ exec[w].attempt = attempt
        /\ \A x \in Workers : x # w => exec[x].pc = "idle"
    BY <1>6, <1>i, Alone DEF RecordTelemetry
  <2>2. /\ exec'[w].pc = "reply" /\ exec'[w].attempt = exec[w].attempt
        /\ exec'[w].try = exec[w].try /\ exec'[w].out = exec[w].out
        /\ exec'[w].verdict = exec[w].verdict
        /\ \A x \in Workers : x # w => exec'[x] = exec[x]
    BY <1>0, <1>6, Proceeding DEF RecordTelemetry, Steps
  <2>3. /\ telemetry'[attempt] =
             IF exec[w].verdict = "passed" THEN exec[w].out ELSE 0
        /\ \A k \in Attempts : k # attempt => telemetry'[k] = telemetry[k]
        /\ exec[w].pc = "telemetry"
        /\ UNCHANGED <<loop, task, manifest, calls, cache>>
    BY <1>0, <1>6, <2>1 DEF RecordTelemetry
  <2>4. OneExecution'
    BY <1>i, <2>2, <2>3, StillOne
  <2>5. RowsInOrder' /\ Verdicted'
    BY <1>0, <1>i, <2>1, <2>3 DEF RowsInOrder, Verdicted, Attempts
  <2>6. RowsWritten'
    BY <1>i, <2>1, <2>2, <2>3 DEF RowsWritten
  <2>7. Outputs'
    BY <1>i, <2>2, <2>3 DEF Outputs
  <2> QED
    BY <2>4, <2>5, <2>6, <2>7 DEF RecordInv
<1>7. ASSUME NEW w \in Workers, Reply(w) PROVE RecordInv'
  <2>1. status = "running" /\ Current(w)
    BY <1>7, <1>i, Alone DEF Reply
  <2>2. \A x \in Workers : exec'[x].pc = "idle"
    BY <1>0, <1>7, <1>i, NobodyLeft DEF Reply
  <2>3. /\ manifest[attempt] = Verdict(exec[w].verdict)
        /\ telemetry[attempt] = IF exec[w].verdict = "passed" THEN exec[w].out ELSE 0
        /\ exec[w].out > 0
    BY <1>7, <1>i DEF Reply, RowsWritten, Outputs
  <2>4. UNCHANGED <<memory, rows, calls>>
    BY <1>7 DEF Reply
  <2>5. RowsWritten'
    BY <2>2 DEF RowsWritten
  <2>6. CASE StagePasses(w)
    <3>1. /\ task'.state = "closed" /\ status' = "passed" /\ attempt' = attempt
          /\ result' = exec[w].out /\ exec[w].verdict = "passed"
      BY <1>0, <2>6 DEF StagePasses, Tasks
    <3>2. OneExecution'
      BY <2>2, <3>1 DEF OneExecution
    <3>3. RowsInOrder' /\ Verdicted' /\ Outputs'
      BY <1>i, <2>2, <2>3, <2>4, <3>1
         DEF RowsInOrder, Verdicted, Outputs, Verdict
    <3> QED
      BY <2>5, <3>2, <3>3 DEF RecordInv
  <2>7. CASE StageRetries(w)
    <3>1. /\ task'.state = "queued" /\ status' = status /\ attempt' = attempt + 1
          /\ result' = result /\ exec[w].verdict = "retryable"
      BY <2>7 DEF StageRetries
    <3>2. OneExecution'
      BY <2>1, <2>2, <3>1 DEF OneExecution
    <3>3. RowsInOrder'
      BY <1>0, <1>i, <2>3, <2>4, <3>1 DEF RowsInOrder, Verdict, Attempts
    <3>4. Verdicted' /\ Outputs'
      BY <1>i, <2>1, <2>2, <2>4, <3>1 DEF Verdicted, Outputs
    <3> QED
      BY <2>5, <3>2, <3>3, <3>4 DEF RecordInv
  <2>8. CASE StageGivesUp(w)
    <3>1. /\ task'.state = "closed" /\ status' = "failed" /\ attempt' = attempt
          /\ result' = result /\ exec[w].verdict # "passed"
      BY <1>0, <2>8 DEF StageGivesUp, Tasks
    <3>2. OneExecution'
      BY <2>2, <3>1 DEF OneExecution
    <3>3. RowsInOrder' /\ Verdicted' /\ Outputs'
      BY <1>i, <2>1, <2>2, <2>3, <2>4, <3>1
         DEF RowsInOrder, Verdicted, Outputs, Verdict
    <3> QED
      BY <2>5, <3>2, <3>3 DEF RecordInv
  <2> QED
    BY <1>7, <2>1, <2>6, <2>7, <2>8 DEF Reply
<1>8. ASSUME NEW w \in Workers, Raise(w) PROVE RecordInv'
  <2>1. status = "running" /\ Current(w)
    BY <1>8, <1>i, Alone DEF Raise
  <2>2. \A x \in Workers : exec'[x].pc = "idle"
    BY <1>0, <1>8, <1>i, NobodyLeft DEF Raise
  <2>3. /\ task'.state = "queued" /\ UNCHANGED <<loop, rows, cache>>
        /\ calls' \in {calls, calls + 1}
    BY <1>8, <2>1 DEF Raise, Requeued
  <2>4. OneExecution' /\ RowsWritten'
    BY <2>1, <2>2, <2>3 DEF OneExecution, RowsWritten
  <2>5. RowsInOrder' /\ Verdicted'
    BY <1>i, <2>3 DEF RowsInOrder, Verdicted
  <2>6. Outputs'
    BY <1>0, <1>i, <2>2, <2>3 DEF Outputs
  <2> QED
    BY <2>4, <2>5, <2>6 DEF RecordInv
<1>9. ASSUME NEW w \in Workers, Crash(w) PROVE RecordInv'
  <2>1. /\ \A x \in Workers : exec'[x].pc = "idle" \/ exec'[x] = exec[x]
        /\ \A x \in Workers : cache'[x] \in {0, cache[x]}
        /\ UNCHANGED <<loop, task, rows, calls>>
    BY <1>0, <1>9 DEF Crash, Idle
  <2>2. OneExecution'
    BY <1>i, <2>1 DEF OneExecution, Current
  <2>3. RowsInOrder' /\ Verdicted' /\ RowsWritten' /\ Outputs'
    BY <1>0, <1>i, <2>1 DEF RowsInOrder, Verdicted, RowsWritten, Outputs
  <2> QED
    BY <2>2, <2>3 DEF RecordInv
<1>10. CASE LostTryTimesOut
  <2>1. \A x \in Workers : exec[x].pc = "idle"
    BY <1>10, <1>i, Alone DEF LostTryTimesOut
  <2>2. /\ task.state = "running" /\ task'.state = "queued"
        /\ UNCHANGED <<loop, exec, memory, rows, calls>>
    BY <1>10 DEF LostTryTimesOut, Requeued
  <2>3. OneExecution'
    BY <1>i, <2>1, <2>2 DEF OneExecution
  <2>4. RowsInOrder' /\ Verdicted' /\ RowsWritten' /\ Outputs'
    BY <1>i, <2>2 DEF RowsInOrder, Verdicted, RowsWritten, Outputs
  <2> QED
    BY <2>3, <2>4 DEF RecordInv
<1>11. CASE UNCHANGED vars
  BY <1>11, <1>i
     DEF vars, RecordInv, OneExecution, Current, RowsInOrder, Verdicted,
         RowsWritten, Outputs
<1> QED
  BY <1>1, <1>3, <1>4, <1>5, <1>6, <1>7, <1>8, <1>9, <1>10, <1>11
     DEF InTimeNext, Execute, Resolved

LEMMA InTimeTypes == InTimeSpec => []TypeOK
<1>1. [InTimeNext]_vars => [Next]_vars
  BY DEF Next
<1> QED
  BY <1>1, TypeCorrect, PTL DEF InTimeSpec, Spec

LEMMA RecordInvariance == InTimeSpec => []RecordInv
<1>1. TypeOK /\ RecordInv /\ [InTimeNext]_vars => RecordInv'
  BY RecordInvStep
<1> QED
  BY <1>1, RecordInvInit, InTimeTypes, PTL DEF InTimeSpec

\* As long as no activity outlives STAGE_TIMEOUT, the rows tell what the
\* workflow was told, whatever else fails and however many processes poll.
THEOREM RecordsMatch == InTimeSpec => []RecordMatchesDelivery
<1>1. RecordInv => RecordMatchesDelivery
  BY DEF RecordInv, RowsInOrder, Verdicted, RecordMatchesDelivery
<1> QED
  BY <1>1, RecordInvariance, PTL
-----------------------------------------------------------------------------
(* The contract *)

ToldRows == [k \in Attempts |-> IF k < attempt \/ status # "running"
                                  THEN manifest[k] ELSE "none"]

RecordedOutput == IF status = "passed" THEN telemetry[attempt] ELSE 0

\* What the workflow is told changes with an answer only.
LEMMA OnlyRepliesTell ==
  ASSUME TypeOK, RecordInv, [InTimeNext]_vars,
         ~ \E w \in Workers : Reply(w)
  PROVE  UNCHANGED <<loop, ToldRows, RecordedOutput>>
<1>0. /\ manifest \in [Attempts -> {"none", "passed", "failed"}]
      /\ OneExecution
  BY DEF TypeOK, RecordInv
<1> SUFFICES /\ UNCHANGED loop
             /\ \A k \in Attempts :
                  k < attempt \/ status # "running" => manifest'[k] = manifest[k]
             /\ status = "passed" => telemetry' = telemetry
  BY DEF ToldRows, RecordedOutput, loop
<1>1. ASSUME NEW w \in Workers, SaveRecord(w)
      PROVE  /\ UNCHANGED loop
             /\ \A k \in Attempts :
                  k < attempt \/ status # "running" => manifest'[k] = manifest[k]
             /\ status = "passed" => telemetry' = telemetry
  <2>1. status = "running" /\ exec[w].attempt = attempt
    BY <1>0, <1>1, Alone DEF SaveRecord
  <2>2. attempt \in Nat
    BY DEF TypeOK, Attempts
  <2> QED
    BY <1>0, <1>1, <2>1, <2>2 DEF SaveRecord, Attempts
<1>2. ASSUME NEW w \in Workers, RecordTelemetry(w)
      PROVE  UNCHANGED <<loop, manifest>> /\ status = "running"
  BY <1>0, <1>2, Alone DEF RecordTelemetry
<1>3. CASE UNCHANGED <<loop, rows>>
  BY <1>3 DEF rows
<1> QED
  BY <1>1, <1>2, <1>3
     DEF InTimeNext, Execute, Resolved, Poll, HitCache, CallProvider, Raise,
         Crash, LostTryTimesOut, vars, rows

\* An answer is one step of the contract.
LEMMA RepliesTellTheRows ==
  ASSUME TypeOK, RecordInv, NEW w \in Workers, Reply(w)
  PROVE  Contract!Next
<1> USE DEF loop, rows
<1>0. /\ manifest \in [Attempts -> {"none", "passed", "failed"}]
      /\ attempt \in Attempts /\ exec[w].out \in Nat
      /\ OneExecution /\ RowsInOrder /\ RowsWritten /\ Outputs /\ Verdicted
  BY DEF TypeOK, RecordInv
<1>1. /\ status = "running" /\ Current(w)
      /\ manifest' = manifest /\ telemetry' = telemetry
      /\ manifest[attempt] = Verdict(exec[w].verdict)
      /\ telemetry[attempt] = IF exec[w].verdict = "passed" THEN exec[w].out ELSE 0
      /\ exec[w].out > 0 /\ result = 0
  BY <1>0, Alone DEF Reply, RowsWritten, Outputs
<1>2. CASE StagePasses(w)
  <2>1. /\ status' = "passed" /\ attempt' = attempt /\ result' = exec[w].out
        /\ exec[w].verdict = "passed"
    BY <1>2 DEF StagePasses
  <2>2. ToldRows' = [ToldRows EXCEPT ![attempt] = "passed"]
    <3>1. \A k \in Attempts : k < attempt \/ k = attempt \/ k > attempt
      BY <1>0 DEF Attempts
    <3> QED
      BY <1>0, <1>1, <2>1, <3>1 DEF ToldRows, RowsInOrder, Verdict
  <2>3. RecordedOutput' = result' /\ result' \in Nat \ {0}
    BY <1>0, <1>1, <2>1 DEF RecordedOutput
  <2> QED
    BY <1>1, <2>1, <2>2, <2>3
       DEF Contract!Next, Contract!Pass, ToldRows, RecordedOutput
<1>3. CASE StageRetries(w)
  <2>1. /\ status' = status /\ attempt' = attempt + 1 /\ result' = result
        /\ exec[w].verdict = "retryable" /\ attempt < RetryBudget
    BY <1>3 DEF StageRetries, RetryLeft
  <2>2. ToldRows' = [ToldRows EXCEPT ![attempt] = "failed"]
    <3>1. \A k \in Attempts : k < attempt + 1 <=> k < attempt \/ k = attempt
      BY <1>0 DEF Attempts
    <3> QED
      BY <1>0, <1>1, <2>1, <3>1 DEF ToldRows, Verdict, Attempts
  <2>3. RecordedOutput' = RecordedOutput
    BY <1>1, <2>1 DEF RecordedOutput
  <2> QED
    BY <1>1, <2>1, <2>2, <2>3
       DEF Contract!Next, Contract!Retry, ToldRows, RecordedOutput
<1>4. CASE StageGivesUp(w)
  <2>1. /\ status' = "failed" /\ attempt' = attempt /\ result' = result
        /\ exec[w].verdict # "passed"
    BY <1>4 DEF StageGivesUp
  <2>2. ToldRows' = [ToldRows EXCEPT ![attempt] = "failed"]
    <3>1. \A k \in Attempts : k < attempt \/ k = attempt \/ k > attempt
      BY <1>0 DEF Attempts
    <3> QED
      BY <1>0, <1>1, <2>1, <3>1 DEF ToldRows, RowsInOrder, Verdict
  <2>3. RecordedOutput' = RecordedOutput
    BY <1>1, <2>1 DEF RecordedOutput
  <2> QED
    BY <1>1, <2>1, <2>2, <2>3
       DEF Contract!Next, Contract!GiveUp, ToldRows, RecordedOutput
<1> QED
  BY <1>1, <1>2, <1>3, <1>4 DEF Reply

\* As long as no activity outlives STAGE_TIMEOUT, crashes, replays and cached
\* answers are invisible to the workflow: every step of the detailed stage is a
\* step of the contract or none at all.
THEOREM StageRefinesContract == InTimeSpec => StageImplementsContract
<1>1. Init => Contract!Init
  BY BudgetAssumption DEF Init, Contract!Init, Attempts
<1>2. TypeOK /\ RecordInv /\ [InTimeNext]_vars => [Contract!Next]_(Contract!vars)
  <2> SUFFICES ASSUME TypeOK, RecordInv, [InTimeNext]_vars
               PROVE  [Contract!Next]_(Contract!vars)
    OBVIOUS
  <2>1. CASE \E w \in Workers : Reply(w)
    BY <2>1, RepliesTellTheRows
  <2>2. CASE ~ \E w \in Workers : Reply(w)
    BY <2>2, OnlyRepliesTell DEF Contract!vars, ToldRows, RecordedOutput, loop
  <2> QED
    BY <2>1, <2>2
<1> QED
  BY <1>1, <1>2, RecordInvariance, InTimeTypes, PTL
     DEF InTimeSpec, StageImplementsContract, Contract!Spec
-----------------------------------------------------------------------------
(* Provider calls, activities that outlive their timeout included *)

\* Executions that may still call their provider, and the one that is to come.
Running == {w \in Workers : exec[w].pc = "run"}

Lost == task.state = "running" /\ ~ \E w \in Workers : Current(w)

Owed == IF task.state = "queued" \/ Lost THEN 1 ELSE 0

\* An attempt of the loop, and each fault, pays for one try of the activity; a
\* try calls the provider once at most.
CallInv ==
  /\ IsFiniteSet(Running)
  /\ calls + Cardinality(Running) + Owed <= attempt + crashes + errors + slow

\* An execution that goes on is waited for, or not, as before.
LEMMA StillAwaited ==
  ASSUME NEW w \in Workers, exec[w].pc # "idle", exec'[w].pc # "idle",
         exec'[w].attempt = exec[w].attempt, exec'[w].try = exec[w].try,
         \A x \in Workers : x # w => exec'[x] = exec[x],
         UNCHANGED <<attempt, task>>
  PROVE  Owed' = Owed
<1>1. \A x \in Workers : Current(x)' <=> Current(x)
  BY DEF Current
<1> QED
  BY <1>1 DEF Owed, Lost

LEMMA CallStart == ASSUME Init PROVE CallInv
<1>1. Running = {}
  BY DEF Init, Running, Idle
<1> QED
  BY <1>1, FS_EmptySet DEF Init, CallInv, Owed

\* Every step keeps the account of the calls.
LEMMA CallStep ==
  ASSUME TypeOK, CallInv, [Next]_vars PROVE CallInv'
<1> USE DEF loop, rows, memory, faults
<1>0. /\ exec \in [Workers -> Execs] /\ calls \in Nat /\ attempt \in Nat
      /\ crashes \in Nat /\ errors \in Nat /\ slow \in Nat
      /\ task \in Tasks
      /\ IsFiniteSet(Running) /\ Cardinality(Running) \in Nat
      /\ Owed \in 0..1 /\ Owed' \in 0..1
      /\ calls + Cardinality(Running) + Owed <= attempt + crashes + errors + slow
  BY FS_CardinalityType DEF TypeOK, Execs, Tasks, Attempts, CallInv, Owed
<1>1. ASSUME NEW w \in Workers, Running' = Running \ {w}
      PROVE  /\ IsFiniteSet(Running') /\ Cardinality(Running') \in Nat
             /\ Cardinality(Running')
                  = Cardinality(Running) - (IF w \in Running THEN 1 ELSE 0)
  BY <1>0, <1>1, FS_RemoveElement, FS_CardinalityType
<1>2. ASSUME NEW w \in Workers, Poll(w) PROVE CallInv'
  <2>1. /\ task' = [task EXCEPT !.state = "running"]
        /\ exec' = [exec EXCEPT ![w] =
                      [pc |-> "run", attempt |-> attempt, try |-> task.try,
                       verdict |-> "terminal", out |-> 0]]
        /\ task.state = "queued" /\ exec[w].pc = "idle"
        /\ UNCHANGED <<attempt, calls, faults>>
    BY <1>2 DEF Poll
  <2>2. Running' = Running \cup {w} /\ w \notin Running
    BY <1>0, <2>1 DEF Running
  <2>3. /\ IsFiniteSet(Running')
        /\ Cardinality(Running') = Cardinality(Running) + 1
    BY <1>0, <2>2, FS_AddElement
  <2>4. Current(w)' /\ task'.state = "running"
    BY <1>0, <2>1 DEF Current, Tasks
  <2>5. Owed = 1 /\ Owed' = 0
    BY <2>1, <2>4 DEF Owed, Lost
  <2> QED
    BY <1>0, <2>1, <2>3, <2>5 DEF CallInv
<1>3. ASSUME NEW w \in Workers, NEW v \in Verdicts, NEW o \in Nat,
             exec[w].pc = "run", Judged(w, v, o), calls' \in {calls, calls + 1},
             UNCHANGED <<attempt, task, faults>>
      PROVE  CallInv'
  <2>1. /\ exec'[w] = [pc |-> "save", attempt |-> exec[w].attempt,
                       try |-> exec[w].try, verdict |-> v, out |-> o]
        /\ \A x \in Workers : x # w => exec'[x] = exec[x]
    BY <1>0, <1>3, Judging
  <2>2. exec'[w].pc = "save" /\ exec'[w].attempt = exec[w].attempt
        /\ exec'[w].try = exec[w].try
    BY ONLY <2>1
  <2>3. Owed' = Owed
    BY <1>3, <2>1, <2>2, StillAwaited
  <2>4. Running' = Running \ {w} /\ w \in Running
    BY <1>3, <2>1, <2>2 DEF Running
  <2>5. /\ IsFiniteSet(Running')
        /\ Cardinality(Running') \in Nat
        /\ Cardinality(Running')
             = Cardinality(Running) - (IF w \in Running THEN 1 ELSE 0)
    BY <1>1, <2>4
  <2> QED
    BY <1>0, <1>3, <2>3, <2>4, <2>5 DEF CallInv
<1>4. ASSUME NEW w \in Workers, HitCache(w) PROVE CallInv'
  <2>1. cache[w] \in Nat /\ "passed" \in Verdicts
    BY DEF TypeOK, Verdicts
  <2> QED
    BY <1>3, <1>4, <2>1 DEF HitCache
<1>5. ASSUME NEW w \in Workers, NEW v \in Verdicts, CallProvider(w, v)
      PROVE  CallInv'
  <2>1. calls + 1 \in Nat
    BY <1>0
  <2> QED
    BY <1>3, <1>5, <2>1 DEF CallProvider
<1>6. ASSUME NEW w \in Workers, SaveRecord(w) \/ RecordTelemetry(w)
      PROVE  CallInv'
  <2>1. PICK p \in {"telemetry", "reply"} :
          exec' = [exec EXCEPT ![w].pc = p]
    BY <1>6 DEF SaveRecord, RecordTelemetry
  <2>2. /\ exec'[w].pc = p /\ exec'[w].attempt = exec[w].attempt
        /\ exec'[w].try = exec[w].try
        /\ \A x \in Workers : x # w => exec'[x] = exec[x]
    BY <1>0, <2>1, Proceeding DEF Steps
  <2>3. /\ exec[w].pc \in {"save", "telemetry"}
        /\ UNCHANGED <<attempt, task, calls, faults>>
    BY <1>6 DEF SaveRecord, RecordTelemetry
  <2>4. Owed' = Owed
    BY <2>2, <2>3, StillAwaited
  <2>5. Running' = Running
    BY <2>2, <2>3 DEF Running
  <2> QED
    BY <1>0, <2>3, <2>4, <2>5 DEF CallInv
<1>7. ASSUME NEW w \in Workers, Reply(w) PROVE CallInv'
  <2>1. /\ exec[w].pc = "reply" /\ exec' = [exec EXCEPT ![w] = Idle]
        /\ UNCHANGED <<calls, faults>>
    BY <1>7 DEF Reply
  <2>2. exec'[w].pc = "idle" /\ \A x \in Workers : x # w => exec'[x] = exec[x]
    BY <1>0, <2>1 DEF Idle
  <2>3. Running' = Running
    BY <2>1, <2>2 DEF Running
  <2>4. CASE StagePasses(w) \/ StageGivesUp(w)
    <3>1. task'.state = "closed" /\ attempt' = attempt
      BY <1>0, <2>4 DEF StagePasses, StageGivesUp, Tasks
    <3>2. Owed' = 0
      BY <3>1 DEF Owed, Lost
    <3> QED
      BY <1>0, <2>1, <2>3, <3>1, <3>2 DEF CallInv
  <2>5. CASE StageRetries(w)
    <3>1. attempt' = attempt + 1
      BY <2>5 DEF StageRetries
    <3> QED
      BY <1>0, <2>1, <2>3, <3>1 DEF CallInv
  <2>6. CASE ~ Current(w) /\ UNCHANGED <<loop, task>>
    <3>1. \A x \in Workers : Current(x)' <=> Current(x)
      BY <2>2, <2>6 DEF Current
    <3>2. Owed' = Owed
      BY <2>6, <3>1 DEF Owed, Lost
    <3> QED
      BY <1>0, <2>1, <2>3, <2>6, <3>2 DEF CallInv
  <2> QED
    BY <1>7, <2>4, <2>5, <2>6 DEF Reply
<1>8. ASSUME NEW w \in Workers, Raise(w) PROVE CallInv'
  <2>1. /\ exec[w].pc \in {"run", "save", "telemetry"}
        /\ exec' = [exec EXCEPT ![w] = Idle] /\ errors' = errors + 1
        /\ calls' = calls \/ (exec[w].pc = "run" /\ calls' = calls + 1)
        /\ UNCHANGED <<attempt, crashes, slow>>
    BY <1>8 DEF Raise
  <2>2. Running' = Running \ {w}
    BY <1>0, <2>1 DEF Running, Idle
  <2>3. exec[w].pc = "run" <=> w \in Running
    BY DEF Running
  <2>4. /\ IsFiniteSet(Running')
        /\ Cardinality(Running') \in Nat
        /\ Cardinality(Running')
             = Cardinality(Running) - (IF w \in Running THEN 1 ELSE 0)
    BY <1>1, <2>2
  <2> QED
    BY <1>0, <2>1, <2>3, <2>4 DEF CallInv
<1>9. ASSUME NEW w \in Workers, Crash(w) PROVE CallInv'
  <2>1. /\ exec' = [exec EXCEPT ![w] = Idle] /\ crashes' = crashes + 1
        /\ UNCHANGED <<attempt, calls, errors, slow>>
    BY <1>9 DEF Crash
  <2>2. Running' = Running \ {w}
    BY <1>0, <2>1 DEF Running, Idle
  <2>3. /\ IsFiniteSet(Running')
        /\ Cardinality(Running') \in Nat
        /\ Cardinality(Running')
             = Cardinality(Running) - (IF w \in Running THEN 1 ELSE 0)
    BY <1>1, <2>2
  <2> QED
    BY <1>0, <2>1, <2>3 DEF CallInv
<1>10. CASE LostTryTimesOut
  <2>1. UNCHANGED <<exec, attempt, calls, faults>> /\ Owed = 1
    BY <1>10 DEF LostTryTimesOut, Owed, Lost
  <2>2. Running' = Running
    BY <2>1 DEF Running
  <2> QED
    BY <1>0, <2>1, <2>2 DEF CallInv
<1>11. CASE SlowTryTimesOut
  <2>1. UNCHANGED <<exec, attempt, calls, crashes, errors>> /\ slow' = slow + 1
    BY <1>11 DEF SlowTryTimesOut
  <2>2. Running' = Running
    BY <2>1 DEF Running
  <2> QED
    BY <1>0, <2>1, <2>2 DEF CallInv
<1>12. CASE UNCHANGED vars
  BY <1>12 DEF vars, CallInv, Running, Owed, Lost, Current
<1> QED
  BY <1>2, <1>4, <1>5, <1>6, <1>7, <1>8, <1>9, <1>10, <1>11, <1>12
     DEF Next, InTimeNext, Execute, Resolved

LEMMA CallsHaveFaults == ASSUME TypeOK, CallInv PROVE ExtraCallsHaveFaults
<1>1. /\ Cardinality(Running) \in Nat /\ Owed \in 0..1
      /\ calls + Cardinality(Running) + Owed <= attempt + crashes + errors + slow
  BY FS_CardinalityType DEF CallInv, Owed
<1> QED
  BY <1>1 DEF TypeOK, ExtraCallsHaveFaults, Attempts

\* A provider, publishing included, is called once per attempt of the
\* correction loop, and once more for each fault at most.
THEOREM CallsAreExplained == Spec => []ExtraCallsHaveFaults
<1>1. Init => CallInv
  BY CallStart
<1>2. TypeOK /\ CallInv /\ [Next]_vars => CallInv'
  BY CallStep
<1>3. TypeOK /\ CallInv => ExtraCallsHaveFaults
  BY CallsHaveFaults
<1> QED
  BY <1>1, <1>2, <1>3, TypeCorrect, PTL DEF Spec
-----------------------------------------------------------------------------
(* Feedback, with one process *)

OneProcess == \A w, x \in Workers : w = x

\* A process that still holds feedback holds that of the failure the loop last
\* got back, or of one it has not got back yet.
FeedbackInv ==
  /\ lastFailure <= calls
  /\ \A w \in Workers :
       /\ feedback[w] <= calls
       /\ feedback[w] = 0 \/ feedback[w] >= lastFailure
       /\ exec[w].pc \in {"save", "telemetry", "reply"}
            /\ exec[w].verdict # "passed" =>
              exec[w].out <= feedback[w] /\ exec[w].out > 0

LEMMA FeedbackStep ==
  ASSUME OneProcess, TypeOK, FeedbackInv, [Next]_vars
  PROVE  FeedbackInv'
<1> USE DEF loop, rows, memory, faults
<1>0. /\ exec \in [Workers -> Execs] /\ calls \in Nat /\ lastFailure \in Nat
      /\ feedback \in [Workers -> Nat] /\ cache \in [Workers -> Nat]
  BY DEF TypeOK, Execs
<1>1. ASSUME NEW w \in Workers, exec'[w].pc \in {"idle", "run"},
             feedback'[w] \in {0, feedback[w]}, lastFailure' = lastFailure,
             calls' \in {calls, calls + 1}
      PROVE  FeedbackInv'
  <2>1. \A x \in Workers : x = w
    BY DEF OneProcess
  <2> QED
    BY <1>0, <1>1, <2>1 DEF FeedbackInv
<1>2. ASSUME NEW w \in Workers, Poll(w) PROVE FeedbackInv'
  <2>1. exec'[w].pc = "run" /\ UNCHANGED <<feedback, lastFailure, calls>>
    BY <1>0, <1>2 DEF Poll
  <2> QED
    BY <1>0, <1>1, <2>1
<1>3. ASSUME NEW w \in Workers, HitCache(w) PROVE FeedbackInv'
  <2>1. cache[w] \in Nat /\ "passed" \in Verdicts /\ Judged(w, "passed", cache[w])
        /\ UNCHANGED <<feedback, lastFailure, calls>>
    BY <1>0, <1>3 DEF HitCache, Verdicts
  <2>2. exec'[w] = [pc |-> "save", attempt |-> exec[w].attempt,
                    try |-> exec[w].try, verdict |-> "passed", out |-> cache[w]]
    BY <1>0, <2>1, Judging
  <2>3. exec'[w].verdict = "passed"
    BY ONLY <2>2
  <2>4. \A x \in Workers : x = w
    BY DEF OneProcess
  <2> QED
    BY <2>1, <2>3, <2>4 DEF FeedbackInv
<1>4. ASSUME NEW w \in Workers, NEW v \in Verdicts, CallProvider(w, v)
      PROVE  FeedbackInv'
  <2>1. /\ calls + 1 \in Nat /\ Judged(w, v, calls + 1)
        /\ calls' = calls + 1 /\ lastFailure' = lastFailure
    BY <1>0, <1>4 DEF CallProvider
  <2>2. exec'[w] = [pc |-> "save", attempt |-> exec[w].attempt,
                    try |-> exec[w].try, verdict |-> v, out |-> calls + 1]
    BY <1>0, <2>1, Judging
  <2>3. exec'[w].verdict = v /\ exec'[w].out = calls + 1
    BY ONLY <2>2
  <2>4. feedback'[w] = IF v = "passed" THEN 0 ELSE calls + 1
    BY <1>0, <1>4 DEF CallProvider, KeepFeedback
  <2>5. \A x \in Workers : x = w
    BY DEF OneProcess
  <2> QED
    BY <1>0, <2>1, <2>3, <2>4, <2>5 DEF FeedbackInv
<1>5. ASSUME NEW w \in Workers, SaveRecord(w) \/ RecordTelemetry(w)
      PROVE  FeedbackInv'
  <2>1. PICK p \in {"telemetry", "reply"} : exec' = [exec EXCEPT ![w].pc = p]
    BY <1>5 DEF SaveRecord, RecordTelemetry
  <2>2. p \in Steps
    BY DEF Steps
  <2>3. exec'[w] = [pc |-> p, attempt |-> exec[w].attempt, try |-> exec[w].try,
                    verdict |-> exec[w].verdict, out |-> exec[w].out]
    BY <1>0, <2>1, <2>2, Proceeding
  <2>4. exec'[w].verdict = exec[w].verdict /\ exec'[w].out = exec[w].out
    BY ONLY <2>3
  <2>5. /\ exec[w].pc \in {"save", "telemetry"}
        /\ UNCHANGED <<feedback, lastFailure, calls>>
    BY <1>5 DEF SaveRecord, RecordTelemetry
  <2>6. \A x \in Workers : x = w
    BY DEF OneProcess
  <2> QED
    BY <2>4, <2>5, <2>6 DEF FeedbackInv
<1>6. ASSUME NEW w \in Workers, Reply(w) PROVE FeedbackInv'
  <2>1. /\ exec[w].pc = "reply" /\ exec'[w].pc = "idle"
        /\ UNCHANGED <<feedback, calls>>
    BY <1>0, <1>6 DEF Reply, Idle
  <2>2. CASE lastFailure' = lastFailure
    BY <1>0, <1>1, <2>1, <2>2
  <2>3. CASE lastFailure' = exec[w].out /\ exec[w].verdict # "passed"
    <3>1. exec[w].out \in Nat
      BY <1>0 DEF Execs
    <3>2. \A x \in Workers : x = w
      BY DEF OneProcess
    <3>3. exec[w].out <= feedback[w] /\ exec[w].out > 0 /\ feedback[w] <= calls
      BY <2>1, <2>3 DEF FeedbackInv
    <3>4. feedback[w] \in Nat
      BY <1>0
    <3> QED
      BY <1>0, <2>1, <2>3, <3>1, <3>2, <3>3, <3>4 DEF FeedbackInv
  <2> QED
    BY <1>6, <2>2, <2>3 DEF Reply, StagePasses, StageRetries, StageGivesUp
<1>7. ASSUME NEW w \in Workers, Raise(w) \/ Crash(w) PROVE FeedbackInv'
  <2>1. /\ exec'[w].pc = "idle" /\ feedback'[w] \in {0, feedback[w]}
        /\ lastFailure' = lastFailure /\ calls' \in {calls, calls + 1}
    BY <1>0, <1>7 DEF Raise, Crash, Idle
  <2> QED
    BY <1>1, <2>1
<1>8. CASE UNCHANGED <<exec, feedback, lastFailure, calls>>
  BY <1>8 DEF FeedbackInv
<1> QED
  BY <1>2, <1>3, <1>4, <1>5, <1>6, <1>7, <1>8
     DEF Next, InTimeNext, Execute, LostTryTimesOut, SlowTryTimesOut, Resolved, vars

LEMMA FeedbackInit == Init => FeedbackInv
BY DEF Init, FeedbackInv, Idle

\* With one process a provider never reads feedback older than the failure that
\* is being corrected, whatever crashes, raises or comes late.
THEOREM FeedbackIsFresh == ASSUME OneProcess PROVE Spec => FeedbackNeverStale
<1>1. TypeOK /\ FeedbackInv /\ [Next]_vars => FeedbackInv'
  BY FeedbackStep
<1>2. FeedbackInv /\ [Next]_vars =>
        [\A w \in Workers :
           calls' > calls /\ exec[w].pc = "run" /\ exec'[w].pc = "save" =>
             feedback[w] = 0 \/ feedback[w] >= lastFailure]_vars
  BY DEF FeedbackInv
<1> QED
  BY <1>1, <1>2, FeedbackInit, TypeCorrect, PTL DEF Spec, FeedbackNeverStale
=============================================================================
