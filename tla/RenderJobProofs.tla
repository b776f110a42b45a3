--------------------------- MODULE RenderJobProofs ---------------------------
(***************************************************************************)
(* Proofs about RenderJob, for any number of processes and of failed       *)
(* talks, any budget and any number of faults.                             *)
(***************************************************************************)
EXTENDS RenderJob, StageExecutionProofs, SequenceTheorems

\* What a step of the render does to the stage: a step of StageExecution, or an
\* exception that D-ID or the deadline caused.
LEMMA StageMoves ==
  ASSUME [RenderNext]_renderVars
  PROVE  [Next]_vars \/ \E w \in Workers : Rendering(w) /\ Abandon(w)
<1>1. ASSUME NEW w \in Workers, RenderSteps(w)
      PROVE  Next \/ (Rendering(w) /\ Abandon(w)) \/ UNCHANGED vars
  BY <1>1 DEF RenderSteps, CreateTalk, FinishTalk, FindError, TalkIs, Waiting,
              Next, InTimeNext, Execute
<1>2. ASSUME NEW w \in Workers, LoseTalk(w) \/ RenderRaises(w) \/ RenderCrashes(w)
      PROVE  Next
  BY <1>2 DEF LoseTalk, RenderRaises, RenderCrashes, Next, InTimeNext
<1>3. ASSUME NEW w \in Workers, GiveUpPolling(w) PROVE Rendering(w) /\ Abandon(w)
  BY <1>3 DEF GiveUpPolling, TalkIs, Waiting
<1>4. ASSUME NEW t \in DOMAIN talks, TalkEnds(t) PROVE UNCHANGED vars
  BY <1>4 DEF TalkEnds
<1>5. ASSUME NEW w \in Workers, Poll(w) PROVE Next
  BY <1>5 DEF Next, InTimeNext
<1>6. LostTryTimesOut \/ SlowTryTimesOut \/ Resolved => Next
  BY DEF Next, InTimeNext
<1>7. UNCHANGED renderVars => UNCHANGED vars
  BY DEF renderVars
<1> QED
  BY <1>1, <1>2, <1>3, <1>4, <1>5, <1>6, <1>7 DEF RenderNext
-----------------------------------------------------------------------------
(* Finite sets that grow or shrink by one *)

LEMMA Within ==
  ASSUME NEW S, IsFiniteSet(S), NEW T, T \subseteq S
  PROVE  /\ IsFiniteSet(T) /\ Cardinality(T) \in Nat /\ Cardinality(S) \in Nat
         /\ Cardinality(T) <= Cardinality(S)
BY FS_Subset, FS_CardinalityType

LEMMA OneMore ==
  ASSUME NEW S, IsFiniteSet(S), NEW e, NEW T, T \subseteq S \cup {e}
  PROVE  /\ IsFiniteSet(T) /\ Cardinality(T) \in Nat /\ Cardinality(S) \in Nat
         /\ Cardinality(T) <= Cardinality(S) + 1
<1>1. /\ IsFiniteSet(S \cup {e}) /\ Cardinality(S) \in Nat
      /\ Cardinality(S \cup {e}) \in {Cardinality(S), Cardinality(S) + 1}
  BY FS_AddElement, FS_CardinalityType
<1> QED
  BY <1>1, Within

LEMMA OneLess ==
  ASSUME NEW S, IsFiniteSet(S), NEW e \in S, NEW T, T \subseteq S \ {e}
  PROVE  /\ IsFiniteSet(T) /\ Cardinality(T) \in Nat /\ Cardinality(S) \in Nat
         /\ Cardinality(T) + 1 <= Cardinality(S)
<1>1. /\ IsFiniteSet(S \ {e}) /\ Cardinality(S) \in Nat
      /\ Cardinality(S \ {e}) = Cardinality(S) - 1
  BY FS_RemoveElement, FS_CardinalityType
<1> QED
  BY <1>1, Within
-----------------------------------------------------------------------------
(* Types *)

LEMMA RenderTypeStep ==
  ASSUME RenderTypeOK, [RenderNext]_renderVars
  PROVE  RenderTypeOK'
<1> USE DEF renderVars
<1>0. /\ TypeOK /\ exec \in [Workers -> Execs] /\ task \in Tasks
      /\ talks \in Seq({"started", "done", "error"}) /\ Len(talks) \in Nat
      /\ polled \in [Workers -> 0..Len(talks)]
      /\ calls \in Nat /\ good \in 0..calls /\ cache \in [Workers -> Nat]
      /\ \A w \in Workers : polled[w] # 0 => exec[w].pc = "run" /\ cache[w] = 0
  BY DEF RenderTypeOK, TypeOK, Execs, Tasks, Rendering
<1>1. TypeOK'
  <2>1. ASSUME NEW w \in Workers, Abandon(w) PROVE TypeOK'
    <3>1. /\ exec' = [exec EXCEPT ![w] = Idle]
          /\ task' = IF Current(w) THEN Requeued ELSE task
          /\ UNCHANGED <<loop, memory, rows, calls, faults>>
      BY <2>1 DEF Abandon
    <3>2. exec' \in [Workers -> Execs]
      BY <1>0, <3>1, Ending
    <3>3. task' \in Tasks
      BY <1>0, <3>1 DEF Tasks, Requeued
    <3> QED
      BY <1>0, <3>1, <3>2, <3>3
         DEF TypeOK, Execs, Tasks, loop, memory, rows, faults
  <2> QED
    BY <1>0, <2>1, StageMoves, TypeStep
<1> SUFFICES /\ talks' \in Seq({"started", "done", "error"})
             /\ polled' \in [Workers -> 0..Len(talks')]
             /\ good' \in 0..calls'
             /\ \A w \in Workers : polled'[w] # 0 => exec'[w].pc = "run" /\ cache'[w] = 0
  BY <1>1 DEF RenderTypeOK, Rendering
<1>2. ASSUME NEW w \in Workers, CreateTalk(w)
      PROVE  /\ talks' \in Seq({"started", "done", "error"})
             /\ polled' \in [Workers -> 0..Len(talks')]
             /\ good' \in 0..calls'
             /\ \A x \in Workers : polled'[x] # 0 => exec'[x].pc = "run" /\ cache'[x] = 0
  <2>1. /\ talks' = Append(talks, "started")
        /\ polled' = [polled EXCEPT ![w] = Len(talks) + 1]
        /\ exec[w].pc = "run" /\ cache[w] = 0
        /\ exec' = exec /\ cache' = cache /\ calls' = calls /\ good' = good
    BY <1>2 DEF CreateTalk, Rendering, vars, memory
  <2>2. talks' \in Seq({"started", "done", "error"}) /\ Len(talks') = Len(talks) + 1
    BY <1>0, <2>1, AppendProperties
  <2>3. polled' \in [Workers -> 0..Len(talks')]
    BY <1>0, <2>1, <2>2
  <2> QED
    BY <1>0, <2>1, <2>2, <2>3
<1>3. ASSUME NEW w \in Workers, LoseTalk(w)
      PROVE  /\ talks' \in Seq({"started", "done", "error"})
             /\ polled' \in [Workers -> 0..Len(talks')]
             /\ good' \in 0..calls'
             /\ \A x \in Workers : polled'[x] # 0 => exec'[x].pc = "run" /\ cache'[x] = 0
  <2>1. /\ talks' = Append(talks, "started")
        /\ polled' = polled /\ polled[w] = 0
        /\ exec' = [exec EXCEPT ![w] = Idle]
        /\ cache' = cache /\ calls' = calls /\ good' = good
    BY <1>3 DEF LoseTalk, Raise
  <2>2. talks' \in Seq({"started", "done", "error"}) /\ Len(talks') = Len(talks) + 1
    BY <1>0, <2>1, AppendProperties
  <2>3. polled' \in [Workers -> 0..Len(talks')]
    BY <1>0, <2>1, <2>2
  <2>4. \A x \in Workers : x # w => exec'[x] = exec[x]
    BY <1>0, <2>1
  <2> QED
    BY <1>0, <2>1, <2>2, <2>3, <2>4
<1>4. ASSUME NEW w \in Workers, talks' = talks, polled'\in {polled, [polled EXCEPT ![w] = 0]},
             polled'[w] = 0 \/ UNCHANGED <<exec, cache>>,
             \A x \in Workers : x # w => exec'[x] = exec[x] /\ cache'[x] = cache[x],
             good' \in 0..calls'
      PROVE  /\ talks' \in Seq({"started", "done", "error"})
             /\ polled' \in [Workers -> 0..Len(talks')]
             /\ good' \in 0..calls'
             /\ \A x \in Workers : polled'[x] # 0 => exec'[x].pc = "run" /\ cache'[x] = 0
  BY <1>0, <1>4
<1>5. ASSUME NEW w \in Workers, NEW v \in Verdicts, FinishTalk(w, v)
      PROVE  /\ talks' = talks /\ polled' = [polled EXCEPT ![w] = 0]
             /\ \A x \in Workers : x # w => exec'[x] = exec[x] /\ cache'[x] = cache[x]
             /\ good' \in 0..calls'
  <2>1. /\ CallProvider(w, v) /\ talks' = talks /\ polled' = [polled EXCEPT ![w] = 0]
        /\ good' \in {good, good + 1}
    BY <1>5 DEF FinishTalk, StopPolling
  <2>2. /\ calls' = calls + 1 /\ cache' \in {cache, [cache EXCEPT ![w] = calls + 1]}
        /\ Judged(w, v, calls + 1)
    BY <2>1 DEF CallProvider
  <2>3. \A x \in Workers : x # w => exec'[x] = exec[x]
    BY <1>0, <2>2 DEF Judged
  <2> QED
    BY <1>0, <2>1, <2>2, <2>3
<1>6. ASSUME NEW w \in Workers, Abandon(w) \/ RenderRaises(w) \/ RenderCrashes(w)
      PROVE  /\ talks' = talks /\ polled' = [polled EXCEPT ![w] = 0]
             /\ \A x \in Workers : x # w => exec'[x] = exec[x] /\ cache'[x] = cache[x]
             /\ good' \in 0..calls'
  <2>1. /\ talks' = talks /\ polled' = [polled EXCEPT ![w] = 0]
        /\ exec' = [exec EXCEPT ![w] = Idle]
        /\ cache' \in {cache, [cache EXCEPT ![w] = 0]}
        /\ \/ calls' = calls /\ good' = good
           \/ calls' = calls + 1 /\ good' = good + (calls' - calls)
           \/ calls' = calls /\ good' = good + (calls' - calls)
    BY <1>6 DEF Abandon, RenderRaises, RenderCrashes, Raise, Crash, StopPolling, memory
  <2>2. good' \in 0..calls'
    BY <1>0, <2>1
  <2> QED
    BY <1>0, <2>1, <2>2
<1>7. ASSUME NEW w \in Workers,
             HitCache(w) \/ SaveRecord(w) \/ RecordTelemetry(w) \/ Reply(w) \/ Poll(w),
             UNCHANGED <<talks, polled, good>>
      PROVE  /\ polled' = polled /\ polled'[w] = 0
             /\ \A x \in Workers : x # w => exec'[x] = exec[x] /\ cache'[x] = cache[x]
             /\ good' \in 0..calls'
  <2>1. polled[w] = 0
    BY <1>0, <1>7 DEF HitCache, SaveRecord, RecordTelemetry, Reply, Poll
  <2>2. cache' = cache /\ calls' = calls
    BY <1>7 DEF HitCache, SaveRecord, RecordTelemetry, Reply, Poll, memory
  <2>3. \A x \in Workers : x # w => exec'[x] = exec[x]
    BY <1>0, <1>7 DEF HitCache, SaveRecord, RecordTelemetry, Reply, Poll, Judged
  <2> QED
    BY <1>0, <1>7, <2>1, <2>2, <2>3
<1>8. ASSUME NEW t \in DOMAIN talks, TalkEnds(t)
      PROVE  /\ talks' \in Seq({"started", "done", "error"}) /\ Len(talks') = Len(talks)
             /\ UNCHANGED <<polled, good, exec, cache, calls>>
  <2>1. PICK s \in {"started", "done", "error"} : talks' = [talks EXCEPT ![t] = s]
    BY <1>8 DEF TalkEnds
  <2>2. t \in 1..Len(talks)
    BY <1>0
  <2>3. talks' \in Seq({"started", "done", "error"}) /\ Len(talks') = Len(talks)
    BY <1>0, <2>1, <2>2, ExceptSeq
  <2> QED
    BY <1>8, <2>3 DEF TalkEnds, vars, memory
<1>9. CASE UNCHANGED <<talks, polled, good, exec, cache, calls>>
  BY <1>0, <1>9
<1>10. ASSUME LostTryTimesOut \/ SlowTryTimesOut \/ Resolved, UNCHANGED <<talks, polled, good>>
       PROVE  UNCHANGED <<talks, polled, good, exec, cache, calls>>
  BY <1>10 DEF LostTryTimesOut, SlowTryTimesOut, Resolved, vars, memory
<1>11. UNCHANGED renderVars => UNCHANGED <<talks, polled, good, exec, cache, calls>>
  BY DEF vars, memory
<1>12. ASSUME NEW w \in Workers, RenderSteps(w)
       PROVE  /\ talks' \in Seq({"started", "done", "error"})
              /\ polled' \in [Workers -> 0..Len(talks')]
              /\ good' \in 0..calls'
              /\ \A x \in Workers : polled'[x] # 0 => exec'[x].pc = "run" /\ cache'[x] = 0
  <2>1. CASE \E v \in Verdicts : FinishTalk(w, v)
    BY <1>0, <1>4, <1>5, <2>1
  <2>2. CASE FindError(w)
    BY <1>0, <1>4, <1>6, <2>2 DEF FindError
  <2>3. CASE /\ HitCache(w) \/ SaveRecord(w) \/ RecordTelemetry(w) \/ Reply(w)
             /\ UNCHANGED <<talks, polled, good>>
    BY <1>0, <1>4, <1>7, <2>3
  <2> QED
    BY <1>2, <1>12, <2>1, <2>2, <2>3 DEF RenderSteps
<1>13. ASSUME NEW w \in Workers, GiveUpPolling(w) \/ RenderRaises(w) \/ RenderCrashes(w)
       PROVE  /\ talks' \in Seq({"started", "done", "error"})
              /\ polled' \in [Workers -> 0..Len(talks')]
              /\ good' \in 0..calls'
              /\ \A x \in Workers : polled'[x] # 0 => exec'[x].pc = "run" /\ cache'[x] = 0
  BY <1>0, <1>4, <1>6, <1>13 DEF GiveUpPolling
<1>14. ASSUME NEW w \in Workers, Poll(w), UNCHANGED <<talks, polled, good>>
       PROVE  /\ talks' \in Seq({"started", "done", "error"})
              /\ polled' \in [Workers -> 0..Len(talks')]
              /\ good' \in 0..calls'
              /\ \A x \in Workers : polled'[x] # 0 => exec'[x].pc = "run" /\ cache'[x] = 0
  BY <1>0, <1>4, <1>7, <1>14
<1>15. CASE \E t \in DOMAIN talks : TalkEnds(t)
  BY <1>0, <1>8, <1>15
<1> QED
  BY <1>3, <1>9, <1>10, <1>11, <1>12, <1>13, <1>14, <1>15 DEF RenderNext

\* Every variable has the type of what it stands for, and a worker waits for a
\* talk only inside the provider call.
THEOREM RenderTypesHold == RenderSpec => []RenderTypeOK
<1>1. RenderInit => RenderTypeOK
  <2> SUFFICES ASSUME RenderInit PROVE RenderTypeOK
    OBVIOUS
  <2>1. TypeOK
    BY BudgetAssumption DEF RenderInit, TypeOK, Init, Attempts, Verdicts, Steps, Idle
  <2>2. /\ talks = <<>> /\ polled = [w \in Workers |-> 0]
        /\ good = 0 /\ calls = 0
    BY DEF RenderInit, Init
  <2> QED
    BY <2>1, <2>2 DEF RenderTypeOK
<1> QED
  BY <1>1, RenderTypeStep, PTL DEF RenderSpec
-----------------------------------------------------------------------------
(* Tries: who is waited for, and who executes on *)

\* Tries are handed out in order, so the server waits for one execution at most.
TriesInv ==
  /\ \A w \in Workers : exec[w].pc # "idle" /\ exec[w].attempt = attempt =>
       /\ exec[w].try <= task.try
       /\ task.state = "queued" => exec[w].try < task.try
  /\ \A w \in Workers : exec[w].pc # "idle" => exec[w].attempt <= attempt
  /\ \A w, x \in Workers : Current(w) /\ Current(x) => w = x

\* Executions the server has given up.
Late == {w \in Workers : exec[w].pc # "idle" /\ ~ Current(w)}

\* An execution that goes on keeps its place.
LEMMA GoingOn ==
  ASSUME TriesInv, NEW w \in Workers, exec[w].pc # "idle", exec'[w].pc # "idle",
         exec'[w].attempt = exec[w].attempt, exec'[w].try = exec[w].try,
         \A x \in Workers : x # w => exec'[x] = exec[x],
         UNCHANGED <<attempt, task>>
  PROVE  TriesInv' /\ Late' = Late /\ Owed' = Owed
<1>1. \A x \in Workers : Current(x)' <=> Current(x)
  BY DEF Current
<1> QED
  BY <1>1, StillAwaited DEF TriesInv, Late

\* Whoever takes the task is the one that is waited for.
LEMMA Taking ==
  ASSUME TypeOK, TriesInv, NEW w \in Workers, Poll(w)
  PROVE  TriesInv' /\ Late' \subseteq Late /\ Owed = 1 /\ Owed' = 0
<1>1. /\ task.state = "queued" /\ task'.state = "running" /\ task'.try = task.try
      /\ exec[w].pc = "idle" /\ exec'[w].pc = "run"
      /\ exec'[w].attempt = attempt /\ exec'[w].try = task.try
      /\ attempt' = attempt /\ task.try \in Nat /\ attempt \in Nat
      /\ \A x \in Workers : x # w => exec'[x] = exec[x]
      /\ \A x \in Workers : exec[x].try \in Nat
  BY DEF Poll, TypeOK, loop, Attempts
<1>2. Current(w)'
  BY <1>1 DEF Current
<1>3. \A x \in Workers : x # w => ~ Current(x)'
  BY <1>1 DEF TriesInv, Current
<1>4. \A x \in Workers : ~ Current(x)
  BY <1>1 DEF Current
<1>5. TriesInv'
  BY <1>1, <1>3 DEF TriesInv
<1>6. Late' \subseteq Late
  BY <1>1, <1>2, <1>4 DEF Late
<1>7. Owed = 1 /\ Owed' = 0
  BY <1>1, <1>2 DEF Owed, Lost
<1> QED
  BY <1>5, <1>6, <1>7

\* An execution that breaks off is tried again when it was waited for.
LEMMA BreakingOff ==
  ASSUME TypeOK, TriesInv, NEW w \in Workers,
         exec' = [exec EXCEPT ![w] = Idle], attempt' = attempt,
         task' = IF Current(w) THEN Requeued ELSE task
  PROVE  /\ TriesInv' /\ Late' \subseteq Late \ {w}
         /\ Owed' \in 0..1 /\ (~ Current(w) => Owed' = Owed)
<1>1. /\ exec'[w].pc = "idle" /\ \A x \in Workers : x # w => exec'[x] = exec[x]
      /\ \A x \in Workers : exec[x].try \in Nat
      /\ task.try \in Nat
      /\ Requeued.state = "queued" /\ Requeued.try = task.try + 1
  BY DEF TypeOK, Idle, Requeued
<1>2. CASE Current(w)
  <2>1. /\ task'.state = "queued" /\ task'.try = task.try + 1
        /\ \A x \in Workers : ~ Current(x)'
        /\ \A x \in Workers : x # w => ~ Current(x)
    BY <1>1, <1>2 DEF Current, TriesInv
  <2>2. TriesInv' /\ Late' \subseteq Late \ {w}
    BY <1>1, <2>1 DEF TriesInv, Late
  <2> QED
    BY <1>2, <2>2 DEF Owed
<1>3. CASE ~ Current(w)
  <2>1. \A x \in Workers : Current(x)' <=> Current(x)
    BY <1>1, <1>3 DEF Current
  <2>2. TriesInv' /\ Late' \subseteq Late \ {w}
    BY <1>1, <1>3, <2>1 DEF TriesInv, Late
  <2>3. Owed' = Owed
    BY <1>3, <2>1 DEF Owed, Lost
  <2> QED
    BY <2>2, <2>3 DEF Owed
<1> QED
  BY <1>2, <1>3

\* A killed one is missed later.
LEMMA BeingKilled ==
  ASSUME TypeOK, TriesInv, NEW w \in Workers, Crash(w)
  PROVE  TriesInv' /\ Late' \subseteq Late \ {w}
<1>1. /\ exec'[w].pc = "idle" /\ \A x \in Workers : x # w => exec'[x] = exec[x]
      /\ UNCHANGED <<attempt, task>>
  BY DEF Crash, TypeOK, Idle, loop
<1>2. \A x \in Workers : Current(x)' <=> x # w /\ Current(x)
  BY <1>1 DEF Current
<1> QED
  BY <1>1, <1>2 DEF TriesInv, Late

\* An answer that counts ends the attempt; any other changes nothing.
LEMMA Answering ==
  ASSUME TypeOK, TriesInv, NEW w \in Workers, Reply(w)
  PROVE  /\ TriesInv' /\ Late' \subseteq Late \ {w}
         /\ attempt' = attempt + 1 \/ (attempt' = attempt /\ Owed' <= Owed)
<1>1. /\ exec[w].pc = "reply"
      /\ exec'[w].pc = "idle" /\ \A x \in Workers : x # w => exec'[x] = exec[x]
      /\ \A x \in Workers : exec[x].try \in Nat /\ exec[x].attempt \in Nat
      /\ task.try \in Nat /\ attempt \in Nat /\ Owed \in 0..1 /\ Owed' \in 0..1
  BY DEF Reply, TypeOK, Idle, Owed, Attempts
<1>2. CASE Current(w) /\ (StagePasses(w) \/ StageGivesUp(w))
  <2>1. /\ task'.state = "closed" /\ task'.try = task.try /\ attempt' = attempt
        /\ \A x \in Workers : x # w => ~ Current(x)
    BY <1>2 DEF StagePasses, StageGivesUp, TypeOK, TriesInv
  <2>2. \A x \in Workers : ~ Current(x)'
    BY <2>1 DEF Current
  <2>3. TriesInv' /\ Late' \subseteq Late \ {w}
    BY <1>1, <2>1, <2>2 DEF TriesInv, Late
  <2>4. Owed' = 0
    BY <2>1 DEF Owed, Lost
  <2> QED
    BY <1>1, <2>1, <2>3, <2>4
<1>3. CASE Current(w) /\ StageRetries(w)
  <2>1. /\ task'.state = "queued" /\ attempt' = attempt + 1
        /\ \A x \in Workers : x # w => ~ Current(x)
    BY <1>3 DEF StageRetries, TriesInv
  <2>2. \A x \in Workers : ~ Current(x)'
    BY <2>1 DEF Current
  <2>3. TriesInv' /\ Late' \subseteq Late \ {w}
    BY <1>1, <2>1, <2>2 DEF TriesInv, Late
  <2> QED
    BY <2>1, <2>3
<1>4. CASE ~ Current(w) /\ UNCHANGED <<loop, task>>
  <2>1. UNCHANGED <<attempt, task>> /\ \A x \in Workers : Current(x)' <=> Current(x)
    BY <1>1, <1>4 DEF Current, loop
  <2>2. TriesInv' /\ Late' \subseteq Late \ {w}
    BY <1>1, <1>4, <2>1 DEF TriesInv, Late
  <2>3. Owed' = Owed
    BY <2>1 DEF Owed, Lost
  <2> QED
    BY <1>1, <2>1, <2>2, <2>3
<1> QED
  BY <1>2, <1>3, <1>4 DEF Reply

\* A timeout adds nobody to the late, unless somebody was still at it.
LEMMA TimingOut ==
  ASSUME TypeOK, TriesInv, LostTryTimesOut
  PROVE  TriesInv' /\ Late' \subseteq Late /\ Owed = 1
<1>1. /\ task'.state = "queued" /\ task'.try = task.try + 1 /\ task.try \in Nat
      /\ UNCHANGED <<attempt, exec>> /\ task.state = "running"
      /\ \A x \in Workers : exec[x].try \in Nat
      /\ \A x \in Workers : ~ Current(x)
  BY DEF LostTryTimesOut, Requeued, TypeOK, loop
<1>2. \A x \in Workers : ~ Current(x)'
  BY <1>1 DEF Current
<1> QED
  BY <1>1, <1>2 DEF TriesInv, Late, Owed, Lost

LEMMA Overrunning ==
  ASSUME TypeOK, TriesInv, SlowTryTimesOut
  PROVE  TriesInv' /\ \E w \in Workers : Late' \subseteq Late \cup {w}
<1>1. /\ task'.state = "queued" /\ task'.try = task.try + 1 /\ task.try \in Nat
      /\ UNCHANGED <<attempt, exec>>
      /\ \A x \in Workers : exec[x].try \in Nat
  BY DEF SlowTryTimesOut, Requeued, TypeOK, loop
<1>2. PICK w \in Workers : Current(w)
  BY DEF SlowTryTimesOut
<1>3. \A x \in Workers : x # w => ~ Current(x)
  BY <1>2 DEF TriesInv
<1>4. \A x \in Workers : ~ Current(x)'
  BY <1>1 DEF Current
<1>5. TriesInv'
  BY <1>1, <1>4 DEF TriesInv
<1>6. Late' \subseteq Late \cup {w}
  BY <1>1, <1>3 DEF Late
<1> QED
  BY <1>5, <1>6
-----------------------------------------------------------------------------
(* Talks *)

\* Executions that have no talk yet.
Fresh == {w \in Workers : exec[w].pc = "run" /\ polled[w] = 0}

Unwatched(state) == {t \in Talks(state) : \A w \in Workers : polled[w] # t}

\* No two executions wait for the same talk.
Apart == \A w, x \in Workers : polled[w] # 0 /\ polled[w] = polled[x] => w = x

\* An attempt of the loop, each fault, and each failure D-ID has reported pays
\* for one try of the activity, and a try starts one talk at most.
TalksPaid ==
  Len(talks) + Cardinality(Fresh) + Owed
    <= attempt + crashes + errors + slow + Cardinality(Unwatched("error"))

\* A fault leaves one talk behind at most, at once or when the execution it made
\* late stops waiting.
LeftBehind ==
  Cardinality(Unwatched("started")) + Cardinality(Late) <= crashes + errors + slow

TalksInv ==
  /\ TriesInv /\ Apart
  /\ IsFiniteSet(Fresh) /\ IsFiniteSet(Late)
  /\ TalksPaid /\ LeftBehind

\* Talks are finitely many.
LEMMA TalksFinite ==
  ASSUME RenderTypeOK, NEW state
  PROVE  /\ IsFiniteSet(Talks(state)) /\ IsFiniteSet(Unwatched(state))
         /\ Unwatched(state) \subseteq Talks(state)
<1>1. talks \in Seq({"started", "done", "error"})
  BY DEF RenderTypeOK
<1>2. DOMAIN talks = 1..Len(talks) /\ Len(talks) \in Nat
  BY <1>1
<1>3. IsFiniteSet(1..Len(talks))
  BY <1>2, FS_Interval
<1>4. Talks(state) \subseteq 1..Len(talks) /\ Unwatched(state) \subseteq 1..Len(talks)
  BY <1>2 DEF Talks, Unwatched
<1> QED
  BY <1>3, <1>4, FS_Subset DEF Unwatched

\* The terms of the two accounts, and how they stand.
Accounts ==
  /\ Owed \in 0..1 /\ Owed' \in 0..1
  /\ Cardinality(Fresh) \in Nat /\ Cardinality(Late) \in Nat
  /\ IsFiniteSet(Fresh) /\ IsFiniteSet(Late)
  /\ IsFiniteSet(Unwatched("started")) /\ IsFiniteSet(Unwatched("error"))
  /\ Cardinality(Unwatched("started")) \in Nat
  /\ Cardinality(Unwatched("error")) \in Nat

TalkAccount ==
  /\ Len(talks) \in Nat /\ attempt \in Nat /\ Owed \in 0..1
  /\ crashes \in Nat /\ errors \in Nat /\ slow \in Nat
  /\ Cardinality(Fresh) \in Nat /\ Cardinality(Unwatched("error")) \in Nat
  /\ Len(talks) + Cardinality(Fresh) + Owed
       <= attempt + crashes + errors + slow + Cardinality(Unwatched("error"))

LateAccount ==
  /\ crashes \in Nat /\ errors \in Nat /\ slow \in Nat
  /\ Cardinality(Late) \in Nat /\ Cardinality(Unwatched("started")) \in Nat
  /\ Cardinality(Unwatched("started")) + Cardinality(Late) <= crashes + errors + slow

LEMMA Numbers ==
  ASSUME RenderTypeOK, TalksInv PROVE Accounts /\ TalkAccount /\ LateAccount
<1>1. /\ Len(talks) \in Nat /\ attempt \in Nat
      /\ crashes \in Nat /\ errors \in Nat /\ slow \in Nat
  BY DEF RenderTypeOK, TypeOK, Attempts
<1>2. Owed \in 0..1 /\ Owed' \in 0..1
  BY DEF Owed
<1>3. /\ IsFiniteSet(Unwatched("started")) /\ IsFiniteSet(Unwatched("error"))
  BY TalksFinite
<1> QED
  BY <1>1, <1>2, <1>3, FS_CardinalityType
     DEF Accounts, TalkAccount, LateAccount, TalksInv, TalksPaid, LeftBehind

\* A fault, of one kind or another.
OneFault ==
  \/ crashes' = crashes + 1 /\ errors' = errors /\ slow' = slow
  \/ crashes' = crashes /\ errors' = errors + 1 /\ slow' = slow
  \/ crashes' = crashes /\ errors' = errors /\ slow' = slow + 1

LEMMA FaultsAdded ==
  ASSUME crashes \in Nat, errors \in Nat, slow \in Nat, OneFault
  PROVE  \E d, f, t \in Nat : /\ crashes' = d /\ errors' = f /\ slow' = t
                              /\ d + f + t = crashes + errors + slow + 1
<1> PICK c \in Nat, e \in Nat, s \in Nat : c = crashes /\ e = errors /\ s = slow
  OBVIOUS
<1>1. CASE crashes' = crashes + 1 /\ errors' = errors /\ slow' = slow
  <2>1. crashes' = c + 1 /\ errors' = e /\ slow' = s
    BY <1>1
  <2>2. (c + 1) + e + s = c + e + s + 1 /\ c + 1 \in Nat
    OBVIOUS
  <2> QED
    BY <2>1, <2>2
<1>2. CASE crashes' = crashes /\ errors' = errors + 1 /\ slow' = slow
  <2>1. crashes' = c /\ errors' = e + 1 /\ slow' = s
    BY <1>2
  <2>2. c + (e + 1) + s = c + e + s + 1 /\ e + 1 \in Nat
    OBVIOUS
  <2> QED
    BY <2>1, <2>2
<1>3. CASE crashes' = crashes /\ errors' = errors /\ slow' = slow + 1
  <2>1. crashes' = c /\ errors' = e /\ slow' = s + 1
    BY <1>3
  <2>2. c + e + (s + 1) = c + e + s + 1 /\ s + 1 \in Nat
    OBVIOUS
  <2> QED
    BY <2>1, <2>2
<1> QED
  BY <1>1, <1>2, <1>3 DEF OneFault

\* Nobody walks away from a talk.
LEMMA NoneLeft ==
  ASSUME RenderTypeOK, TalksInv, UNCHANGED faults, Late' \subseteq Late,
         Unwatched("started")' \subseteq Unwatched("started")
  PROVE  LeftBehind' /\ IsFiniteSet(Late')
<1>n. Accounts /\ TalkAccount /\ LateAccount
  BY Numbers
<1>1. /\ IsFiniteSet(Late') /\ Cardinality(Late') \in Nat
      /\ Cardinality(Late') <= Cardinality(Late)
  BY <1>n, Within DEF Accounts
<1>2. /\ Cardinality(Unwatched("started")') \in Nat
      /\ Cardinality(Unwatched("started")') <= Cardinality(Unwatched("started"))
  BY <1>n, Within DEF Accounts
<1>3. Cardinality(Unwatched("started")') + Cardinality(Late')
        <= crashes + errors + slow
  BY <1>1, <1>2, <1>n DEF LateAccount
<1>4. crashes' = crashes /\ errors' = errors /\ slow' = slow
  BY DEF faults
<1> QED
  BY <1>1, <1>3, <1>4 DEF LeftBehind

\* A fault makes one execution late, or leaves one talk behind.
LEMMA OneLeft ==
  ASSUME RenderTypeOK, TalksInv, OneFault, NEW t, NEW w,
         \/ /\ Late' \subseteq Late
            /\ Unwatched("started")' \subseteq Unwatched("started") \cup {t}
         \/ /\ Late' \subseteq Late \cup {w}
            /\ Unwatched("started")' \subseteq Unwatched("started")
  PROVE  LeftBehind' /\ IsFiniteSet(Late')
<1>n. Accounts /\ TalkAccount /\ LateAccount
  BY Numbers
<1>1. PICK d, f, u \in Nat : /\ crashes' = d /\ errors' = f /\ slow' = u
                             /\ d + f + u = crashes + errors + slow + 1
  BY FaultsAdded DEF RenderTypeOK, TypeOK
<1>2. /\ IsFiniteSet(Late')
      /\ Cardinality(Late') \in Nat /\ Cardinality(Unwatched("started")') \in Nat
      /\ Cardinality(Unwatched("started")') + Cardinality(Late')
           <= crashes + errors + slow + 1
  <2>1. CASE /\ Late' \subseteq Late
             /\ Unwatched("started")' \subseteq Unwatched("started") \cup {t}
    <3>1. /\ IsFiniteSet(Late') /\ Cardinality(Late') \in Nat
          /\ Cardinality(Late') <= Cardinality(Late)
      BY <2>1, <1>n, Within DEF Accounts
    <3>2. /\ Cardinality(Unwatched("started")') \in Nat
          /\ Cardinality(Unwatched("started")')
               <= Cardinality(Unwatched("started")) + 1
      BY <2>1, <1>n, OneMore DEF Accounts
    <3> QED
      BY ONLY <1>n, <3>1, <3>2 DEF LateAccount
  <2>2. CASE /\ Late' \subseteq Late \cup {w}
             /\ Unwatched("started")' \subseteq Unwatched("started")
    <3>1. /\ IsFiniteSet(Late') /\ Cardinality(Late') \in Nat
          /\ Cardinality(Late') <= Cardinality(Late) + 1
      BY <2>2, <1>n, OneMore DEF Accounts
    <3>2. /\ Cardinality(Unwatched("started")') \in Nat
          /\ Cardinality(Unwatched("started")') <= Cardinality(Unwatched("started"))
      BY <2>2, <1>n, Within DEF Accounts
    <3> QED
      BY ONLY <1>n, <3>1, <3>2 DEF LateAccount
  <2> QED
    BY <2>1, <2>2
<1>3. Cardinality(Unwatched("started")') + Cardinality(Late') <= d + f + u
  BY <1>1, <1>2
<1> QED
  BY <1>1, <1>2, <1>3 DEF LeftBehind

\* No talk and no fault: whoever had no talk still has none, or goes without.
LEMMA NothingOwed ==
  ASSUME RenderTypeOK, TalksInv, UNCHANGED <<attempt, faults>>,
         Len(talks') = Len(talks), Fresh' \subseteq Fresh, Owed' <= Owed,
         IsFiniteSet(Unwatched("error")'),
         Unwatched("error") \subseteq Unwatched("error")'
  PROVE  TalksPaid' /\ IsFiniteSet(Fresh')
<1>n. Accounts /\ TalkAccount /\ LateAccount
  BY Numbers
<1>1. /\ IsFiniteSet(Fresh') /\ Cardinality(Fresh') \in Nat
      /\ Cardinality(Fresh') <= Cardinality(Fresh)
  BY <1>n, Within DEF Accounts
<1>2. PICK b \in Nat : /\ b = Cardinality(Unwatched("error")')
                       /\ Cardinality(Unwatched("error")) <= b
  BY Within
<1>3. PICK o \in 0..1 : o = Owed' /\ o <= Owed
  BY <1>n DEF Accounts
<1>4. PICK g \in Nat : g = Cardinality(Fresh') /\ g <= Cardinality(Fresh)
  BY <1>1
<1>5. /\ g <= Cardinality(Fresh) /\ o <= Owed
      /\ Cardinality(Unwatched("error")) <= b
  BY <1>2, <1>3, <1>4
<1>6. Len(talks) + g + o <= attempt + crashes + errors + slow + b
  BY ONLY <1>5, <1>n DEF TalkAccount
<1>7. /\ crashes' = crashes /\ errors' = errors /\ slow' = slow
      /\ attempt' = attempt /\ Len(talks') = Len(talks)
  BY DEF faults
<1> QED
  BY <1>1, <1>2, <1>3, <1>4, <1>6, <1>7 DEF TalksPaid

\* A fault pays for the try that is owed because of it.
LEMMA FaultPays ==
  ASSUME RenderTypeOK, TalksInv, OneFault, attempt' = attempt,
         Len(talks') = Len(talks), Fresh' \subseteq Fresh,
         IsFiniteSet(Unwatched("error")'),
         Unwatched("error") \subseteq Unwatched("error")'
  PROVE  TalksPaid' /\ IsFiniteSet(Fresh')
<1>n. Accounts /\ TalkAccount /\ LateAccount
  BY Numbers
<1>1. /\ IsFiniteSet(Fresh') /\ Cardinality(Fresh') \in Nat
      /\ Cardinality(Fresh') <= Cardinality(Fresh)
  BY <1>n, Within DEF Accounts
<1>2. PICK b \in Nat : /\ b = Cardinality(Unwatched("error")')
                       /\ Cardinality(Unwatched("error")) <= b
  BY Within
<1>3. PICK o \in 0..1 : o = Owed'
  BY <1>n DEF Accounts
<1>4. PICK d, f, u \in Nat : /\ crashes' = d /\ errors' = f /\ slow' = u
                             /\ d + f + u = crashes + errors + slow + 1
  BY FaultsAdded DEF RenderTypeOK, TypeOK
<1>5. PICK g \in Nat : g = Cardinality(Fresh') /\ g <= Cardinality(Fresh)
  BY <1>1
<1>6. /\ g <= Cardinality(Fresh) /\ Cardinality(Unwatched("error")) <= b
      /\ d + f + u = crashes + errors + slow + 1
  BY <1>2, <1>4, <1>5
<1>7. Len(talks) + g + o <= attempt + d + f + u + b
  BY ONLY <1>6, <1>n DEF TalkAccount
<1> QED
  BY <1>1, <1>2, <1>3, <1>4, <1>5, <1>7 DEF TalksPaid

\* The loop pays for its next attempt.
LEMMA LoopPays ==
  ASSUME RenderTypeOK, TalksInv, attempt' = attempt + 1, UNCHANGED <<talks, faults>>,
         Fresh' \subseteq Fresh, Unwatched("error")' = Unwatched("error")
  PROVE  TalksPaid' /\ IsFiniteSet(Fresh')
<1>n. Accounts /\ TalkAccount /\ LateAccount
  BY Numbers
<1>1. /\ IsFiniteSet(Fresh') /\ Cardinality(Fresh') \in Nat
      /\ Cardinality(Fresh') <= Cardinality(Fresh)
  BY <1>n, Within DEF Accounts
<1>2. PICK o \in 0..1 : o = Owed'
  BY <1>n DEF Accounts
<1>3. PICK g \in Nat : g = Cardinality(Fresh') /\ g <= Cardinality(Fresh)
  BY <1>1
<1>4. g <= Cardinality(Fresh)
  BY <1>3
<1>5. Len(talks) + g + o
        <= (attempt + 1) + crashes + errors + slow + Cardinality(Unwatched("error"))
  BY ONLY <1>4, <1>n DEF TalkAccount
<1>6. /\ crashes' = crashes /\ errors' = errors /\ slow' = slow
      /\ attempt' = attempt + 1 /\ talks' = talks
  BY DEF faults
<1> QED
  BY <1>1, <1>2, <1>3, <1>5, <1>6 DEF TalksPaid

\* D-ID's failure pays once it is known to whoever waited for the talk.
LEMMA ErrorPays ==
  ASSUME RenderTypeOK, TalksInv, UNCHANGED <<attempt, faults>>,
         Len(talks') = Len(talks), Fresh' \subseteq Fresh,
         IsFiniteSet(Unwatched("error")'),
         NEW t \in Unwatched("error")', t \notin Unwatched("error"),
         Unwatched("error") \subseteq Unwatched("error")'
  PROVE  TalksPaid' /\ IsFiniteSet(Fresh')
<1>n. Accounts /\ TalkAccount /\ LateAccount
  BY Numbers
<1>1. /\ IsFiniteSet(Fresh') /\ Cardinality(Fresh') \in Nat
      /\ Cardinality(Fresh') <= Cardinality(Fresh)
  BY <1>n, Within DEF Accounts
<1>2. PICK b \in Nat : /\ b = Cardinality(Unwatched("error")')
                       /\ Cardinality(Unwatched("error")) + 1 <= b
  <2>1. Unwatched("error") \subseteq Unwatched("error")' \ {t}
    OBVIOUS
  <2>2. /\ Cardinality(Unwatched("error")) + 1 <= Cardinality(Unwatched("error")')
        /\ Cardinality(Unwatched("error")) \in Nat
        /\ Cardinality(Unwatched("error")') \in Nat
    BY <2>1, OneLess
  <2> QED
    BY <2>2
<1>3. PICK o \in 0..1 : o = Owed'
  BY <1>n DEF Accounts
<1>4. PICK g \in Nat : g = Cardinality(Fresh') /\ g <= Cardinality(Fresh)
  BY <1>1
<1>5. g <= Cardinality(Fresh) /\ Cardinality(Unwatched("error")) + 1 <= b
  BY <1>2, <1>4
<1>6. Len(talks) + g + o <= attempt + crashes + errors + slow + b
  BY ONLY <1>5, <1>n DEF TalkAccount
<1>7. /\ crashes' = crashes /\ errors' = errors /\ slow' = slow
      /\ attempt' = attempt /\ Len(talks') = Len(talks)
  BY DEF faults
<1> QED
  BY <1>1, <1>2, <1>3, <1>4, <1>6, <1>7 DEF TalksPaid

\* Whoever takes the task is the one that was owed.
LEMMA TakingPays ==
  ASSUME RenderTypeOK, TalksInv, UNCHANGED <<talks, attempt, faults>>,
         NEW w, Fresh' \subseteq Fresh \cup {w}, Owed = 1, Owed' = 0,
         Unwatched("error")' = Unwatched("error")
  PROVE  TalksPaid' /\ IsFiniteSet(Fresh')
<1>n. Accounts /\ TalkAccount /\ LateAccount
  BY Numbers
<1>1. /\ IsFiniteSet(Fresh') /\ Cardinality(Fresh') \in Nat
      /\ Cardinality(Fresh') <= Cardinality(Fresh) + 1
  BY <1>n, OneMore DEF Accounts
<1>2. Len(talks) + Cardinality(Fresh') + 0
        <= attempt + crashes + errors + slow + Cardinality(Unwatched("error"))
  <2>1. Owed = 1
    OBVIOUS
  <2> QED
    BY ONLY <1>1, <2>1, <1>n DEF TalkAccount
<1>3. /\ crashes' = crashes /\ errors' = errors /\ slow' = slow
      /\ attempt' = attempt /\ talks' = talks
  BY DEF faults
<1> QED
  BY <1>1, <1>2, <1>3 DEF TalksPaid

\* A talk is what an execution without one is for.
LEMMA CreatingPays ==
  ASSUME RenderTypeOK, TalksInv, attempt' = attempt,
         Len(talks') = Len(talks) + 1, NEW w \in Fresh, Fresh' \subseteq Fresh \ {w},
         IsFiniteSet(Unwatched("error")'),
         Unwatched("error") \subseteq Unwatched("error")',
         (UNCHANGED faults /\ Owed' = Owed) \/ OneFault
  PROVE  TalksPaid' /\ IsFiniteSet(Fresh')
<1>n. Accounts /\ TalkAccount /\ LateAccount
  BY Numbers
<1>1. /\ IsFiniteSet(Fresh') /\ Cardinality(Fresh') \in Nat
      /\ Cardinality(Fresh') + 1 <= Cardinality(Fresh)
  BY <1>n, OneLess DEF Accounts
<1>2. PICK b \in Nat : /\ b = Cardinality(Unwatched("error")')
                       /\ Cardinality(Unwatched("error")) <= b
  BY Within
<1>3. PICK o \in 0..1 : o = Owed'
  BY <1>n DEF Accounts
<1>4. PICK g \in Nat : g = Cardinality(Fresh') /\ g + 1 <= Cardinality(Fresh)
  BY <1>1
<1>5. g + 1 <= Cardinality(Fresh) /\ Cardinality(Unwatched("error")) <= b
  BY <1>2, <1>4
<1>6. CASE UNCHANGED faults /\ Owed' = Owed
  <2>1. o = Owed
    BY <1>3, <1>6
  <2>2. (Len(talks) + 1) + g + Owed <= attempt + crashes + errors + slow + b
    BY ONLY <1>5, <1>n DEF TalkAccount
  <2>3. crashes' = crashes /\ errors' = errors /\ slow' = slow
    BY <1>6 DEF faults
  <2> QED
    BY <1>1, <1>2, <1>3, <1>4, <2>1, <2>2, <2>3 DEF TalksPaid
<1>7. CASE OneFault
  <2>1. PICK d, f, u \in Nat : /\ crashes' = d /\ errors' = f /\ slow' = u
                               /\ d + f + u = crashes + errors + slow + 1
    BY <1>7, FaultsAdded DEF RenderTypeOK, TypeOK
  <2>2. d + f + u = crashes + errors + slow + 1
    BY <2>1
  <2>3. (Len(talks) + 1) + g + o <= attempt + d + f + u + b
    BY ONLY <1>5, <1>n, <2>2 DEF TalkAccount
  <2> QED
    BY <1>1, <1>2, <1>3, <1>4, <2>1, <2>3 DEF TalksPaid
<1> QED
  BY <1>6, <1>7

\* Where a worker stops waiting, its talk is the only one nobody watches now.
LEMMA Unwatching ==
  ASSUME RenderTypeOK, RenderTypeOK', NEW w \in Workers, talks' = talks,
         polled' = [polled EXCEPT ![w] = 0], NEW state
  PROVE  /\ Unwatched(state) \subseteq Unwatched(state)'
         /\ Unwatched(state)' \subseteq Unwatched(state) \cup {polled[w]}
         /\ polled[w] # 0 /\ talks[polled[w]] # state =>
              Unwatched(state)' \subseteq Unwatched(state)
         /\ IsFiniteSet(Unwatched(state)')
<1>1. /\ polled \in [Workers -> 0..Len(talks)]
      /\ talks \in Seq({"started", "done", "error"}) /\ Len(talks) \in Nat
  BY DEF RenderTypeOK
<1>2. \A x \in Workers : polled'[x] = IF x = w THEN 0 ELSE polled[x]
  BY <1>1
<1>3. Talks(state)' = Talks(state) /\ 0 \notin Talks(state)
  BY <1>1 DEF Talks
<1>4. Talks(state) \subseteq 1..Len(talks)
  BY <1>1 DEF Talks
<1>5. IsFiniteSet(Unwatched(state)')
  <2>1. IsFiniteSet(1..Len(talks))
    BY <1>1, FS_Interval
  <2>2. Unwatched(state)' \subseteq 1..Len(talks)
    BY <1>3, <1>4 DEF Unwatched
  <2> QED
    BY <2>1, <2>2, FS_Subset
<1>6. Unwatched(state) \subseteq Unwatched(state)'
  BY <1>2, <1>3 DEF Unwatched
<1>7. Unwatched(state)' \subseteq Unwatched(state) \cup {polled[w]}
  BY <1>2, <1>3 DEF Unwatched
<1>8. talks[polled[w]] # state => polled[w] \notin Talks(state)
  BY DEF Talks
<1>9. talks[polled[w]] # state => Unwatched(state)' \subseteq Unwatched(state)
  BY <1>3, <1>7, <1>8 DEF Unwatched
<1> QED
  BY <1>5, <1>6, <1>7, <1>9

\* No talk and no execution of the stage is shared.
LEMMA ApartStep ==
  ASSUME RenderTypeOK, Apart, NEW w \in Workers,
         polled' \in {polled, [polled EXCEPT ![w] = 0],
                      [polled EXCEPT ![w] = Len(talks) + 1]}
  PROVE  Apart'
<1>1. polled \in [Workers -> 0..Len(talks)] /\ Len(talks) \in Nat
  BY DEF RenderTypeOK
<1>2. \A x \in Workers : polled[x] # Len(talks) + 1
  BY <1>1
<1> QED
  BY <1>1, <1>2 DEF Apart

LEMMA TalksStep ==
  ASSUME RenderTypeOK, RenderTypeOK', TalksInv, [RenderNext]_renderVars
  PROVE  TalksInv'
<1>0. /\ TypeOK /\ TriesInv /\ Apart /\ exec \in [Workers -> Execs]
      /\ talks \in Seq({"started", "done", "error"}) /\ Len(talks) \in Nat
      /\ polled \in [Workers -> 0..Len(talks)]
      /\ calls \in Nat
      /\ \A w \in Workers : polled[w] # 0 => exec[w].pc = "run" /\ cache[w] = 0
  <2>1. TypeOK /\ TriesInv /\ Apart
    BY DEF RenderTypeOK, TalksInv
  <2>2. exec \in [Workers -> Execs] /\ calls \in Nat
    BY <2>1 DEF TypeOK, Execs
  <2> QED
    BY <2>1, <2>2 DEF RenderTypeOK, Rendering
<1>f. IsFiniteSet(Unwatched("error")) /\ IsFiniteSet(Unwatched("started"))
  BY TalksFinite
<1>u. UNCHANGED <<talks, polled>> =>
        /\ Unwatched("error")' = Unwatched("error")
        /\ Unwatched("started")' = Unwatched("started")
        /\ Apart'
  BY <1>0 DEF Unwatched, Talks, Apart
<1>v. UNCHANGED vars => TriesInv' /\ Late' = Late /\ Owed' = Owed
  <2> SUFFICES ASSUME UNCHANGED vars PROVE TriesInv' /\ Late' = Late /\ Owed' = Owed
    OBVIOUS
  <2>1. exec' = exec /\ task' = task /\ attempt' = attempt
    BY DEF vars, loop
  <2>2. \A x \in Workers : Current(x)' <=> Current(x)
    BY <2>1 DEF Current
  <2>3. TriesInv'
    BY <1>0, <2>1, <2>2 DEF TriesInv
  <2>4. Late' = Late /\ Owed' = Owed
    BY <2>1, <2>2 DEF Late, Owed, Lost
  <2> QED
    BY <2>3, <2>4
<1>w. Owed \in 0..1 /\ Owed' \in 0..1
  BY DEF Owed
<1> USE DEF renderVars
<1>1. ASSUME UNCHANGED <<talks, polled, faults>>, TriesInv', Late' \subseteq Late,
             Fresh' \subseteq Fresh,
             attempt' = attempt + 1 \/ (attempt' = attempt /\ Owed' <= Owed)
      PROVE  TalksInv'
  <2>1. LeftBehind' /\ IsFiniteSet(Late')
    BY <1>1, <1>u, NoneLeft
  <2>2. TalksPaid' /\ IsFiniteSet(Fresh')
    BY <1>1, <1>f, <1>u, NothingOwed, LoopPays
  <2> QED
    BY <1>1, <1>u, <2>1, <2>2 DEF TalksInv
<1>2. ASSUME NEW w \in Workers, CreateTalk(w) PROVE TalksInv'
  <2>1. /\ talks' = Append(talks, "started")
        /\ polled' = [polled EXCEPT ![w] = Len(talks) + 1]
        /\ exec[w].pc = "run" /\ polled[w] = 0
        /\ UNCHANGED vars /\ exec' = exec
    BY <1>2 DEF CreateTalk, Rendering, vars
  <2>2. /\ Len(talks') = Len(talks) + 1
        /\ \A t \in 1..Len(talks) : talks'[t] = talks[t]
        /\ talks'[Len(talks) + 1] = "started"
        /\ DOMAIN talks = 1..Len(talks) /\ DOMAIN talks' = 1..Len(talks')
    BY <1>0, <2>1, AppendProperties
  <2>3. \A x \in Workers : polled'[x] = IF x = w THEN Len(talks) + 1 ELSE polled[x]
    BY <1>0, <2>1
  <2>4. Unwatched("started")' \subseteq Unwatched("started")
    <3>1. SUFFICES ASSUME NEW t \in Unwatched("started")'
                   PROVE  t \in Unwatched("started")
      OBVIOUS
    <3>2. t \in 1..Len(talks') /\ talks'[t] = "started"
          /\ \A x \in Workers : polled'[x] # t
      BY <2>2 DEF Unwatched, Talks
    <3>3. t # Len(talks) + 1
      BY <2>3, <3>2
    <3>4. t \in 1..Len(talks) /\ t # 0
      BY <1>0, <2>2, <3>2, <3>3
    <3>5. \A x \in Workers : polled[x] # t
      BY <2>1, <2>3, <3>2, <3>4
    <3> QED
      BY <2>2, <3>2, <3>4, <3>5 DEF Unwatched, Talks
  <2>5. Unwatched("error")' = Unwatched("error")
    <3>2. Unwatched("error")' \subseteq Unwatched("error")
      <4>1. SUFFICES ASSUME NEW t \in Unwatched("error")'
                     PROVE  t \in Unwatched("error")
        OBVIOUS
      <4>2. t \in 1..Len(talks') /\ talks'[t] = "error"
            /\ \A x \in Workers : polled'[x] # t
        BY <2>2 DEF Unwatched, Talks
      <4>3. t \in 1..Len(talks) /\ t # 0
        BY <1>0, <2>2, <4>2
      <4>4. \A x \in Workers : polled[x] # t
        BY <2>1, <2>3, <4>2, <4>3
      <4> QED
        BY <2>2, <4>2, <4>3, <4>4 DEF Unwatched, Talks
    <3>3. Unwatched("error") \subseteq Unwatched("error")'
      <4>1. SUFFICES ASSUME NEW t \in Unwatched("error")
                     PROVE  t \in Unwatched("error")'
        OBVIOUS
      <4>2. t \in 1..Len(talks) /\ talks[t] = "error"
            /\ \A x \in Workers : polled[x] # t
        BY <2>2 DEF Unwatched, Talks
      <4>3. t # Len(talks) + 1 /\ t \in 1..Len(talks')
        BY <1>0, <2>2, <4>2
      <4> QED
        BY <2>2, <2>3, <4>2, <4>3 DEF Unwatched, Talks
    <3> QED
      BY <3>2, <3>3
  <2>6. w \in Fresh /\ Fresh' \subseteq Fresh \ {w}
    BY <1>0, <2>1, <2>3 DEF Fresh
  <2>7. TriesInv' /\ Late' = Late /\ Owed' = Owed
    BY <2>1, <1>v
  <2>8. UNCHANGED <<attempt, faults>>
    BY <2>1 DEF vars, loop
  <2>9. LeftBehind' /\ IsFiniteSet(Late')
    BY <2>4, <2>7, <2>8, NoneLeft
  <2>10. TalksPaid' /\ IsFiniteSet(Fresh')
    BY <1>f, <2>2, <2>5, <2>6, <2>7, <2>8, CreatingPays
  <2>11. Apart'
    BY <1>0, <2>1, ApartStep
  <2> QED
    BY <2>7, <2>9, <2>10, <2>11 DEF TalksInv
<1>3. ASSUME NEW w \in Workers, LoseTalk(w) PROVE TalksInv'
  <2>1. /\ talks' = Append(talks, "started") /\ polled' = polled
        /\ exec[w].pc = "run" /\ polled[w] = 0
        /\ exec' = [exec EXCEPT ![w] = Idle]
        /\ task' = IF Current(w) THEN Requeued ELSE task
        /\ attempt' = attempt /\ OneFault
    BY <1>3 DEF LoseTalk, Rendering, Raise, loop, OneFault
  <2>2. /\ Len(talks') = Len(talks) + 1
        /\ \A t \in 1..Len(talks) : talks'[t] = talks[t]
        /\ talks'[Len(talks) + 1] = "started"
        /\ DOMAIN talks = 1..Len(talks) /\ DOMAIN talks' = 1..Len(talks')
    BY <1>0, <2>1, AppendProperties
  <2>3. \A t : t \in 1..Len(talks') <=> t \in 1..Len(talks) \/ t = Len(talks) + 1
    BY <1>0, <2>2
  <2>4. Unwatched("started")' \subseteq Unwatched("started") \cup {Len(talks) + 1}
    BY <2>1, <2>2, <2>3 DEF Unwatched, Talks
  <2>5. Unwatched("error")' = Unwatched("error")
    BY <2>1, <2>2, <2>3 DEF Unwatched, Talks
  <2>6. w \in Fresh /\ Fresh' \subseteq Fresh \ {w}
    BY <1>0, <2>1 DEF Fresh, Idle
  <2>7. TriesInv' /\ Late' \subseteq Late
    BY <1>0, <2>1, BreakingOff
  <2>8. LeftBehind' /\ IsFiniteSet(Late')
    BY <2>1, <2>4, <2>7, OneLeft
  <2>9. TalksPaid' /\ IsFiniteSet(Fresh')
    BY <1>f, <2>1, <2>2, <2>5, <2>6, CreatingPays
  <2>10. Apart'
    BY <1>0, <2>1, ApartStep
  <2> QED
    BY <2>7, <2>8, <2>9, <2>10 DEF TalksInv
<1>4. ASSUME NEW w \in Workers, NEW v \in Verdicts, FinishTalk(w, v)
      PROVE  TalksInv'
  <2>1. /\ polled[w] # 0 /\ talks[polled[w]] = "done" /\ talks' = talks
        /\ polled' = [polled EXCEPT ![w] = 0] /\ CallProvider(w, v)
    BY <1>4 DEF FinishTalk, TalkIs, Waiting, StopPolling
  <2>2. /\ exec[w].pc = "run" /\ Judged(w, v, calls + 1) /\ calls + 1 \in Nat
        /\ UNCHANGED <<attempt, task, faults>>
    BY <1>0, <2>1 DEF CallProvider, loop
  <2>3. /\ exec'[w] = [pc |-> "save", attempt |-> exec[w].attempt,
                       try |-> exec[w].try, verdict |-> v, out |-> calls + 1]
        /\ \A x \in Workers : x # w => exec'[x] = exec[x]
    BY <1>0, <2>2, Judging
  <2>4. /\ exec'[w].pc = "save" /\ exec'[w].attempt = exec[w].attempt
        /\ exec'[w].try = exec[w].try
    BY ONLY <2>3
  <2>5. TriesInv' /\ Late' = Late /\ Owed' = Owed
    BY <1>0, <2>2, <2>3, <2>4, GoingOn
  <2>6. Fresh' \subseteq Fresh
    BY <1>0, <2>1, <2>3, <2>4 DEF Fresh
  <2>7. /\ Unwatched("started")' \subseteq Unwatched("started")
        /\ Unwatched("error") \subseteq Unwatched("error")'
        /\ IsFiniteSet(Unwatched("error")')
    BY <2>1, Unwatching
  <2>8. LeftBehind' /\ IsFiniteSet(Late')
    BY <2>2, <2>5, <2>7, NoneLeft
  <2>9. TalksPaid' /\ IsFiniteSet(Fresh')
    BY <1>w, <2>1, <2>2, <2>5, <2>6, <2>7, NothingOwed
  <2>10. Apart'
    BY <1>0, <2>1, ApartStep
  <2> QED
    BY <2>5, <2>8, <2>9, <2>10 DEF TalksInv
<1>5. ASSUME NEW w \in Workers, FindError(w) PROVE TalksInv'
  <2>1. /\ polled[w] # 0 /\ talks[polled[w]] = "error" /\ talks' = talks
        /\ polled' = [polled EXCEPT ![w] = 0]
        /\ exec' = [exec EXCEPT ![w] = Idle]
        /\ task' = IF Current(w) THEN Requeued ELSE task
        /\ UNCHANGED <<attempt, faults>>
    BY <1>5 DEF FindError, Abandon, TalkIs, Waiting, StopPolling, loop
  <2>2. TriesInv' /\ Late' \subseteq Late
    BY <1>0, <2>1, BreakingOff
  <2>3. Fresh' \subseteq Fresh
    BY <1>0, <2>1 DEF Fresh, Idle
  <2>4. /\ Unwatched("started")' \subseteq Unwatched("started")
        /\ Unwatched("error") \subseteq Unwatched("error")'
        /\ IsFiniteSet(Unwatched("error")')
    BY <2>1, Unwatching
  <2>5. /\ polled[w] \notin Unwatched("error")
        /\ polled[w] \in Unwatched("error")'
    <3>1. polled[w] \in DOMAIN talks /\ polled'[w] = 0
      BY <1>0, <2>1
    <3>2. \A x \in Workers : polled'[x] # polled[w]
      BY <1>0, <2>1 DEF Apart
    <3> QED
      BY <2>1, <3>1, <3>2 DEF Unwatched, Talks
  <2>6. LeftBehind' /\ IsFiniteSet(Late')
    BY <2>1, <2>2, <2>4, NoneLeft
  <2>7. TalksPaid' /\ IsFiniteSet(Fresh')
    BY <2>1, <2>3, <2>4, <2>5, ErrorPays
  <2>8. Apart'
    BY <1>0, <2>1, ApartStep
  <2> QED
    BY <2>2, <2>6, <2>7, <2>8 DEF TalksInv
<1>6. ASSUME NEW w \in Workers, GiveUpPolling(w) PROVE TalksInv'
  <2>1. /\ polled[w] # 0 /\ talks[polled[w]] = "started" /\ talks' = talks
        /\ polled' = [polled EXCEPT ![w] = 0]
        /\ exec' = [exec EXCEPT ![w] = Idle]
        /\ exec[w].pc # "idle" /\ ~ Current(w)
        /\ task' = IF Current(w) THEN Requeued ELSE task
        /\ UNCHANGED <<attempt, faults>>
    BY <1>6 DEF GiveUpPolling, Abandon, TalkIs, Waiting, Rendering, StopPolling, loop
  <2>2. TriesInv' /\ Late' \subseteq Late \ {w} /\ Owed' = Owed /\ w \in Late
    BY <1>0, <2>1, BreakingOff DEF Late
  <2>3. Fresh' \subseteq Fresh
    BY <1>0, <2>1 DEF Fresh, Idle
  <2>4. /\ Unwatched("started")' \subseteq Unwatched("started") \cup {polled[w]}
        /\ Unwatched("error") \subseteq Unwatched("error")'
        /\ IsFiniteSet(Unwatched("error")')
    BY <2>1, Unwatching
  <2>5. LeftBehind' /\ IsFiniteSet(Late')
    <3>n. Accounts /\ TalkAccount /\ LateAccount
      BY Numbers
    <3>1. /\ IsFiniteSet(Late') /\ Cardinality(Late') \in Nat
          /\ Cardinality(Late') + 1 <= Cardinality(Late)
      BY <2>2, <3>n, OneLess DEF Accounts
    <3>2. /\ Cardinality(Unwatched("started")') \in Nat
          /\ Cardinality(Unwatched("started")')
               <= Cardinality(Unwatched("started")) + 1
      BY <2>4, <3>n, OneMore DEF Accounts
    <3>3. Cardinality(Unwatched("started")') + Cardinality(Late')
            <= crashes + errors + slow
      BY ONLY <3>n, <3>1, <3>2 DEF LateAccount
    <3>4. crashes' = crashes /\ errors' = errors /\ slow' = slow
      BY <2>1 DEF faults
    <3> QED
      BY <3>1, <3>3, <3>4 DEF LeftBehind
  <2>6. TalksPaid' /\ IsFiniteSet(Fresh')
    BY <1>w, <2>1, <2>2, <2>3, <2>4, NothingOwed
  <2>7. Apart'
    BY <1>0, <2>1, ApartStep
  <2> QED
    BY <2>2, <2>5, <2>6, <2>7 DEF TalksInv
<1>7. ASSUME NEW w \in Workers, RenderRaises(w) \/ RenderCrashes(w)
      PROVE  TalksInv'
  <2>1. /\ talks' = talks /\ polled' = [polled EXCEPT ![w] = 0]
        /\ exec' = [exec EXCEPT ![w] = Idle] /\ attempt' = attempt
        /\ OneFault
    BY <1>7 DEF RenderRaises, RenderCrashes, Raise, Crash, StopPolling, loop, OneFault
  <2>2. TriesInv' /\ Late' \subseteq Late
    <3>1. CASE RenderRaises(w)
      <4>1. task' = IF Current(w) THEN Requeued ELSE task
        BY <3>1 DEF RenderRaises, Raise
      <4> QED
        BY <1>0, <2>1, <4>1, BreakingOff
    <3>2. CASE RenderCrashes(w)
      BY <1>0, <3>2, BeingKilled DEF RenderCrashes
    <3> QED
      BY <1>7, <3>1, <3>2
  <2>3. Fresh' \subseteq Fresh
    BY <1>0, <2>1 DEF Fresh, Idle
  <2>4. /\ Unwatched("started")' \subseteq Unwatched("started") \cup {polled[w]}
        /\ Unwatched("error") \subseteq Unwatched("error")'
        /\ IsFiniteSet(Unwatched("error")')
    BY <2>1, Unwatching
  <2>5. LeftBehind' /\ IsFiniteSet(Late')
    BY <2>1, <2>2, <2>4, OneLeft
  <2>6. TalksPaid' /\ IsFiniteSet(Fresh')
    BY <2>1, <2>3, <2>4, FaultPays
  <2>7. Apart'
    BY <1>0, <2>1, ApartStep
  <2> QED
    BY <2>2, <2>5, <2>6, <2>7 DEF TalksInv
<1>8. ASSUME NEW w \in Workers, HitCache(w) \/ SaveRecord(w) \/ RecordTelemetry(w),
             UNCHANGED <<talks, polled, good>>
      PROVE  TalksInv'
  <2>1. /\ exec[w].pc # "idle" /\ UNCHANGED <<attempt, task, faults>>
    BY <1>8 DEF HitCache, SaveRecord, RecordTelemetry, loop
  <2>2. /\ exec'[w].pc \notin {"idle", "run"} /\ exec'[w].attempt = exec[w].attempt
        /\ exec'[w].try = exec[w].try
        /\ \A x \in Workers : x # w => exec'[x] = exec[x]
    <3>1. CASE HitCache(w)
      <4>1. cache[w] \in Nat /\ "passed" \in Verdicts /\ Judged(w, "passed", cache[w])
        BY <1>0, <3>1 DEF HitCache, TypeOK, Verdicts
      <4>2. /\ exec'[w] = [pc |-> "save", attempt |-> exec[w].attempt,
                           try |-> exec[w].try, verdict |-> "passed", out |-> cache[w]]
            /\ \A x \in Workers : x # w => exec'[x] = exec[x]
        BY <1>0, <4>1, Judging
      <4> QED
        BY ONLY <4>2
    <3>2. CASE SaveRecord(w) \/ RecordTelemetry(w)
      <4>1. PICK p \in {"telemetry", "reply"} : exec' = [exec EXCEPT ![w].pc = p]
        BY <3>2 DEF SaveRecord, RecordTelemetry
      <4>2. p \in Steps /\ p \notin {"idle", "run"}
        BY DEF Steps
      <4>3. /\ exec'[w] = [pc |-> p, attempt |-> exec[w].attempt,
                           try |-> exec[w].try, verdict |-> exec[w].verdict,
                           out |-> exec[w].out]
            /\ \A x \in Workers : x # w => exec'[x] = exec[x]
        BY <1>0, <4>1, <4>2, Proceeding
      <4> QED
        BY ONLY <4>2, <4>3
    <3> QED
      BY <1>8, <3>1, <3>2
  <2>3. TriesInv' /\ Late' = Late /\ Owed' = Owed
    BY <1>0, <2>1, <2>2, GoingOn
  <2>4. Fresh' \subseteq Fresh
    BY <1>8, <2>2 DEF Fresh
  <2> QED
    BY <1>1, <1>8, <1>w, <2>1, <2>3, <2>4
<1>9. ASSUME NEW w \in Workers, Reply(w), UNCHANGED <<talks, polled, good>>
      PROVE  TalksInv'
  <2>1. TriesInv' /\ Late' \subseteq Late
        /\ (attempt' = attempt + 1 \/ (attempt' = attempt /\ Owed' <= Owed))
    BY <1>0, <1>9, Answering
  <2>2. Fresh' \subseteq Fresh /\ UNCHANGED faults
    BY <1>0, <1>9 DEF Reply, Fresh, Idle
  <2> QED
    BY <1>1, <1>9, <2>1, <2>2
<1>10. ASSUME NEW w \in Workers, Poll(w), UNCHANGED <<talks, polled, good>>
       PROVE  TalksInv'
  <2>1. TriesInv' /\ Late' \subseteq Late /\ Owed = 1 /\ Owed' = 0
    BY <1>0, <1>10, Taking
  <2>2. UNCHANGED <<attempt, faults>> /\ Fresh' \subseteq Fresh \cup {w}
    BY <1>0, <1>10 DEF Poll, Fresh, loop
  <2>3. LeftBehind' /\ IsFiniteSet(Late')
    BY <1>10, <1>u, <2>1, <2>2, NoneLeft
  <2>4. TalksPaid' /\ IsFiniteSet(Fresh')
    BY <1>10, <1>u, <2>1, <2>2, TakingPays
  <2> QED
    BY <1>10, <1>u, <2>1, <2>3, <2>4 DEF TalksInv
<1>11. ASSUME NEW t \in DOMAIN talks, TalkEnds(t) PROVE TalksInv'
  <2>1. PICK s \in {"done", "error"} : talks' = [talks EXCEPT ![t] = s]
    BY <1>11 DEF TalkEnds
  <2>2. talks[t] = "started" /\ UNCHANGED vars /\ polled' = polled
    BY <1>11 DEF TalkEnds
  <2>3. /\ t \in 1..Len(talks) /\ DOMAIN talks = 1..Len(talks)
        /\ Len(talks') = Len(talks) /\ DOMAIN talks' = 1..Len(talks)
        /\ \A u \in 1..Len(talks) : talks'[u] = IF u = t THEN s ELSE talks[u]
    BY <1>0, <2>1, ExceptSeq
  <2>4. /\ Unwatched("started")' \subseteq Unwatched("started")
        /\ Unwatched("error") \subseteq Unwatched("error")'
    BY <2>2, <2>3 DEF Unwatched, Talks
  <2>5. IsFiniteSet(Unwatched("error")')
    <3>1. Unwatched("error")' \subseteq 1..Len(talks)
      BY <2>3 DEF Unwatched, Talks
    <3>2. IsFiniteSet(1..Len(talks))
      BY <1>0, FS_Interval
    <3> QED
      BY <3>1, <3>2, FS_Subset
  <2>6. TriesInv' /\ Late' = Late /\ Owed' = Owed
    BY <2>2, <1>v
  <2>7. UNCHANGED <<attempt, faults>> /\ Fresh' \subseteq Fresh
    BY <2>2 DEF vars, loop, Fresh
  <2>8. LeftBehind' /\ IsFiniteSet(Late')
    BY <2>4, <2>6, <2>7, NoneLeft
  <2>9. TalksPaid' /\ IsFiniteSet(Fresh')
    BY <1>w, <2>3, <2>4, <2>5, <2>6, <2>7, NothingOwed
  <2>10. Apart'
    BY <1>0, <2>2 DEF Apart
  <2> QED
    BY <2>6, <2>8, <2>9, <2>10 DEF TalksInv
<1>12. ASSUME LostTryTimesOut, UNCHANGED <<talks, polled, good>> PROVE TalksInv'
  <2>1. TriesInv' /\ Late' \subseteq Late /\ Owed' <= Owed
    BY <1>0, <1>12, <1>w, TimingOut
  <2>2. UNCHANGED <<attempt, faults>> /\ Fresh' \subseteq Fresh
    BY <1>12 DEF LostTryTimesOut, loop, Fresh
  <2> QED
    BY <1>1, <1>12, <2>1, <2>2
<1>13. ASSUME SlowTryTimesOut, UNCHANGED <<talks, polled, good>> PROVE TalksInv'
  <2>1. /\ TriesInv' /\ \E w \in Workers : Late' \subseteq Late \cup {w}
    BY <1>0, <1>13, Overrunning
  <2>2. attempt' = attempt /\ OneFault /\ Fresh' \subseteq Fresh
    BY <1>13 DEF SlowTryTimesOut, loop, Fresh, OneFault
  <2>3. LeftBehind' /\ IsFiniteSet(Late')
    BY <1>13, <1>u, <2>1, <2>2, OneLeft
  <2>4. TalksPaid' /\ IsFiniteSet(Fresh')
    BY <1>13, <1>f, <1>u, <2>2, FaultPays
  <2> QED
    BY <1>13, <1>u, <2>1, <2>3, <2>4 DEF TalksInv
<1>14. ASSUME UNCHANGED <<vars, talks, polled>> PROVE TalksInv'
  <2>1. TriesInv' /\ Late' = Late /\ Owed' = Owed
    BY <1>14, <1>v
  <2>2. UNCHANGED <<attempt, faults>> /\ Fresh' \subseteq Fresh
    BY <1>14 DEF vars, loop, Fresh
  <2> QED
    BY <1>1, <1>14, <1>w, <2>1, <2>2
<1>15. ASSUME NEW w \in Workers, RenderSteps(w) PROVE TalksInv'
  BY <1>2, <1>4, <1>5, <1>8, <1>9, <1>15 DEF RenderSteps
<1> QED
  BY <1>3, <1>6, <1>7, <1>10, <1>11, <1>12, <1>13, <1>14, <1>15
     DEF RenderNext, Resolved

\* Each talk beyond one per attempt of the correction loop is explained by a
\* fault, and so is each that still runs and that nobody waits for, with any
\* number of processes, faults and failed talks.
THEOREM TalksExplained == RenderSpec => []TalksHaveCauses
<1>1. RenderInit => TalksInv
  <2> SUFFICES ASSUME RenderInit PROVE TalksInv
    OBVIOUS
  <2>1. /\ talks = <<>> /\ polled = [w \in Workers |-> 0]
        /\ exec = [w \in Workers |-> Idle] /\ attempt = 1
        /\ crashes = 0 /\ errors = 0 /\ slow = 0
        /\ task = [try |-> 1, state |-> "queued"]
    BY DEF RenderInit, Init
  <2>2. Fresh = {} /\ Late = {} /\ Owed = 1
    BY <2>1 DEF Fresh, Late, Idle, Owed
  <2>3. Unwatched("error") = {} /\ Unwatched("started") = {}
    BY <2>1 DEF Unwatched, Talks
  <2>4. TriesInv /\ Apart
    BY <2>1 DEF TriesInv, Apart, Idle, Current
  <2>5. Len(talks) = 0
    BY <2>1
  <2>6. IsFiniteSet({}) /\ Cardinality({}) = 0
    BY FS_EmptySet
  <2>7. /\ Cardinality(Fresh) = 0 /\ Cardinality(Late) = 0 /\ Owed = 1
        /\ Cardinality(Unwatched("error")) = 0
        /\ Cardinality(Unwatched("started")) = 0
        /\ attempt = 1 /\ crashes = 0 /\ errors = 0 /\ slow = 0
    BY <2>1, <2>2, <2>3, <2>6
  <2>8. TalksPaid /\ LeftBehind
    BY ONLY <2>5, <2>7 DEF TalksPaid, LeftBehind
  <2> QED
    BY <2>2, <2>4, <2>6, <2>8 DEF TalksInv
<1>2. RenderTypeOK /\ RenderTypeOK' /\ TalksInv /\ [RenderNext]_renderVars => TalksInv'
  BY TalksStep
<1>3. RenderTypeOK /\ TalksInv => TalksHaveCauses
  <2> SUFFICES ASSUME RenderTypeOK, TalksInv PROVE TalksHaveCauses
    OBVIOUS
  <2>1. TalkAccount /\ LateAccount
    BY Numbers
  <2>2. /\ Cardinality(Unwatched("error")) <= Cardinality(Talks("error"))
        /\ Cardinality(Talks("error")) \in Nat
    BY TalksFinite, Within
  <2>3. Len(talks) <= attempt + crashes + errors + slow + Cardinality(Talks("error"))
    BY ONLY <2>1, <2>2 DEF TalkAccount
  <2>4. Cardinality(Unwatched("started")) <= crashes + errors + slow
    BY ONLY <2>1 DEF LateAccount
  <2> QED
    BY <2>3, <2>4 DEF TalksHaveCauses, Unwatched
<1> QED
  BY <1>1, <1>2, <1>3, RenderTypesHold, PTL DEF RenderSpec
-----------------------------------------------------------------------------
(* Renders and feedback *)

\* Processes that would call D-ID if they executed the stage.
Empty == {w \in Workers : cache[w] = 0}

\* A process makes a good render once and remembers it.
KeptInv ==
  good + Cardinality(Empty) <= Cardinality(Workers) + crashes + errors

LEMMA KeptStep ==
  ASSUME IsFiniteSet(Workers), RenderTypeOK, KeptInv, [RenderNext]_renderVars
  PROVE  KeptInv'
<1> USE DEF renderVars
<1>0. /\ good \in Nat /\ crashes \in Nat /\ errors \in Nat /\ calls \in Nat
      /\ cache \in [Workers -> Nat]
      /\ IsFiniteSet(Empty) /\ Cardinality(Empty) \in Nat
      /\ Cardinality(Workers) \in Nat
      /\ good + Cardinality(Empty) <= Cardinality(Workers) + crashes + errors
  <2>1. Empty \subseteq Workers
    BY DEF Empty
  <2> QED
    BY <2>1, Within DEF RenderTypeOK, TypeOK, KeptInv
<1>1. ASSUME UNCHANGED <<good, cache, crashes, errors>> PROVE KeptInv'
  BY <1>1 DEF KeptInv, Empty
<1>2. ASSUME NEW w \in Workers, NEW v \in Verdicts, FinishTalk(w, v)
      PROVE  KeptInv'
  <2>1. /\ cache[w] = 0 /\ crashes' = crashes /\ errors' = errors
        /\ \/ v = "passed" /\ good' = good + 1 /\ cache' = [cache EXCEPT ![w] = calls + 1]
           \/ good' = good /\ cache' = cache
    BY <1>2 DEF FinishTalk, CallProvider, faults
  <2>2. CASE good' = good /\ cache' = cache
    BY <1>1, <2>1, <2>2
  <2>3. CASE good' = good + 1 /\ cache' = [cache EXCEPT ![w] = calls + 1]
    <3>1. w \in Empty /\ Empty' \subseteq Empty \ {w}
      BY <1>0, <2>1, <2>3 DEF Empty
    <3>2. /\ Cardinality(Empty') \in Nat
          /\ Cardinality(Empty') + 1 <= Cardinality(Empty)
      BY <1>0, <3>1, OneLess
    <3>3. (good + 1) + Cardinality(Empty') <= Cardinality(Workers) + crashes + errors
      BY ONLY <1>0, <3>2
    <3> QED
      BY <2>1, <2>3, <3>3 DEF KeptInv
  <2> QED
    BY <2>1, <2>2, <2>3
<1>3. ASSUME NEW w \in Workers, RenderRaises(w) PROVE KeptInv'
  <2>1. /\ cache' = cache /\ crashes' = crashes /\ errors' = errors + 1
        /\ calls' \in {calls, calls + 1} /\ good' = good + (calls' - calls)
    BY <1>3 DEF RenderRaises, Raise
  <2>2. good' = good \/ good' = good + 1
    <3>1. calls - calls = 0 /\ (calls + 1) - calls = 1 /\ good + 0 = good
      BY <1>0
    <3> QED
      BY <2>1, <3>1
  <2>3. Empty' = Empty
    BY <2>1 DEF Empty
  <2>4. /\ good + Cardinality(Empty) <= Cardinality(Workers) + crashes + (errors + 1)
        /\ (good + 1) + Cardinality(Empty)
              <= Cardinality(Workers) + crashes + (errors + 1)
    BY ONLY <1>0
  <2> QED
    BY <2>1, <2>2, <2>3, <2>4 DEF KeptInv
<1>4. ASSUME NEW w \in Workers, RenderCrashes(w) PROVE KeptInv'
  <2>1. /\ cache' = [cache EXCEPT ![w] = 0] /\ crashes' = crashes + 1
        /\ errors' = errors /\ good' = good
    BY <1>4 DEF RenderCrashes, Crash
  <2>2. Empty' \subseteq Empty \cup {w}
    BY <1>0, <2>1 DEF Empty
  <2>3. /\ Cardinality(Empty') \in Nat
        /\ Cardinality(Empty') <= Cardinality(Empty) + 1
    BY <1>0, <2>2, OneMore
  <2>4. good + Cardinality(Empty') <= Cardinality(Workers) + (crashes + 1) + errors
    BY ONLY <1>0, <2>3
  <2> QED
    BY <2>1, <2>4 DEF KeptInv
<1>5. ASSUME NEW w \in Workers, LoseTalk(w) PROVE KeptInv'
  <2>1. /\ cache' = cache /\ crashes' = crashes /\ errors' = errors + 1
        /\ good' = good
    BY <1>5 DEF LoseTalk, Raise
  <2>2. Empty' = Empty
    BY <2>1 DEF Empty
  <2>3. good + Cardinality(Empty) <= Cardinality(Workers) + crashes + (errors + 1)
    BY ONLY <1>0
  <2> QED
    BY <2>1, <2>2, <2>3 DEF KeptInv
<1>6. ASSUME NEW w \in Workers,
             CreateTalk(w) \/ FindError(w) \/ GiveUpPolling(w)
      PROVE  UNCHANGED <<good, cache, crashes, errors>>
  BY <1>6 DEF CreateTalk, FindError, GiveUpPolling, Abandon, vars, memory, faults
<1>7. ASSUME NEW w \in Workers,
             HitCache(w) \/ SaveRecord(w) \/ RecordTelemetry(w) \/ Reply(w) \/ Poll(w)
      PROVE  UNCHANGED <<cache, crashes, errors>>
  BY <1>7 DEF HitCache, SaveRecord, RecordTelemetry, Reply, Poll, memory, faults
<1>8. ASSUME NEW w \in Workers, RenderSteps(w) PROVE KeptInv'
  BY <1>1, <1>2, <1>6, <1>7, <1>8 DEF RenderSteps
<1>9. ASSUME NEW t \in DOMAIN talks, TalkEnds(t)
      PROVE  UNCHANGED <<good, cache, crashes, errors>>
  BY <1>9 DEF TalkEnds, vars, memory, faults
<1>10. ASSUME LostTryTimesOut \/ SlowTryTimesOut \/ Resolved \/ UNCHANGED vars
       PROVE  UNCHANGED <<cache, crashes, errors>>
  BY <1>10 DEF LostTryTimesOut, SlowTryTimesOut, Resolved, vars, memory, faults
<1> QED
  BY <1>1, <1>3, <1>4, <1>5, <1>6, <1>7, <1>8, <1>9, <1>10 DEF RenderNext

\* A render that was validated is not made again because the answer came late:
\* a process makes one good render, and only a kill or an exception buys
\* another, for any number of processes.
THEOREM PassedRendersKept ==
  ASSUME IsFiniteSet(Workers) PROVE RenderSpec => []PassedRendersAreKept
<1>1. RenderInit => KeptInv
  <2> SUFFICES ASSUME RenderInit PROVE KeptInv
    OBVIOUS
  <2>1. good = 0 /\ crashes = 0 /\ errors = 0 /\ Empty = Workers
    BY DEF RenderInit, Init, Empty
  <2>2. Cardinality(Workers) \in Nat
    BY FS_CardinalityType
  <2> QED
    BY <2>1, <2>2 DEF KeptInv
<1>2. RenderTypeOK /\ KeptInv /\ [RenderNext]_renderVars => KeptInv'
  BY KeptStep
<1>3. RenderTypeOK /\ KeptInv => PassedRendersAreKept
  <2> SUFFICES ASSUME RenderTypeOK, KeptInv PROVE PassedRendersAreKept
    OBVIOUS
  <2>1. Empty \subseteq Workers
    BY DEF Empty
  <2>2. /\ Cardinality(Empty) \in Nat /\ Cardinality(Workers) \in Nat
        /\ good \in Nat /\ crashes \in Nat /\ errors \in Nat
    BY <2>1, Within DEF RenderTypeOK, TypeOK
  <2> QED
    BY <2>2 DEF KeptInv, PassedRendersAreKept
<1> QED
  BY <1>1, <1>2, <1>3, RenderTypesHold, PTL DEF RenderSpec

\* With one process D-ID is never sent feedback older than the failure that is
\* being corrected, talks that fail or are waited for too long included.
THEOREM RenderFeedbackIsFresh ==
  ASSUME OneProcess PROVE RenderSpec => FeedbackNeverStale
<1>0. RenderInit => FeedbackInv
  BY FeedbackInit DEF RenderInit
<1>1. RenderTypeOK /\ FeedbackInv /\ [RenderNext]_renderVars => FeedbackInv'
  <2> SUFFICES ASSUME RenderTypeOK, FeedbackInv, [RenderNext]_renderVars
               PROVE  FeedbackInv'
    OBVIOUS
  <2>1. TypeOK
    BY DEF RenderTypeOK
  <2>2. ASSUME NEW w \in Workers, Abandon(w) PROVE FeedbackInv'
    <3>1. /\ exec'[w].pc = "idle" /\ \A x \in Workers : x # w => exec'[x] = exec[x]
          /\ UNCHANGED <<feedback, lastFailure, calls>>
      BY <2>1, <2>2 DEF Abandon, TypeOK, Idle, memory, loop
    <3> QED
      BY <3>1 DEF FeedbackInv
  <2> QED
    BY <2>1, <2>2, StageMoves, FeedbackStep
<1>2. FeedbackInv /\ [RenderNext]_renderVars =>
        [\A w \in Workers :
           calls' > calls /\ exec[w].pc = "run" /\ exec'[w].pc = "save" =>
             feedback[w] = 0 \/ feedback[w] >= lastFailure]_vars
  BY DEF FeedbackInv
<1> QED
  BY <1>0, <1>1, <1>2, RenderTypesHold, PTL DEF RenderSpec, FeedbackNeverStale
-----------------------------------------------------------------------------
(* What the rendering stage owes the workflow *)

\* What abandoning a talk does to the stage: its try is over and the server
\* asks for another one; nothing was called and nothing written.
LEMMA AbandonEnds ==
  ASSUME TypeOK, NEW w \in Workers, Rendering(w), Abandon(w)
  PROVE  /\ exec[w].pc = "run" /\ exec' = [exec EXCEPT ![w] = Idle]
         /\ exec \in [Workers -> Execs] /\ exec'[w].pc = "idle"
         /\ \A x \in Workers : x # w => exec'[x] = exec[x]
         /\ task' = IF Current(w) THEN Requeued ELSE task
         /\ UNCHANGED <<attempt, status, result, lastFailure, cache, feedback,
                        manifest, telemetry, calls, crashes, errors, slow>>
BY DEF TypeOK, Execs, Rendering, Abandon, Idle, loop, memory, rows, faults

\* Rendering calls its provider no more often than any stage: a talk that is
\* abandoned is not a call.
THEOREM RenderCallsExplained == RenderSpec => []ExtraCallsHaveFaults
<1>1. RenderInit => CallInv
  BY CallStart DEF RenderInit
<1>2. RenderTypeOK /\ CallInv /\ [RenderNext]_renderVars => CallInv'
  <2> SUFFICES ASSUME RenderTypeOK, CallInv, [RenderNext]_renderVars PROVE CallInv'
    OBVIOUS
  <2>1. TypeOK
    BY DEF RenderTypeOK
  <2>2. ASSUME NEW w \in Workers, Rendering(w), Abandon(w) PROVE CallInv'
    <3>1. w \in Running /\ Running' \subseteq Running \ {w}
      BY <2>1, <2>2, AbandonEnds DEF Running
    <3>2. /\ IsFiniteSet(Running) /\ Cardinality(Running) \in Nat
          /\ IsFiniteSet(Running') /\ Cardinality(Running') \in Nat
          /\ Cardinality(Running') + 1 <= Cardinality(Running)
      BY <3>1, OneLess, FS_CardinalityType DEF CallInv
    <3>3. PICK g \in Nat, o \in 0..1 : /\ g = Cardinality(Running') /\ o = Owed'
                                      /\ g + 1 <= Cardinality(Running)
      BY <3>2 DEF Owed
    <3>4. /\ calls \in Nat /\ attempt \in Nat /\ crashes \in Nat
          /\ errors \in Nat /\ slow \in Nat /\ Owed \in 0..1
          /\ Cardinality(Running) \in Nat /\ g + 1 <= Cardinality(Running)
          /\ calls + Cardinality(Running) + Owed <= attempt + crashes + errors + slow
      BY <2>1, <3>2, <3>3 DEF TypeOK, Attempts, Owed, CallInv
    <3>5. calls + g + o <= attempt + crashes + errors + slow
      BY ONLY <3>4
    <3>6. UNCHANGED <<calls, attempt, crashes, errors, slow>>
      BY <2>1, <2>2, AbandonEnds
    <3> QED
      BY <3>2, <3>3, <3>5, <3>6 DEF CallInv
  <2> QED
    BY <2>1, <2>2, StageMoves, CallStep
<1>3. RenderTypeOK /\ CallInv => ExtraCallsHaveFaults
  BY CallsHaveFaults DEF RenderTypeOK
<1> QED
  BY <1>1, <1>2, <1>3, RenderTypesHold, PTL DEF RenderSpec

\* In time, a step of the render is one of the stage in time, or abandons a talk.
LEMMA InTimeMoves ==
  ASSUME TypeOK, [RenderNext /\ slow' = slow]_renderVars
  PROVE  [InTimeNext]_vars \/ \E w \in Workers : Rendering(w) /\ Abandon(w)
<1>1. [RenderNext]_renderVars
  OBVIOUS
<1>2. ~ SlowTryTimesOut
  <2>1. slow \in Nat /\ slow' = slow
    BY DEF TypeOK, renderVars, vars, faults
  <2> QED
    BY <2>1 DEF SlowTryTimesOut
<1> QED
  BY <1>1, <1>2, StageMoves DEF Next

\* Abandoning a talk writes nothing and leaves nobody executing.
LEMMA AbandonKeepsRecords ==
  ASSUME TypeOK, RecordInv, NEW w \in Workers, Rendering(w), Abandon(w)
  PROVE  RecordInv'
<1>i. OneExecution /\ RowsInOrder /\ RowsWritten /\ Outputs /\ Verdicted
  BY DEF RecordInv
<1>1. status = "running" /\ Current(w)
  BY <1>i, AbandonEnds, Alone
<1>2. \A x \in Workers : exec'[x].pc = "idle"
  BY <1>i, AbandonEnds, NobodyLeft
<1>3. /\ task'.state = "queued"
      /\ UNCHANGED <<attempt, status, result, cache, manifest, telemetry, calls>>
  BY <1>1, AbandonEnds DEF Requeued
<1>4. OneExecution' /\ RowsWritten'
  BY <1>1, <1>2, <1>3 DEF OneExecution, RowsWritten
<1>5. RowsInOrder' /\ Verdicted'
  BY <1>i, <1>3 DEF RowsInOrder, Verdicted
<1>6. Outputs'
  BY <1>i, <1>2, <1>3 DEF Outputs
<1> QED
  BY <1>4, <1>5, <1>6 DEF RecordInv

LEMMA RenderInTimeTypes == RenderInTimeSpec => []TypeOK
<1>1. [RenderNext /\ slow' = slow]_renderVars => [RenderNext]_renderVars
  OBVIOUS
<1>2. RenderTypeOK => TypeOK
  BY DEF RenderTypeOK
<1> QED
  BY <1>1, <1>2, RenderTypesHold, PTL DEF RenderInTimeSpec, RenderSpec

LEMMA RenderRecordInvariance == RenderInTimeSpec => []RecordInv
<1>1. RenderInit => RecordInv
  BY RecordInvInit DEF RenderInit
<1>2. TypeOK /\ RecordInv /\ [RenderNext /\ slow' = slow]_renderVars => RecordInv'
  BY InTimeMoves, RecordInvStep, AbandonKeepsRecords
<1> QED
  BY <1>1, <1>2, RenderInTimeTypes, PTL DEF RenderInTimeSpec

\* The rows tell what the workflow was told of a rendering stage, too, if no
\* activity outlives its timeout.
THEOREM RenderRecordsMatch == RenderInTimeSpec => []RecordMatchesDelivery
<1>1. RecordInv => RecordMatchesDelivery
  BY DEF RecordInv, RowsInOrder, Verdicted, RecordMatchesDelivery
<1> QED
  BY <1>1, RenderRecordInvariance, PTL

\* And S30 with its talks, its polling and its abandoned tries is the stage that
\* the workflow relies on, under the same premise: none of it is visible.
THEOREM RenderRefinesContract == RenderInTimeSpec => StageImplementsContract
<1>1. RenderInit => Contract!Init
  BY BudgetAssumption DEF RenderInit, Init, Contract!Init, Attempts
<1>2. TypeOK /\ RecordInv /\ [RenderNext /\ slow' = slow]_renderVars =>
        [Contract!Next]_(Contract!vars)
  <2> SUFFICES ASSUME TypeOK, RecordInv, [RenderNext /\ slow' = slow]_renderVars
               PROVE  [Contract!Next]_(Contract!vars)
    OBVIOUS
  <2>1. CASE \E w \in Workers : Reply(w)
    BY <2>1, RepliesTellTheRows
  <2>2. CASE [InTimeNext]_vars /\ ~ \E w \in Workers : Reply(w)
    BY <2>2, OnlyRepliesTell DEF Contract!vars, ToldRows, RecordedOutput, loop
  <2>3. ASSUME NEW w \in Workers, Rendering(w), Abandon(w)
        PROVE  UNCHANGED Contract!vars
    BY <2>3, AbandonEnds DEF Contract!vars, ToldRows, RecordedOutput
  <2> QED
    BY <2>1, <2>2, <2>3, InTimeMoves
<1> QED
  BY <1>1, <1>2, RenderRecordInvariance, RenderInTimeTypes, PTL
     DEF RenderInTimeSpec, StageImplementsContract, Contract!Spec
=============================================================================
