------------------------------ MODULE RenderJob ------------------------------
(***************************************************************************)
(* The provider call of StageExecution taken apart for S30:                *)
(* DIDAvatarProvider.run of providers/real/did_avatar.py starts a talk at  *)
(* D-ID, polls it, and downloads what it rendered.  A talk is paid for     *)
(* when it is created, runs on whoever waits for it, and is never          *)
(* cancelled; whatever the call raises, the next try starts another one.   *)
(*                                                                         *)
(* Reading the two artifacts and uploading them leaves nothing behind, so  *)
(* it is part of creating the talk.                                        *)
(***************************************************************************)
EXTENDS StageExecution, Sequences, FiniteSets

CONSTANT MaxFailedTalks   \* bound: talks that end in status "error"

ASSUME FailedTalkAssumption == MaxFailedTalks \in Nat

VARIABLES
  talks,   \* D-ID's jobs for this stage, in the order they were created
  polled,  \* per worker, the talk its run waits for; 0 before it has one
  good     \* history: renders that were made, stored and validated

renderVars == <<vars, talks, polled, good>>

RenderInit ==
  /\ Init
  /\ talks = <<>>
  /\ polled = [w \in Workers |-> 0]
  /\ good = 0

\* Talks in a state.
Talks(state) == {t \in DOMAIN talks : talks[t] = state}

Rendering(w) == exec[w].pc = "run" /\ cache[w] = 0
Waiting(w)   == Rendering(w) /\ polled[w] # 0

TalkIs(w, state) == Waiting(w) /\ talks[polled[w]] = state

\* Faulty: the wait is never over.
StopPollingNever(w) == UNCHANGED polled

StopPolling(w) == polled' = [polled EXCEPT ![w] = 0]
-----------------------------------------------------------------------------
(* DIDAvatarProvider.run *)

CreateTalk(w) ==
  /\ Rendering(w) /\ polled[w] = 0
  /\ talks' = Append(talks, "started")
  /\ polled' = [polled EXCEPT ![w] = Len(talks) + 1]
  /\ UNCHANGED <<vars, good>>

\* The request is answered too late or without an id: the talk exists, and
\* nobody knows it.
LoseTalk(w) ==
  /\ Rendering(w) /\ polled[w] = 0
  /\ Raise(w) /\ calls' = calls
  /\ talks' = Append(talks, "started")
  /\ UNCHANGED <<polled, good>>

\* "done": the video is downloaded and stored, and the exit validator judges
\* it; both failures S30 knows are retryable.
FinishTalk(w, verdict) ==
  /\ TalkIs(w, "done")
  /\ verdict \in {"passed", "retryable"}
  /\ CallProvider(w, verdict)
  /\ good' = IF verdict = "passed" THEN good + 1 ELSE good
  /\ StopPolling(w)
  /\ UNCHANGED talks

\* An exception that is D-ID's doing, or the deadline's.
Abandon(w) ==
  /\ task' = IF Current(w) THEN Requeued ELSE task
  /\ exec' = [exec EXCEPT ![w] = Idle]
  /\ StopPolling(w)
  /\ UNCHANGED <<loop, memory, rows, calls, faults, talks, good>>

FindError(w) == TalkIs(w, "error") /\ Abandon(w)

\* Faulty: a deadline shorter than the activity's timeout.
GiveUpPollingEarly(w) == TalkIs(w, "started") /\ Abandon(w)

\* poll_timeout_seconds is 300 and counted from the talk's creation,
\* STAGE_TIMEOUT is five minutes and counted from the activity's start: when the
\* deadline comes, the server has given the try up.
GiveUpPolling(w) == TalkIs(w, "started") /\ ~ Current(w) /\ Abandon(w)

\* Anything else that raises; after "done" a render may have been stored.
RenderRaises(w) ==
  /\ Raise(w)
  /\ calls' # calls => TalkIs(w, "done")
  /\ good' = good + (calls' - calls)
  /\ StopPolling(w)
  /\ UNCHANGED talks

RenderCrashes(w) ==
  /\ Crash(w)
  /\ StopPolling(w)
  /\ UNCHANGED <<talks, good>>
-----------------------------------------------------------------------------
\* D-ID ends a talk.
TalkEnds(t) ==
  /\ talks[t] = "started"
  /\ \/ talks' = [talks EXCEPT ![t] = "done"]
     \/ /\ Cardinality(Talks("error")) < MaxFailedTalks
        /\ talks' = [talks EXCEPT ![t] = "error"]
  /\ UNCHANGED <<vars, polled, good>>

RenderSteps(w) ==
  \/ CreateTalk(w)
  \/ \E v \in Verdicts : FinishTalk(w, v)
  \/ FindError(w)
  \/ /\ HitCache(w) \/ SaveRecord(w) \/ RecordTelemetry(w) \/ Reply(w)
     /\ UNCHANGED <<talks, polled, good>>

RenderNext ==
  \/ \E w \in Workers :
       \/ Poll(w) /\ UNCHANGED <<talks, polled, good>>
       \/ RenderSteps(w)
       \/ LoseTalk(w)
       \/ GiveUpPolling(w)
       \/ RenderRaises(w)
       \/ RenderCrashes(w)
  \/ \E t \in DOMAIN talks : TalkEnds(t)
  \/ /\ LostTryTimesOut \/ SlowTryTimesOut \/ Resolved
     /\ UNCHANGED <<talks, polled, good>>

RenderSpec == RenderInit /\ [][RenderNext]_renderVars

\* No activity outlives its timeout.
RenderInTimeSpec == RenderInit /\ [][RenderNext /\ slow' = slow]_renderVars

\* Some worker polls, an execution ends, the server fires its timeout, and
\* D-ID ends the talks somebody waits for.
RenderFairSpec ==
  /\ RenderSpec
  /\ WF_renderVars(\E w \in Workers :
                     Poll(w) /\ UNCHANGED <<talks, polled, good>>)
  /\ \A w \in Workers : WF_renderVars(RenderSteps(w))
  /\ WF_renderVars(LostTryTimesOut /\ UNCHANGED <<talks, polled, good>>)
  /\ WF_renderVars(\E w \in Workers :
                     Waiting(w) /\ TalkEnds(polled[w]))
-----------------------------------------------------------------------------
(* Properties *)

\* Every variable has the type of what it stands for, and a worker waits for a
\* talk only inside the provider call.
RenderTypeOK ==
  /\ TypeOK
  /\ talks \in Seq({"started", "done", "error"})
  /\ polled \in [Workers -> 0..Len(talks)]
  /\ good \in 0..calls
  /\ \A w \in Workers : polled[w] # 0 => Rendering(w)

\* Each talk beyond one per attempt of the correction loop is explained by a
\* fault, and so is each that still runs and that nobody waits for: no timeout,
\* deadline or replay, in whatever order they come, starts talks of its own
\* accord, and none walks away from a running one but a kill, an exception, or
\* a try that had already timed out.
TalksHaveCauses ==
  /\ Len(talks) <= attempt + crashes + errors + slow
                   + Cardinality(Talks("error"))
  /\ Cardinality({t \in Talks("started") : \A w \in Workers : polled[w] # t})
       <= crashes + errors + slow

\* A render that was validated is not made again because the answer came late:
\* a process makes one good render, and only a kill or an exception buys
\* another.
PassedRendersAreKept == good <= Cardinality(Workers) + crashes + errors
=============================================================================
