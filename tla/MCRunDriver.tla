---------------------------- MODULE MCRunDriver ----------------------------
(***************************************************************************)
(* RunDriver on small instances.                                           *)
(***************************************************************************)
EXTENDS RunDriver

\* Retries before the master, of the master, and a failing publish.
MCFlakyStages == {S00, S60, S100}

\* What scripts/kill_drill.sh leaves: S00 to S30 passed, S10 at its second
\* attempt, and S40 was running.
MCKilledRun ==
  [s \in Stages |-> [k \in Attempts |->
      CASE s = S10 -> IF k = 1 THEN "failed" ELSE
                      IF k = 2 THEN "passed" ELSE "none"
        [] s \in {S00, S20, S30} -> IF k = 1 THEN "passed" ELSE "none"
        [] OTHER -> "none"]]

\* What a run leaves that was killed at S70, its master at a second attempt.
MCKilledAtS70 ==
  [s \in Stages |-> [k \in Attempts |->
      CASE s = S60 -> IF k = 1 THEN "failed" ELSE
                      IF k = 2 THEN "passed" ELSE "none"
        [] s < S60 -> IF k = 1 THEN "passed" ELSE "none"
        [] OTHER -> "none"]]

\* The id is new, or an earlier run used it.
MCOldManifests == {NoRows, MCKilledRun, MCKilledAtS70}

\* The premise of theorem DriverSignsMaster is met here.
ASSUME OneSurplusAssumption == OneSurplusRow
=============================================================================
