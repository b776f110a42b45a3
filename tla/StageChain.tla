------------------------------ MODULE StageChain ------------------------------
(***************************************************************************)
(* What the stages of a run promise as a chain, whatever they make and     *)
(* whoever executes them: they are passed in order and none is skipped, a  *)
(* stage that failed is tried again where it stands and never more than    *)
(* the budget allows, the gate is never tried again, and after the last    *)
(* stage, or a failure, nothing happens.                                   *)
(***************************************************************************)
EXTENDS Naturals

CONSTANTS
  FirstStage, LastStage,  \* numbers of the stages a run begins and ends with
  GateStage,              \* and of the one at which it waits for a person
  RetryBudget

VARIABLES
  stage, attempt,  \* the stage being tried, and for which time
  ended            \* "no", "failed" or "completed"

vars == <<stage, attempt, ended>>

Init == stage = FirstStage /\ attempt = 1 /\ ended = "no"

Pass ==
  /\ ended = "no" /\ stage < LastStage
  /\ stage' = stage + 1 /\ attempt' = 1
  /\ UNCHANGED ended

Complete ==
  /\ ended = "no" /\ stage = LastStage
  /\ ended' = "completed" /\ attempt' = 1
  /\ UNCHANGED stage

Retry ==
  /\ ended = "no" /\ stage # GateStage /\ attempt < RetryBudget
  /\ attempt' = attempt + 1
  /\ UNCHANGED <<stage, ended>>

Fail ==
  /\ ended = "no"
  /\ ended' = "failed"
  /\ UNCHANGED <<stage, attempt>>

Next == Pass \/ Complete \/ Retry \/ Fail

Spec == Init /\ [][Next]_vars
=============================================================================
