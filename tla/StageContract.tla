---------------------------- MODULE StageContract ----------------------------
(***************************************************************************)
(* What the workflow relies on when it runs one stage: the attempts happen *)
(* one after the other, each leaves exactly the row of the verdict the     *)
(* workflow was told, and the output it was given is the recorded one.     *)
(* This is how module AvatarPipeline treats an activity: as one step.      *)
(***************************************************************************)
EXTENDS Naturals

CONSTANT RetryBudget

VARIABLES
  attempt, status,     \* the correction loop
  rows,                \* verdict of each attempt the workflow was told
  result, output       \* output the workflow was given; output on record

vars == <<attempt, status, rows, result, output>>

Init ==
  /\ attempt = 1 /\ status = "running"
  /\ rows = [k \in 1..RetryBudget |-> "none"]
  /\ result = 0 /\ output = 0

Pass ==
  /\ status = "running"
  /\ status' = "passed"
  /\ rows' = [rows EXCEPT ![attempt] = "passed"]
  /\ result' \in Nat \ {0}
  /\ output' = result'
  /\ UNCHANGED attempt

Retry ==
  /\ status = "running" /\ attempt < RetryBudget
  /\ attempt' = attempt + 1
  /\ rows' = [rows EXCEPT ![attempt] = "failed"]
  /\ UNCHANGED <<status, result, output>>

GiveUp ==
  /\ status = "running"
  /\ status' = "failed"
  /\ rows' = [rows EXCEPT ![attempt] = "failed"]
  /\ UNCHANGED <<attempt, result, output>>

Next == Pass \/ Retry \/ GiveUp

Spec == Init /\ [][Next]_vars
=============================================================================
