-------------------------- MODULE MCAvatarPipeline --------------------------
(***************************************************************************)
(* AvatarPipeline on small instances.                                      *)
(***************************************************************************)
EXTENDS AvatarPipeline

\* Stages with a retryable failure, with the identity re-fetch, of the master
\* itself, with terminal failures only, and after the gate.
MCFlakyStages == {S00, S30, S60, S70, S100}
=============================================================================
