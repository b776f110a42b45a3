------------------------- MODULE MCProviderRegistry -------------------------
(***************************************************************************)
(* ProviderRegistry on small instances.                                    *)
(***************************************************************************)
EXTENDS ProviderRegistry

CONSTANTS r1, r2, r3, dash, cli

\* All in the dashboard; or the last on the command line.
MCDashboard == [r \in Runs |-> dash]
MCTwoProcesses == [r \in Runs |-> IF r = r3 THEN cli ELSE dash]

MCAvatar   == [avatar_render |-> "auto", media_sync |-> "auto"]
MCFaceless == [avatar_render |-> "faceless_mixed_media",
               media_sync    |-> "narration_conform"]
MCTypo     == [avatar_render |-> "faceless", media_sync |-> "auto"]

\* Runs of both modalities.
MCMixed == [r \in Runs |-> IF r = r2 THEN MCFaceless ELSE MCAvatar]

\* The run on the command line names a provider that does not exist.
MCMisspelt == [r \in Runs |-> IF r = r3 THEN MCTypo ELSE MCMixed[r]]
=============================================================================
