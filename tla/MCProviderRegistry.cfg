SPECIFICATION FairSpec
CONSTANTS
  r1 = r1
  r2 = r2
  r3 = r3
  dash = dash
  cli = cli
  Runs = {r1, r2, r3}
  Processes = {dash, cli}
  LongLived = {dash}
  Home <- MCTwoProcesses
  Config <- MCMisspelt
  Keyed = {"avatar_render"}
INVARIANTS
  RunGetsItsProviders
  RegistryComplete
PROPERTIES
  StartedRunsFinish
