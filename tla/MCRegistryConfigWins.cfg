SPECIFICATION Spec
CONSTANTS
  r1 = r1
  r2 = r2
  r3 = r3
  dash = dash
  cli = cli
  Runs = {r1, r2, r3}
  Processes = {dash, cli}
  LongLived = {dash}
  Home <- MCDashboard
  Config <- MCMixed
  Keyed = {"avatar_render"}
INVARIANTS
  ConfigWins
