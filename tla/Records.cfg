SPECIFICATION MCSpec
CONSTANTS
  Scenes = {"uses", "mic", "phone", "controls", "judged", "buttons", "apps", "pool"}
  Uses = {1, 2, 3}
  Gap = 1
  MaxTime = 3
  NoSeries = NoSeries
  Procs = {1, 2}
  Pid <- MCPid
  Devices = {1, 2}
  Helpers = {1, 2, 3, 4, 5}
  Sessions = {1, 2}
  None = 0
  Apps = {"app"}
  Keys = {"location", "motion"}
  MaxIncidents = 2
  MaxResults = 3
  MaxUses = 3
  MaxMoves = 1
  NoChange = NoChange
  Bundles = {"a", "b", "i"}
  Apple = {"i"}
  Syncs = {1}
  Posts = {2}
  Queries = {1, 2}
  Hosts = {"x", "y"}
  Conns = {1, 2, 3}
  MaxIdle = 1
INVARIANTS
  TypesOK
  UsesTold
  SessionsTold
  HelpersHeld
  AppsKept
  ButtonsHonest
  PoolKept
CHECK_DEADLOCK FALSE
