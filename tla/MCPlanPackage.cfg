CONSTANTS
  MaxCommands = 3
  MaxOperands = 8
  MaxCommandPayload = 4
  MaxU32 = 31
  MaxU64 = 63
  MaxTensorRank = 2
  MaxAlignment = 8
  MaxValues = 9
  MaxPorts = 3
  MaxStates = 2
  MaxProviders = 3
  Compilers = {c1}
  Config = "config"
  Shards = {"shard1", "shard2"}
  Request <- Small
  ShardOf <- MCShardOf
  MaxEdits = 2
  MaxBuilds = 1
  NoFile = NoFile
  RuntimeWrappers = {r1}
  ModelWrappers = {m1}
  SessionWrappers = {s1, s2}
  Objects = {o1, o2, o3, o4, o5}
  Files <- MCFiles
  RuntimeOptions <- MCOptions
  Profiles <- MCProfiles
  Machine <- MCMachine
  Platform = "x86_64"
  Upgrades <- MCUpgrades
  NULL = NULL
  Requests <- MCRequests
  MaxRewrites = 2
SPECIFICATION PackageSpec
CHECK_DEADLOCK FALSE
INVARIANT PlanParsersAgree
INVARIANT LoadedPlanSound
INVARIANT RecordedSource
INVARIANT SessionsSound
