CONSTANTS
  Values <- MCValues
  Immutable = {0}
  Unused = {6}
  States <- MCStates
  Placements <- MCPlacements
  Sizes <- MCSizes
  OutputSets <- MCOutputSets
  Workloads = {{}}
  Alignment = 2
  MaxBytes = 12
  MaxReplays = 2
SPECIFICATION MemorySpec
INVARIANT ProducersFirst
INVARIANT StateVersionsKept
INVARIANT CycleIsReal
INVARIANT OperandsIntact
INVARIANT HandoverSound
CHECK_DEADLOCK FALSE
