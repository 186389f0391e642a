CONSTANTS
  Scenarios <- MCScenarios
  Chunks <- MCChunks
  Cubins <- MCCubins
  Plans <- MCPlans
  NONE = NONE
SPECIFICATION Spec
INVARIANT DestinationIntact
INVARIANT DestinationExecutable
INVARIANT MappedUnchanged
INVARIANT TemporaryOwned
