SPECIFICATION RegionSpec
CONSTANTS
  Templates <- AllTemplates
  Invocations <- BothInvocations
  Attributes <- SameTypes
INVARIANT RegionMeansKernel
INVARIANT RegionsPrivate
INVARIANT TemplateLowered
CHECK_DEADLOCK FALSE
