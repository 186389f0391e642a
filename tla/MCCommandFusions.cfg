SPECIFICATION FusionSpec
CONSTANTS
  Templates <- AllTemplates
  Invocations <- BothInvocations
  Attributes <- SameTypes
INVARIANT FusedMeansSchedule
INVARIANT FusionsKeepLowerable
CHECK_DEADLOCK FALSE
