CONSTANTS
  Programs <- MCPrograms
  MaxExpandedOps = 14
  MaxValueNumber = 20
  MaxLoweredOps = 12
SPECIFICATION ReplaySpec
INVARIANT ScheduleVerified
INVARIANT BindingsTyped
INVARIANT ReplayMeansProgram
INVARIANT CoverageComplete
CHECK_DEADLOCK FALSE
