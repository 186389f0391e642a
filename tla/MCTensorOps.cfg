CONSTANTS
  Cases <- MCCases
  States <- MCStates
  Sizes <- MCSizes
  Positions = {0, 2, 3}
SPECIFICATION TensorSpec
INVARIANT VerifiedOpsFit
INVARIANT LoopsReadTheirElements
INVARIANT ElisionKeepsBytes
CHECK_DEADLOCK FALSE
