SPECIFICATION Spec
CONSTANTS
  Problems <- MCProblems
  Values <- MCValues
INVARIANT DecodersAgree
INVARIANT LoweredIsPrepared
INVARIANT PreparedInBounds
INVARIANT OutputsComplete
CHECK_DEADLOCK FALSE
