CONSTANTS
  NumValues = 4
  LastStep = 2
  Units = {1, 3}
  Alignment = 2
  MaxBytes = 15
  Workloads <- MCWorkloads
SPECIFICATION Spec
INVARIANT ArenaInv
INVARIANT LiveDisjoint
INVARIANT NoAssertion
INVARIANT ArenaTiled
INVARIANT ReceiptsOrdered
CHECK_DEADLOCK FALSE
