CONSTANTS
  Ports = {p1, p2}
  Addresses = {a1, a2}
  NumCommands = 3
  Library = {2}
  Regions = {"weights", "arena", "workspace"}
  Modes = {TRUE, FALSE}
  MaxSubmits = 2
  NULL = NULL
SPECIFICATION Spec
INVARIANT ReleasedInOrder
INVARIANT NothingLeaks
INVARIANT AddressesFrozen
INVARIANT LedgerExact
INVARIANT CaptureEnded
PROPERTY ImplementsContract
CHECK_DEADLOCK FALSE
