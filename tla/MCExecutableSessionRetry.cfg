CONSTANTS
  Ports = {p1, p2}
  Addresses = {a1, a2}
  NumCommands = 3
  Library = {2}
  Regions = {"weights", "arena", "workspace"}
  Modes = {TRUE, FALSE}
  MaxSubmits = 2
  NULL = NULL
SPECIFICATION FairSpec
PROPERTY FailedPrepareUnusable
CHECK_DEADLOCK FALSE
