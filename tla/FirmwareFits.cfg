SPECIFICATION Spec
CONSTANTS
  Ports = {"file"}
  Blocks = 2
  Tail = FALSE
  Capacities = {2}
  Splits = {FALSE}
  Failures = FALSE
  MaxDownloads = 1
  MaxSplit = 1
  MaxResets = 0
INVARIANT FitsMemory
CHECK_DEADLOCK FALSE
