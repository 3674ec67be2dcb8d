SPECIFICATION Spec
CONSTANTS
  Ports = {"flash"}
  Blocks = 2
  Tail = TRUE
  Capacities = {3}
  Splits = {TRUE}
  Failures = FALSE
  MaxDownloads = 1
  MaxSplit = 1
  MaxResets = 0
INVARIANT AckConfirmsChunk
CHECK_DEADLOCK FALSE
