SPECIFICATION FairSpec
CONSTANTS
  Ports = {"file", "flash"}
  Blocks = 2
  Tail = TRUE
  Capacities = {2, 3}
  Splits = {FALSE, TRUE}
  Failures = TRUE
  MaxDownloads = 3
  MaxSplit = 2
  MaxResets = 1
INVARIANTS TypeOK FromOriginToEnd InstalledIsImage NoLoopWhileWriting
PROPERTIES DownloadEnds
CHECK_DEADLOCK FALSE
