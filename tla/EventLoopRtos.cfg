SPECIFICATION FairSpec
CONSTANTS
  Kinds = {"interval", "timeout"}
  Length = 2
  MaxCommands = 3
  MaxTimers = 2
  MaxKills = 2
INVARIANTS TypeOK NoTimerOutlivesItem SafeUntilStalled
PROPERTIES DaemonAndLoopGoOn
CHECK_DEADLOCK FALSE
