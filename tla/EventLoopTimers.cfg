SPECIFICATION FairSpec
CONSTANTS
  k1 = k1  k2 = k2  Loop = Loop  Nobody = Nobody
  Controllers = {k1}
  Kinds = {"interval", "timeout"}
  Length = 2
  MaxCallbacks = 2
  MaxKills = 1
INVARIANTS TypeOK NoUseAfterFree NoTimerOutlivesItem
PROPERTIES ClearedStaysSilent FiringsComplete
CHECK_DEADLOCK FALSE
