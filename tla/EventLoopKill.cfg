SPECIFICATION FairSpec
CONSTANTS
  k1 = k1  k2 = k2  Loop = Loop  Nobody = Nobody
  Controllers = {k1, k2}
  Kinds = {"interval", "timeout"}
  Length = 2
  MaxCallbacks = 1
  MaxKills = 2
INVARIANTS KillLeavesNothing StaleOnlyAfterFailure
PROPERTIES KillEnds
CHECK_DEADLOCK FALSE
