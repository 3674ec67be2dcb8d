SPECIFICATION FairSpec
CONSTANTS
  s1 = s1  s2 = s2  r1 = r1  r2 = r2  x = x  y = y
  Senders = {s1, s2}
  Receivers = {r1}
  Peekers = {r1}
  Cancellable = {s1, r1}
  Items = {x, y}
  Length = 2
  NoItem = NoItem
  NoThread = NoThread
INVARIANTS TypeOK NoLostWakeup
PROPERTIES ImplementsFifo AbandonedIsFrozen EveryItemDelivered
CHECK_DEADLOCK FALSE
