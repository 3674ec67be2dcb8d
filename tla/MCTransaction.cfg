SPECIFICATION FairSpec
CONSTANTS
  t1 = t1  t2 = t2
  Transactions = {t1, t2}
  ResponseTimeout = 1
  MaxRetransmit = 3
  Pause = 2
  MaxDuplicates = 1
  MaxStalls = 2
INVARIANTS TypeOK SilenceEndsInTime SentAtMost
PROPERTIES EveryTransactionEnds
CHECK_DEADLOCK FALSE
