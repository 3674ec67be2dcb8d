SPECIFICATION FairSpec
CONSTANTS
  t1 = t1  t2 = t2  t3 = t3
  package = package  other = other
  Transfers = {t1, t2, t3}
  Uris = {package, other}
  Uri <- MCUri
  Length <- MCLength
  ServerSize = 2
  Chunk = 1
  MaxBlock1Size = 4
  MaxTries = 2
  MaxEarly = 1
INVARIANTS TypeOK HandedInOrder
PROPERTIES ImplementsHandover TransferSucceeds
CHECK_DEADLOCK FALSE
