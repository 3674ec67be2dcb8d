SPECIFICATION FairSpec
CONSTANTS
  Bootstraps = {0}
  Servers = {1}
  MaxFailures = 3
  MaxTransactions = 3
INVARIANTS TypeOK WaitingHasTransaction BootstrapOnlyWhenAsked ServersAsConfigured NoChangeForgotten
PROPERTIES Progress
