\* Every option on and every close() unreliable: two clients, one connection.
CONSTANTS
  Clients = {c1, c2}
  MaxPoolSize = 1
  MinPoolSize = 1
  MaxWaitingClients = 0
  HasValidation = TRUE
  HasIdleCheck = TRUE
  CloseMayFail = TRUE
  MaxOpens = 2
SPECIFICATION FairSpec
INVARIANTS
  ExclusiveLease
  NoLostWakeup
PROPERTIES
  AcquireSettles
  DrainSettles
CHECK_DEADLOCK FALSE
