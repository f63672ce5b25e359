\* Two acquire() calls and initialize() open connections at the same time.
CONSTANTS
  Clients = {c1, c2}
  MaxPoolSize = 1
  MinPoolSize = 1
  MaxWaitingClients = 2
  HasValidation = FALSE
  HasIdleCheck = FALSE
  CloseMayFail = FALSE
  MaxOpens = 3
SPECIFICATION Spec
INVARIANT PoolSizeBounded
CHECK_DEADLOCK FALSE
