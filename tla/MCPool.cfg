\* Three clients contend for a pool of one or two connections.
CONSTANTS
  Clients = {c1, c2, c3}
  MaxPoolSize = 2
  MinPoolSize = 2
  MaxWaitingClients = 2
  HasValidation = TRUE
  HasIdleCheck = FALSE
  CloseMayFail = FALSE
  MaxOpens = 3
SPECIFICATION Spec
SYMMETRY ClientSymmetry
INVARIANTS
  PoolInv
  CapacityAccounted
  LeasedStaysOpen
PROPERTIES
  ServedInOrder
  ImplementsLease
CHECK_DEADLOCK FALSE
