\* Two calls and one pool with one connection; every close() may fail.
CONSTANTS
  Calls = {k1, k2}
  Owners = {o1}
  MaxPools = 1
  PoolConns = 1
  DrainMayFail = TRUE
  MaxReconnectAttempts = 1
SPECIFICATION Spec
SYMMETRY CallSymmetry
INVARIANT ActiveMatchesUsers
PROPERTY FailureShows
CHECK_DEADLOCK FALSE
