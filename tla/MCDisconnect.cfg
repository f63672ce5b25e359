\* One caller and one owner.
CONSTANTS
  Calls = {k1}
  Owners = {o1}
  MaxPools = 1
  PoolConns = 1
  DrainMayFail = FALSE
  MaxReconnectAttempts = 0
SPECIFICATION Spec
PROPERTY DisconnectDisconnects
CHECK_DEADLOCK FALSE
