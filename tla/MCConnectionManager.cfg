\* Two calls on any route, one init or drain at a time, two pools one after
\* the other with one connection each.
CONSTANTS
  Calls = {k1, k2}
  Owners = {o1}
  MaxPools = 2
  PoolConns = 1
  DrainMayFail = FALSE
  MaxReconnectAttempts = 1
SPECIFICATION Spec
SYMMETRY CallSymmetry
INVARIANTS
  ConnectionInv
  TransientStateHasWayOut
CHECK_DEADLOCK FALSE
