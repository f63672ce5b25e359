\* Three calls, two pools one after the other, two connections each.
CONSTANTS
  Calls = {k1, k2, k3}
  Owners = {o1}
  MaxPools = 2
  PoolConns = 2
  DrainMayFail = TRUE
SPECIFICATION Spec
SYMMETRY CallSymmetry
INVARIANTS
  ManagerInv
  StrandedOnlyInCleared
  OneLivePool
CHECK_DEADLOCK FALSE
