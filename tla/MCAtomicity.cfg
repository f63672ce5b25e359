\* A @Transaction method and a plain call over two connections.
CONSTANTS
  Tasks = {t1, t2}
  Conns = {1, 2}
  Kinds = {"decorated", "plain"}
  MaxTries = 1
  MaxAttempts = 2
  MaxFaults = 2
SPECIFICATION Spec
INVARIANTS
  DecoratedIsAtomic
CHECK_DEADLOCK FALSE
