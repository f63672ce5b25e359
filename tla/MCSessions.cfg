\* Two calls of any kind and one fault, or one call with a retry and two faults,
\* over two connections.
CONSTANTS
  Tasks = {t1, t2}
  Conns = {1, 2}
  Kinds = {"decorated", "execute", "manager", "managed", "plain", "health", "indicator"}
  MaxTries = 2
  MaxAttempts = 2
  MaxFaults = 2
SPECIFICATION Spec
INVARIANTS
  TypeOK
  CommitTruth
  AtomicOnOneSession
  AppliedOnce
  NothingHeldAfter
  FlagTruth
SYMMETRY Interchangeable
CHECK_DEADLOCK FALSE
