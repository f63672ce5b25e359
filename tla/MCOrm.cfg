\* Two classes of two properties, any three calls of the program.
CONSTANTS
  e1 = e1
  e2 = e2
  p1 = p1
  p2 = p2
  other = other
  Entities = {e1, e2}
  Props = {p1, p2}
  OtherNames = {other}
  NoProp = NoProp
  NotGiven = NotGiven
  NoMeta = NoMeta
  NoEntity = NoEntity
  Listed <- ListOf
  Bodies <- BodiesOf
  Calls <- CallSet
  Features <- FeatureLists
  MaxCalls = 3
SPECIFICATION Spec
INVARIANTS
  TypeOK
  RemovalUndoesAddition
  KeysAreColumns
  FinalizedIsUsable
  ModelAlone
  BindsInOrder
PROPERTIES
  CallsHitTheirEntity
  RemovesOneProperty
  RegisteredOnce
CHECK_DEADLOCK FALSE
