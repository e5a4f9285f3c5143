SPECIFICATION Spec
CONSTANTS
  Task = {a, b, c, d}
  NULL = NULL
INVARIANTS
  DoublyLinked
  WalkMissesNobody
PROPERTIES
  ImplementsSet
