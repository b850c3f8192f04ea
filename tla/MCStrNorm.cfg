SPECIFICATION Spec
CONSTANT Bodies <- MCBodies
INVARIANTS
  TypeOK
  InBounds
  Interprets
CHECK_DEADLOCK FALSE
