SPECIFICATION Spec
CONSTANT Bodies <- ByteBodies
INVARIANT SameInPython
CHECK_DEADLOCK FALSE
