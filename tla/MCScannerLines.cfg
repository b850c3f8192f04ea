SPECIFICATION Spec
CONSTANT Documents <- StringDocuments
INVARIANT LineCountAccurate
CHECK_DEADLOCK FALSE
