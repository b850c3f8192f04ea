SPECIFICATION PySpec
CONSTANT Documents <- MCDocuments
INVARIANTS
  NothingLost
  SameScanner
PROPERTIES
  GrammarSpec
  Progress
CHECK_DEADLOCK FALSE
