SPECIFICATION FairSpec
CONSTANT Documents <- MCDocuments
INVARIANTS
  TypeOK
  NothingLost
  TokensWellFormed
  LinesOutsideStrings
  VerdictIsRight
PROPERTIES
  GrammarSpec
  Progress
  Termination
CHECK_DEADLOCK FALSE
