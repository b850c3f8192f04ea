SPECIFICATION FairSpec
CONSTANTS
  Keys <- MCKeys
  ValidKeys <- MCValidKeys
  PyValidKeys <- MCPyValidKeys
  Literals <- MCLiterals
  Class <- MCClass
  PyClass <- MCPyClass
  PyDatum <- MCPyDatum
  MaxCalls = 2
  MaxTokens = 13
  MaxTotal = 12
  MaxMixed = 9
  Plain <- MCPlain
INVARIANTS
  TypeOK
  Ownership
  Capacity
  NothingLeaked
  GrammarSuffices
  UniqueKeys
  StaysLent
  AcceptsExactly
  Faithful
  LookupsAnswer
  DumpInOrder
  SameParser
PROPERTY Termination
CHECK_DEADLOCK FALSE
