SPECIFICATION Spec
CONSTANTS
  Chars <- MCChars
  ErrBufLen = 6
  Args <- MCArgs
  Contents <- MCContents
  Name <- MCName
  Reports <- MCReports
INVARIANTS
  TypeOK
  ExitCode
  DataIsFile
  NothingHeld
  DocumentOutlives
  MessageWhole
PROPERTY Termination
CHECK_DEADLOCK FALSE
