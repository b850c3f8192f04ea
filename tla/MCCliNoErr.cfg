SPECIFICATION Spec
CONSTANTS
  Chars <- MCChars
  ErrBufLen = 6
  Args <- MCArgs
  Contents <- MCContents
  Name <- MCName
  Reports <- MCReports
INVARIANT NoErrExitsZero
CHECK_DEADLOCK FALSE
