SPECIFICATION Spec
CONSTANTS
  Chars <- MCChars
  ErrBufLen = 6
  Args <- MCArgs
  Contents <- MCContents
  Name <- MCName
  Reports <- MCReports
INVARIANT AbortsOnlyOnRequest
CHECK_DEADLOCK FALSE
