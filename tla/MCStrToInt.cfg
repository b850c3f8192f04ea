SPECIFICATION Spec
CONSTANTS
  Half = 32
  Texts <- MCTexts
  Digits <- MCDigits
INVARIANTS
  TypeOK
  NoWrap
  ResultExact
  RejectsOnlyTooLarge
  AgreesWithReference
CHECK_DEADLOCK FALSE
