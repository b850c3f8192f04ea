SPECIFICATION Spec
CONSTANT Documents <- TwoStrings
INVARIANT StringEndsAtUnescapedQuote
CHECK_DEADLOCK FALSE
