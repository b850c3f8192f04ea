SPECIFICATION PySpec
CONSTANT Documents <- ClosedStrings
INVARIANT TrailingQuoteIncluded
CHECK_DEADLOCK FALSE
