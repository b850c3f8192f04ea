-------------------------------- MODULE Delims --------------------------------
(***************************************************************************)
(* The characters that src/c/kevs.c gives a meaning.                       *)
(***************************************************************************)

kKeyValSep      == "KeyValSep"       \* =
kKeyValEnd      == "KeyValEnd"       \* ;
kCommentBegin   == "CommentBegin"    \* #
kStringBegin    == "StringBegin"     \* "
kRawStringBegin == "RawStringBegin"  \* `
kListBegin      == "ListBegin"       \* [
kListEnd        == "ListEnd"         \* ]
kTableBegin     == "TableBegin"      \* {
kTableEnd       == "TableEnd"        \* }

\* The characters that become tokens of their own.
Delimiters == {kKeyValSep, kKeyValEnd, kListBegin, kListEnd, kTableBegin, kTableEnd}

===============================================================================
