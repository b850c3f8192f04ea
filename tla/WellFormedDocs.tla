---------------------------- MODULE WellFormedDocs ----------------------------
(***************************************************************************)
(* Documents written as readme.md and testdata/valid write them, with the  *)
(* layout they may have: spaces around a key and before a value; spaces,   *)
(* newlines and comments before an item and before a closing bracket.      *)
(***************************************************************************)
EXTENDS DocGrammar

Spaces == {<<>>, <<Space>>}
Blanks == Spaces \cup {<<Newline>>, <<Space, kCommentBegin, kKeyValEnd, Newline, Space>>}

Bare    == {<<Other>>, <<Other, Other, Space>>}
Strings == {<<kStringBegin>> \o s \o <<kStringBegin>> :
              s \in {<<>>, <<Other>>, <<Backslash, kStringBegin>>, <<kKeyValEnd, kListEnd>>,
                     <<kRawStringBegin, Newline>>}}
Raws    == {<<kRawStringBegin>> \o s \o <<kRawStringBegin>> :
              s \in {<<>>, <<Newline, kKeyValEnd>>, <<Backslash>>, <<kStringBegin>>}}
Simple  == Bare \cup Strings \cup Raws

Item(b, v)       == b \o v \o <<kKeyValEnd>>
KeyValue(b, s, v) == Item(b, <<Other>> \o s \o <<kKeyValSep>> \o s \o v)
List(items, b)   == <<kListBegin>> \o items \o b \o <<kListEnd>>
Table(pairs, b)  == <<kTableBegin>> \o pairs \o b \o <<kTableEnd>>

\* After the last pair; spaces that nothing follows are an error (scan tests
\* for the end of the input before it trims them).
Ends == {<<>>, <<Newline>>, <<Space, kCommentBegin, Newline>>}

\* One simple value, with every layout.
OneValue == {KeyValue(b, s, v) \o c : b \in Blanks, s \in Spaces, v \in Simple, c \in Ends}

\* Lists and tables of at most two items.
Few == {<<Other>>, <<kStringBegin, kStringBegin>>, <<kRawStringBegin, Newline, kRawStringBegin>>}
Lists(values, blanks) ==
  {List(<<>>, b) : b \in blanks}
  \cup {List(Item(b, v), c) : b, c \in blanks, v \in values}
  \cup {List(Item(b, v) \o Item(c, w), b) : b, c \in blanks, v, w \in values}
Tables(values, blanks) ==
  {Table(<<>>, b) : b \in blanks}
  \cup {Table(KeyValue(b, <<>>, v), c) : b, c \in blanks, v \in values}
  \cup {Table(KeyValue(b, <<>>, v) \o KeyValue(c, <<Space>>, w), b) :
          b, c \in blanks, v, w \in values}

Flat   == Lists(Few, Blanks) \cup Tables(Few, Blanks)
Inner  == Lists({<<Other>>}, {<<>>, <<Newline>>}) \cup Tables({<<Other>>}, {<<>>, <<Space>>})
Nested == Lists(Inner, {<<>>, <<Space>>}) \cup Tables(Inner, {<<>>, <<Newline>>})

WellFormed ==
  OneValue
  \cup {KeyValue(<<>>, <<Space>>, v) : v \in Flat \cup Nested}
  \cup {KeyValue(<<>>, <<>>, v) \o KeyValue(<<Newline>>, <<Space>>, v) : v \in Inner}

=============================================================================
