----------------------------- MODULE MCPyScanner -----------------------------
(***************************************************************************)
(* Documents for the Python scanner: every short one; longer ones about    *)
(* strings, where what follows a string may occur in it; and pairs inside  *)
(* lists and tables.                                                       *)
(***************************************************************************)
EXTENDS PyScanner, SequencesExt

Pair == <<Other, kKeyValSep>>

AnyDocuments == BoundedSeq(Char, 3)

\* With and without a newline at the end.
StringDocuments ==
  {Pair \o s \o e : s \in BoundedSeq({kStringBegin, Backslash, Newline, kKeyValEnd, Other}, 5),
                    e \in {<<>>, <<kKeyValEnd, Newline>>}}

NestedDocuments ==
  {Pair \o <<kListBegin>> \o s :
     s \in BoundedSeq({kStringBegin, kKeyValEnd, kListBegin, kListEnd, Space}, 5)}
  \cup {Pair \o <<kTableBegin>> \o s :
     s \in BoundedSeq({Other, kKeyValSep, kKeyValEnd, kTableEnd, Newline}, 5)}
  \cup {Pair \o <<kRawStringBegin>> \o s : s \in BoundedSeq({kRawStringBegin, Newline, kKeyValEnd}, 4)}

MCDocuments == AnyDocuments \cup StringDocuments \cup NestedDocuments

\* A string that is closed and followed by a semicolon.
ClosedStrings ==
  {Pair \o <<kStringBegin>> \o s \o <<kStringBegin, kKeyValEnd>> :
     s \in BoundedSeq({Other, kKeyValSep, kKeyValEnd, Space}, 4)}

=============================================================================
