------------------------------ MODULE MCScanner ------------------------------
(***************************************************************************)
(* Documents for the scanner: every short document, and longer ones over   *)
(* the characters that matter to nesting, to strings and to comments,      *)
(* behind a prefix that brings the scanner there; and well-formed ones.    *)
(***************************************************************************)
EXTENDS ScannerProps, WellFormedDocs, SequencesExt

Pair == <<Other, kKeyValSep>>

AnyDocuments == BoundedSeq(Char, 3)

NestedDocuments ==
  {Pair \o s : s \in BoundedSeq({Other, kKeyValSep, kKeyValEnd, kListBegin, kListEnd,
                                 kTableBegin, kTableEnd}, 4)}
  \cup {Pair \o <<kListBegin>> \o s :
          s \in BoundedSeq({Other, kKeyValEnd, kListBegin, kListEnd}, 6)}
  \cup {Pair \o <<kTableBegin>> \o s :
          s \in BoundedSeq({Other, kKeyValSep, kKeyValEnd, kTableBegin, kTableEnd}, 5)}

StringDocuments ==
  {Pair \o s : s \in BoundedSeq({kStringBegin, kRawStringBegin, Backslash, Newline,
                                 kKeyValEnd, Other}, 5)}

LayoutDocuments ==
  {<<Other>> \o s : s \in BoundedSeq({Space, Newline, kCommentBegin, kKeyValSep,
                                      kKeyValEnd, kListBegin, kListEnd}, 5)}

MCDocuments ==
  AnyDocuments \cup NestedDocuments \cup StringDocuments \cup LayoutDocuments \cup WellFormed

\* Documents written as the readme describes are in the grammar.
ASSUME WellFormedAccepted == \A d \in WellFormed : Verdict(d) = "none"

\* Two strings in a row, the first of which may hold escapes.
TwoStrings ==
  {Pair \o <<kStringBegin>> \o s \o <<kKeyValEnd>> :
     s \in BoundedSeq({kStringBegin, Backslash, Other}, 5)}

=============================================================================
