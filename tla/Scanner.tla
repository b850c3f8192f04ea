------------------------------- MODULE Scanner -------------------------------
(***************************************************************************)
(* The scanner of src/c/kevs.c: scan() and the scan_* functions.           *)
(*                                                                         *)
(* The C functions call each other recursively (scan_value ->              *)
(* scan_list_value -> scan_value ...).  The call stack is made explicit:   *)
(* `stack` holds the list and table values being scanned, innermost first, *)
(* and `pc` says which function runs next.  One action is one function, or *)
(* one alternative of it; a loop iteration of scan, scan_list_value and    *)
(* scan_table_value starts with pc = "loop".                               *)
(***************************************************************************)
EXTENDS KevsStr

CONSTANT Documents   \* the contents scan() may be called with

ASSUME DocumentsAssumption == Documents \subseteq Seq(Char)

VARIABLES
  content,  \* the whole document; Scanner.content is its suffix from pos on
  pos,      \* the first character not yet consumed
  line,     \* Scanner.line
  tokens,   \* Scanner.tokens
  stack,    \* the list and table values being scanned, innermost first
  pc,       \* what is scanned next
  error     \* the message of scan_errorf, or "none"

vars == <<content, pos, line, tokens, stack, pc, error>>

Frame == {"list", "table"}

Errors == { "none",
            "comment_does_not_end_with_newline",
            "key_value_pair_is_missing_separator",
            "empty_key",
            "string_value_does_not_end_with_quote",
            "raw_string_value_does_not_end_with_backtick",
            "integer_or_boolean_value_does_not_end_with_semicolon",
            "end_of_input_without_list_end",
            "end_of_input_without_table_end",
            "value_does_not_end_with_semicolon" }

Token == [kind : {"key", "delim", "value"}, start : Nat, len : Nat, line : Nat]

\* Type correctness: the scanner never stands before the document or beyond
\* its end, and every error message it gives is one of scan_errorf's.
TypeOK ==
  /\ content \in Seq(Char)
  /\ pos \in 1 .. Len(content) + 1
  /\ line \in Nat \ {0}
  /\ tokens \in Seq(Token)
  /\ stack \in Seq(Frame)
  /\ pc \in {"loop", "sep", "value", "end", "after", "done", "failed"}
  /\ error \in Errors

Init ==
  /\ content \in Documents
  /\ pos = 1
  /\ line = 1
  /\ tokens = <<>>
  /\ stack = <<>>
  /\ pc = "loop"
  /\ error = "none"

-----------------------------------------------------------------------------
(* Helpers.                                                                *)

\* scanner_expect once the scanner stands at p.
Expect(p, c) == p <= Len(content) /\ content[p] = c

\* Mutant: the spaces are not skipped.
Untrimmed == pos

\* Where scanner_trim_space leaves the scanner.
Trimmed == TrimLeft(content, pos)

InList  == stack # <<>> /\ Head(stack) = "list"
InTable == stack # <<>> /\ Head(stack) = "table"

Closer == IF InList THEN kListEnd ELSE kTableEnd

\* scanner_append: a token of the n characters at p, less trailing spaces.
Lexeme(kind, p, n) ==
  [kind |-> kind, start |-> p, len |-> TrimRight(content, p, n), line |-> line]

\* scanner_append_delim: the token of the one character at p, not trimmed.
Delim(p) == [kind |-> "delim", start |-> p, len |-> 1, line |-> line]

\* scan_errorf followed by `return false` through every caller up to scan.
Fail(message) == pc' = "failed" /\ error' = message

\* The scanner consumes n characters from p on and goes on at next.
Advance(p, n, next) == pos' = p + n /\ pc' = next /\ UNCHANGED error

\* The scanner stands at p when an error makes it give up.
GiveUp(p, message) ==
  Fail(message) /\ pos' = p /\ UNCHANGED <<content, line, tokens, stack>>

-----------------------------------------------------------------------------
(* The loop of scan, scan_list_value and scan_table_value.                 *)

\* Mutant: an open list or table is not an error.
AtAnyEnd == pos > Len(content)

\* scan stops on an empty content; the test comes before the spaces are
\* trimmed, so a document that ends in spaces goes on to scan_key.
AtDocumentEnd == stack = <<>> /\ pos > Len(content)

InLoop == pc = "loop" /\ ~AtDocumentEnd

Done ==
  /\ pc = "loop" /\ AtDocumentEnd
  /\ pc' = "done"
  /\ UNCHANGED <<content, pos, line, tokens, stack, error>>

\* Mutant: the newline is counted but not consumed.
ScanNewlineInPlace ==
  /\ InLoop /\ Expect(Trimmed, Newline)
  /\ line' = line + 1
  /\ Advance(Trimmed, 0, "loop")
  /\ UNCHANGED <<content, tokens, stack>>

\* scan_newline
ScanNewline ==
  /\ InLoop /\ Expect(Trimmed, Newline)
  /\ line' = line + 1
  /\ Advance(Trimmed, 1, "loop")
  /\ UNCHANGED <<content, tokens, stack>>

\* Mutants: a comment may end the document; the newline is consumed with the
\* comment, uncounted; the comment is not consumed.
ScanCommentUnchecked ==
  /\ InLoop /\ Expect(Trimmed, kCommentBegin)
  /\ Advance(IndexAny(content, Trimmed, {Newline}), 0, "loop")
  /\ UNCHANGED <<content, line, tokens, stack>>

ScanCommentLine ==
  /\ InLoop /\ Expect(Trimmed, kCommentBegin)
  /\ IndexAny(content, Trimmed, {Newline}) # 0
  /\ Advance(IndexAny(content, Trimmed, {Newline}), 1, "loop")
  /\ UNCHANGED <<content, line, tokens, stack>>

ScanCommentInPlace ==
  /\ InLoop /\ Expect(Trimmed, kCommentBegin)
  /\ Advance(Trimmed, 0, "loop")
  /\ UNCHANGED <<content, line, tokens, stack>>

\* scan_comment; the newline itself is left to the next iteration.
ScanComment ==
  /\ InLoop /\ Expect(Trimmed, kCommentBegin)
  /\ LET newline == IndexAny(content, Trimmed, {Newline})
     IN  IF newline = 0
         THEN GiveUp(Trimmed, "comment_does_not_end_with_newline")
         ELSE /\ Advance(newline, 0, "loop")
              /\ UNCHANGED <<content, line, tokens, stack>>

\* The input ends inside a list or a table.
ScanUnclosed ==
  /\ InLoop /\ stack # <<>> /\ Trimmed > Len(content)
  /\ GiveUp(Trimmed, IF InList THEN "end_of_input_without_list_end"
                               ELSE "end_of_input_without_table_end")

\* The closing bracket: as the first thing of an iteration, or right after
\* an item, where no space is trimmed before the test.
Close(p) ==
  /\ stack # <<>> /\ Expect(p, Closer)
  /\ tokens' = Append(tokens, Delim(p))
  /\ stack' = Tail(stack)
  /\ Advance(p, 1, "end")
  /\ UNCHANGED <<content, line>>

ScanClose == InLoop /\ Close(Trimmed)

AfterItem ==
  /\ pc = "after"
  /\ \/ Close(pos)
     \/ /\ ~Expect(pos, Closer)
        /\ pc' = "loop"
        /\ UNCHANGED <<content, pos, line, tokens, stack, error>>

\* No other test of the loop applies: a value or a key starts here.
AtItem ==
  /\ InLoop
  /\ ~Expect(Trimmed, Newline) /\ ~Expect(Trimmed, kCommentBegin)
  /\ stack # <<>> => Trimmed <= Len(content) /\ ~Expect(Trimmed, Closer)

-----------------------------------------------------------------------------
(* Key-value pairs.                                                        *)

\* scan_key: the key is all that stands before the separator.
ScanKey ==
  /\ AtItem /\ ~InList
  /\ LET sep == IndexAny(content, Trimmed, {kKeyValSep, kKeyValEnd, Newline})
         key == Lexeme("key", Trimmed, sep - Trimmed)
     IN  IF sep = 0 \/ content[sep] # kKeyValSep
         THEN GiveUp(Trimmed, "key_value_pair_is_missing_separator")
         ELSE /\ tokens' = Append(tokens, key)
              /\ pos' = sep
              /\ IF key.len = 0
                 THEN Fail("empty_key")
                 ELSE pc' = "sep" /\ UNCHANGED error
              /\ UNCHANGED <<content, line, stack>>

\* scan_key_value appends the separator without looking at it again.
ScanSeparator ==
  /\ pc = "sep"
  /\ tokens' = Append(tokens, Delim(pos))
  /\ Advance(pos, 1, "value")
  /\ UNCHANGED <<content, line, stack>>

-----------------------------------------------------------------------------
(* scan_value: after the separator, or as an item of a list.               *)

AtValue == pc = "value" \/ (AtItem /\ InList)

\* The entry of scan_list_value and scan_table_value.
Open(bracket, kind) ==
  /\ AtValue /\ Expect(Trimmed, bracket)
  /\ tokens' = Append(tokens, Delim(Trimmed))
  /\ stack' = <<kind>> \o stack
  /\ Advance(Trimmed, 1, "loop")
  /\ UNCHANGED <<content, line>>

ScanListBegin  == Open(kListBegin, "list")
ScanTableBegin == Open(kTableBegin, "table")

\* Mutant: a backslash means nothing.
AnyQuotes(p) == {q \in p + 1 .. Len(content) : content[q] = kStringBegin}

\* The quotes after p whose previous character is no backslash.
ClosingQuotes(p) ==
  {q \in p + 1 .. Len(content) : content[q] = kStringBegin /\ content[q - 1] # Backslash}

\* scan_string_value: the string ends at the first closing quote.  Newlines
\* in between are not counted.
ScanString ==
  /\ AtValue /\ Expect(Trimmed, kStringBegin)
  /\ LET closing == ClosingQuotes(Trimmed)
     IN  IF closing = {}
         THEN GiveUp(Trimmed, "string_value_does_not_end_with_quote")
         ELSE LET n == Min(closing) - Trimmed + 1
              IN  /\ tokens' = Append(tokens, Lexeme("value", Trimmed, n))
                  /\ Advance(Trimmed, n, "end")
                  /\ UNCHANGED <<content, line, stack>>

\* scan_raw_string: ends at the next backtick; its newlines are counted.
ScanRawString ==
  /\ AtValue /\ Expect(Trimmed, kRawStringBegin)
  /\ LET closing == IndexAny(content, Trimmed + 1, {kRawStringBegin})
         n       == closing - Trimmed + 1
     IN  IF closing = 0
         THEN GiveUp(Trimmed, "raw_string_value_does_not_end_with_backtick")
         ELSE /\ tokens' = Append(tokens, Lexeme("value", Trimmed, n))
              /\ line' = line + CountChar(content, Trimmed, n, Newline)
              /\ Advance(Trimmed, n, "end")
              /\ UNCHANGED <<content, stack>>

\* scan_int_or_bool_value: whatever else stands before the semicolon.
ScanIntOrBool ==
  /\ AtValue
  /\ \A c \in {kListBegin, kTableBegin, kStringBegin, kRawStringBegin} :
       ~Expect(Trimmed, c)
  /\ LET end == IndexAny(content, Trimmed, {kKeyValEnd, kListEnd, kTableEnd, Newline})
         n   == end - Trimmed
     IN  IF end = 0 \/ content[end] # kKeyValEnd
         THEN GiveUp(Trimmed, "integer_or_boolean_value_does_not_end_with_semicolon")
         ELSE /\ tokens' = Append(tokens, Lexeme("value", Trimmed, n))
              /\ Advance(Trimmed, n, "end")
              /\ UNCHANGED <<content, line, stack>>

\* The scan_delim at the end of scan_value.
ScanValueEnd ==
  /\ pc = "end"
  /\ IF Expect(pos, kKeyValEnd)
     THEN /\ tokens' = Append(tokens, Delim(pos))
          /\ Advance(pos, 1, IF stack = <<>> THEN "loop" ELSE "after")
          /\ UNCHANGED <<content, line, stack>>
     ELSE GiveUp(pos, "value_does_not_end_with_semicolon")

-----------------------------------------------------------------------------

Next ==
  \/ Done
  \/ ScanNewline \/ ScanComment \/ ScanUnclosed \/ ScanClose \/ AfterItem
  \/ ScanKey \/ ScanSeparator
  \/ ScanListBegin \/ ScanTableBegin
  \/ ScanString \/ ScanRawString \/ ScanIntOrBool
  \/ ScanValueEnd

Spec == Init /\ [][Next]_vars

\* The scanner is one thread of control that runs until it returns.
FairSpec == Spec /\ WF_vars(Next)

Returned == pc \in {"done", "failed"}

=============================================================================
