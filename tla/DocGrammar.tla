------------------------------ MODULE DocGrammar ------------------------------
(***************************************************************************)
(* The documents that scan() of src/c/kevs.c accepts, and what is wrong    *)
(* with the others, read from left to right one character at a time.  scan *)
(* searches for the end of a key, value, string or comment, and trims      *)
(* spaces where it expects them; here no character is looked at twice and  *)
(* none ahead of its turn:                                                 *)
(*   mode   what the next character is read as, or the message for the     *)
(*          character that fits nowhere, after which no other is read      *)
(*   open   the lists and tables not yet closed, innermost first           *)
(***************************************************************************)
EXTENDS KevsStr

Mode(m, o) == [mode |-> m, open |-> o]

\* The message about a character that does not fit, or about the end of the
\* document, in the middle of something.
Complaint(m) ==
  CASE m = "comment"              -> "comment_does_not_end_with_newline"
    [] m = "key"                  -> "key_value_pair_is_missing_separator"
    [] m \in {"value", "bare"}    -> "integer_or_boolean_value_does_not_end_with_semicolon"
    [] m \in {"string", "escape"} -> "string_value_does_not_end_with_quote"
    [] m = "raw"                  -> "raw_string_value_does_not_end_with_backtick"
    [] m = "end"                  -> "value_does_not_end_with_semicolon"

Innermost(o) == IF o = <<>> THEN "document" ELSE Head(o)

\* A character of a key: anything but the two that may not follow one.
KeyChar(o, c) ==
  IF c = kKeyValSep THEN Mode("value", o)
  ELSE IF c \in {kKeyValEnd, Newline} THEN Mode(Complaint("key"), o)
  ELSE Mode("key", o)

\* A character of an integer or boolean, which may be empty.
BareChar(o, c) ==
  IF c = kKeyValEnd THEN Mode("item", o)
  ELSE IF c \in {kListEnd, kTableEnd, Newline} THEN Mode(Complaint("bare"), o)
  ELSE Mode("bare", o)

\* The first character of a value.
ValueChar(o, c) ==
  IF c = kListBegin THEN Mode("item", <<"list">> \o o)
  ELSE IF c = kTableBegin THEN Mode("item", <<"table">> \o o)
  ELSE IF c = kStringBegin THEN Mode("string", o)
  ELSE IF c = kRawStringBegin THEN Mode("raw", o)
  ELSE BareChar(o, c)

Closes(o, c) ==
  \/ Innermost(o) = "list" /\ c = kListEnd
  \/ Innermost(o) = "table" /\ c = kTableEnd

\* Where an item of a list, or a pair, may start.
ItemChar(o, c) ==
  IF c \in {Space, Newline} THEN Mode("item", o)
  ELSE IF c = kCommentBegin THEN Mode("comment", o)
  ELSE IF Closes(o, c) THEN Mode("end", Tail(o))
  ELSE IF Innermost(o) = "list" THEN ValueChar(o, c)
  ELSE IF c = kKeyValSep THEN Mode("empty_key", o)
  ELSE KeyChar(o, c)

\* A quote closes a string unless the character before it is a backslash.
StringChar(o, c) ==
  IF c = kStringBegin THEN Mode("end", o)
  ELSE IF c = Backslash THEN Mode("escape", o)
  ELSE Mode("string", o)

ReadChar(s, c) ==
  CASE s.mode = "item"    -> ItemChar(s.open, c)
    [] s.mode = "comment" -> IF c = Newline THEN Mode("item", s.open) ELSE s
    [] s.mode = "key"     -> KeyChar(s.open, c)
    [] s.mode = "value"   -> IF c = Space THEN s ELSE ValueChar(s.open, c)
    [] s.mode = "bare"    -> BareChar(s.open, c)
    [] s.mode = "string"  -> StringChar(s.open, c)
    [] s.mode = "escape"  -> IF c = Backslash THEN s ELSE Mode("string", s.open)
    [] s.mode = "raw"     -> IF c = kRawStringBegin THEN Mode("end", s.open) ELSE s
    [] s.mode = "end"     -> IF c = kKeyValEnd THEN Mode("item", s.open)
                             ELSE Mode(Complaint("end"), s.open)
    [] OTHER              -> s

\* What is read after each number of characters of the document d.
ReadUpTo(d) ==
  LET read[n \in 0 .. Len(d)] ==
        IF n = 0 THEN Mode("item", <<>>) ELSE ReadChar(read[n - 1], d[n])
  IN  read

EndsInSpace(d) == d # <<>> /\ d[Len(d)] = Space

\* The message about the document d, or "none".  Spaces at the end of it are
\* taken for the start of a key.
Verdict(d) ==
  LET s == ReadUpTo(d)[Len(d)]
  IN  CASE s.mode = "item" /\ Innermost(s.open) = "list"  -> "end_of_input_without_list_end"
        [] s.mode = "item" /\ Innermost(s.open) = "table" -> "end_of_input_without_table_end"
        [] s.mode = "item" /\ s.open = <<>> ->
             IF EndsInSpace(d) THEN Complaint("key") ELSE "none"
        [] s.mode \in {"comment", "key", "value", "bare", "string", "escape", "raw", "end"} ->
             Complaint(s.mode)
        [] OTHER -> s.mode

=============================================================================
