----------------------------- MODULE ScannerProps -----------------------------
(***************************************************************************)
(* The properties of the scanner, and its refinement of TokenGrammar.      *)
(***************************************************************************)
EXTENDS Scanner, DocGrammar

-----------------------------------------------------------------------------
(* The token stream is grammatical.                                        *)

\* What the parser sees of a token: its kind, and which delimiter it is.
Symbol(t) == IF t.kind = "delim" THEN content[t.start] ELSE t.kind

Want(p) == CASE p \in {"loop", "after"}        -> "item"
             [] p = "failed"                    -> "stopped"
             [] p = "done"                      -> "accepted"
             [] p \in {"sep", "value", "end"}   -> p

Stream == [i \in 1 .. Len(tokens) |-> Symbol(tokens[i])]

Grammar == INSTANCE TokenGrammar WITH stream <- Stream, open <- stack, want <- Want(pc)

\* Whatever the document, the tokens form a prefix of a well-nested sequence
\* of `key = value ;` pairs, and a whole one when scan returns NULL: this is
\* what lets parse_* run without ever missing a token.
GrammarSpec == Grammar!GSpec

-----------------------------------------------------------------------------
(* Tokens and the document.                                                *)

Span(t) == t.start .. t.start + t.len - 1

InToken(i) == \E k \in DOMAIN tokens : i \in Span(tokens[k])

\* Character i stands in a comment: a # before it, no newline and no token
\* in between.
InComment(i) ==
  \E h \in 1 .. i : /\ content[h] = kCommentBegin
                    /\ \A j \in h .. i : content[j] # Newline /\ ~InToken(j)

\* The tokens are disjoint, in the order of the document, and every consumed
\* character is in a token, in a comment, or blank: scanner_append and
\* scanner_advance agree on how far a token reaches, so that no text of the
\* user is dropped or read twice.
NothingLost ==
  /\ \A k, m \in DOMAIN tokens :
       k < m => tokens[k].start + tokens[k].len <= tokens[m].start
  /\ \A k \in DOMAIN tokens : tokens[k].start + tokens[k].len <= pos
  /\ \A i \in 1 .. pos - 1 :
       InToken(i) \/ content[i] \in {Space, Newline} \/ InComment(i)
  /\ pc = "done" => pos = Len(content) + 1

\* What parse_simple_value and is_identifier take for granted about the text
\* of a token when they index and slice it: keys are not empty, a token that
\* starts with a quote is a closed string whose last body character is no
\* backslash (str_norm looks one character past a backslash), a token that
\* starts with a backtick is a closed raw string, and a bare value holds no
\* character that ends one.
TokensWellFormed ==
  \A k \in DOMAIN tokens :
    LET t     == tokens[k]
        last  == t.start + t.len - 1
        first == content[t.start]
        Has(chars) == \E i \in Span(t) : content[i] \in chars
    IN  /\ t.kind = "key" =>
             /\ t.len > 0 \/ pc = "failed"
             /\ ~Has({kKeyValSep, kKeyValEnd, Newline})
        /\ t.kind = "value" /\ t.len > 0 /\ first = kStringBegin =>
             t.len >= 2 /\ content[last] = kStringBegin /\ content[last - 1] # Backslash
        /\ t.kind = "value" /\ t.len > 0 /\ first = kRawStringBegin =>
             /\ t.len >= 2 /\ content[last] = kRawStringBegin
             /\ \A i \in t.start + 1 .. last - 1 : content[i] # kRawStringBegin
        /\ t.kind = "value" /\ t.len > 0 /\ first \notin {kStringBegin, kRawStringBegin} =>
             ~Has({kKeyValEnd, kListEnd, kTableEnd, Newline})

-----------------------------------------------------------------------------
(* The documents that are accepted.                                        *)

\* scan accepts a document, or gives the message about it, as a reader does who
\* takes one character after the other: no search of the scanner runs past what
\* it should have stopped at, and none of the layouts that the loops of scan,
\* scan_list_value and scan_table_value skip is missed by one of them.
VerdictIsRight == Returned => error = Verdict(content) /\ (pc = "done" <=> error = "none")

-----------------------------------------------------------------------------
(* Line numbers.                                                           *)

InString(i) ==
  \E k \in DOMAIN tokens :
    /\ i \in Span(tokens[k])
    /\ tokens[k].kind = "value" /\ content[tokens[k].start] = kStringBegin

\* The line on which character p stands, by the newlines of `counted`.
LineAt(p, counted) == 1 + Cardinality({i \in counted : i < p /\ content[i] = Newline})

\* The scanner's line, and the line of every token, follow the newlines of
\* the document, those of raw strings and comments included, save for the
\* newlines inside interpreted strings, which the code does not count.
LinesOutsideStrings ==
  LET counted == {i \in 1 .. pos - 1 : ~InString(i)}
  IN  /\ line = LineAt(pos, counted)
      /\ \A k \in DOMAIN tokens : tokens[k].line = LineAt(tokens[k].start, counted)

\* kevs.c says of scan_raw_string: "count newlines in raw string to keep line
\* count accurate".  The line count is the number of newlines passed, plus 1.
LineCountAccurate == line = LineAt(pos, 1 .. pos - 1)

-----------------------------------------------------------------------------
(* Escapes.                                                                *)

\* A quote is escaped when an odd number of backslashes stands before it, as
\* in readme.md: "\\" is a backslash and `\"` a quote.
Escaped(q, from) ==
  \E n \in 1 .. q - from :
    /\ n % 2 = 1
    /\ \A i \in q - n .. q - 1 : content[i] = Backslash
    /\ q - n > from => content[q - n - 1] # Backslash

\* An interpreted string ends at its first quote that is not escaped.
StringEndsAtUnescapedQuote ==
  \A k \in DOMAIN tokens :
    LET t == tokens[k]
    IN  t.kind = "value" /\ t.len > 0 /\ content[t.start] = kStringBegin =>
          \A q \in t.start + 1 .. t.start + t.len - 2 :
            content[q] = kStringBegin => Escaped(q, t.start + 1)

-----------------------------------------------------------------------------
(* Progress.                                                               *)

Rank(p) == CASE p = "after"               -> 3
             [] p \in {"loop", "value"}   -> 2
             [] p \in {"sep", "end"}      -> 1
             [] p \in {"done", "failed"}  -> 0

Measure == 4 * (Len(content) + 1 - pos) + Rank(pc)

\* Every step of the scanner brings it nearer to its return: no iteration of
\* the three loops can leave the scanner where the iteration found it.
Progress == [][Measure' < Measure]_vars

\* scan returns, whatever the document.
Termination == <>Returned

=============================================================================
