------------------------------ MODULE PyScanner ------------------------------
(***************************************************************************)
(* The scanner of src/py/kevs.py.  It is the scanner of kevs.c, method for *)
(* method, except for scan_string_value: the methods below name the        *)
(* actions of Scanner that they perform, and PyScanString is its own.      *)
(***************************************************************************)
EXTENDS ScannerProps

\* scan, scan_newline and scan_comment.
PyBlanks == Done \/ ScanNewline \/ ScanComment

\* scan_key_value and scan_key.
PyKeyValue == ScanKey \/ ScanSeparator

\* scan_list_value and scan_table_value: the opening bracket, and the tests in
\* an iteration and after an item.
PyIteration == ScanUnclosed \/ ScanClose \/ AfterItem
PyList  == ScanListBegin \/ (InList /\ PyIteration)
PyTable == ScanTableBegin \/ (InTable /\ PyIteration)

-----------------------------------------------------------------------------

\* The character that decides whether the quote at q is escaped.  The search
\* starts anew after each quote: one found at once is preceded by s[-1], the
\* last character of the document.
PyPrev(q) ==
  IF content[q - 1] = kStringBegin THEN content[Len(content)] ELSE content[q - 1]

PyClosingQuotes(p) ==
  {q \in p + 1 .. Len(content) : content[q] = kStringBegin /\ PyPrev(q) # Backslash}

\* The offsets from p at which the text from q + 1 to the end of the document
\* occurs, the empty text everywhere.
Occurrences(p, q) ==
  {n \in 0 .. q + 1 - p :
     \A k \in q + 1 .. Len(content) : content[p + n + (k - q - 1)] = content[k]}

\* Mutant: one more is added for the trailing quote.
PyEndAfter(p, q) == Min(Occurrences(p, q)) + 1

\* self.content.find(s) - 1, and 1 for the leading quote: the length of the
\* token is where the rest of the document occurs first.
PyEnd(p, q) == Min(Occurrences(p, q))

PyScanString ==
  /\ AtValue /\ Expect(Trimmed, kStringBegin)
  /\ LET closing == PyClosingQuotes(Trimmed)
         n       == PyEnd(Trimmed, Min(closing))
     IN  IF closing = {}
         THEN GiveUp(Trimmed, "string_value_does_not_end_with_quote")
         ELSE /\ tokens' = Append(tokens, Lexeme("value", Trimmed, n))
              /\ Advance(Trimmed, n, "end")
              /\ UNCHANGED <<content, line, stack>>

-----------------------------------------------------------------------------

\* The loop of scan and what it calls; scan_value calls the last ones.
PyNext ==
  \/ PyBlanks \/ PyKeyValue \/ PyList \/ PyTable
  \/ PyScanString \/ ScanRawString \/ ScanIntOrBool
  \/ ScanValueEnd

PySpec == Init /\ [][PyNext]_vars

-----------------------------------------------------------------------------

IsString(t) == t.kind = "value" /\ content[t.start] = kStringBegin

\* In a document that ends with a newline, a string without newlines ends
\* where scan_string_value of kevs.c ends it, although the Python code finds
\* its end by searching for the text that follows it.
SameStringEnd ==
  \A k \in DOMAIN tokens :
    LET t     == tokens[k]
        quote == Min(ClosingQuotes(t.start))
    IN  IsString(t) /\ content[Len(content)] = Newline =>
          /\ ClosingQuotes(t.start) # {}
          /\ (\A i \in t.start .. quote : content[i] # Newline) => t.len = quote - t.start + 1

\* No newline is read in an interpreted string, and the document ends with one.
OneLineStrings ==
  /\ content # <<>> /\ content[Len(content)] = Newline
  /\ \A n \in DOMAIN content :
       ReadUpTo(content)[n - 1].mode \in {"string", "escape"} => content[n] # Newline

\* The two scanners agree on documents whose lines and strings end where they
\* should: a string token ends where that of kevs.c ends, and the document is accepted,
\* or given the message, that scan of kevs.c gives (VerdictIsRight).
SameScanner == SameStringEnd /\ (Returned /\ OneLineStrings => VerdictIsRight)

\* kevs.py: "calculate the end, includes trailing quote".  A string token ends
\* with a quote that is not the one it starts with.
TrailingQuoteIncluded ==
  \A k \in DOMAIN tokens :
    LET t == tokens[k]
    IN  IsString(t) => t.len >= 2 /\ content[t.start + t.len - 1] = kStringBegin

=============================================================================
