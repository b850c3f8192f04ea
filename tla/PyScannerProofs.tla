--------------------------- MODULE PyScannerProofs ---------------------------
(***************************************************************************)
(* The Python scanner, wrong as the end of its strings may be, stays in    *)
(* the document, returns, keeps to the grammar and loses no text: the      *)
(* proofs for the scanner of kevs.c carry over, with one more step each    *)
(* for PyScanString.  And the end of a string is right when the document   *)
(* ends with a newline and the string has none.                            *)
(***************************************************************************)
EXTENDS PyScanner, ScannerProofs

\* A step of the Python scanner is one of the other, or ends a string.
LEMMA PyNextSplit == PyNext => Next \/ PyScanString
BY DEF PyNext, Next, PyBlanks, PyKeyValue, PyList, PyTable, PyIteration

\* The rest of the document occurs where it stands, if not before: what
\* content.find(s) returns is never -1, and the token stays in the document.
LEMMA EndInDocument ==
  ASSUME content \in Seq(Char), NEW p \in Nat, NEW q \in p + 1 .. Len(content)
  PROVE  PyEnd(p, q) \in Nat /\ PyEnd(p, q) <= q + 1 - p
<1> DEFINE last == q + 1 - p
<1>1. /\ Len(content) \in Nat /\ q \in Nat /\ last \in Nat
  OBVIOUS
<1>2. \A k \in q + 1 .. Len(content) : p + last + (k - q - 1) = k BY <1>1
<1>3. last \in Occurrences(p, q) BY <1>1, <1>2 DEF Occurrences
<1>4. Occurrences(p, q) \in SUBSET Nat BY <1>1 DEF Occurrences
<1>5. Min(Occurrences(p, q)) \in Occurrences(p, q) BY <1>3, <1>4, Smallest
<1>6. Min(Occurrences(p, q)) \in 0 .. last BY <1>5 DEF Occurrences
<1> QED BY <1>1, <1>6 DEF PyEnd

\* scan_string_value of kevs.py.
LEMMA PyStringStep == IInv /\ PyScanString => Forward /\ Simulated
<1> SUFFICES ASSUME IInv, PyScanString PROVE Forward /\ Simulated OBVIOUS
<1> DEFINE closing == PyClosingQuotes(Trimmed)
           n == PyEnd(Trimmed, Min(closing))
<1>1. /\ TypeOK /\ AtValue /\ pc \in {"loop", "value"} /\ pc # "done"
      /\ Trimmed \in pos .. Len(content) + 1
      /\ Len(content) \in Nat /\ Trimmed \in Nat /\ content \in Seq(Char)
  BY AtValuePhase, TrimmedRange DEF IInv, PyScanString, TypeOK
<1>2. CASE closing = {}
  <2>1. GiveUp(Trimmed, "string_value_does_not_end_with_quote")
    BY <1>2 DEF PyScanString
  <2> QED BY <1>1, <2>1, GiveUpForward, GiveUpSimulated DEF Errors
<1>3. CASE closing # {}
  <2>1. /\ tokens' = Append(tokens, Lexeme("value", Trimmed, n))
        /\ Advance(Trimmed, n, "end") /\ UNCHANGED <<content, line, stack>>
    BY <1>3 DEF PyScanString
  <2>2. closing \in SUBSET Nat BY <1>1 DEF PyClosingQuotes
  <2>3. Min(closing) \in Trimmed + 1 .. Len(content)
    <3>1. Min(closing) \in closing BY <1>3, <2>2, Smallest
    <3> QED BY <3>1 DEF PyClosingQuotes
  <2>4. n \in Nat /\ n <= Min(closing) + 1 - Trimmed BY <1>1, <2>3, EndInDocument
  <2> HIDE DEF n
  <2>5. Trimmed + n <= Len(content) + 1 BY <1>1, <2>3, <2>4
  <2>6. line' \in Nat \ {0} BY <1>1, <2>1 DEF TypeOK
  <2>7. Forward BY <1>1, <2>1, <2>4, <2>5, <2>6, ValueForward
  <2>8. Simulated BY <1>1, <2>1, <2>4, SimpleSimulated
  <2> QED BY <2>7, <2>8
<1> QED BY <1>2, <1>3

\* However a string is cut, its token and what the scanner consumes agree.
LEMMA PyStringKeeps == TInv /\ PyScanString => KeptText
<1> SUFFICES ASSUME TInv, PyScanString PROVE KeptText OBVIOUS
<1> DEFINE closing == PyClosingQuotes(Trimmed)
<1>1. /\ TypeOK /\ pc # "failed" /\ content[Trimmed] = kStringBegin
      /\ Len(content) \in Nat /\ Trimmed \in Nat /\ content \in Seq(Char)
  BY AtValuePhase, TrimmedRange DEF TInv, IInv, TypeOK, PyScanString, Expect
<1>2. CASE closing = {}
  <2>1. GiveUp(Trimmed, "string_value_does_not_end_with_quote")
    BY <1>2 DEF PyScanString
  <2> QED BY <1>1, <2>1, GiveUpAtTrimmed DEF Kept
<1>3. CASE closing # {}
  <2>1. closing \in SUBSET Nat BY <1>1 DEF PyClosingQuotes
  <2>2. PICK q : q = Min(closing) /\ q \in Trimmed + 1 .. Len(content)
    <3>1. Min(closing) \in closing BY <1>3, <2>1, Smallest
    <3> QED BY <3>1 DEF PyClosingQuotes
  <2>3. PICK n \in Nat : n = PyEnd(Trimmed, q) /\ n <= q + 1 - Trimmed
    BY <1>1, <2>2, EndInDocument
  <2>4. PICK t : t = Lexeme("value", Trimmed, n) OBVIOUS
  <2>5. /\ tokens' = Append(tokens, t) /\ UNCHANGED <<content, line>>
        /\ pos' = Trimmed + n /\ pc' = "end"
    BY <1>3, <2>2, <2>3, <2>4 DEF PyScanString, Advance
  <2>6. Trimmed + n <= Len(content) + 1 BY <1>1, <2>2, <2>3
  <2>7. /\ t.kind = "value" /\ t.start = Trimmed
        /\ \A i \in pos .. Trimmed + n - 1 : i \in Span(t) \/ content[i] = Space
    BY <1>1, <2>4, <2>6, LexemeSpan
  <2>8. pos \in Nat /\ pos <= Trimmed BY <1>1, TrimmedRange
  <2>9. ASSUME NEW i \in Trimmed .. Trimmed + n - 1, content[i] = Newline
        PROVE  StringAt(t, i)
    <3>1. i \in pos .. Trimmed + n - 1 BY <1>1, <2>8
    <3>2. i \in Span(t) BY <2>7, <2>9, <3>1 DEF Newline, Space
    <3> QED BY <1>1, <2>7, <3>2 DEF StringAt
  <2>10. {i \in Trimmed .. Trimmed + n - 1 : content[i] = Newline /\ ~StringAt(t, i)} = {}
    BY <2>9
  <2> QED BY <1>1, <2>4, <2>5, <2>6, <2>10, SameLine, LexemeKeeps
<1> QED BY <1>2, <1>3

\* Every step of the Python scanner.
LEMMA PyNextStep == IInv /\ PyNext => Forward /\ Simulated
BY PyNextSplit, PyStringStep, NextForward, NextSimulated

\* The inductive invariant is that of the scanner of kevs.c.
LEMMA PyInvariantHolds == PySpec => []IInv
<1>1. IInv /\ UNCHANGED vars => IInv' BY DEF IInv, TypeOK, vars, Expect
<1>2. IInv /\ [PyNext]_vars => IInv' BY <1>1, PyNextStep DEF Forward
<1> QED BY InitEstablishesIInv, <1>2, PTL DEF PySpec

\* For every document each step of the Python scanner brings scan nearer to
\* its return, a string token that is found to have no characters included.
THEOREM PyAlwaysForward == PySpec => Progress
<1>1. IInv /\ [PyNext]_vars => [Measure' < Measure]_vars
  BY PyNextStep DEF Forward
<1> QED BY PyInvariantHolds, <1>1, PTL DEF PySpec, Progress

\* For every document, however its strings are cut, the tokens keep to the
\* grammar.  Parser.errorf of kevs.py reads the line of the current token, as
\* parse_errorf of kevs.c does, and relies on it as well.
THEOREM PyImplementsGrammar == PySpec => GrammarSpec
<1>1. IInv /\ [PyNext]_vars => [Grammar!GNext]_(Grammar!gvars)
  <2> SUFFICES ASSUME IInv, [PyNext]_vars PROVE [Grammar!GNext]_(Grammar!gvars) OBVIOUS
  <2>1. CASE PyNext BY <2>1, PyNextStep DEF Simulated, Grammar!gvars
  <2>2. CASE UNCHANGED vars
    <3>1. UNCHANGED <<content, tokens, stack, pc>> BY <2>2 DEF vars
    <3>2. UNCHANGED Stream BY <3>1, StreamSame
    <3> QED BY <3>1, <3>2 DEF Grammar!gvars
  <2> QED BY <2>1, <2>2
<1> QED BY InitSimulated, PyInvariantHolds, <1>1, PTL DEF PySpec, GrammarSpec, Grammar!GSpec

-----------------------------------------------------------------------------
(* The text.                                                               *)

\* The inductive invariant: that of the scanner of kevs.c, without the text
\* of the tokens.
LEMMA PyTokensInvariant == PySpec => []TInv
<1>1. TInv /\ PyNext => TInv'
  <2>1. TInv /\ PyNext => IInv' BY PyNextStep DEF TInv, Forward
  <2>2. TInv /\ PyNext => KeptText BY PyNextSplit, NextKeeps, PyStringKeeps DEF Kept
  <2> QED BY <2>1, <2>2 DEF TInv, KeptText
<1>2. TInv /\ [PyNext]_vars => TInv' BY <1>1, TokensStutter
<1> QED BY InitEstablishesTInv, <1>2, PTL DEF PySpec

\* For every document, however its strings are cut, no text is dropped or read
\* twice: what scan_string_value consumes is what it appends.
THEOREM PyLosesNothing == PySpec => []NothingLost
<1>1. TInv => NothingLost BY DEF TInv
<1> QED BY PyTokensInvariant, <1>1, PTL

\* For every document the lines that Scanner.errorf and Parser.errorf of
\* kevs.py report count the newlines outside of what the tokens call strings,
\* those behind the wrong end of a string included.
THEOREM PyLinesAreRight == PySpec => []LinesOutsideStrings
<1>1. TInv => LinesOutsideStrings BY DEF TInv
<1> QED BY PyTokensInvariant, <1>1, PTL

-----------------------------------------------------------------------------
(* The end of a string.                                                    *)

\* What SameStringEnd says of one token.
SameEnd(t) ==
  LET quote == Min(ClosingQuotes(t.start))
  IN  IsString(t) /\ content[Len(content)] = Newline =>
        /\ ClosingQuotes(t.start) # {}
        /\ (\A i \in t.start .. quote : content[i] # Newline) => t.len = quote - t.start + 1

LEMMA SameStringEndSplit == SameStringEnd <=> \A k \in DOMAIN tokens : SameEnd(tokens[k])
BY DEF SameStringEnd, SameEnd

\* s[-1], where it is read, is no backslash when the document ends with a
\* newline: the closing quotes are those of kevs.c.
LEMMA SameQuotes ==
  ASSUME content[Len(content)] = Newline, NEW p
  PROVE  PyClosingQuotes(p) = ClosingQuotes(p)
<1>1. \A q : PyPrev(q) = Backslash <=> content[q - 1] = Backslash
  BY DEF PyPrev, Newline, Backslash, kStringBegin
<1> QED BY <1>1 DEF PyClosingQuotes, ClosingQuotes

\* The rest of the document cannot occur before the end of a string without
\* newlines: its first newline would have to be matched by an earlier one,
\* which could stand neither in the string nor after it.
LEMMA EndAtQuote ==
  ASSUME content \in Seq(Char), content[Len(content)] = Newline,
         NEW p \in Nat, NEW q \in p + 1 .. Len(content), content[q] = kStringBegin,
         \A i \in p .. q : content[i] # Newline
  PROVE  PyEnd(p, q) = q + 1 - p
<1> DEFINE S == {k \in q + 1 .. Len(content) : content[k] = Newline}
<1>1. Len(content) \in Nat /\ q \in Nat /\ p < q OBVIOUS
<1>2. Len(content) \in S
  <2>1. q # Len(content) BY DEF Newline, kStringBegin
  <2> QED BY <1>1, <2>1
<1>3. PICK i \in S : \A k \in S : i <= k
  <2>1. S \in SUBSET Nat BY <1>1
  <2> QED BY <1>2, <2>1, Smallest
<1>4. i \in q + 1 .. Len(content) /\ content[i] = Newline BY <1>3
<1>5. PICK n : n = PyEnd(p, q) /\ n \in Occurrences(p, q)
  <2>1. PyEnd(p, q) \in Nat BY EndInDocument
  <2>2. q + 1 - p \in Occurrences(p, q)
    <3>1. \A k \in q + 1 .. Len(content) : p + (q + 1 - p) + (k - q - 1) = k BY <1>1
    <3>2. q + 1 - p \in 0 .. q + 1 - p BY <1>1
    <3> QED BY <3>1, <3>2 DEF Occurrences
  <2>3. Occurrences(p, q) \in SUBSET Nat BY <1>1 DEF Occurrences
  <2> QED BY <2>2, <2>3, Smallest DEF PyEnd
<1>6. n \in 0 .. q + 1 - p /\ content[p + n + (i - q - 1)] = Newline
  BY <1>4, <1>5 DEF Occurrences
<1>7. ASSUME n # q + 1 - p PROVE FALSE
  <2>1. PICK j \in Nat : j = p + n + (i - q - 1) BY <1>1, <1>4, <1>6
  <2>2. p <= j /\ j < i BY <1>1, <1>4, <1>6, <1>7, <2>1
  <2>3. content[j] = Newline BY <1>6, <2>1
  <2>4. j \notin p .. q BY <2>3
  <2>5. j \in q + 1 .. Len(content) BY <1>1, <1>4, <2>2, <2>4
  <2>6. j \in S BY <2>3, <2>5
  <2> QED BY <1>1, <1>3, <1>4, <2>1, <2>2, <2>6
<1> QED BY <1>5, <1>7

\* A step that appends no token, or one that ends where it should.
SameEndStep ==
  /\ content' = content
  /\ \/ tokens' = tokens
     \/ \E t \in Token : tokens' = Append(tokens, t) /\ SameEnd(t)

LEMMA SameEndKeeps ==
  ASSUME TypeOK, SameStringEnd, SameEndStep
  PROVE  SameStringEnd'
<1>1. tokens \in Seq(Token) /\ content' = content BY DEF TypeOK, SameEndStep
<1>2. \A t : SameEnd(t) => (SameEnd(t))' BY <1>1 DEF SameEnd, IsString, ClosingQuotes
<1>3. ASSUME NEW k \in DOMAIN tokens' PROVE SameEnd(tokens'[k])
  <2>1. CASE tokens' = tokens BY <2>1, SameStringEndSplit
  <2>2. CASE tokens' # tokens
    <3>1. PICK t \in Token : tokens' = Append(tokens, t) /\ SameEnd(t)
      BY <2>2 DEF SameEndStep
    <3>2. CASE k \in DOMAIN tokens
      <4>1. tokens'[k] = tokens[k] BY <1>1, <3>1, <3>2, Appended
      <4> QED BY <3>2, <4>1, SameStringEndSplit
    <3>3. CASE k = Len(tokens) + 1
      <4>1. tokens'[k] = t BY <1>1, <3>1, <3>3, Appended
      <4> QED BY <3>1, <4>1
    <3> QED BY <1>1, <3>1, <3>2, <3>3, Appended
  <2> QED BY <2>1, <2>2
<1>4. (\A k \in DOMAIN tokens : SameEnd(tokens[k]))'
  BY <1>1, <1>3 DEF SameEnd, IsString, ClosingQuotes
<1> QED BY <1>4, SameStringEndSplit, PTL

\* scan_string_value of kevs.py.
LEMMA PyStringEnd == IInv /\ PyScanString => SameEndStep
<1> SUFFICES ASSUME IInv, PyScanString PROVE SameEndStep OBVIOUS
<1> DEFINE closing == PyClosingQuotes(Trimmed)
           n == PyEnd(Trimmed, Min(closing))
           t == Lexeme("value", Trimmed, n)
<1>1. /\ TypeOK /\ Len(content) \in Nat /\ Trimmed \in Nat /\ content \in Seq(Char)
  BY TrimmedRange DEF IInv, TypeOK
<1>2. CASE closing = {}
  <2>1. GiveUp(Trimmed, "string_value_does_not_end_with_quote")
    BY <1>2 DEF PyScanString
  <2> QED BY <2>1 DEF GiveUp, SameEndStep
<1>3. CASE closing # {}
  <2>1. tokens' = Append(tokens, t) /\ UNCHANGED content BY <1>3 DEF PyScanString
  <2>2. PICK q : /\ q = Min(closing) /\ q \in Trimmed + 1 .. Len(content)
                 /\ content[q] = kStringBegin
    <3>1. closing \in SUBSET Nat BY <1>1 DEF PyClosingQuotes
    <3>2. Min(closing) \in closing BY <1>3, <3>1, Smallest
    <3> QED BY <3>2 DEF PyClosingQuotes
  <2>3. n \in Nat /\ Trimmed + n <= Len(content) + 1 BY <1>1, <2>2, EndInDocument
  <2> HIDE DEF n
  <2>4. /\ t \in Token /\ t.start = Trimmed
        /\ n > 0 /\ content[Trimmed + n - 1] # Space => t.len = n
    BY <1>1, <2>3, LexemeSpan
  <2> HIDE DEF t, closing
  <2>5. ASSUME content[Len(content)] = Newline
        PROVE  /\ ClosingQuotes(Trimmed) # {} /\ Min(ClosingQuotes(Trimmed)) = q
               /\ (\A i \in Trimmed .. q : content[i] # Newline) => t.len = q - Trimmed + 1
    <3>1. ClosingQuotes(Trimmed) = closing BY <2>5, SameQuotes DEF closing
    <3>2. ASSUME \A i \in Trimmed .. q : content[i] # Newline
          PROVE  t.len = q - Trimmed + 1
      <4>1. n = q + 1 - Trimmed BY <1>1, <2>2, <2>5, <3>2, EndAtQuote DEF n
      <4>2. n > 0 /\ Trimmed + n - 1 = q BY <1>1, <2>2, <4>1
      <4>3. content[Trimmed + n - 1] # Space BY <2>2, <4>2 DEF kStringBegin, Space
      <4> QED BY <1>1, <2>2, <2>4, <4>1, <4>2, <4>3
    <3> QED BY <1>3, <2>2, <3>1, <3>2
  <2>6. SameEnd(t) BY <2>4, <2>5 DEF SameEnd
  <2> QED BY <2>1, <2>4, <2>6 DEF SameEndStep
<1> QED BY <1>2, <1>3

\* A token that is no string.
LEMMA NotAString ==
  ASSUME NEW t \in Token, t.kind = "value" => content[t.start] # kStringBegin,
         UNCHANGED content, tokens' = Append(tokens, t)
  PROVE  SameEndStep
BY DEF SameEnd, IsString, SameEndStep

\* The other steps append no string.
LEMMA OthersEnd == IInv /\ PyNext /\ ~PyScanString => SameEndStep
<1> SUFFICES ASSUME IInv, PyNext, ~PyScanString PROVE SameEndStep OBVIOUS
<1>1. /\ TypeOK /\ pos \in Nat /\ Trimmed \in Nat /\ Len(content) \in Nat
      /\ Trimmed \in pos .. Len(content) + 1 /\ content \in Seq(Char)
  BY TrimmedRange DEF IInv, TypeOK
<1>2. ASSUME NEW p \in Nat, tokens' = Append(tokens, Delim(p)), UNCHANGED content
      PROVE  SameEndStep
  BY <1>1, <1>2, DelimType, NotAString
<1>3. ASSUME NEW p, NEW message, GiveUp(p, message) PROVE SameEndStep
  BY <1>3 DEF GiveUp, SameEndStep
<1>4. CASE PyBlanks
  BY <1>3, <1>4 DEF PyBlanks, Done, ScanNewline, ScanComment, SameEndStep
<1>5. CASE ScanKey
  <2> DEFINE sep == IndexAny(content, Trimmed, {kKeyValSep, kKeyValEnd, Newline})
             key == Lexeme("key", Trimmed, sep - Trimmed)
  <2>1. CASE sep = 0 \/ content[sep] # kKeyValSep
    <3>1. GiveUp(Trimmed, "key_value_pair_is_missing_separator") BY <1>5, <2>1 DEF ScanKey
    <3> QED BY <1>3, <3>1
  <2>2. CASE ~(sep = 0 \/ content[sep] # kKeyValSep)
    <3>1. tokens' = Append(tokens, key) /\ UNCHANGED content BY <1>5, <2>2 DEF ScanKey
    <3>2. sep - Trimmed \in Nat BY <1>1, <2>2, FoundAt
    <3>3. key \in Token /\ key.kind = "key" BY <1>1, <3>2, LexemeType
    <3> QED BY <3>1, <3>3, NotAString
  <2> QED BY <2>1, <2>2
<1>6. CASE ScanSeparator BY <1>1, <1>2, <1>6 DEF ScanSeparator
<1>7. CASE PyIteration
  <2>1. ASSUME NEW p \in Nat, Close(p) PROVE SameEndStep BY <1>2, <2>1 DEF Close
  <2>2. CASE ScanUnclosed BY <1>3, <2>2 DEF ScanUnclosed
  <2>3. CASE ScanClose BY <1>1, <2>1, <2>3 DEF ScanClose
  <2>4. CASE AfterItem BY <1>1, <2>1, <2>4 DEF AfterItem, SameEndStep
  <2> QED BY <1>7, <2>2, <2>3, <2>4 DEF PyIteration
<1>8. CASE ScanListBegin \/ ScanTableBegin
  BY <1>1, <1>2, <1>8 DEF ScanListBegin, ScanTableBegin, Open
<1>9. CASE ScanRawString
  <2> DEFINE closing == IndexAny(content, Trimmed + 1, {kRawStringBegin})
             n       == closing - Trimmed + 1
  <2>1. CASE closing = 0
    <3>1. GiveUp(Trimmed, "raw_string_value_does_not_end_with_backtick")
      BY <1>9, <2>1 DEF ScanRawString
    <3> QED BY <1>3, <3>1
  <2>2. CASE closing # 0
    <3>1. /\ tokens' = Append(tokens, Lexeme("value", Trimmed, n)) /\ UNCHANGED content
          /\ content[Trimmed] = kRawStringBegin
      BY <1>9, <2>2 DEF ScanRawString, Expect
    <3>2. Trimmed + 1 \in Nat \ {0} BY <1>1
    <3>3. closing \in Trimmed + 1 .. Len(content) BY <1>1, <2>2, <3>2, IndexAnyFirst
    <3>4. n \in Nat /\ Trimmed + n <= Len(content) + 1 BY <1>1, <3>3
    <3> HIDE DEF n
    <3>5. Lexeme("value", Trimmed, n) \in Token /\ Lexeme("value", Trimmed, n).start = Trimmed
      BY <1>1, <3>4, LexemeSpan
    <3> QED BY <3>1, <3>5, NotAString DEF kRawStringBegin, kStringBegin
  <2> QED BY <2>1, <2>2
<1>10. CASE ScanIntOrBool
  <2> DEFINE end == IndexAny(content, Trimmed, {kKeyValEnd, kListEnd, kTableEnd, Newline})
             n   == end - Trimmed
  <2>1. CASE end = 0 \/ content[end] # kKeyValEnd
    <3>1. GiveUp(Trimmed, "integer_or_boolean_value_does_not_end_with_semicolon")
      BY <1>10, <2>1 DEF ScanIntOrBool
    <3> QED BY <1>3, <3>1
  <2>2. CASE ~(end = 0 \/ content[end] # kKeyValEnd)
    <3>1. tokens' = Append(tokens, Lexeme("value", Trimmed, n)) /\ UNCHANGED content
      BY <1>10, <2>2 DEF ScanIntOrBool
    <3>2. end \in Trimmed .. Len(content) BY <1>1, <2>2, FoundAt
    <3>3. content[Trimmed] # kStringBegin BY <1>1, <1>10, <3>2 DEF ScanIntOrBool, Expect
    <3>4. n \in Nat /\ Trimmed + n <= Len(content) + 1 BY <1>1, <3>2
    <3> HIDE DEF n
    <3>5. Lexeme("value", Trimmed, n) \in Token /\ Lexeme("value", Trimmed, n).start = Trimmed
      BY <1>1, <3>4, LexemeSpan
    <3> QED BY <3>1, <3>3, <3>5, NotAString
  <2> QED BY <2>1, <2>2
<1>11. CASE ScanValueEnd BY <1>1, <1>2, <1>3, <1>11 DEF ScanValueEnd
<1> QED
  BY <1>4, <1>5, <1>6, <1>7, <1>8, <1>9, <1>10, <1>11
  DEF PyNext, PyKeyValue, PyList, PyTable

\* For every document: when it ends with a newline, a string without newlines
\* ends where kevs.c ends it, although the search for what follows it starts
\* at its beginning.
LEMMA PyStringsEndAlike == PySpec => []SameStringEnd
<1>1. Init => SameStringEnd
  <2> SUFFICES ASSUME Init PROVE SameStringEnd OBVIOUS
  <2>1. DOMAIN tokens = {} BY DEF Init
  <2> QED BY <2>1 DEF SameStringEnd
<1>2. IInv /\ SameStringEnd /\ [PyNext]_vars => SameStringEnd'
  <2> SUFFICES ASSUME IInv, SameStringEnd, [PyNext]_vars PROVE SameStringEnd' OBVIOUS
  <2>1. SameEndStep BY PyStringEnd, OthersEnd DEF vars, SameEndStep
  <2> QED BY <2>1, SameEndKeeps DEF IInv
<1> QED BY PyInvariantHolds, <1>1, <1>2, PTL DEF PySpec

-----------------------------------------------------------------------------
(* The documents that are accepted.                                        *)

\* Where no string has a newline, the string of kevs.py is that of kevs.c.
LEMMA PyStringIsString == ASSUME VInv, OneLineStrings, PyScanString PROVE ScanString
<1> DEFINE closing == ClosingQuotes(Trimmed)
<1>1. /\ AtValue /\ Trimmed <= Len(content) /\ content[Trimmed] = kStringBegin
      /\ content[Len(content)] = Newline
  BY DEF PyScanString, Expect, OneLineStrings
<1>2. TypeOK /\ Read(Trimmed) = ValueChar(stack, kStringBegin) BY <1>1, ValueReads
<1>3. Read(Trimmed) = Mode("string", stack)
  BY <1>2 DEF ValueChar, kStringBegin, kListBegin, kTableBegin
<1>4. PICK p : p = Trimmed OBVIOUS
<1>5. p \in 1 .. Len(content) /\ Len(content) \in Nat /\ content \in Seq(Char)
  BY <1>1, <1>2, <1>4, Standing
<1>6. PyClosingQuotes(Trimmed) = closing BY <1>1, SameQuotes
<1>7. CASE closing = {} BY <1>6, <1>7 DEF PyScanString, ScanString
<1>8. CASE closing # {}
  <2>1. PICK q : q = Min(closing) /\ q \in closing /\ \A n \in closing : q <= n
    <3>1. closing \in SUBSET Nat BY <1>4, <1>5 DEF ClosingQuotes
    <3>2. Min(closing) \in closing /\ \A n \in closing : Min(closing) <= n
      <4> HIDE DEF closing
      <4> QED BY <1>8, <3>1, Smallest
    <3> QED BY <3>2
  <2>2. q \in p + 1 .. Len(content) /\ content[q] = kStringBegin BY <1>4, <2>1 DEF ClosingQuotes
  <2>3. ASSUME NEW i \in p .. q PROVE content[i] # Newline
    <3>1. CASE i = p BY <1>1, <1>4, <3>1 DEF Newline, kStringBegin
    <3>2. CASE i # p
      <4>1. i - 1 \in p .. Len(content) /\ i \in 1 .. Len(content) /\ i - 1 < q
        BY <1>5, <2>2, <3>2
      <4>2. \A n \in p + 1 .. i - 1 : n \notin closing BY <1>5, <2>1, <2>2, <4>1
      <4>3. PICK m : m = i - 1 OBVIOUS
      <4>4. Read(m) = Mode("escape", stack) \/ Read(m) = Mode("string", stack)
        BY <1>1, <1>2, <1>3, <1>4, <1>5, <4>1, <4>2, <4>3, StringReads
      <4>5. Read(i - 1).mode \in {"string", "escape"} BY <4>3, <4>4 DEF Mode
      <4>6. i \in DOMAIN content BY <1>5, <4>1
      <4> QED BY <4>5, <4>6 DEF OneLineStrings, Read
    <3> QED BY <3>1, <3>2
  <2>4. p \in Nat BY <1>5
  <2>5. PyEnd(p, q) = q + 1 - p BY <1>1, <1>5, <2>2, <2>3, <2>4, EndAtQuote
  <2>6. PyEnd(Trimmed, Min(closing)) = Min(closing) - Trimmed + 1
    BY <1>4, <1>5, <2>1, <2>2, <2>4, <2>5
  <2> QED BY <1>6, <1>8, <2>6 DEF PyScanString, ScanString
<1> QED BY <1>7, <1>8

\* For every document: kevs.py cuts its strings where kevs.c does, and accepts it or
\* gives the message that kevs.c gives, when it has whole lines and none of its
\* strings has a newline.
THEOREM PyScansAlike == PySpec => []SameScanner
<1> DEFINE PyAlong == OneLineStrings => ReadAlong
<1>1. Init => PyAlong BY InitAlong DEF VInv
<1>2. IInv /\ PyAlong /\ [PyNext]_vars => PyAlong'
  <2> SUFFICES ASSUME IInv, PyAlong, [PyNext]_vars, OneLineStrings' PROVE ReadAlong' OBVIOUS
  <2>1. content' = content BY PyStringEnd, OthersEnd DEF vars, SameEndStep
  <2>2. OneLineStrings /\ VInv BY <2>1 DEF OneLineStrings, VInv
  <2>3. CASE Next BY <2>2, <2>3, NextAlong
  <2>4. CASE PyScanString
    <3>1. ScanString BY <2>2, <2>4, PyStringIsString
    <3> QED BY <2>2, <3>1, StringAlong
  <2>5. CASE UNCHANGED vars
    BY <2>2, <2>5 DEF VInv, Expect, vars, ReadAlong, Read, VerdictIsRight, Returned
  <2> QED BY <2>3, <2>4, <2>5, PyNextSplit
<1>3. SameStringEnd /\ PyAlong => SameScanner BY DEF SameScanner, ReadAlong
<1> QED BY PyInvariantHolds, PyStringsEndAlike, <1>1, <1>2, <1>3, PTL DEF PySpec

=============================================================================
