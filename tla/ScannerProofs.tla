---------------------------- MODULE ScannerProofs -----------------------------
(***************************************************************************)
(* The scanner, for every document: what the helpers of KevsStr return,    *)
(* type correctness, progress, the refinement of TokenGrammar, what        *)
(* becomes of the text, and which documents are accepted.                  *)
(***************************************************************************)
EXTENDS ScannerProps, SequenceTheorems, FiniteSetTheorems, WellFoundedInduction, TLAPS

-----------------------------------------------------------------------------
(* What the helpers of KevsStr return.                                     *)

\* Min of a set of numbers is its smallest element.
LEMMA Smallest ==
  ASSUME NEW S \in SUBSET Nat, S # {}
  PROVE  Min(S) \in S /\ \A y \in S : Min(S) <= y
<1> DEFINE R == OpToRel(<, Nat)
<1>1. \A x, y \in Nat : x < y => <<x, y>> \in R BY DEF OpToRel
<1>2. IsWellFoundedOn(R, Nat) BY NatLessThanWellFounded
<1> HIDE DEF R
<1>3. PICK x \in S : \A y \in S : ~(<<y, x>> \in R) BY <1>2, WFMin
<1>4. ASSUME NEW y \in S PROVE x <= y
  <2>1. x \in Nat /\ y \in Nat OBVIOUS
  <2>2. ~(y < x) BY <1>1, <1>3, <2>1, Zenon
  <2> QED BY <2>1, <2>2
<1> QED BY <1>4 DEF Min

\* Max of a set of numbers below a bound is its largest element.
LEMMA Largest ==
  ASSUME NEW n \in Nat, NEW S \in SUBSET (0 .. n), S # {}
  PROVE  Max(S) \in S /\ \A y \in S : y <= Max(S)
<1> DEFINE T == {k \in 0 .. n : n - k \in S}
<1>1. T \in SUBSET Nat /\ T # {}
  <2>1. PICK x \in S : TRUE OBVIOUS
  <2>2. n - x \in 0 .. n /\ n - (n - x) = x BY <2>1
  <2>3. n - x \in T BY <2>1, <2>2
  <2>4. T \subseteq Nat OBVIOUS
  <2> QED BY <2>3, <2>4
<1>2. Min(T) \in T /\ \A k \in T : Min(T) <= k BY <1>1, Smallest
<1>3. \A y \in S : n - y \in T OBVIOUS
<1>4. n - Min(T) \in S /\ \A y \in S : y <= n - Min(T) BY <1>2, <1>3
<1> QED BY <1>4 DEF Max

\* str_index_any and str_index_char return a place where a wanted character
\* stands, and the first one.
LEMMA IndexAnyFirst ==
  ASSUME NEW s \in Seq(Char), NEW from \in Nat \ {0}, NEW chars
  PROVE  LET k == IndexAny(s, from, chars)
         IN  \/ k = 0 /\ \A j \in from .. Len(s) : s[j] \notin chars
             \/ /\ k \in from .. Len(s) /\ s[k] \in chars
                /\ \A j \in from .. k - 1 : s[j] \notin chars
<1> DEFINE I == {i \in from .. Len(s) : s[i] \in chars}
<1>0. Len(s) \in Nat OBVIOUS
<1>1. CASE I = {} BY <1>1 DEF IndexAny
<1>2. CASE I # {}
  <2>1. I \in SUBSET Nat BY <1>0
  <2>2. Min(I) \in I /\ \A y \in I : Min(I) <= y BY <1>2, <2>1, Smallest
  <2>3. IndexAny(s, from, chars) = Min(I) BY <1>2 DEF IndexAny
  <2>4. Min(I) \in from .. Len(s) /\ s[Min(I)] \in chars BY <2>2
  <2>5. ASSUME NEW j \in from .. Min(I) - 1, s[j] \in chars PROVE FALSE
    <3>1. j \in from .. Len(s) /\ j < Min(I) BY <1>0, <2>4
    <3>2. j \in I BY <2>5, <3>1
    <3> QED BY <2>2, <2>4, <3>1, <3>2
  <2> QED BY <2>3, <2>4, <2>5
<1> QED BY <1>1, <1>2

\* str_trim_left stays within the slice, and skips nothing but spaces.
LEMMA TrimLeftRange ==
  ASSUME NEW s \in Seq(Char), NEW from \in 1 .. Len(s) + 1
  PROVE  LET k == TrimLeft(s, from)
         IN  /\ k \in from .. Len(s) + 1
             /\ k <= Len(s) => s[k] # Space
             /\ \A j \in from .. k - 1 : s[j] = Space
<1> DEFINE I == {i \in from .. Len(s) : s[i] # Space}
<1>0. Len(s) \in Nat OBVIOUS
<1>1. CASE I = {} BY <1>0, <1>1 DEF TrimLeft
<1>2. CASE I # {}
  <2>1. I \in SUBSET Nat BY <1>0
  <2>2. Min(I) \in I /\ \A y \in I : Min(I) <= y BY <1>2, <2>1, Smallest
  <2>3. TrimLeft(s, from) = Min(I) BY <1>2 DEF TrimLeft
  <2>4. Min(I) \in from .. Len(s) /\ s[Min(I)] # Space BY <2>2
  <2>5. ASSUME NEW j \in from .. Min(I) - 1, s[j] # Space PROVE FALSE
    <3>1. j \in from .. Len(s) /\ j < Min(I) BY <1>0, <2>4
    <3>2. j \in I BY <2>5, <3>1
    <3> QED BY <2>2, <2>4, <3>1, <3>2
  <2> QED BY <1>0, <2>3, <2>4, <2>5
<1> QED BY <1>1, <1>2

\* str_trim_right never lengthens a slice, and drops nothing but spaces.
LEMMA TrimRightRange ==
  ASSUME NEW s, NEW from \in Nat, NEW n \in Nat
  PROVE  LET k == TrimRight(s, from, n)
         IN  /\ k \in 0 .. n
             /\ k > 0 => s[from + k - 1] # Space
             /\ \A j \in k + 1 .. n : s[from + j - 1] = Space
<1> DEFINE I == {k \in 1 .. n : s[from + k - 1] # Space}
<1>1. CASE I = {}
  <2>1. TrimRight(s, from, n) = 0 BY <1>1 DEF TrimRight
  <2>2. \A j \in 1 .. n : s[from + j - 1] = Space BY <1>1
  <2> QED BY <2>1, <2>2
<1>2. CASE I # {}
  <2>1. I \in SUBSET (0 .. n) OBVIOUS
  <2>2. Max(I) \in I /\ \A y \in I : y <= Max(I) BY <1>2, <2>1, Largest
  <2>3. TrimRight(s, from, n) = Max(I) BY <1>2 DEF TrimRight
  <2>4. Max(I) \in 1 .. n /\ s[from + Max(I) - 1] # Space BY <2>2
  <2>5. ASSUME NEW j \in Max(I) + 1 .. n, s[from + j - 1] # Space PROVE FALSE
    <3>1. j \in 1 .. n /\ Max(I) < j BY <2>4
    <3>2. j \in I BY <2>5, <3>1
    <3> QED BY <2>2, <2>4, <3>1, <3>2
  <2> QED BY <2>3, <2>4, <2>5
<1> QED BY <1>1, <1>2

-----------------------------------------------------------------------------
(* The invariant.                                                          *)

\* scan_key leaves the scanner at the separator that scan_key_value appends
\* without a test; the element loops are entered inside a list or table only.
IInv ==
  /\ TypeOK
  /\ pc = "sep" => Expect(pos, kKeyValSep)
  /\ pc = "after" => stack # <<>>

-----------------------------------------------------------------------------
(* Helpers.                                                                *)

\* The ranks, as facts.
LEMMA RankValues ==
  /\ Rank("after") = 3 /\ Rank("loop") = 2 /\ Rank("value") = 2
  /\ Rank("sep") = 1 /\ Rank("end") = 1 /\ Rank("done") = 0 /\ Rank("failed") = 0
<1> QED BY DEF Rank

\* scanner_trim_space stays within the document.
LEMMA TrimmedRange ==
  ASSUME TypeOK
  PROVE  /\ Len(content) \in Nat /\ pos \in 1 .. Len(content) + 1
         /\ Trimmed \in pos .. Len(content) + 1
         /\ Trimmed <= Len(content) => content[Trimmed] # Space
<1>1. content \in Seq(Char) /\ pos \in 1 .. Len(content) + 1 BY DEF TypeOK
<1> QED BY <1>1, TrimLeftRange DEF Trimmed

\* scanner_append makes a token.
LEMMA LexemeType ==
  ASSUME TypeOK, NEW kind \in {"key", "value"}, NEW p \in Nat, NEW n \in Nat
  PROVE  /\ Lexeme(kind, p, n) \in Token
         /\ Lexeme(kind, p, n).kind = kind
<1>1. TrimRight(content, p, n) \in Nat BY TrimRightRange
<1> QED BY <1>1 DEF Lexeme, Token, TypeOK

\* scanner_append_delim makes a token.
LEMMA DelimType ==
  ASSUME TypeOK, NEW p \in Nat
  PROVE  Delim(p) \in Token /\ Delim(p).kind = "delim" /\ Delim(p).start = p
<1> QED BY DEF Delim, Token, TypeOK

\* What a search from the trimmed position finds.
LEMMA FoundAt ==
  ASSUME TypeOK, NEW chars, IndexAny(content, Trimmed, chars) # 0
  PROVE  /\ IndexAny(content, Trimmed, chars) \in Trimmed .. Len(content)
         /\ content[IndexAny(content, Trimmed, chars)] \in chars
<1>1. content \in Seq(Char) /\ Trimmed \in Nat \ {0} BY TrimmedRange DEF TypeOK
<1> QED BY <1>1, IndexAnyFirst

\* What the stack may be after a push or a pop.
LEMMA StackTypes ==
  ASSUME TypeOK
  PROVE  /\ \A kind \in Frame : <<kind>> \o stack \in Seq(Frame)
         /\ stack # <<>> => Tail(stack) \in Seq(Frame)
<1> QED BY DEF TypeOK

-----------------------------------------------------------------------------
(* What every step does to the invariant and to the measure.               *)

Forward == IInv' /\ Measure' < Measure

\* The step of an action that moves the scanner or lowers its rank.
LEMMA StepForward ==
  ASSUME IInv, UNCHANGED content,
         pos' \in pos .. Len(content) + 1, line' \in Nat \ {0},
         tokens' \in Seq(Token), stack' \in Seq(Frame),
         pc' \in {"loop", "sep", "value", "end", "after", "done", "failed"},
         error' \in Errors,
         pc' = "sep" => Expect(pos, kKeyValSep)', pc' = "after" => stack' # <<>>,
         pos' > pos \/ Rank(pc') < Rank(pc)
  PROVE  Forward
<1>1. TypeOK /\ Len(content) \in Nat /\ pos \in 1 .. Len(content) + 1
  BY TrimmedRange DEF IInv
<1>2. Rank(pc) \in 0 .. 3 /\ Rank(pc') \in 0 .. 3
  BY <1>1, RankValues DEF TypeOK
<1>3. content' \in Seq(Char) /\ pos' \in 1 .. Len(content') + 1 BY <1>1 DEF TypeOK
<1>4. IInv' BY <1>3 DEF IInv, TypeOK
<1>5. Measure' = 4 * (Len(content) + 1 - pos') + Rank(pc') BY DEF Measure
<1>6. PICK r \in 0 .. 3, q \in 0 .. 3 : r = Rank(pc) /\ q = Rank(pc') BY <1>2
<1>7. pos' \in Nat /\ pos' >= pos /\ (pos' > pos \/ q < r) BY <1>1, <1>6
<1>8. 4 * (Len(content) + 1 - pos') + q < 4 * (Len(content) + 1 - pos) + r
  <2>1. PICK m \in Nat, k \in Nat :
          m = Len(content) + 1 - pos /\ k = Len(content) + 1 - pos'
    <3>1. Len(content) + 1 - pos \in Nat BY <1>1
    <3>2. Len(content) + 1 - pos' \in Nat BY <1>1
    <3> QED BY <3>1, <3>2, Zenon
  <2>2. k <= m /\ (k < m \/ q < r) BY <1>1, <1>7, <2>1
  <2>3. 4 * k + q < 4 * m + r BY <2>2
  <2> QED BY <2>1, <2>3
<1>9. Measure' < Measure BY <1>5, <1>6, <1>8 DEF Measure
<1> QED BY <1>4, <1>9 DEF Forward

\* Where nothing is appended.
LEMMA BlankForward ==
  ASSUME IInv, UNCHANGED <<content, tokens, stack>>,
         pos' \in pos .. Len(content) + 1, line' \in Nat \ {0},
         pc' \in {"loop", "done", "failed"}, error' \in Errors,
         pos' > pos \/ Rank(pc') < Rank(pc)
  PROVE  Forward
<1>1. tokens' \in Seq(Token) /\ stack' \in Seq(Frame) BY DEF IInv, TypeOK
<1> QED BY <1>1, StepForward

\* Giving up is always a way forward.
LEMMA GiveUpForward ==
  ASSUME IInv, NEW p \in pos .. Len(content) + 1, NEW message \in Errors,
         pc \notin {"done", "failed"}, GiveUp(p, message)
  PROVE  Forward
<1>1. TypeOK BY DEF IInv
<1>2. /\ UNCHANGED <<content, line, tokens, stack>> /\ pos' = p
      /\ pc' = "failed" /\ error' = message
  BY DEF GiveUp, Fail
<1>3. Rank(pc') < Rank(pc) BY <1>1, <1>2, RankValues DEF TypeOK
<1>4. line' \in Nat \ {0} BY <1>1, <1>2 DEF TypeOK
<1> QED BY <1>2, <1>3, <1>4, BlankForward

-----------------------------------------------------------------------------
(* One lemma per action.                                                   *)

\* scan returns.
LEMMA DoneStep == IInv /\ Done => Forward
<1> SUFFICES ASSUME IInv, Done PROVE Forward OBVIOUS
<1>1. TypeOK /\ UNCHANGED <<content, pos, line, tokens, stack, error>>
      /\ pc = "loop" /\ pc' = "done"
  BY DEF IInv, Done
<1>2. pos' \in pos .. Len(content) + 1 /\ line' \in Nat \ {0} /\ error' \in Errors
  BY <1>1, TrimmedRange DEF TypeOK
<1>3. Rank(pc') < Rank(pc) BY <1>1, RankValues
<1> QED BY <1>1, <1>2, <1>3, BlankForward

\* scan_newline.
LEMMA NewlineStep == IInv /\ ScanNewline => Forward
<1> SUFFICES ASSUME IInv, ScanNewline PROVE Forward OBVIOUS
<1>1. /\ TypeOK /\ UNCHANGED <<content, tokens, stack, error>>
      /\ line' = line + 1 /\ pos' = Trimmed + 1 /\ pc' = "loop" /\ Trimmed <= Len(content)
  BY DEF IInv, ScanNewline, Advance, Expect
<1>2. pos' \in pos .. Len(content) + 1 /\ pos' > pos BY <1>1, TrimmedRange
<1>3. line' \in Nat \ {0} /\ error' \in Errors BY <1>1 DEF TypeOK
<1> QED BY <1>1, <1>2, <1>3, BlankForward

\* scan_comment.
LEMMA CommentStep == IInv /\ ScanComment => Forward
<1> SUFFICES ASSUME IInv, ScanComment PROVE Forward OBVIOUS
<1> DEFINE newline == IndexAny(content, Trimmed, {Newline})
<1>1. TypeOK /\ pc = "loop" /\ Trimmed \in pos .. Len(content) + 1
      /\ Expect(Trimmed, kCommentBegin)
  BY TrimmedRange DEF IInv, ScanComment, InLoop
<1>2. CASE newline = 0
  <2>1. GiveUp(Trimmed, "comment_does_not_end_with_newline") BY <1>2 DEF ScanComment
  <2> QED BY <1>1, <2>1, GiveUpForward DEF Errors
<1>3. CASE newline # 0
  <2>1. /\ UNCHANGED <<content, line, tokens, stack, error>> /\ pos' = newline + 0 /\ pc' = "loop"
    BY <1>3 DEF ScanComment, Advance
  <2>2. newline \in Trimmed .. Len(content) /\ content[newline] = Newline
    BY <1>1, <1>3, FoundAt
  <2>3. newline # Trimmed
    BY <1>1, <2>2 DEF Expect, Newline, kCommentBegin
  <2>4. pos' \in pos .. Len(content) + 1 /\ pos' > pos
    BY <1>1, <2>1, <2>2, <2>3, TrimmedRange
  <2>5. line' \in Nat \ {0} /\ error' \in Errors BY <1>1, <2>1 DEF TypeOK
  <2> QED BY <2>1, <2>4, <2>5, BlankForward
<1> QED BY <1>2, <1>3

\* The input ends inside a list or table.
LEMMA UnclosedStep == IInv /\ ScanUnclosed => Forward
<1> SUFFICES ASSUME IInv, ScanUnclosed PROVE Forward OBVIOUS
<1>1. TypeOK /\ pc = "loop" /\ Trimmed \in pos .. Len(content) + 1
  BY TrimmedRange DEF IInv, ScanUnclosed, InLoop
<1>2. PICK message \in Errors : GiveUp(Trimmed, message)
  BY DEF ScanUnclosed, Errors
<1> QED BY <1>1, <1>2, GiveUpForward

\* A closing bracket.
LEMMA CloseStep ==
  ASSUME IInv, NEW p \in pos .. Len(content) + 1, Close(p)
  PROVE  Forward
<1>1. /\ TypeOK /\ UNCHANGED <<content, line, error>> /\ stack # <<>>
      /\ tokens' = Append(tokens, Delim(p)) /\ stack' = Tail(stack)
      /\ pos' = p + 1 /\ pc' = "end" /\ p <= Len(content)
  BY DEF IInv, Close, Advance, Expect
<1>2. p \in Nat /\ Len(content) \in Nat /\ pos \in Nat BY <1>1, TrimmedRange
<1>3. pos' \in pos .. Len(content) + 1 /\ pos' > pos BY <1>1, <1>2
<1>4. tokens' \in Seq(Token) BY <1>1, <1>2, DelimType DEF TypeOK
<1>5. stack' \in Seq(Frame) BY <1>1, StackTypes
<1>6. line' \in Nat \ {0} /\ error' \in Errors BY <1>1 DEF TypeOK
<1> QED BY <1>1, <1>3, <1>4, <1>5, <1>6, StepForward

\* After an item.
LEMMA AfterItemStep == IInv /\ AfterItem => Forward
<1> SUFFICES ASSUME IInv, AfterItem PROVE Forward OBVIOUS
<1>1. TypeOK /\ pc = "after" /\ pos \in pos .. Len(content) + 1
  BY TrimmedRange DEF IInv, AfterItem
<1>2. CASE Close(pos) BY <1>1, <1>2, CloseStep
<1>3. CASE pc' = "loop" /\ UNCHANGED <<content, pos, line, tokens, stack, error>>
  <2>1. Rank(pc') < Rank(pc) BY <1>1, <1>3, RankValues
  <2>2. pos' \in pos .. Len(content) + 1 /\ line' \in Nat \ {0} /\ error' \in Errors
    BY <1>1, <1>3 DEF TypeOK
  <2> QED BY <1>3, <2>1, <2>2, BlankForward
<1> QED BY <1>2, <1>3 DEF AfterItem

\* scan_key.
LEMMA KeyStep == IInv /\ ScanKey => Forward
<1> SUFFICES ASSUME IInv, ScanKey PROVE Forward OBVIOUS
<1> DEFINE sep == IndexAny(content, Trimmed, {kKeyValSep, kKeyValEnd, Newline})
           key == Lexeme("key", Trimmed, sep - Trimmed)
<1>1. TypeOK /\ pc = "loop" /\ Trimmed \in pos .. Len(content) + 1
  BY TrimmedRange DEF IInv, ScanKey, AtItem, InLoop
<1>2. CASE sep = 0 \/ content[sep] # kKeyValSep
  <2>1. GiveUp(Trimmed, "key_value_pair_is_missing_separator") BY <1>2 DEF ScanKey
  <2> QED BY <1>1, <2>1, GiveUpForward DEF Errors
<1>3. CASE sep # 0 /\ content[sep] = kKeyValSep
  <2>1. /\ tokens' = Append(tokens, key) /\ pos' = sep /\ UNCHANGED <<content, line, stack>>
        /\ \/ pc' = "failed" /\ error' = "empty_key"
           \/ pc' = "sep" /\ error' = error
    BY <1>3 DEF ScanKey, Fail
  <2>2. sep \in Trimmed .. Len(content) BY <1>1, <1>3, FoundAt
  <2>3. /\ pos \in Nat /\ Trimmed \in Nat /\ Len(content) \in Nat
        /\ pos' \in pos .. Len(content) + 1 /\ sep - Trimmed \in Nat
    BY <1>1, <2>1, <2>2, TrimmedRange
  <2>4. tokens' \in Seq(Token)
    <3>1. key \in Token BY <1>1, <2>3, LexemeType
    <3> HIDE DEF key
    <3> QED BY <1>1, <2>1, <3>1 DEF TypeOK
  <2>5. Expect(pos, kKeyValSep)' BY <1>3, <2>1, <2>2 DEF Expect
  <2>6. Rank(pc') < Rank(pc) BY <1>1, <2>1, RankValues
  <2>7. stack' \in Seq(Frame) /\ line' \in Nat \ {0} /\ error' \in Errors
    BY <1>1, <2>1 DEF TypeOK, Errors
  <2> QED BY <2>1, <2>3, <2>4, <2>5, <2>6, <2>7, StepForward
<1> QED BY <1>2, <1>3

\* A delimiter is consumed, and the value, the loop or the end comes next.
LEMMA DelimForward ==
  ASSUME IInv, NEW p \in pos .. Len(content), tokens' = Append(tokens, Delim(p)),
         UNCHANGED <<content, line, error>>, pos' = p + 1, stack' \in Seq(Frame),
         pc' \in {"value", "loop", "after"}, pc' = "after" => stack' # <<>>
  PROVE  Forward
<1>1. TypeOK /\ Len(content) \in Nat /\ pos \in Nat /\ p \in Nat BY TrimmedRange DEF IInv
<1>2. pos' \in pos .. Len(content) + 1 /\ pos' > pos BY <1>1
<1>3. tokens' \in Seq(Token) BY <1>1, DelimType DEF TypeOK
<1>4. line' \in Nat \ {0} /\ error' \in Errors BY <1>1 DEF TypeOK
<1> QED BY <1>2, <1>3, <1>4, StepForward

\* The separator.
LEMMA SeparatorStep == IInv /\ ScanSeparator => Forward
<1> SUFFICES ASSUME IInv, ScanSeparator PROVE Forward OBVIOUS
<1>1. /\ TypeOK /\ Expect(pos, kKeyValSep) /\ tokens' = Append(tokens, Delim(pos))
      /\ UNCHANGED <<content, line, stack, error>> /\ pos' = pos + 1 /\ pc' = "value"
  BY DEF IInv, ScanSeparator, Advance
<1>2. pos \in pos .. Len(content) BY <1>1, TrimmedRange DEF Expect
<1>3. stack' \in Seq(Frame) BY <1>1 DEF TypeOK
<1> QED BY <1>1, <1>2, <1>3, DelimForward

\* An opening bracket.
LEMMA OpenStep ==
  ASSUME IInv, NEW bracket, NEW kind \in Frame, Open(bracket, kind)
  PROVE  Forward
<1>1. /\ TypeOK /\ Expect(Trimmed, bracket) /\ tokens' = Append(tokens, Delim(Trimmed))
      /\ UNCHANGED <<content, line, error>> /\ pos' = Trimmed + 1 /\ pc' = "loop"
      /\ stack' = <<kind>> \o stack
  BY DEF IInv, Open, Advance
<1>2. Trimmed \in pos .. Len(content) BY <1>1, TrimmedRange DEF Expect
<1>3. stack' \in Seq(Frame) BY <1>1, StackTypes
<1> QED BY <1>1, <1>2, <1>3, DelimForward

\* A simple value of n characters is consumed.
LEMMA ValueForward ==
  ASSUME IInv, pc \in {"loop", "value"}, NEW n \in Nat, Trimmed + n <= Len(content) + 1,
         tokens' = Append(tokens, Lexeme("value", Trimmed, n)),
         UNCHANGED <<content, stack>>, line' \in Nat \ {0},
         Advance(Trimmed, n, "end")
  PROVE  Forward
<1>1. /\ TypeOK /\ Len(content) \in Nat /\ pos \in Nat /\ Trimmed \in Nat
      /\ Trimmed \in pos .. Len(content) + 1
  BY TrimmedRange DEF IInv
<1>2. pos' = Trimmed + n /\ pc' = "end" /\ error' = error BY DEF Advance
<1>3. pos' \in pos .. Len(content) + 1 BY <1>1, <1>2
<1>4. tokens' \in Seq(Token)
  <2>1. Lexeme("value", Trimmed, n) \in Token BY <1>1, LexemeType
  <2> QED BY <1>1, <2>1 DEF TypeOK
<1>5. Rank(pc') < Rank(pc) BY <1>2, RankValues
<1>6. stack' \in Seq(Frame) /\ error' \in Errors BY <1>1, <1>2 DEF TypeOK
<1> QED BY <1>2, <1>3, <1>4, <1>5, <1>6, StepForward

\* Where a value may start.
LEMMA AtValuePhase == AtValue => pc \in {"loop", "value"}
<1> QED BY DEF AtValue, AtItem, InLoop

\* scan_string_value.
LEMMA StringStep == IInv /\ ScanString => Forward
<1> SUFFICES ASSUME IInv, ScanString PROVE Forward OBVIOUS
<1> DEFINE closing == ClosingQuotes(Trimmed)
           n == Min(closing) - Trimmed + 1
<1>1. /\ TypeOK /\ pc \in {"loop", "value"} /\ Trimmed \in pos .. Len(content) + 1
      /\ Len(content) \in Nat /\ Trimmed \in Nat
  BY AtValuePhase, TrimmedRange DEF IInv, ScanString
<1>2. CASE closing = {}
  <2>1. GiveUp(Trimmed, "string_value_does_not_end_with_quote") BY <1>2 DEF ScanString
  <2> QED BY <1>1, <2>1, GiveUpForward DEF Errors
<1>3. CASE closing # {}
  <2>1. /\ tokens' = Append(tokens, Lexeme("value", Trimmed, n))
        /\ Advance(Trimmed, n, "end") /\ UNCHANGED <<content, line, stack>>
    BY <1>3 DEF ScanString
  <2>2. closing \in SUBSET Nat BY <1>1 DEF ClosingQuotes
  <2>3. Min(closing) \in Trimmed + 1 .. Len(content)
    <3>1. Min(closing) \in closing BY <1>3, <2>2, Smallest
    <3> QED BY <3>1 DEF ClosingQuotes
  <2>4. n \in Nat /\ Trimmed + n <= Len(content) + 1 BY <1>1, <2>3
  <2>5. line' \in Nat \ {0} BY <1>1, <2>1 DEF TypeOK
  <2> HIDE DEF n
  <2> QED BY <1>1, <2>1, <2>4, <2>5, ValueForward
<1> QED BY <1>2, <1>3

\* scan_raw_string.
LEMMA RawStringStep == IInv /\ ScanRawString => Forward
<1> SUFFICES ASSUME IInv, ScanRawString PROVE Forward OBVIOUS
<1> DEFINE closing == IndexAny(content, Trimmed + 1, {kRawStringBegin})
           n       == closing - Trimmed + 1
<1>1. /\ TypeOK /\ pc \in {"loop", "value"} /\ Trimmed \in pos .. Len(content) + 1
      /\ Len(content) \in Nat /\ Trimmed \in Nat \ {0} /\ content \in Seq(Char)
  BY AtValuePhase, TrimmedRange DEF IInv, ScanRawString, TypeOK
<1>2. CASE closing = 0
  <2>1. GiveUp(Trimmed, "raw_string_value_does_not_end_with_backtick")
    BY <1>2 DEF ScanRawString
  <2> QED BY <1>1, <2>1, GiveUpForward DEF Errors
<1>3. CASE closing # 0
  <2>1. /\ tokens' = Append(tokens, Lexeme("value", Trimmed, n))
        /\ line' = line + CountChar(content, Trimmed, n, Newline)
        /\ Advance(Trimmed, n, "end") /\ UNCHANGED <<content, stack>>
    BY <1>3 DEF ScanRawString
  <2>2. Trimmed + 1 \in Nat \ {0} BY <1>1
  <2>3. closing \in Trimmed + 1 .. Len(content) BY <1>1, <1>3, <2>2, IndexAnyFirst
  <2>4. n \in Nat /\ Trimmed + n <= Len(content) + 1 BY <1>1, <2>3
  <2> HIDE DEF n
  <2>5. CountChar(content, Trimmed, n, Newline) \in Nat
    <3>1. IsFiniteSet(Trimmed .. Trimmed + n - 1) BY <1>1, <2>4, FS_Interval
    <3>2. IsFiniteSet({i \in Trimmed .. Trimmed + n - 1 : content[i] = Newline})
      BY <3>1, FS_Subset
    <3> QED BY <3>2, FS_CardinalityType DEF CountChar
  <2>6. line' \in Nat \ {0} BY <1>1, <2>1, <2>5 DEF TypeOK
  <2> QED BY <1>1, <2>1, <2>4, <2>6, ValueForward
<1> QED BY <1>2, <1>3

\* scan_int_or_bool_value.
LEMMA IntOrBoolStep == IInv /\ ScanIntOrBool => Forward
<1> SUFFICES ASSUME IInv, ScanIntOrBool PROVE Forward OBVIOUS
<1> DEFINE end == IndexAny(content, Trimmed, {kKeyValEnd, kListEnd, kTableEnd, Newline})
           n   == end - Trimmed
<1>1. /\ TypeOK /\ pc \in {"loop", "value"} /\ Trimmed \in pos .. Len(content) + 1
      /\ Len(content) \in Nat /\ Trimmed \in Nat
  BY AtValuePhase, TrimmedRange DEF IInv, ScanIntOrBool
<1>2. CASE end = 0 \/ content[end] # kKeyValEnd
  <2>1. GiveUp(Trimmed, "integer_or_boolean_value_does_not_end_with_semicolon")
    BY <1>2 DEF ScanIntOrBool
  <2> QED BY <1>1, <2>1, GiveUpForward DEF Errors
<1>3. CASE ~(end = 0 \/ content[end] # kKeyValEnd)
  <2>1. /\ tokens' = Append(tokens, Lexeme("value", Trimmed, n))
        /\ Advance(Trimmed, n, "end") /\ UNCHANGED <<content, line, stack>>
    BY <1>3 DEF ScanIntOrBool
  <2>2. end \in Trimmed .. Len(content) BY <1>1, <1>3, FoundAt
  <2>3. n \in Nat /\ Trimmed + n <= Len(content) + 1 BY <1>1, <2>2
  <2>4. line' \in Nat \ {0} BY <1>1, <2>1 DEF TypeOK
  <2> HIDE DEF n
  <2> QED BY <1>1, <2>1, <2>3, <2>4, ValueForward
<1> QED BY <1>2, <1>3

\* The end of a value.
LEMMA ValueEndStep == IInv /\ ScanValueEnd => Forward
<1> SUFFICES ASSUME IInv, ScanValueEnd PROVE Forward OBVIOUS
<1>1. TypeOK /\ pc = "end" BY DEF IInv, ScanValueEnd
<1>2. CASE Expect(pos, kKeyValEnd)
  <2>1. /\ tokens' = Append(tokens, Delim(pos)) /\ UNCHANGED <<content, line, stack, error>>
        /\ pos' = pos + 1 /\ pc' \in {"loop", "after"} /\ (pc' = "after" => stack' # <<>>)
    BY <1>2 DEF ScanValueEnd, Advance
  <2>2. pos \in pos .. Len(content) BY <1>1, <1>2, TrimmedRange DEF Expect
  <2>3. stack' \in Seq(Frame) BY <1>1, <2>1 DEF TypeOK
  <2> QED BY <2>1, <2>2, <2>3, DelimForward
<1>3. CASE ~Expect(pos, kKeyValEnd)
  <2>1. GiveUp(pos, "value_does_not_end_with_semicolon") BY <1>3 DEF ScanValueEnd
  <2>2. pos \in pos .. Len(content) + 1 BY <1>1, TrimmedRange
  <2> QED BY <1>1, <2>1, <2>2, GiveUpForward DEF Errors
<1> QED BY <1>2, <1>3

-----------------------------------------------------------------------------
(* Theorems.                                                               *)

\* The initial states satisfy the invariant.
LEMMA InitEstablishesIInv == Init => IInv
<1> SUFFICES ASSUME Init PROVE IInv OBVIOUS
<1>1. content \in Seq(Char) BY DocumentsAssumption DEF Init
<1> QED BY <1>1 DEF Init, IInv, TypeOK, Errors

\* Every step preserves the invariant and lowers the measure.
LEMMA NextForward == IInv /\ Next => Forward
<1> SUFFICES ASSUME IInv, Next PROVE Forward OBVIOUS
<1>1. CASE Done BY <1>1, DoneStep
<1>2. CASE ScanNewline BY <1>2, NewlineStep
<1>3. CASE ScanComment BY <1>3, CommentStep
<1>4. CASE ScanUnclosed BY <1>4, UnclosedStep
<1>5. CASE ScanClose
  <2>1. Trimmed \in pos .. Len(content) + 1 BY TrimmedRange DEF IInv
  <2> QED BY <1>5, <2>1, CloseStep DEF ScanClose
<1>6. CASE AfterItem BY <1>6, AfterItemStep
<1>7. CASE ScanKey BY <1>7, KeyStep
<1>8. CASE ScanSeparator BY <1>8, SeparatorStep
<1>9. CASE ScanListBegin BY <1>9, OpenStep DEF ScanListBegin, Frame
<1>10. CASE ScanTableBegin BY <1>10, OpenStep DEF ScanTableBegin, Frame
<1>11. CASE ScanString BY <1>11, StringStep
<1>12. CASE ScanRawString BY <1>12, RawStringStep
<1>13. CASE ScanIntOrBool BY <1>13, IntOrBoolStep
<1>14. CASE ScanValueEnd BY <1>14, ValueEndStep
<1> QED
  BY <1>1, <1>2, <1>3, <1>4, <1>5, <1>6, <1>7, <1>8, <1>9, <1>10, <1>11, <1>12, <1>13, <1>14
  DEF Next

\* The inductive invariant.
LEMMA InvariantHolds == Spec => []IInv
<1>1. IInv /\ UNCHANGED vars => IInv' BY DEF IInv, TypeOK, vars, Expect
<1>2. IInv /\ [Next]_vars => IInv' BY <1>1, NextForward DEF Forward
<1> QED BY InitEstablishesIInv, <1>2, PTL DEF Spec

\* Type correctness for every document: in particular the scanner never stands
\* past the end of the input, and no slice it takes reaches past it.
THEOREM TypeCorrect == Spec => []TypeOK
<1>1. IInv => TypeOK BY DEF IInv
<1> QED BY InvariantHolds, <1>1, PTL

\* For every document each step brings scan nearer to its return, so that no
\* loop of the scanner runs more than a bounded number of times.
THEOREM AlwaysForward == Spec => Progress
<1>1. IInv /\ [Next]_vars => [Measure' < Measure]_vars
  BY NextForward DEF Forward
<1> QED BY InvariantHolds, <1>1, PTL DEF Spec, Progress

-----------------------------------------------------------------------------
(* The scanner implements TokenGrammar.                                    *)

\* A step of the grammar, or none that it can see.
Simulated == Grammar!GNext \/ UNCHANGED <<Stream, stack, Want(pc)>>

-----------------------------------------------------------------------------
(* Helpers.                                                                *)

\* Appending a token appends its symbol to the stream.
LEMMA StreamAppend ==
  ASSUME TypeOK, UNCHANGED content, NEW t \in Token, tokens' = Append(tokens, t)
  PROVE  Stream' = Append(Stream, Symbol(t))
<1>1. /\ Len(tokens) \in Nat /\ Len(tokens') = Len(tokens) + 1
      /\ \A i \in 1 .. Len(tokens) : tokens'[i] = tokens[i]
      /\ tokens'[Len(tokens) + 1] = t
  BY DEF TypeOK
<1>2. Stream' = [i \in 1 .. Len(tokens) + 1 |-> Symbol(tokens'[i])]
  BY <1>1 DEF Stream, Symbol
<1> DEFINE Sym(i) == Symbol(tokens[i])
<1>3. /\ Stream = [i \in 1 .. Len(tokens) |-> Sym(i)]
      /\ Len(Stream) = Len(tokens)
  BY <1>1 DEF Stream
<1>4. Append(Stream, Symbol(t)) =
        [i \in 1 .. Len(tokens) + 1 |-> IF i = Len(tokens) + 1 THEN Symbol(t) ELSE Sym(i)]
  <2> HIDE DEF Sym
  <2> QED BY <1>1, <1>3
<1>5. \A i \in 1 .. Len(tokens) + 1 :
        Symbol(tokens'[i]) = IF i = Len(tokens) + 1 THEN Symbol(t) ELSE Sym(i)
  BY <1>1
<1> QED BY <1>2, <1>4, <1>5

\* The stream changes with the tokens only.
LEMMA StreamSame ==
  ASSUME UNCHANGED <<content, tokens>> PROVE UNCHANGED Stream
<1> QED BY DEF Stream, Symbol

\* What is wanted next, as facts.
LEMMA WantValues ==
  /\ Want("loop") = "item" /\ Want("after") = "item"
  /\ Want("sep") = "sep" /\ Want("value") = "value" /\ Want("end") = "end"
  /\ Want("failed") = "stopped" /\ Want("done") = "accepted"
<1> QED BY DEF Want

\* An open value is a list or a table.
LEMMA WhatFrame ==
  ASSUME TypeOK, stack # <<>>
  PROVE  Head(stack) = "list" \/ Head(stack) = "table"
<1> QED BY DEF TypeOK, Frame

\* Nothing is appended: a blank, the end, or giving up.
LEMMA StutterSimulated ==
  ASSUME UNCHANGED <<content, tokens, stack>>, Want(pc') = Want(pc)
  PROVE  Simulated
<1> QED BY StreamSame DEF Simulated

\* A failure is a stop of the grammar.
LEMMA StopSimulated ==
  ASSUME IInv, UNCHANGED <<content, tokens, stack>>, pc' = "failed", pc # "done"
  PROVE  Simulated
<1>1. Want(pc) # "accepted" BY WantValues DEF IInv, TypeOK
<1>2. UNCHANGED Stream BY StreamSame
<1>3. Grammar!Stop BY <1>1, <1>2, WantValues DEF Grammar!Stop
<1> QED BY <1>3 DEF Simulated, Grammar!GNext

\* So is giving up.
LEMMA GiveUpSimulated ==
  ASSUME IInv, NEW p, NEW message, pc # "done", GiveUp(p, message)
  PROVE  Simulated
<1> QED BY StopSimulated DEF GiveUp, Fail

\* A token is appended.
LEMMA EmitSimulated ==
  ASSUME IInv, NEW t \in Token, tokens' = Append(tokens, t), UNCHANGED content,
         NEW symbol, symbol = Symbol(t), NEW next, next = Want(pc')
  PROVE  Grammar!Emit(symbol, next)
<1>1. Stream' = Append(Stream, Symbol(t)) BY StreamAppend DEF IInv
<1> QED BY <1>1 DEF Grammar!Emit

\* The symbol of a delimiter is its character.
LEMMA DelimSymbol ==
  ASSUME TypeOK, NEW p \in Nat
  PROVE  Symbol(Delim(p)) = content[p]
<1> QED BY DelimType DEF Symbol

\* The symbol of a key or a value is its kind.
LEMMA LexemeSymbol ==
  ASSUME TypeOK, NEW kind \in {"key", "value"}, NEW p \in Nat, NEW n \in Nat
  PROVE  Symbol(Lexeme(kind, p, n)) = kind
<1> QED BY LexemeType DEF Symbol

-----------------------------------------------------------------------------
(* One lemma per action that the grammar can see.                          *)

\* A closing bracket.
LEMMA CloseSimulated ==
  ASSUME IInv, NEW p \in pos .. Len(content) + 1, Close(p), pc \in {"loop", "after"}
  PROVE  Simulated
<1>1. /\ TypeOK /\ UNCHANGED content /\ stack # <<>> /\ content[p] = Closer
      /\ tokens' = Append(tokens, Delim(p)) /\ stack' = Tail(stack) /\ pc' = "end"
  BY DEF IInv, Close, Advance, Expect
<1>2. p \in Nat BY <1>1, TrimmedRange
<1>3. Delim(p) \in Token /\ Symbol(Delim(p)) = Closer BY <1>1, <1>2, DelimType, DelimSymbol
<1>4. Want(pc) = "item" /\ Want(pc') = "end" BY <1>1, WantValues
<1>5. CASE Head(stack) = "list"
  <2>1. Closer = kListEnd BY <1>1, <1>5 DEF Closer, InList
  <2>2. Grammar!Emit(kListEnd, "end") BY <1>1, <1>3, <1>4, <2>1, EmitSimulated
  <2>3. Grammar!CloseList
    BY <1>1, <1>4, <1>5, <2>2 DEF Grammar!CloseList, Grammar!Within,
    kListEnd, Grammar!kListEnd
  <2> QED BY <2>3 DEF Simulated, Grammar!GNext
<1>6. CASE Head(stack) = "table"
  <2>1. Closer = kTableEnd BY <1>1, <1>6 DEF Closer, InList
  <2>2. Grammar!Emit(kTableEnd, "end") BY <1>1, <1>3, <1>4, <2>1, EmitSimulated
  <2>3. Grammar!CloseTable
    BY <1>1, <1>4, <1>6, <2>2 DEF Grammar!CloseTable, Grammar!Within,
    kTableEnd, Grammar!kTableEnd
  <2> QED BY <2>3 DEF Simulated, Grammar!GNext
<1> QED BY <1>1, <1>5, <1>6, WhatFrame

\* scan_key.
LEMMA KeySimulated == IInv /\ ScanKey => Simulated
<1> SUFFICES ASSUME IInv, ScanKey PROVE Simulated OBVIOUS
<1> DEFINE sep == IndexAny(content, Trimmed, {kKeyValSep, kKeyValEnd, Newline})
           key == Lexeme("key", Trimmed, sep - Trimmed)
<1>1. TypeOK /\ pc = "loop" /\ ~InList
  BY DEF IInv, ScanKey, AtItem, InLoop
<1>2. CASE sep = 0 \/ content[sep] # kKeyValSep
  <2>1. GiveUp(Trimmed, "key_value_pair_is_missing_separator") BY <1>2 DEF ScanKey
  <2> QED BY <1>1, <2>1, GiveUpSimulated
<1>3. CASE sep # 0 /\ content[sep] = kKeyValSep
  <2>1. /\ tokens' = Append(tokens, key) /\ UNCHANGED <<content, stack>>
        /\ pc' \in {"failed", "sep"}
    BY <1>3 DEF ScanKey, Fail
  <2>2. Trimmed \in Nat /\ sep - Trimmed \in Nat
    BY <1>1, <1>3, FoundAt, TrimmedRange
  <2>3. key \in Token /\ Symbol(key) = "key" BY <1>1, <2>2, LexemeType, LexemeSymbol
  <2> HIDE DEF key
  <2>4. Want(pc) = "item" /\ Want(pc') \in {"sep", "stopped"} BY <1>1, <2>1, WantValues
  <2>5. Grammar!Emit("key", Want(pc')) BY <2>1, <2>3, EmitSimulated
  <2>6. stack = <<>> \/ Grammar!Within("table")
    BY <1>1, WhatFrame DEF InList, Grammar!Within
  <2>7. Grammar!Key BY <2>1, <2>4, <2>5, <2>6 DEF Grammar!Key
  <2> QED BY <2>7 DEF Simulated, Grammar!GNext
<1> QED BY <1>2, <1>3

\* The separator.
LEMMA SeparatorSimulated == IInv /\ ScanSeparator => Simulated
<1> SUFFICES ASSUME IInv, ScanSeparator PROVE Simulated OBVIOUS
<1>1. /\ TypeOK /\ content[pos] = kKeyValSep /\ tokens' = Append(tokens, Delim(pos))
      /\ UNCHANGED <<content, stack>> /\ pc = "sep" /\ pc' = "value"
  BY DEF IInv, ScanSeparator, Advance, Expect
<1>2. pos \in Nat BY <1>1, TrimmedRange
<1>3. Delim(pos) \in Token /\ Symbol(Delim(pos)) = kKeyValSep
  BY <1>1, <1>2, DelimType, DelimSymbol
<1>4. Grammar!Emit(kKeyValSep, "value") BY <1>1, <1>3, WantValues, EmitSimulated
<1>5. Grammar!Separator BY <1>1, <1>4, WantValues DEF Grammar!Separator,
    kKeyValSep, Grammar!kKeyValSep
<1> QED BY <1>5 DEF Simulated, Grammar!GNext

\* Where scan_value is called, the grammar wants a value.
LEMMA ValueIsDue ==
  ASSUME IInv, AtValue
  PROVE  Grammar!ValueDue
<1>1. pc = "value" \/ (pc = "loop" /\ InList) BY DEF AtValue, AtItem, InLoop
<1> QED BY <1>1, WantValues DEF Grammar!ValueDue, Grammar!Within, InList

\* An opening bracket.
LEMMA OpenSimulated ==
  ASSUME IInv, NEW bracket, NEW kind, Open(bracket, kind),
         \/ bracket = kListBegin /\ kind = "list"
         \/ bracket = kTableBegin /\ kind = "table"
  PROVE  Simulated
<1>1. /\ TypeOK /\ content[Trimmed] = bracket /\ tokens' = Append(tokens, Delim(Trimmed))
      /\ UNCHANGED content /\ pc' = "loop" /\ stack' = <<kind>> \o stack /\ AtValue
  BY DEF IInv, Open, Advance, Expect
<1>2. Trimmed \in Nat BY <1>1, TrimmedRange
<1>3. Delim(Trimmed) \in Token /\ Symbol(Delim(Trimmed)) = bracket
  BY <1>1, <1>2, DelimType, DelimSymbol
<1>4. Grammar!Emit(bracket, "item") BY <1>1, <1>3, WantValues, EmitSimulated
<1>5. Grammar!ValueDue BY <1>1, ValueIsDue
<1>6. Grammar!OpenList \/ Grammar!OpenTable
  BY <1>1, <1>4, <1>5 DEF Grammar!OpenList, Grammar!OpenTable,
    kListBegin, Grammar!kListBegin, kTableBegin, Grammar!kTableBegin
<1> QED BY <1>6 DEF Simulated, Grammar!GNext

\* A simple value.
LEMMA SimpleSimulated ==
  ASSUME IInv, AtValue, NEW n \in Nat,
         tokens' = Append(tokens, Lexeme("value", Trimmed, n)),
         UNCHANGED <<content, stack>>, Advance(Trimmed, n, "end")
  PROVE  Simulated
<1>1. TypeOK /\ pc' = "end" /\ Trimmed \in Nat BY TrimmedRange DEF IInv, Advance
<1>2. Lexeme("value", Trimmed, n) \in Token /\ Symbol(Lexeme("value", Trimmed, n)) = "value"
  BY <1>1, LexemeType, LexemeSymbol
<1>3. Grammar!Emit("value", "end") BY <1>1, <1>2, WantValues, EmitSimulated
<1>4. Grammar!Simple BY <1>3, ValueIsDue DEF Grammar!Simple
<1> QED BY <1>4 DEF Simulated, Grammar!GNext

\* The end of a value.
LEMMA ValueEndSimulated == IInv /\ ScanValueEnd => Simulated
<1> SUFFICES ASSUME IInv, ScanValueEnd PROVE Simulated OBVIOUS
<1>1. TypeOK /\ pc = "end" BY DEF IInv, ScanValueEnd
<1>2. CASE Expect(pos, kKeyValEnd)
  <2>1. /\ tokens' = Append(tokens, Delim(pos)) /\ UNCHANGED <<content, stack>>
        /\ pc' \in {"loop", "after"} /\ content[pos] = kKeyValEnd
    BY <1>2 DEF ScanValueEnd, Advance, Expect
  <2>2. pos \in Nat BY <1>1, TrimmedRange
  <2>3. Delim(pos) \in Token /\ Symbol(Delim(pos)) = kKeyValEnd
    BY <1>1, <2>1, <2>2, DelimType, DelimSymbol
  <2>4. Grammar!Emit(kKeyValEnd, "item") BY <2>1, <2>3, WantValues, EmitSimulated
  <2>5. Grammar!End BY <1>1, <2>1, <2>4, WantValues DEF Grammar!End,
    kKeyValEnd, Grammar!kKeyValEnd
  <2> QED BY <2>5 DEF Simulated, Grammar!GNext
<1>3. CASE ~Expect(pos, kKeyValEnd)
  <2>1. GiveUp(pos, "value_does_not_end_with_semicolon") BY <1>3 DEF ScanValueEnd
  <2> QED BY <1>1, <2>1, GiveUpSimulated
<1> QED BY <1>2, <1>3

\* scan_string_value.
LEMMA StringSimulated == IInv /\ ScanString => Simulated
<1> SUFFICES ASSUME IInv, ScanString PROVE Simulated OBVIOUS
<1> DEFINE closing == ClosingQuotes(Trimmed)
           n == Min(closing) - Trimmed + 1
<1>1. AtValue /\ TypeOK /\ pc # "done" BY AtValuePhase DEF IInv, ScanString
<1>2. CASE closing = {}
  <2>1. GiveUp(Trimmed, "string_value_does_not_end_with_quote") BY <1>2 DEF ScanString
  <2> QED BY <1>1, <2>1, GiveUpSimulated
<1>3. CASE closing # {}
  <2>1. /\ tokens' = Append(tokens, Lexeme("value", Trimmed, n))
        /\ Advance(Trimmed, n, "end") /\ UNCHANGED <<content, stack>>
    BY <1>3 DEF ScanString
  <2>2. Trimmed \in Nat /\ Min(closing) \in Trimmed + 1 .. Len(content)
    <3>1. Trimmed \in Nat BY <1>1, TrimmedRange
    <3>2. closing \in SUBSET Nat BY <3>1 DEF ClosingQuotes
    <3>3. Min(closing) \in closing BY <1>3, <3>2, Smallest
    <3> QED BY <3>1, <3>3 DEF ClosingQuotes
  <2>3. n \in Nat BY <2>2
  <2> HIDE DEF n
  <2> QED BY <1>1, <2>1, <2>3, SimpleSimulated
<1> QED BY <1>2, <1>3

\* scan_raw_string.
LEMMA RawStringSimulated == IInv /\ ScanRawString => Simulated
<1> SUFFICES ASSUME IInv, ScanRawString PROVE Simulated OBVIOUS
<1> DEFINE closing == IndexAny(content, Trimmed + 1, {kRawStringBegin})
           n       == closing - Trimmed + 1
<1>1. AtValue /\ TypeOK /\ pc # "done" BY AtValuePhase DEF IInv, ScanRawString
<1>2. CASE closing = 0
  <2>1. GiveUp(Trimmed, "raw_string_value_does_not_end_with_backtick")
    BY <1>2 DEF ScanRawString
  <2> QED BY <1>1, <2>1, GiveUpSimulated
<1>3. CASE closing # 0
  <2>1. /\ tokens' = Append(tokens, Lexeme("value", Trimmed, n))
        /\ Advance(Trimmed, n, "end") /\ UNCHANGED <<content, stack>>
    BY <1>3 DEF ScanRawString
  <2>2. Trimmed \in Nat /\ Trimmed + 1 \in Nat \ {0} /\ content \in Seq(Char)
    BY <1>1, TrimmedRange DEF TypeOK
  <2>3. closing \in Trimmed + 1 .. Len(content) BY <1>3, <2>2, IndexAnyFirst
  <2>4. n \in Nat BY <2>2, <2>3
  <2> HIDE DEF n
  <2> QED BY <1>1, <2>1, <2>4, SimpleSimulated
<1> QED BY <1>2, <1>3

\* scan_int_or_bool_value.
LEMMA IntOrBoolSimulated == IInv /\ ScanIntOrBool => Simulated
<1> SUFFICES ASSUME IInv, ScanIntOrBool PROVE Simulated OBVIOUS
<1> DEFINE end == IndexAny(content, Trimmed, {kKeyValEnd, kListEnd, kTableEnd, Newline})
           n   == end - Trimmed
<1>1. AtValue /\ TypeOK /\ pc # "done" BY AtValuePhase DEF IInv, ScanIntOrBool
<1>2. CASE end = 0 \/ content[end] # kKeyValEnd
  <2>1. GiveUp(Trimmed, "integer_or_boolean_value_does_not_end_with_semicolon")
    BY <1>2 DEF ScanIntOrBool
  <2> QED BY <1>1, <2>1, GiveUpSimulated
<1>3. CASE ~(end = 0 \/ content[end] # kKeyValEnd)
  <2>1. /\ tokens' = Append(tokens, Lexeme("value", Trimmed, n))
        /\ Advance(Trimmed, n, "end") /\ UNCHANGED <<content, stack>>
    BY <1>3 DEF ScanIntOrBool
  <2>2. n \in Nat BY <1>1, <1>3, FoundAt, TrimmedRange
  <2> HIDE DEF n
  <2> QED BY <1>1, <2>1, <2>2, SimpleSimulated
<1> QED BY <1>2, <1>3

\* The steps that append no token.
LEMMA BlankSimulated ==
  ASSUME IInv, ScanNewline \/ ScanComment \/ ScanUnclosed
  PROVE  Simulated
<1>1. /\ pc = "loop" /\ UNCHANGED <<content, tokens, stack>>
      /\ pc' = "loop" \/ pc' = "failed"
  BY DEF ScanNewline, ScanComment, ScanUnclosed, InLoop, Advance, GiveUp, Fail
<1> QED BY <1>1, StutterSimulated, StopSimulated

\* scan returns NULL.
LEMMA DoneSimulated == IInv /\ Done => Simulated
<1> SUFFICES ASSUME IInv, Done PROVE Simulated OBVIOUS
<1>1. /\ pc = "loop" /\ pc' = "done" /\ stack = <<>>
      /\ UNCHANGED <<content, tokens, stack>>
  BY DEF Done, AtDocumentEnd
<1>2. UNCHANGED Stream BY <1>1, StreamSame
<1>3. Grammar!Accept BY <1>1, <1>2, WantValues DEF Grammar!Accept
<1> QED BY <1>3 DEF Simulated, Grammar!GNext

-----------------------------------------------------------------------------

\* Every step of the scanner.
LEMMA NextSimulated == IInv /\ Next => Simulated
<1> SUFFICES ASSUME IInv, Next PROVE Simulated OBVIOUS
<1>1. CASE Done BY <1>1, DoneSimulated
<1>2. CASE ScanNewline \/ ScanComment \/ ScanUnclosed BY <1>2, BlankSimulated
<1>3. CASE ScanClose
  <2>1. Trimmed \in pos .. Len(content) + 1 /\ pc = "loop"
    BY <1>3, TrimmedRange DEF IInv, ScanClose, InLoop
  <2> QED BY <1>3, <2>1, CloseSimulated DEF ScanClose
<1>4. CASE AfterItem
  <2>1. pos \in pos .. Len(content) + 1 /\ pc = "after"
    BY <1>4, TrimmedRange DEF IInv, AfterItem
  <2>2. CASE Close(pos) BY <2>1, <2>2, CloseSimulated
  <2>3. CASE pc' = "loop" /\ UNCHANGED <<content, tokens, stack>>
    BY <2>1, <2>3, WantValues, StutterSimulated
  <2> QED BY <1>4, <2>2, <2>3 DEF AfterItem
<1>5. CASE ScanKey BY <1>5, KeySimulated
<1>6. CASE ScanSeparator BY <1>6, SeparatorSimulated
<1>7. CASE ScanListBegin BY <1>7, OpenSimulated DEF ScanListBegin
<1>8. CASE ScanTableBegin BY <1>8, OpenSimulated DEF ScanTableBegin
<1>9. CASE ScanString BY <1>9, StringSimulated
<1>10. CASE ScanRawString BY <1>10, RawStringSimulated
<1>11. CASE ScanIntOrBool BY <1>11, IntOrBoolSimulated
<1>12. CASE ScanValueEnd BY <1>12, ValueEndSimulated
<1> QED
  BY <1>1, <1>2, <1>3, <1>4, <1>5, <1>6, <1>7, <1>8, <1>9, <1>10, <1>11, <1>12 DEF Next

\* The initial states.
LEMMA InitSimulated == Init => Grammar!GInit
<1> SUFFICES ASSUME Init PROVE Grammar!GInit OBVIOUS
<1>1. Stream = <<>> BY DEF Init, Stream
<1> QED BY <1>1, WantValues DEF Init, Grammar!GInit

\* The refinement, for every document: scan hands to parse a prefix of a
\* well-nested sequence of pairs, and a whole one when it returns NULL.
THEOREM ImplementsGrammar == Spec => GrammarSpec
<1>1. IInv /\ [Next]_vars => [Grammar!GNext]_(Grammar!gvars)
  <2> SUFFICES ASSUME IInv, [Next]_vars PROVE [Grammar!GNext]_(Grammar!gvars) OBVIOUS
  <2>1. CASE Next BY <2>1, NextSimulated DEF Simulated, Grammar!gvars
  <2>2. CASE UNCHANGED vars
    <3>1. UNCHANGED <<content, tokens, stack, pc>> BY <2>2 DEF vars
    <3>2. UNCHANGED Stream BY <3>1, StreamSame
    <3> QED BY <3>1, <3>2 DEF Grammar!gvars
  <2> QED BY <2>1, <2>2
<1> QED BY InitSimulated, InvariantHolds, <1>1, PTL DEF Spec, GrammarSpec, Grammar!GSpec

-----------------------------------------------------------------------------
(* What becomes of the text: none of it is lost, the tokens are what the   *)
(* parser takes them for, and the lines are right outside of strings.      *)

\* Two of the properties are inductive together with IInv.  They hold of the
\* Python scanner as well, whose strings break the third.
TInv == IInv /\ NothingLost /\ LinesOutsideStrings

\* What TokensWellFormed says of one token, but for the length of a key.
WellFormed(t) ==
  LET last  == t.start + t.len - 1
      first == content[t.start]
      Has(chars) == \E i \in Span(t) : content[i] \in chars
  IN  /\ t.kind = "key" => ~Has({kKeyValSep, kKeyValEnd, Newline})
      /\ t.kind = "value" /\ t.len > 0 /\ first = kStringBegin =>
           t.len >= 2 /\ content[last] = kStringBegin /\ content[last - 1] # Backslash
      /\ t.kind = "value" /\ t.len > 0 /\ first = kRawStringBegin =>
           /\ t.len >= 2 /\ content[last] = kRawStringBegin
           /\ \A i \in t.start + 1 .. last - 1 : content[i] # kRawStringBegin
      /\ t.kind = "value" /\ t.len > 0 /\ first \notin {kStringBegin, kRawStringBegin} =>
           ~Has({kKeyValEnd, kListEnd, kTableEnd, Newline})

EachWellFormed ==
  \A k \in DOMAIN tokens :
    WellFormed(tokens[k]) /\ (tokens[k].kind = "key" => tokens[k].len > 0 \/ pc = "failed")

\* What a step must know of the token t that it appends.
FitsIn(t) == WellFormed(t) /\ (t.kind = "key" => t.len > 0 \/ pc' = "failed")

LEMMA TokensWellFormedSplit == TokensWellFormed <=> EachWellFormed
BY DEF TokensWellFormed, EachWellFormed, WellFormed

\* t is a string and holds character i.
StringAt(t, i) == i \in Span(t) /\ t.kind = "value" /\ content[t.start] = kStringBegin

LEMMA TokenFields ==
  ASSUME tokens \in Seq(Token)
  PROVE  \A k \in DOMAIN tokens : /\ tokens[k] \in Token
                                 /\ tokens[k].start \in Nat /\ tokens[k].len \in Nat
<1>1. \A t \in Token : t.start \in Nat /\ t.len \in Nat BY DEF Token
<1>2. \A k \in DOMAIN tokens : tokens[k] \in Token OBVIOUS
<1> QED BY <1>1, <1>2

LEMMA InStringSplit == \A i : InString(i) <=> \E k \in DOMAIN tokens : StringAt(tokens[k], i)
BY DEF InString, StringAt

\* The newlines that count.
Newlines == {i \in 1 .. pos - 1 : ~InString(i) /\ content[i] = Newline}
Below(S, p) == {i \in S : i < p}

LinesRight ==
  /\ line = 1 + Cardinality(Below(Newlines, pos))
  /\ \A k \in DOMAIN tokens : tokens[k].line = 1 + Cardinality(Below(Newlines, tokens[k].start))

LEMMA LinesSplit == LinesOutsideStrings <=> LinesRight
<1> DEFINE counted == {i \in 1 .. pos - 1 : ~InString(i)}
<1>1. \A p : {i \in counted : i < p /\ content[i] = Newline} = Below(Newlines, p)
  BY DEF Newlines, Below
<1>2. \A p : LineAt(p, counted) = 1 + Cardinality(Below(Newlines, p))
  BY <1>1 DEF LineAt
<1> HIDE DEF counted
<1>3. LinesOutsideStrings <=>
        /\ line = LineAt(pos, counted)
        /\ \A k \in DOMAIN tokens : tokens[k].line = LineAt(tokens[k].start, counted)
  BY DEF LinesOutsideStrings, counted
<1> QED BY <1>2, <1>3, Zenon DEF LinesRight

\* The characters before q, with those before p set apart.
LEMMA IntervalSplit ==
  ASSUME NEW p \in Nat \ {0}, NEW q \in Nat, p <= q
  PROVE  /\ \A i : i \in 1 .. q - 1 <=> i \in 1 .. p - 1 \/ i \in p .. q - 1
         /\ \A i \in p .. q - 1 : i \notin 1 .. p - 1 /\ i \in Nat /\ p <= i /\ i < q
         /\ \A i \in 1 .. p - 1 : i \in Nat /\ i < p
         /\ IsFiniteSet(1 .. p - 1) /\ IsFiniteSet(p .. q - 1)
<1>1. 1 \in Int /\ p - 1 \in Int /\ q - 1 \in Int /\ p \in Int OBVIOUS
<1>2. IsFiniteSet(1 .. p - 1) /\ IsFiniteSet(p .. q - 1) BY <1>1, FS_Interval
<1> QED BY <1>2

\* N lies below p, and P between p and q.
Apart(N, P, p, q) ==
  /\ p \in Nat /\ q \in Nat /\ p <= q
  /\ \A i \in N : i \in Nat /\ i < p
  /\ \A i \in P : i \in Nat /\ p <= i /\ i < q

\* What is below a bound of N and P together, when the bound is at most p,
\* when it is q, and when it is below all of P.
LEMMA BelowN ==
  ASSUME NEW N, NEW P, NEW p, NEW q, Apart(N, P, p, q), NEW r \in Nat, r <= p
  PROVE  Below(N \cup P, r) = Below(N, r)
<1>1. \A i \in P : ~(i < r) BY DEF Apart
<1> QED BY <1>1 DEF Below

LEMMA BelowAll ==
  ASSUME NEW N, NEW P, NEW p, NEW q, Apart(N, P, p, q)
  PROVE  Below(N \cup P, q) = N \cup P /\ Below(N, p) = N /\ N \cap P = {}
BY DEF Below, Apart

LEMMA BelowP ==
  ASSUME NEW N, NEW P, NEW p, NEW q, Apart(N, P, p, q), NEW r \in Nat, p <= r, \A i \in P : r <= i
  PROVE  Below(N \cup P, r) = N
BY DEF Below, Apart

LEMMA DisjointUnion ==
  ASSUME NEW S, NEW T, IsFiniteSet(S), IsFiniteSet(T), S \cap T = {}
  PROVE  /\ Cardinality(S \cup T) = Cardinality(S) + Cardinality(T)
         /\ Cardinality(S) \in Nat /\ Cardinality(T) \in Nat
<1>1. Cardinality(S \cup T) = Cardinality(S) + Cardinality(T) - Cardinality(S \cap T)
  BY FS_Union
<1>2. Cardinality(S \cap T) = 0 BY FS_EmptySet
<1>3. Cardinality(S) \in Nat /\ Cardinality(T) \in Nat BY FS_CardinalityType
<1> QED BY <1>1, <1>2, <1>3

-----------------------------------------------------------------------------
(* Steps.                                                                  *)

KeptText == NothingLost' /\ LinesOutsideStrings'

Kept == KeptText /\ (TokensWellFormed => TokensWellFormed')

\* What is known of the positions in every step.
LEMMA Positions ==
  ASSUME TInv, pos' \in pos .. Len(content) + 1
  PROVE  /\ pos \in Nat \ {0} /\ pos' \in Nat /\ pos <= pos'
         /\ Len(content) \in Nat /\ tokens \in Seq(Token)
         /\ \A k \in DOMAIN tokens : /\ tokens[k] \in Token
                                     /\ tokens[k].start \in Nat /\ tokens[k].len \in Nat
                                     /\ tokens[k].start + tokens[k].len <= pos
                                     /\ tokens[k].start <= pos
<1>1. pos \in 1 .. Len(content) + 1 /\ Len(content) \in Nat /\ tokens \in Seq(Token)
  BY DEF TInv, IInv, TypeOK
<1>2. pos \in Nat \ {0} /\ pos' \in Nat /\ pos <= pos' BY <1>1
<1>3. \A k \in DOMAIN tokens : /\ tokens[k] \in Token
                               /\ tokens[k].start \in Nat /\ tokens[k].len \in Nat
  BY <1>1, TokenFields
<1>4. \A k \in DOMAIN tokens : tokens[k].start + tokens[k].len <= pos
  BY DEF TInv, NothingLost
<1> QED BY <1>1, <1>2, <1>3, <1>4

\* The line count when the newlines P are passed, and a token that may be new
\* starts before them.
LEMMA LinesGrow ==
  ASSUME TInv, pos' \in pos .. Len(content) + 1, NEW P \in SUBSET (pos .. pos' - 1),
         Newlines' = Newlines \cup P,
         line' = line + Cardinality(P),
         \A k \in DOMAIN tokens' :
           \/ k \in DOMAIN tokens /\ tokens'[k] = tokens[k]
           \/ /\ tokens'[k].line = line /\ tokens'[k].start \in pos .. pos'
              /\ \A i \in P : tokens'[k].start <= i
  PROVE  LinesOutsideStrings'
<1>1. pos \in Nat \ {0} /\ pos' \in Nat /\ pos <= pos' BY Positions
<1>2. \A i \in Newlines : i \in Nat /\ i < pos BY <1>1, IntervalSplit, Zenon DEF Newlines
<1>3. \A i \in P : i \in Nat /\ pos <= i /\ i < pos'
  <2>1. \A i \in pos .. pos' - 1 : i \in Nat /\ pos <= i /\ i < pos' BY <1>1, IntervalSplit
  <2> QED BY <2>1
<1>4. /\ \A r \in Nat : r <= pos => Below(Newlines \cup P, r) = Below(Newlines, r)
      /\ Below(Newlines \cup P, pos') = Newlines \cup P /\ Below(Newlines, pos) = Newlines
      /\ Newlines \cap P = {}
      /\ \A r \in Nat : pos <= r /\ (\A i \in P : r <= i) => Below(Newlines \cup P, r) = Newlines
  <2>1. Apart(Newlines, P, pos, pos') BY <1>1, <1>2, <1>3 DEF Apart
  <2>2. \A r \in Nat : r <= pos => Below(Newlines \cup P, r) = Below(Newlines, r)
    BY <2>1, BelowN
  <2>3. /\ Below(Newlines \cup P, pos') = Newlines \cup P /\ Below(Newlines, pos) = Newlines
        /\ Newlines \cap P = {}
    BY <2>1, BelowAll
  <2>4. \A r \in Nat : pos <= r /\ (\A i \in P : r <= i) => Below(Newlines \cup P, r) = Newlines
    BY <2>1, BelowP
  <2> QED BY <2>2, <2>3, <2>4
<1>5. Below(Newlines', pos') = Newlines \cup P /\ Below(Newlines, pos) = Newlines
  BY <1>4
<1>6. IsFiniteSet(Newlines) /\ IsFiniteSet(P) /\ Newlines \cap P = {}
  <2>1. IsFiniteSet(1 .. pos - 1) /\ IsFiniteSet(pos .. pos' - 1) BY <1>1, IntervalSplit
  <2>2. Newlines \subseteq 1 .. pos - 1 /\ P \subseteq pos .. pos' - 1 BY DEF Newlines
  <2>3. Newlines \cap P = {} BY <1>4
  <2> QED BY <2>1, <2>2, <2>3, FS_Subset
<1>7. /\ Cardinality(Newlines \cup P) = Cardinality(Newlines) + Cardinality(P)
      /\ Cardinality(Newlines) \in Nat /\ Cardinality(P) \in Nat
  BY <1>6, DisjointUnion
<1>8. /\ line = 1 + Cardinality(Newlines)
      /\ \A k \in DOMAIN tokens : tokens[k].line = 1 + Cardinality(Below(Newlines, tokens[k].start))
  <2>1. LinesRight BY LinesSplit DEF TInv
  <2> QED BY <1>5, <2>1, Zenon DEF LinesRight
<1>9. line' = 1 + Cardinality(Below(Newlines', pos'))
  <2>1. PICK m \in Nat, n \in Nat : m = Cardinality(Newlines) /\ n = Cardinality(P) BY <1>7
  <2>2. Cardinality(Below(Newlines', pos')) = m + n BY <1>5, <1>7, <2>1
  <2>3. line' = (1 + m) + n BY <1>8, <2>1
  <2>4. (1 + m) + n = 1 + (m + n) OBVIOUS
  <2> QED BY <2>2, <2>3, <2>4, Zenon
<1>10. ASSUME NEW k \in DOMAIN tokens'
       PROVE  tokens'[k].line = 1 + Cardinality(Below(Newlines', tokens'[k].start))
  <2>1. CASE k \in DOMAIN tokens /\ tokens'[k] = tokens[k]
    <3>1. tokens[k].start \in Nat /\ tokens[k].start <= pos BY <2>1, Positions
    <3>2. Below(Newlines', tokens[k].start) = Below(Newlines, tokens[k].start) BY <3>1, <1>4
    <3> QED BY <2>1, <3>2, <1>8
  <2>2. CASE /\ tokens'[k].line = line /\ tokens'[k].start \in pos .. pos'
             /\ \A i \in P : tokens'[k].start <= i
    <3>1. tokens'[k].start \in Nat /\ pos <= tokens'[k].start BY <1>1, <2>2
    <3>2. Below(Newlines', tokens'[k].start) = Newlines BY <3>1, <1>4, <2>2
    <3> QED BY <2>2, <3>2, <1>8
  <2> QED BY <2>1, <2>2
<1>11. LinesRight' BY <1>9, <1>10 DEF LinesRight
<1> QED BY <1>11, LinesSplit, PTL

\* A step that consumes blanks and comments.
BlankStep ==
  /\ UNCHANGED <<content, tokens>> /\ pos' \in pos .. Len(content) + 1
  /\ pc # "failed" /\ (pc' = "done" => pos' = Len(content) + 1)
  /\ \A i \in pos .. pos' - 1 : content[i] \in {Space, Newline} \/ InComment(i)
  /\ line' = line + Cardinality({i \in pos .. pos' - 1 : content[i] = Newline})

LEMMA BlankKeeps ==
  ASSUME TInv, BlankStep
  PROVE  Kept
<1>1. pos' \in pos .. Len(content) + 1 /\ content' = content /\ tokens' = tokens BY DEF BlankStep
<1>2. /\ pos \in Nat \ {0} /\ pos' \in Nat /\ pos <= pos'
      /\ \A k \in DOMAIN tokens : /\ tokens[k].start \in Nat /\ tokens[k].len \in Nat
                                  /\ tokens[k].start + tokens[k].len <= pos
  BY <1>1, Positions
<1>3. /\ \A i : InToken(i)' <=> InToken(i)
      /\ \A i : InString(i)' <=> InString(i)
  BY <1>1 DEF InToken, InString, Span
<1>4. \A i : InComment(i)' <=> InComment(i) BY <1>1 DEF InToken, InComment, Span
<1>5. NothingLost'
  <2>1. \A k, m \in DOMAIN tokens' : k < m => tokens'[k].start + tokens'[k].len <= tokens'[m].start
    BY <1>1 DEF TInv, NothingLost
  <2>2. \A k \in DOMAIN tokens' : tokens'[k].start + tokens'[k].len <= pos' BY <1>1, <1>2
  <2>3. ASSUME NEW i \in 1 .. pos' - 1
        PROVE  InToken(i)' \/ content'[i] \in {Space, Newline} \/ InComment(i)'
    <3>1. CASE i \in 1 .. pos - 1 BY <3>1, <1>1, <1>3, <1>4 DEF TInv, NothingLost
    <3>2. CASE i \in pos .. pos' - 1
      <4>1. content[i] \in {Space, Newline} \/ InComment(i) BY <3>2 DEF BlankStep
      <4>2. InComment(i) => InComment(i)' BY <1>4
      <4> QED BY <4>1, <4>2, <1>1
    <3>3. i \in 1 .. pos - 1 \/ i \in pos .. pos' - 1 BY <1>2, IntervalSplit
    <3> QED BY <3>1, <3>2, <3>3
  <2>4. pc' = "done" => pos' = Len(content') + 1 BY <1>1 DEF BlankStep
  <2> QED BY <2>1, <2>2, <2>3, <2>4 DEF NothingLost
<1>6. ASSUME TokensWellFormed PROVE TokensWellFormed'
  <2>1. pc # "failed" BY DEF BlankStep
  <2> QED BY <1>1, <1>6, <2>1 DEF TokensWellFormed, Span
<1>7. LinesOutsideStrings'
  <2> DEFINE P == {i \in pos .. pos' - 1 : content[i] = Newline}
  <2>1. \A i \in pos .. pos' - 1 : ~InString(i)
    <3> SUFFICES ASSUME NEW i \in pos .. pos' - 1, NEW k \in DOMAIN tokens, i \in Span(tokens[k])
                 PROVE  FALSE
      BY DEF InString
    <3> QED BY <1>2 DEF Span
  <2>2. Newlines' = {i \in 1 .. pos' - 1 : ~InString(i) /\ content[i] = Newline}
    <3>1. Newlines' = {i \in 1 .. pos' - 1 : ~InString(i)' /\ content'[i] = Newline}
      BY DEF Newlines
    <3>2. \A i : InString(i)' <=> InString(i) BY <1>3
    <3> QED BY <3>1, <3>2, <1>1
  <2>3. \A i : i \in 1 .. pos' - 1 <=> i \in 1 .. pos - 1 \/ i \in pos .. pos' - 1
    BY <1>2, IntervalSplit
  <2>4. Newlines' = Newlines \cup P BY <2>1, <2>2, <2>3, Zenon DEF Newlines
  <2>5. line' = line + Cardinality(P) BY DEF BlankStep
  <2>6. P \in SUBSET (pos .. pos' - 1) OBVIOUS
  <2> HIDE DEF P
  <2> QED BY <1>1, <2>4, <2>5, <2>6, LinesGrow
<1> QED BY <1>5, <1>6, <1>7 DEF Kept, KeptText

\* A step that consumes a token, the blanks before it and those after it.
TokenStep(t) ==
  /\ UNCHANGED content /\ pos' \in pos .. Len(content) + 1
  /\ pc # "failed" /\ pc' # "done"
  /\ tokens' = Append(tokens, t) /\ t \in Token
  /\ t.start \in pos .. pos' /\ t.start + t.len <= pos' /\ t.line = line
  /\ \A i \in pos .. pos' - 1 : i \in Span(t) \/ content[i] = Space
  /\ line' = line + Cardinality({i \in pos .. pos' - 1 : content[i] = Newline /\ ~StringAt(t, i)})

\* The tokens after an append.
LEMMA Appended ==
  ASSUME NEW S, NEW s \in Seq(S), NEW e \in S
  PROVE  /\ \A k : k \in DOMAIN Append(s, e) <=> k \in DOMAIN s \/ k = Len(s) + 1
         /\ \A k \in DOMAIN s : Append(s, e)[k] = s[k] /\ k < Len(s) + 1
         /\ Append(s, e)[Len(s) + 1] = e
         /\ DOMAIN s \subseteq Nat /\ Len(s) \in Nat
<1>1. /\ Append(s, e) \in Seq(S) /\ Len(Append(s, e)) = Len(s) + 1
      /\ \A k \in 1 .. Len(s) : Append(s, e)[k] = s[k]
      /\ Append(s, e)[Len(s) + 1] = e
  BY AppendProperties
<1>2. DOMAIN s = 1 .. Len(s) /\ Len(s) \in Nat OBVIOUS
<1>3. DOMAIN Append(s, e) = 1 .. Len(s) + 1 BY <1>1
<1> QED BY <1>1, <1>2, <1>3

LEMMA TokenKeeps ==
  ASSUME TInv, NEW t, TokenStep(t)
  PROVE  KeptText /\ (TokensWellFormed /\ FitsIn(t) => TokensWellFormed')
<1>1. /\ pos' \in pos .. Len(content) + 1 /\ content' = content
      /\ tokens' = Append(tokens, t) /\ t \in Token
  BY DEF TokenStep
<1>2. /\ pos \in Nat \ {0} /\ pos' \in Nat /\ pos <= pos' /\ tokens \in Seq(Token)
      /\ \A k \in DOMAIN tokens : /\ tokens[k].start \in Nat /\ tokens[k].len \in Nat
                                  /\ tokens[k].start + tokens[k].len <= pos
  BY <1>1, Positions
<1> DEFINE n == Len(tokens) + 1
<1>3. /\ \A k : k \in DOMAIN tokens' <=> k \in DOMAIN tokens \/ k = n
      /\ \A k \in DOMAIN tokens : tokens'[k] = tokens[k] /\ k < n
      /\ tokens'[n] = t /\ DOMAIN tokens \subseteq Nat /\ n \in Nat
  BY <1>1, <1>2, Appended
<1> HIDE DEF n
<1>4. t.start \in Nat /\ t.len \in Nat /\ pos <= t.start /\ t.start + t.len <= pos'
  <2>1. t.start \in Nat /\ t.len \in Nat BY <1>1 DEF Token
  <2>2. t.start \in pos .. pos' /\ t.start + t.len <= pos' BY DEF TokenStep
  <2> QED BY <1>2, <2>1, <2>2
<1>5. /\ \A i : InToken(i)' <=> InToken(i) \/ i \in Span(t)
      /\ \A i : InString(i)' <=> InString(i) \/ StringAt(t, i)
  <2>1. \A i : InToken(i)' <=> \E k \in DOMAIN tokens' : i \in Span(tokens'[k])
    BY DEF InToken, Span
  <2>2. \A i : InString(i)' <=> \E k \in DOMAIN tokens' : StringAt(tokens'[k], i)
    BY <1>1 DEF InString, StringAt, Span
  <2>3. \A i : InToken(i)' <=> InToken(i) \/ i \in Span(t)
    BY <1>3, <2>1, Zenon DEF InToken
  <2>4. \A i : InString(i)' <=> InString(i) \/ StringAt(t, i)
    BY <1>3, <2>2, InStringSplit, Zenon
  <2> QED BY <2>3, <2>4
<1>6. \A i \in 1 .. pos - 1 : i \notin Span(t) BY <1>2, <1>4 DEF Span
<1>7. \A i \in 1 .. pos - 1 : InComment(i) => InComment(i)'
  <2> SUFFICES ASSUME NEW i \in 1 .. pos - 1, InComment(i) PROVE InComment(i)' OBVIOUS
  <2>1. PICK h \in 1 .. i : /\ content[h] = kCommentBegin
                            /\ \A j \in h .. i : content[j] # Newline /\ ~InToken(j)
    BY DEF InComment
  <2>2. \A j \in h .. i : j \in 1 .. pos - 1 BY <1>2, <2>1
  <2>3. \A j \in h .. i : ~InToken(j)' BY <1>5, <1>6, <2>1, <2>2
  <2> QED BY <1>1, <2>1, <2>3 DEF InComment
<1>8. NothingLost'
  <2>1. ASSUME NEW k \in DOMAIN tokens', NEW m \in DOMAIN tokens', k < m
        PROVE  tokens'[k].start + tokens'[k].len <= tokens'[m].start
    <3>1. CASE m \in DOMAIN tokens
      <4>1. k # n BY <1>3, <2>1, <3>1
      <4>2. k \in DOMAIN tokens BY <1>3, <4>1
      <4> QED BY <1>3, <2>1, <3>1, <4>2 DEF TInv, NothingLost
    <3>2. CASE m = n
      <4>1. k \in DOMAIN tokens BY <1>3, <2>1, <3>2
      <4>2. tokens[k].start + tokens[k].len <= t.start BY <1>2, <1>4, <4>1
      <4> QED BY <1>3, <3>2, <4>1, <4>2
    <3> QED BY <1>3, <3>1, <3>2
  <2>2. ASSUME NEW k \in DOMAIN tokens'
        PROVE  tokens'[k].start + tokens'[k].len <= pos'
    <3>1. CASE k \in DOMAIN tokens BY <1>2, <1>3, <3>1
    <3>2. CASE k = n BY <1>3, <1>4, <3>2
    <3> QED BY <1>3, <3>1, <3>2
  <2>3. ASSUME NEW i \in 1 .. pos' - 1
        PROVE  InToken(i)' \/ content'[i] \in {Space, Newline} \/ InComment(i)'
    <3>1. CASE i \in 1 .. pos - 1 BY <3>1, <1>1, <1>5, <1>7 DEF TInv, NothingLost
    <3>2. CASE i \in pos .. pos' - 1 BY <3>2, <1>1, <1>5 DEF TokenStep
    <3>3. i \in 1 .. pos - 1 \/ i \in pos .. pos' - 1 BY <1>2, IntervalSplit
    <3> QED BY <3>1, <3>2, <3>3
  <2>4. pc' # "done" BY DEF TokenStep
  <2> QED BY <2>1, <2>2, <2>3, <2>4 DEF NothingLost
<1>9. ASSUME TokensWellFormed, FitsIn(t) PROVE TokensWellFormed'
  <2>1. \A u : WellFormed(u) => (WellFormed(u))' BY <1>1 DEF WellFormed, Span
  <2>2. ASSUME NEW k \in DOMAIN tokens'
        PROVE  (WellFormed(tokens[k]))' /\ (tokens'[k].kind = "key" => tokens'[k].len > 0 \/ pc' = "failed")
    <3>1. CASE k \in DOMAIN tokens
      <4>1. WellFormed(tokens[k]) /\ (tokens[k].kind = "key" => tokens[k].len > 0)
        BY <1>9, <3>1, TokensWellFormedSplit DEF TokenStep, EachWellFormed
      <4>2. tokens'[k] = tokens[k] BY <1>3, <3>1
      <4> QED BY <1>1, <4>1, <4>2 DEF WellFormed, Span
    <3>2. CASE k = n
      <4>1. WellFormed(t) /\ (t.kind = "key" => t.len > 0 \/ pc' = "failed") BY <1>9 DEF FitsIn
      <4>2. tokens'[k] = t BY <1>3, <3>2
      <4> QED BY <1>1, <4>1, <4>2 DEF WellFormed, Span
    <3> QED BY <1>3, <3>1, <3>2
  <2>3. EachWellFormed' BY <2>2 DEF EachWellFormed
  <2> QED BY <2>3, TokensWellFormedSplit, PTL
<1>10. LinesOutsideStrings'
  <2> DEFINE P == {i \in pos .. pos' - 1 : content[i] = Newline /\ ~StringAt(t, i)}
  <2>1. \A i \in pos .. pos' - 1 : ~InString(i)
    <3> SUFFICES ASSUME NEW i \in pos .. pos' - 1, NEW k \in DOMAIN tokens, i \in Span(tokens[k])
                 PROVE  FALSE
      BY DEF InString
    <3> QED BY <1>2 DEF Span
  <2>2. Newlines' = {i \in 1 .. pos' - 1 : ~(InString(i) \/ StringAt(t, i)) /\ content[i] = Newline}
    <3>1. Newlines' = {i \in 1 .. pos' - 1 : ~InString(i)' /\ content'[i] = Newline}
      BY DEF Newlines
    <3> QED BY <3>1, <1>1, <1>5
  <2>3. \A i : i \in 1 .. pos' - 1 <=> i \in 1 .. pos - 1 \/ i \in pos .. pos' - 1
    BY <1>2, IntervalSplit
  <2>4. \A i \in 1 .. pos - 1 : ~StringAt(t, i) BY <1>6 DEF StringAt
  <2>5. Newlines' = Newlines \cup P BY <2>1, <2>2, <2>3, <2>4, Zenon DEF Newlines
  <2>6. line' = line + Cardinality(P) BY DEF TokenStep
  <2>7. P \in SUBSET (pos .. pos' - 1) OBVIOUS
  <2>8. \A i \in P : t.start <= i
    <3>1. \A i \in P : i \in Span(t) BY DEF TokenStep, Newline, Space
    <3> QED BY <1>4, <3>1 DEF Span
  <2> HIDE DEF P
  <2>9. t.line = line /\ t.start \in pos .. pos' BY DEF TokenStep
  <2>10. \A k \in DOMAIN tokens' :
           \/ k \in DOMAIN tokens /\ tokens'[k] = tokens[k]
           \/ /\ tokens'[k].line = line /\ tokens'[k].start \in pos .. pos'
              /\ \A i \in P : tokens'[k].start <= i
    BY <1>3, <2>8, <2>9
  <2> QED BY <1>1, <2>5, <2>6, <2>7, <2>10, LinesGrow
<1> QED BY <1>8, <1>9, <1>10 DEF KeptText

-----------------------------------------------------------------------------
(* One lemma per action.                                                   *)

\* What stands before the next token is blank.
LEMMA TrimmedBlank == TypeOK => \A i \in pos .. Trimmed - 1 : content[i] = Space
<1> SUFFICES ASSUME TypeOK PROVE \A i \in pos .. Trimmed - 1 : content[i] = Space OBVIOUS
<1>1. content \in Seq(Char) /\ pos \in 1 .. Len(content) + 1 BY DEF TypeOK
<1> QED BY <1>1, TrimLeftRange DEF Trimmed

\* The spaces and comments consumed hold no newline.
LEMMA NoNewlineKeeps ==
  ASSUME TInv, UNCHANGED <<content, tokens, line>>, pos' \in pos .. Len(content) + 1,
         pc # "failed", pc' = "done" => pos' = Len(content) + 1,
         \A i \in pos .. pos' - 1 : content[i] # Newline /\ (content[i] = Space \/ InComment(i))
  PROVE  Kept
<1>1. {i \in pos .. pos' - 1 : content[i] = Newline} = {} OBVIOUS
<1>2. line' = line + 0 BY DEF TInv, IInv, TypeOK
<1>3. line' = line + Cardinality({i \in pos .. pos' - 1 : content[i] = Newline})
  BY <1>1, <1>2, FS_EmptySet
<1>4. BlankStep BY <1>3 DEF BlankStep
<1> QED BY <1>4, BlankKeeps

\* An error drops no more than the spaces before it.
LEMMA GiveUpKeeps ==
  ASSUME TInv, pc # "failed", NEW p \in pos .. Len(content) + 1, NEW message,
         \A i \in pos .. p - 1 : content[i] = Space, GiveUp(p, message)
  PROVE  Kept
<1>1. UNCHANGED <<content, tokens, line>> /\ pos' = p /\ pc' = "failed" BY DEF GiveUp, Fail
<1>2. pos' \in pos .. Len(content) + 1 /\ (pc' = "done" => pos' = Len(content) + 1) BY <1>1
<1>3. \A i \in pos .. pos' - 1 : content[i] # Newline /\ (content[i] = Space \/ InComment(i))
  BY <1>1 DEF Newline, Space
<1> QED BY <1>1, <1>2, <1>3, NoNewlineKeeps

\* An error at the next token.
LEMMA GiveUpAtTrimmed ==
  ASSUME TInv, pc # "failed", NEW message, GiveUp(Trimmed, message)
  PROVE  Kept
<1>1. TypeOK BY DEF TInv, IInv
<1>2. Trimmed \in pos .. Len(content) + 1 BY <1>1, TrimmedRange
<1> QED BY <1>1, <1>2, TrimmedBlank, GiveUpKeeps

\* scan returns.
LEMMA DoneKeeps == TInv /\ Done => Kept
<1> SUFFICES ASSUME TInv, Done PROVE Kept OBVIOUS
<1>1. /\ TypeOK /\ UNCHANGED <<content, pos, line, tokens>> /\ pc = "loop" /\ pc' = "done"
      /\ pos > Len(content)
  BY DEF TInv, IInv, Done, AtDocumentEnd
<1>2. pos' \in pos .. Len(content) + 1 /\ pos' = Len(content) + 1 BY <1>1, TrimmedRange
<1>3. \A i \in pos .. pos' - 1 : FALSE BY <1>1, TrimmedRange
<1> QED BY <1>1, <1>2, <1>3, NoNewlineKeeps

\* scan_newline.
LEMMA NewlineKeeps == TInv /\ ScanNewline => Kept
<1> SUFFICES ASSUME TInv, ScanNewline PROVE Kept OBVIOUS
<1>1. /\ TypeOK /\ UNCHANGED <<content, tokens>> /\ pc = "loop" /\ pc' = "loop"
      /\ line' = line + 1 /\ pos' = Trimmed + 1 /\ Trimmed <= Len(content)
      /\ content[Trimmed] = Newline
  BY DEF TInv, IInv, ScanNewline, Advance, Expect, InLoop
<1>2. /\ pos \in Nat /\ Trimmed \in pos .. Len(content) + 1 /\ Len(content) \in Nat
      /\ \A i \in pos .. Trimmed - 1 : content[i] = Space
  BY <1>1, TrimmedRange, TrimmedBlank
<1>3. pos' \in pos .. Len(content) + 1 BY <1>1, <1>2
<1>4. \A i : i \in pos .. pos' - 1 <=> i \in pos .. Trimmed - 1 \/ i = Trimmed BY <1>1, <1>2
<1>5. {i \in pos .. pos' - 1 : content[i] = Newline} = {Trimmed}
  BY <1>1, <1>2, <1>4 DEF Newline, Space
<1>6. Cardinality({Trimmed}) = 1 BY FS_Singleton
<1>7. BlankStep BY <1>1, <1>2, <1>3, <1>4, <1>5, <1>6 DEF BlankStep
<1> QED BY <1>7, BlankKeeps

\* scan_comment: what it drops is a comment, which no token overlaps.
LEMMA CommentKeeps == TInv /\ ScanComment => Kept
<1> SUFFICES ASSUME TInv, ScanComment PROVE Kept OBVIOUS
<1> DEFINE newline == IndexAny(content, Trimmed, {Newline})
<1>1. /\ TypeOK /\ pc = "loop" /\ Trimmed <= Len(content) /\ content[Trimmed] = kCommentBegin
      /\ content \in Seq(Char)
  BY DEF TInv, IInv, TypeOK, ScanComment, InLoop, Expect
<1>2. /\ pos \in Nat \ {0} /\ Trimmed \in pos .. Len(content) + 1 /\ Len(content) \in Nat
      /\ \A i \in pos .. Trimmed - 1 : content[i] = Space
  BY <1>1, TrimmedRange, TrimmedBlank
<1>3. CASE newline = 0
  <2>1. GiveUp(Trimmed, "comment_does_not_end_with_newline") BY <1>3 DEF ScanComment
  <2> QED BY <1>1, <2>1, GiveUpAtTrimmed
<1>4. CASE newline # 0
  <2>1. UNCHANGED <<content, line, tokens>> /\ pos' = newline + 0 /\ pc' = "loop"
    BY <1>4 DEF ScanComment, Advance
  <2>2. /\ newline \in Trimmed .. Len(content)
        /\ \A j \in Trimmed .. newline - 1 : content[j] # Newline
    <3>1. Trimmed \in Nat \ {0} BY <1>2
    <3> QED BY <1>1, <1>4, <3>1, IndexAnyFirst
  <2> HIDE DEF newline
  <2>3. pos' = newline /\ pos' \in pos .. Len(content) + 1 BY <1>2, <2>1, <2>2
  <2>4. \A i : i >= pos => ~InToken(i)
    <3> SUFFICES ASSUME NEW i, i >= pos, NEW k \in DOMAIN tokens, i \in Span(tokens[k])
                 PROVE  FALSE
      BY DEF InToken
    <3>1. tokens[k].start + tokens[k].len <= pos /\ tokens[k].start \in Nat /\ tokens[k].len \in Nat
      BY <2>3, Positions
    <3> QED BY <1>2, <3>1 DEF Span
  <2>5. ASSUME NEW i \in pos .. newline - 1
        PROVE  content[i] # Newline /\ (content[i] = Space \/ InComment(i))
    <3>1. CASE i \in pos .. Trimmed - 1 BY <1>2, <3>1 DEF Space, Newline
    <3>2. CASE i \in Trimmed .. newline - 1
      <4>1. Trimmed \in 1 .. i /\ \A j \in Trimmed .. i : j \in Trimmed .. newline - 1 /\ j >= pos
        BY <1>2, <2>2, <3>2
      <4>2. \A j \in Trimmed .. i : content[j] # Newline /\ ~InToken(j) BY <2>2, <2>4, <4>1
      <4>3. InComment(i) BY <1>1, <4>1, <4>2 DEF InComment
      <4> QED BY <2>2, <3>2, <4>3
    <3> QED BY <1>2, <2>2, <3>1, <3>2
  <2> QED BY <1>1, <2>1, <2>3, <2>5, NoNewlineKeeps
<1> QED BY <1>3, <1>4

\* The input ends inside a list or table.
LEMMA UnclosedKeeps == TInv /\ ScanUnclosed => Kept
<1> SUFFICES ASSUME TInv, ScanUnclosed PROVE Kept OBVIOUS
<1>1. pc = "loop" /\ \E message : GiveUp(Trimmed, message) BY DEF ScanUnclosed, InLoop
<1> QED BY <1>1, GiveUpAtTrimmed

\* A delimiter is consumed, and the spaces before it.
LEMMA DelimKeeps ==
  ASSUME TInv, pc # "failed", pc' # "done", NEW p \in pos .. Len(content),
         content[p] # Newline, \A i \in pos .. p - 1 : content[i] = Space,
         tokens' = Append(tokens, Delim(p)), UNCHANGED <<content, line>>, pos' = p + 1
  PROVE  Kept
<1> DEFINE t == Delim(p)
<1>1. TypeOK BY DEF TInv, IInv
<1>2. pos \in Nat /\ Len(content) \in Nat /\ p \in Nat BY <1>1, TrimmedRange
<1>3. pos' \in pos .. Len(content) + 1 /\ p \in pos .. pos' /\ p + 1 <= pos' BY <1>2
<1>4. t \in Token /\ t.kind = "delim" /\ t.start = p /\ t.len = 1 /\ t.line = line
  BY <1>1, <1>2, DelimType DEF Delim
<1> HIDE DEF t
<1>5. FitsIn(t) BY <1>4 DEF FitsIn, WellFormed
<1>6. \A i : i \in pos .. pos' - 1 <=> i \in pos .. p - 1 \/ i = p BY <1>2
<1>7. \A i \in pos .. pos' - 1 : i \in Span(t) \/ content[i] = Space
  <2>1. p \in Span(t) BY <1>2, <1>4 DEF Span
  <2> QED BY <1>6, <2>1
<1>8. {i \in pos .. pos' - 1 : content[i] = Newline /\ ~StringAt(t, i)} = {}
  BY <1>6 DEF Newline, Space
<1>9. line' = line + Cardinality({i \in pos .. pos' - 1 : content[i] = Newline /\ ~StringAt(t, i)})
  <2>1. line' = line + 0 BY <1>1 DEF TypeOK
  <2> QED BY <1>8, <2>1, FS_EmptySet
<1>10. TokenStep(t) BY <1>3, <1>4, <1>7, <1>9 DEF TokenStep, t
<1> QED BY <1>5, <1>10, TokenKeeps DEF Kept

\* A closing bracket.
LEMMA CloseKeeps ==
  ASSUME TInv, pc # "failed", NEW p \in pos .. Len(content) + 1,
         \A i \in pos .. p - 1 : content[i] = Space, Close(p)
  PROVE  Kept
<1>1. /\ UNCHANGED <<content, line>> /\ tokens' = Append(tokens, Delim(p))
      /\ pos' = p + 1 /\ pc' = "end" /\ p <= Len(content) /\ content[p] \in {kListEnd, kTableEnd}
  BY DEF Close, Advance, Expect, Closer
<1>2. p \in pos .. Len(content)
  <2>1. TypeOK BY DEF TInv, IInv
  <2> QED BY <1>1, <2>1, TrimmedRange
<1> QED BY <1>1, <1>2, DelimKeeps DEF kListEnd, kTableEnd, Newline

\* A closing bracket at the start of an iteration.
LEMMA ScanCloseKeeps == TInv /\ ScanClose => Kept
<1> SUFFICES ASSUME TInv, ScanClose PROVE Kept OBVIOUS
<1>1. TypeOK /\ pc # "failed" BY DEF TInv, IInv, ScanClose, InLoop
<1>2. Trimmed \in pos .. Len(content) + 1 BY <1>1, TrimmedRange
<1> QED BY <1>1, <1>2, TrimmedBlank, CloseKeeps DEF ScanClose

\* After an item.
LEMMA AfterItemKeeps == TInv /\ AfterItem => Kept
<1> SUFFICES ASSUME TInv, AfterItem PROVE Kept OBVIOUS
<1>1. TypeOK /\ pc # "failed" BY DEF TInv, IInv, AfterItem
<1>2. pos \in pos .. Len(content) + 1 /\ \A i \in pos .. pos - 1 : FALSE BY <1>1, TrimmedRange
<1>3. CASE Close(pos) BY <1>1, <1>2, <1>3, CloseKeeps
<1>4. CASE pc' = "loop" /\ UNCHANGED <<content, pos, line, tokens, stack, error>>
  BY <1>1, <1>2, <1>4, NoNewlineKeeps
<1> QED BY <1>3, <1>4 DEF AfterItem

\* The separator.
LEMMA SeparatorKeeps == TInv /\ ScanSeparator => Kept
<1> SUFFICES ASSUME TInv, ScanSeparator PROVE Kept OBVIOUS
<1>1. /\ TypeOK /\ pc = "sep" /\ pc' = "value" /\ Expect(pos, kKeyValSep)
      /\ tokens' = Append(tokens, Delim(pos)) /\ UNCHANGED <<content, line>> /\ pos' = pos + 1
  BY DEF TInv, IInv, ScanSeparator, Advance
<1>2. pos \in pos .. Len(content) /\ content[pos] # Newline /\ \A i \in pos .. pos - 1 : FALSE
  BY <1>1, TrimmedRange DEF Expect, kKeyValSep, Newline
<1> QED BY <1>1, <1>2, DelimKeeps

\* An opening bracket.
LEMMA OpenKeeps ==
  ASSUME TInv, NEW bracket \in {kListBegin, kTableBegin}, NEW kind, Open(bracket, kind)
  PROVE  Kept
<1>1. /\ TypeOK /\ pc # "failed" /\ pc' = "loop" /\ Expect(Trimmed, bracket)
      /\ tokens' = Append(tokens, Delim(Trimmed)) /\ UNCHANGED <<content, line>>
      /\ pos' = Trimmed + 1
  BY AtValuePhase DEF TInv, IInv, Open, Advance
<1>2. Trimmed \in pos .. Len(content) /\ content[Trimmed] # Newline
  BY <1>1, TrimmedRange DEF Expect, kListBegin, kTableBegin, Newline
<1>3. \A i \in pos .. Trimmed - 1 : content[i] = Space BY <1>1, TrimmedBlank
<1> QED BY <1>1, <1>2, <1>3, DelimKeeps

\* The end of a value.
LEMMA ValueEndKeeps == TInv /\ ScanValueEnd => Kept
<1> SUFFICES ASSUME TInv, ScanValueEnd PROVE Kept OBVIOUS
<1>1. TypeOK /\ pc = "end" BY DEF TInv, IInv, ScanValueEnd
<1>2. pos \in pos .. Len(content) + 1 /\ \A i \in pos .. pos - 1 : FALSE BY <1>1, TrimmedRange
<1>3. CASE Expect(pos, kKeyValEnd)
  <2>1. /\ tokens' = Append(tokens, Delim(pos)) /\ UNCHANGED <<content, line>>
        /\ pos' = pos + 1 /\ pc' # "done"
    BY <1>3 DEF ScanValueEnd, Advance
  <2>2. pos \in pos .. Len(content) /\ content[pos] # Newline
    BY <1>2, <1>3 DEF Expect, kKeyValEnd, Newline
  <2> QED BY <1>1, <1>2, <2>1, <2>2, DelimKeeps
<1>4. CASE ~Expect(pos, kKeyValEnd)
  <2>1. GiveUp(pos, "value_does_not_end_with_semicolon") BY <1>4 DEF ScanValueEnd
  <2> QED BY <1>1, <1>2, <2>1, GiveUpKeeps
<1> QED BY <1>3, <1>4

-----------------------------------------------------------------------------
(* Keys and values.                                                        *)

\* What a lexeme spans, and that what is trimmed from it is blank.
LEMMA LexemeSpan ==
  ASSUME TypeOK, NEW kind \in {"key", "value"}, NEW n \in Nat, Trimmed + n <= Len(content) + 1
  PROVE  LET t == Lexeme(kind, Trimmed, n)
         IN  /\ t \in Token /\ t.kind = kind /\ t.start = Trimmed /\ t.line = line
             /\ t.len \in 0 .. n
             /\ \A i \in pos .. Trimmed + n - 1 : i \in Span(t) \/ content[i] = Space
             /\ \A i \in Span(t) : i \in Trimmed .. Trimmed + n - 1
             /\ n > 0 /\ content[Trimmed + n - 1] # Space => t.len = n
<1> DEFINE t == Lexeme(kind, Trimmed, n)
           m == TrimRight(content, Trimmed, n)
<1>1. /\ pos \in Nat /\ Trimmed \in Nat /\ pos <= Trimmed
      /\ \A i \in pos .. Trimmed - 1 : content[i] = Space
  BY TrimmedRange, TrimmedBlank
<1>2. m \in 0 .. n /\ \A j \in m + 1 .. n : content[Trimmed + j - 1] = Space
  BY <1>1, TrimRightRange
<1>3. t \in Token /\ t.kind = kind BY <1>1, LexemeType
<1>4. t.start = Trimmed /\ t.line = line /\ t.len = m BY DEF Lexeme
<1> HIDE DEF t, m
<1>5. ASSUME NEW i \in pos .. Trimmed + n - 1
      PROVE  i \in Span(t) \/ content[i] = Space
  <2>1. CASE i \in pos .. Trimmed - 1 BY <1>1, <2>1
  <2>2. CASE i \in Trimmed .. Trimmed + m - 1 BY <1>4, <2>2 DEF Span
  <2>3. CASE i \in Trimmed + m .. Trimmed + n - 1
    <3>1. i - Trimmed + 1 \in m + 1 .. n /\ Trimmed + (i - Trimmed + 1) - 1 = i
      BY <1>1, <1>2, <2>3
    <3> QED BY <1>2, <3>1
  <2> QED BY <1>1, <1>2, <2>1, <2>2, <2>3
<1>6. \A i \in Span(t) : i \in Trimmed .. Trimmed + n - 1 BY <1>1, <1>2, <1>4 DEF Span
<1>7. n > 0 /\ content[Trimmed + n - 1] # Space => m = n BY <1>2
<1> QED BY <1>2, <1>3, <1>4, <1>5, <1>6, <1>7 DEF t

\* A key or a value of n characters is consumed, trailing spaces included.
LEMMA LexemeKeeps ==
  ASSUME TInv, pc # "failed", pc' # "done", UNCHANGED content,
         NEW kind \in {"key", "value"}, NEW n \in Nat, Trimmed + n <= Len(content) + 1,
         NEW t, t = Lexeme(kind, Trimmed, n), tokens' = Append(tokens, t), pos' = Trimmed + n,
         line' = line + Cardinality({i \in Trimmed .. Trimmed + n - 1 :
                                       content[i] = Newline /\ ~StringAt(t, i)})
  PROVE  KeptText /\ (TokensWellFormed /\ FitsIn(t) => TokensWellFormed')
<1>1. TypeOK BY DEF TInv, IInv
<1>2. /\ pos \in Nat /\ Len(content) \in Nat /\ Trimmed \in pos .. Len(content) + 1
      /\ \A i \in pos .. Trimmed - 1 : content[i] = Space
  BY <1>1, TrimmedRange, TrimmedBlank
<1>3. /\ t \in Token /\ t.kind = kind /\ t.start = Trimmed /\ t.line = line /\ t.len \in 0 .. n
      /\ \A i \in pos .. Trimmed + n - 1 : i \in Span(t) \/ content[i] = Space
  BY <1>1, LexemeSpan
<1>4. pos' \in pos .. Len(content) + 1 /\ Trimmed \in pos .. pos' /\ Trimmed + t.len <= pos'
  BY <1>2, <1>3
<1>5. \A i : i \in pos .. Trimmed + n - 1 <=> i \in pos .. Trimmed - 1 \/ i \in Trimmed .. Trimmed + n - 1
  BY <1>2
<1>6. {i \in pos .. Trimmed + n - 1 : content[i] = Newline /\ ~StringAt(t, i)}
        = {i \in Trimmed .. Trimmed + n - 1 : content[i] = Newline /\ ~StringAt(t, i)}
  BY <1>2, <1>5 DEF Newline, Space
<1>7. pos' - 1 = Trimmed + n - 1 BY <1>2
<1>8. /\ \A i \in pos .. pos' - 1 : i \in Span(t) \/ content[i] = Space
      /\ line' = line + Cardinality({i \in pos .. pos' - 1 :
                                       content[i] = Newline /\ ~StringAt(t, i)})
  BY <1>3, <1>6, <1>7, Zenon
<1>9. TokenStep(t) BY <1>3, <1>4, <1>8 DEF TokenStep
<1> QED BY <1>9, TokenKeeps

\* Where nothing is counted.
LEMMA SameLine ==
  ASSUME TypeOK, UNCHANGED line, NEW S, S = {}
  PROVE  line' = line + Cardinality(S)
<1>1. line' = line + 0 BY DEF TypeOK
<1> QED BY <1>1, FS_EmptySet

\* scan_key.
LEMMA KeyKeeps == TInv /\ ScanKey => Kept
<1> SUFFICES ASSUME TInv, ScanKey PROVE Kept OBVIOUS
<1> DEFINE sep == IndexAny(content, Trimmed, {kKeyValSep, kKeyValEnd, Newline})
           key == Lexeme("key", Trimmed, sep - Trimmed)
<1>1. TypeOK /\ pc # "failed" /\ content \in Seq(Char)
  BY DEF TInv, IInv, TypeOK, ScanKey, AtItem, InLoop
<1>2. CASE sep = 0 \/ content[sep] # kKeyValSep
  <2>1. GiveUp(Trimmed, "key_value_pair_is_missing_separator") BY <1>2 DEF ScanKey
  <2> QED BY <1>1, <2>1, GiveUpAtTrimmed
<1>3. CASE sep # 0 /\ content[sep] = kKeyValSep
  <2>1. /\ tokens' = Append(tokens, key) /\ pos' = sep /\ UNCHANGED <<content, line>>
        /\ pc' \in {"failed", "sep"} /\ (key.len = 0 => pc' = "failed")
    BY <1>3 DEF ScanKey, Fail
  <2>2. Trimmed \in Nat \ {0} /\ Len(content) \in Nat BY <1>1, TrimmedRange
  <2>3. /\ sep \in Trimmed .. Len(content)
        /\ \A j \in Trimmed .. sep - 1 : content[j] \notin {kKeyValSep, kKeyValEnd, Newline}
    BY <1>1, <1>3, <2>2, IndexAnyFirst
  <2> HIDE DEF sep
  <2>4. PICK n \in Nat : n = sep - Trimmed BY <2>2, <2>3
  <2>5. pos' = Trimmed + n /\ Trimmed + n <= Len(content) + 1 BY <2>1, <2>2, <2>3, <2>4
  <2>6. key = Lexeme("key", Trimmed, n) BY <2>4
  <2> HIDE DEF key
  <2>7. /\ key.kind = "key" /\ key.len \in 0 .. n
        /\ \A i \in Span(key) : i \in Trimmed .. Trimmed + n - 1
    BY <1>1, <2>5, <2>6, LexemeSpan
  <2>8. \A i \in Trimmed .. Trimmed + n - 1 : content[i] \notin {kKeyValSep, kKeyValEnd, Newline}
    BY <2>2, <2>3, <2>4
  <2>9. WellFormed(key) BY <2>7, <2>8 DEF WellFormed
  <2>10. key.len > 0 \/ pc' = "failed" BY <2>1, <2>7
  <2>11. {i \in Trimmed .. Trimmed + n - 1 : content[i] = Newline /\ ~StringAt(key, i)} = {}
    BY <2>8
  <2>12. FitsIn(key) BY <2>9, <2>10 DEF FitsIn
  <2> QED BY <1>1, <2>1, <2>5, <2>6, <2>11, <2>12, SameLine, LexemeKeeps DEF Kept
<1> QED BY <1>2, <1>3

\* scan_string_value: its newlines are those of a string.
LEMMA StringKeeps == TInv /\ ScanString => Kept
<1> SUFFICES ASSUME TInv, ScanString PROVE Kept OBVIOUS
<1> DEFINE closing == ClosingQuotes(Trimmed)
<1>1. /\ TypeOK /\ pc # "failed" /\ Trimmed \in Nat /\ Len(content) \in Nat
      /\ content[Trimmed] = kStringBegin
  BY AtValuePhase, TrimmedRange DEF TInv, IInv, ScanString, Expect
<1>2. CASE closing = {}
  <2>1. GiveUp(Trimmed, "string_value_does_not_end_with_quote") BY <1>2 DEF ScanString
  <2> QED BY <1>1, <2>1, GiveUpAtTrimmed
<1>3. CASE closing # {}
  <2>1. closing \in SUBSET Nat BY <1>1 DEF ClosingQuotes
  <2>2. PICK q : /\ q = Min(closing) /\ q \in Trimmed + 1 .. Len(content)
                 /\ content[q] = kStringBegin /\ content[q - 1] # Backslash
    <3>1. Min(closing) \in closing BY <1>3, <2>1, Smallest
    <3> QED BY <3>1 DEF ClosingQuotes
  <2>3. PICK n \in Nat : n = q - Trimmed + 1 BY <1>1, <2>2
  <2>4. PICK t : t = Lexeme("value", Trimmed, n) OBVIOUS
  <2>5. /\ tokens' = Append(tokens, t) /\ UNCHANGED <<content, line>>
        /\ pos' = Trimmed + n /\ pc' = "end"
    BY <1>3, <2>2, <2>3, <2>4 DEF ScanString, Advance
  <2>6. /\ Trimmed + n <= Len(content) + 1 /\ n >= 2
        /\ Trimmed + n - 1 = q /\ Trimmed + n - 1 - 1 = q - 1
    BY <1>1, <2>2, <2>3
  <2>7. t.kind = "value" /\ t.start = Trimmed /\ t.len = n
    <3>1. content[Trimmed + n - 1] # Space BY <2>2, <2>6 DEF kStringBegin, Space
    <3> QED BY <1>1, <2>4, <2>6, <3>1, LexemeSpan
  <2>8. WellFormed(t)
    <3>1. content[Trimmed + n - 1] = kStringBegin /\ content[Trimmed + n - 1 - 1] # Backslash
      BY <2>2, <2>6
    <3> QED BY <1>1, <2>6, <2>7, <3>1 DEF WellFormed, kStringBegin, kRawStringBegin
  <2>9. {i \in Trimmed .. Trimmed + n - 1 : content[i] = Newline /\ ~StringAt(t, i)} = {}
    BY <1>1, <2>7 DEF StringAt, Span
  <2>10. FitsIn(t) BY <2>7, <2>8 DEF FitsIn
  <2> QED BY <1>1, <2>4, <2>5, <2>6, <2>9, <2>10, SameLine, LexemeKeeps DEF Kept
<1> QED BY <1>2, <1>3

\* scan_raw_string: its newlines are counted.
LEMMA RawStringKeeps == TInv /\ ScanRawString => Kept
<1> SUFFICES ASSUME TInv, ScanRawString PROVE Kept OBVIOUS
<1> DEFINE closing == IndexAny(content, Trimmed + 1, {kRawStringBegin})
<1>1. /\ TypeOK /\ pc # "failed" /\ Trimmed \in Nat /\ Len(content) \in Nat
      /\ content \in Seq(Char) /\ content[Trimmed] = kRawStringBegin
  BY AtValuePhase, TrimmedRange DEF TInv, IInv, TypeOK, ScanRawString, Expect
<1>2. CASE closing = 0
  <2>1. GiveUp(Trimmed, "raw_string_value_does_not_end_with_backtick")
    BY <1>2 DEF ScanRawString
  <2> QED BY <1>1, <2>1, GiveUpAtTrimmed
<1>3. CASE closing # 0
  <2>1. PICK q : /\ q = closing /\ q \in Trimmed + 1 .. Len(content)
                 /\ content[q] = kRawStringBegin
                 /\ \A j \in Trimmed + 1 .. q - 1 : content[j] # kRawStringBegin
    <3>1. Trimmed + 1 \in Nat \ {0} BY <1>1
    <3>2. /\ closing \in Trimmed + 1 .. Len(content) /\ content[closing] = kRawStringBegin
          /\ \A j \in Trimmed + 1 .. closing - 1 : content[j] # kRawStringBegin
      BY <1>1, <1>3, <3>1, IndexAnyFirst
    <3> HIDE DEF closing
    <3> QED BY <3>2
  <2>2. PICK n \in Nat : n = q - Trimmed + 1 BY <1>1, <2>1
  <2>3. PICK t : t = Lexeme("value", Trimmed, n) OBVIOUS
  <2>4. /\ tokens' = Append(tokens, t) /\ UNCHANGED content
        /\ pos' = Trimmed + n /\ pc' = "end"
        /\ line' = line + CountChar(content, Trimmed, n, Newline)
    BY <1>3, <2>1, <2>2, <2>3 DEF ScanRawString, Advance
  <2> HIDE DEF closing
  <2>5. /\ Trimmed + n <= Len(content) + 1 /\ n >= 2 /\ Trimmed + n - 1 = q
    <3>1. q \in Trimmed + 1 .. Len(content) /\ Trimmed \in Nat /\ Len(content) \in Nat BY <1>1, <2>1
    <3> QED BY <2>2, <3>1
  <2>6. t.kind = "value" /\ t.start = Trimmed /\ t.len = n
    <3>1. content[Trimmed + n - 1] # Space BY <2>1, <2>5 DEF kRawStringBegin, Space
    <3> QED BY <1>1, <2>3, <2>5, <3>1, LexemeSpan
  <2>7. WellFormed(t)
    <3>1. content[Trimmed + n - 1] = kRawStringBegin BY <2>1, <2>5
    <3>2. \A i \in Trimmed + 1 .. Trimmed + n - 1 - 1 : content[i] # kRawStringBegin
      <4>1. Trimmed + n - 1 - 1 = q - 1 BY <1>1, <2>2, <2>5
      <4>2. \A j \in Trimmed + 1 .. q - 1 : content[j] # kRawStringBegin BY <2>1
      <4> QED BY <4>1, <4>2, Zenon
    <3> QED BY <1>1, <2>5, <2>6, <3>1, <3>2 DEF WellFormed, kStringBegin, kRawStringBegin
  <2>8. \A i : ~StringAt(t, i) BY <1>1, <2>6 DEF StringAt, kStringBegin, kRawStringBegin
  <2>9. line' = line + Cardinality({i \in Trimmed .. Trimmed + n - 1 :
                                      content[i] = Newline /\ ~StringAt(t, i)})
    BY <2>4, <2>8 DEF CountChar
  <2>10. FitsIn(t) BY <2>6, <2>7 DEF FitsIn
  <2> QED BY <1>1, <2>3, <2>4, <2>5, <2>9, <2>10, LexemeKeeps DEF Kept
<1> QED BY <1>2, <1>3

\* scan_int_or_bool_value: the value ends before any newline.
LEMMA IntOrBoolKeeps == TInv /\ ScanIntOrBool => Kept
<1> SUFFICES ASSUME TInv, ScanIntOrBool PROVE Kept OBVIOUS
<1> DEFINE ends == {kKeyValEnd, kListEnd, kTableEnd, Newline}
           end  == IndexAny(content, Trimmed, ends)
<1>1. /\ TypeOK /\ pc # "failed" /\ Trimmed \in Nat \ {0} /\ Len(content) \in Nat
      /\ content \in Seq(Char)
  BY AtValuePhase, TrimmedRange DEF TInv, IInv, TypeOK, ScanIntOrBool
<1>2. CASE end = 0 \/ content[end] # kKeyValEnd
  <2>1. GiveUp(Trimmed, "integer_or_boolean_value_does_not_end_with_semicolon")
    BY <1>2 DEF ScanIntOrBool
  <2> QED BY <1>1, <2>1, GiveUpAtTrimmed
<1>3. CASE ~(end = 0 \/ content[end] # kKeyValEnd)
  <2>1. PICK e : /\ e = end /\ e \in Trimmed .. Len(content)
                 /\ \A j \in Trimmed .. e - 1 : content[j] \notin ends
    <3>1. end \in Trimmed .. Len(content) /\ \A j \in Trimmed .. end - 1 : content[j] \notin ends
      BY <1>1, <1>3, IndexAnyFirst
    <3> HIDE DEF end
    <3> QED BY <3>1
  <2>2. PICK n \in Nat : n = e - Trimmed BY <1>1, <2>1
  <2>3. PICK t : t = Lexeme("value", Trimmed, n) OBVIOUS
  <2>4. /\ tokens' = Append(tokens, t) /\ UNCHANGED <<content, line>>
        /\ pos' = Trimmed + n /\ pc' = "end"
    BY <1>3, <2>1, <2>2, <2>3 DEF ScanIntOrBool, Advance
  <2>5. Trimmed + n <= Len(content) + 1 /\ Trimmed <= Len(content) BY <1>1, <2>1, <2>2
  <2>6. /\ t.kind = "value" /\ t.start = Trimmed
        /\ \A i \in Span(t) : i \in Trimmed .. Trimmed + n - 1
    BY <1>1, <2>3, <2>5, LexemeSpan
  <2>7. \A i \in Trimmed .. Trimmed + n - 1 : content[i] \notin ends
    <3>1. e \in Int /\ Trimmed \in Int BY <1>1, <2>1
    <3>2. Trimmed + n - 1 = e - 1 BY <2>2, <3>1
    <3> QED BY <2>1, <3>2, Zenon
  <2>8. WellFormed(t)
    <3>1. content[Trimmed] \notin {kStringBegin, kRawStringBegin}
      BY <2>5 DEF ScanIntOrBool, Expect
    <3> QED BY <2>6, <2>7, <3>1 DEF WellFormed
  <2>9. {i \in Trimmed .. Trimmed + n - 1 : content[i] = Newline /\ ~StringAt(t, i)} = {}
    BY <2>7
  <2>10. FitsIn(t) BY <2>6, <2>8 DEF FitsIn
  <2> QED BY <1>1, <2>3, <2>4, <2>5, <2>9, <2>10, SameLine, LexemeKeeps DEF Kept
<1> QED BY <1>2, <1>3

-----------------------------------------------------------------------------
(* Theorems.                                                               *)

\* Nothing is consumed at first.
LEMMA InitEstablishesTInv == Init => TInv /\ TokensWellFormed
<1> SUFFICES ASSUME Init PROVE TInv /\ TokensWellFormed OBVIOUS
<1>1. IInv BY InitEstablishesIInv
<1>2. pos = 1 /\ line = 1 /\ tokens = <<>> /\ pc = "loop" BY DEF Init
<1>3. DOMAIN tokens = {} /\ \A i \in 1 .. pos - 1 : FALSE BY <1>2
<1>4. NothingLost /\ TokensWellFormed BY <1>2, <1>3 DEF NothingLost, TokensWellFormed
<1>5. LinesOutsideStrings
  <2>1. Below(Newlines, pos) = {} BY <1>3 DEF Below, Newlines
  <2>2. line = 1 + Cardinality(Below(Newlines, pos))
    BY <1>2, <2>1, FS_EmptySet
  <2>3. LinesRight BY <1>3, <2>2 DEF LinesRight
  <2> QED BY <2>3, LinesSplit
<1> QED BY <1>1, <1>4, <1>5 DEF TInv

\* No step loses text, spoils a token or miscounts a line.
LEMMA NextKeeps == TInv /\ Next => Kept
<1> SUFFICES ASSUME TInv, Next PROVE Kept OBVIOUS
<1>1. CASE Done BY <1>1, DoneKeeps
<1>2. CASE ScanNewline BY <1>2, NewlineKeeps
<1>3. CASE ScanComment BY <1>3, CommentKeeps
<1>4. CASE ScanUnclosed BY <1>4, UnclosedKeeps
<1>5. CASE ScanClose BY <1>5, ScanCloseKeeps
<1>6. CASE AfterItem BY <1>6, AfterItemKeeps
<1>7. CASE ScanKey BY <1>7, KeyKeeps
<1>8. CASE ScanSeparator BY <1>8, SeparatorKeeps
<1>9. CASE ScanListBegin BY <1>9, OpenKeeps DEF ScanListBegin
<1>10. CASE ScanTableBegin BY <1>10, OpenKeeps DEF ScanTableBegin
<1>11. CASE ScanString BY <1>11, StringKeeps
<1>12. CASE ScanRawString BY <1>12, RawStringKeeps
<1>13. CASE ScanIntOrBool BY <1>13, IntOrBoolKeeps
<1>14. CASE ScanValueEnd BY <1>14, ValueEndKeeps
<1> QED
  BY <1>1, <1>2, <1>3, <1>4, <1>5, <1>6, <1>7, <1>8, <1>9, <1>10, <1>11, <1>12, <1>13, <1>14
  DEF Next

\* A stuttering step.
LEMMA TokensStutter == TInv /\ UNCHANGED vars => TInv' /\ (TokensWellFormed => TokensWellFormed')
<1> SUFFICES ASSUME TInv, UNCHANGED vars
             PROVE  TInv' /\ (TokensWellFormed => TokensWellFormed')
  OBVIOUS
<1>1. IInv' BY DEF TInv, IInv, TypeOK, vars, Expect
<1>2. NothingLost' BY DEF TInv, vars, NothingLost, InToken, InComment, Span
<1>3. LinesOutsideStrings' BY DEF TInv, vars, LinesOutsideStrings, LineAt, InString, Span
<1>4. TokensWellFormed => TokensWellFormed' BY DEF vars, TokensWellFormed, Span
<1> QED BY <1>1, <1>2, <1>3, <1>4 DEF TInv

\* The inductive invariant.
LEMMA TokensInvariant == Spec => [](TInv /\ TokensWellFormed)
<1>1. TInv /\ Next => TInv' /\ (TokensWellFormed => TokensWellFormed')
  <2>1. TInv /\ Next => IInv' BY NextForward DEF TInv, Forward
  <2> QED BY <2>1, NextKeeps DEF TInv, Kept, KeptText
<1>2. TInv /\ [Next]_vars => TInv' /\ (TokensWellFormed => TokensWellFormed')
  BY <1>1, TokensStutter
<1> QED BY InitEstablishesTInv, <1>2, PTL DEF Spec

\* Whatever the document, no text of it is dropped or read twice: the tokens
\* are disjoint and in order, and what is consumed outside of them is blank or
\* a comment.
THEOREM NoTextIsLost == Spec => []NothingLost
<1>1. TInv => NothingLost BY DEF TInv
<1> QED BY TokensInvariant, <1>1, PTL

\* Whatever the document, the text of a token is what parse_simple_value and
\* is_identifier take for granted when they index and slice it.
THEOREM TokensAreWellFormed == Spec => []TokensWellFormed
<1> QED BY TokensInvariant, PTL

\* Whatever the document, the line of the scanner and of every token counts
\* the newlines before it that stand outside of interpreted strings.
THEOREM LinesAreRight == Spec => []LinesOutsideStrings
<1>1. TInv => LinesOutsideStrings BY DEF TInv
<1> QED BY TokensInvariant, <1>1, PTL


-----------------------------------------------------------------------------
(* The documents that are accepted: the recursive function of DocGrammar.  *)

\* Each character is read in the mode that the one before it left behind.
LEMMA ReadUpToIs ==
  ASSUME NEW d \in Seq(Char)
  PROVE  /\ ReadUpTo(d)[0] = Mode("item", <<>>)
         /\ \A n \in 1 .. Len(d) : ReadUpTo(d)[n] = ReadChar(ReadUpTo(d)[n - 1], d[n])
<1> DEFINE start == Mode("item", <<>>)
           F(r) == [n \in 0 .. Len(d) |-> IF n = 0 THEN start ELSE ReadChar(r[n - 1], d[n])]
           Reads(w, n) == /\ w = [k \in 0 .. n |-> w[k]] /\ w[0] = start
                          /\ \A k \in 1 .. n : w[k] = ReadChar(w[k - 1], d[k])
           Bad == {n \in 0 .. Len(d) : ~\E w : Reads(w, n)}
<1>1. Len(d) \in Nat OBVIOUS
<1>2. ReadUpTo(d) = CHOOSE r : r = F(r) BY DEF ReadUpTo
<1> HIDE DEF start
<1>3. ASSUME Bad # {} PROVE FALSE
  <2>1. PICK n \in 0 .. Len(d) : /\ ~\E w : Reads(w, n)
                                 /\ \A m \in 0 .. Len(d) : m < n => \E w : Reads(w, m)
    <3>1. Bad \subseteq Nat BY <1>1
    <3>2. Min(Bad) \in Bad /\ \A m \in Bad : Min(Bad) <= m
      <4> HIDE DEF Bad
      <4> QED BY <1>3, <3>1, Smallest
    <3>3. PICK n : n = Min(Bad) OBVIOUS
    <3>4. n \in 0 .. Len(d) /\ ~\E w : Reads(w, n) BY <3>2, <3>3
    <3>5. ASSUME NEW m \in 0 .. Len(d), m < n PROVE \E w : Reads(w, m)
      <4>1. ASSUME m \in Bad PROVE FALSE
        <5>1. n <= m BY <3>2, <3>3, <4>1
        <5> QED BY <1>1, <3>4, <3>5, <5>1
      <4> QED BY <4>1
    <3> QED BY <3>4, <3>5
  <2>2. n # 0
    <3>1. PICK w : w = [k \in 0 .. 0 |-> start] OBVIOUS
    <3>2. 0 .. 0 = {0} /\ 1 .. 0 = {} OBVIOUS
    <3>3. w[0] = start /\ w = [k \in 0 .. 0 |-> w[k]] BY <3>1, <3>2
    <3>4. Reads(w, 0) BY <3>2, <3>3
    <3> QED BY <2>1, <3>4
  <2>3. n - 1 \in 0 .. Len(d) /\ n - 1 < n /\ n \in 1 .. Len(d) BY <1>1, <2>1, <2>2
  <2>4. \E w : Reads(w, n - 1) BY <2>1, <2>3
  <2>5. PICK w : w[0] = start /\ \A k \in 1 .. n - 1 : w[k] = ReadChar(w[k - 1], d[k]) BY <2>4
  <2>6. PICK v : v = [k \in 0 .. n |-> IF k = n THEN ReadChar(w[n - 1], d[n]) ELSE w[k]] OBVIOUS
  <2>7. v = [k \in 0 .. n |-> v[k]] /\ v[0] = start BY <2>3, <2>5, <2>6
  <2>8. ASSUME NEW k \in 1 .. n PROVE v[k] = ReadChar(v[k - 1], d[k])
    <3>1. k \in 0 .. n /\ k - 1 \in 0 .. n /\ k - 1 # n /\ (k # n => k \in 1 .. n - 1) BY <2>3
    <3>2. v[k - 1] = w[k - 1] BY <2>6, <3>1
    <3> QED BY <2>5, <2>6, <3>1, <3>2
  <2>9. Reads(v, n) BY <2>7, <2>8
  <2> HIDE DEF Reads
  <2> QED BY <2>1, <2>9
<1>4. PICK w : Reads(w, Len(d))
  <2>1. Len(d) \in 0 .. Len(d) BY <1>1
  <2> QED BY <1>3, <2>1
<1>5. w = F(w)
  <2>1. w = [n \in 0 .. Len(d) |-> w[n]] BY <1>4
  <2>2. ASSUME NEW n \in 0 .. Len(d)
        PROVE  w[n] = IF n = 0 THEN start ELSE ReadChar(w[n - 1], d[n])
    <3>1. n # 0 => n \in 1 .. Len(d) BY <1>1
    <3> QED BY <1>4, <3>1
  <2> QED BY <2>1, <2>2
<1>6. PICK r : r = ReadUpTo(d) OBVIOUS
<1>7. r = F(r)
  <2> HIDE DEF F
  <2> QED BY <1>2, <1>5, <1>6
<1>8. r[0] = start BY <1>1, <1>7
<1>9. ASSUME NEW n \in 1 .. Len(d) PROVE r[n] = ReadChar(r[n - 1], d[n])
  <2>1. n \in 0 .. Len(d) /\ n # 0 BY <1>1
  <2> QED BY <1>7, <2>1
<1> QED BY <1>6, <1>8, <1>9 DEF start

\* What is read up to character n.
Read(n) == ReadUpTo(content)[n]

\* One more character.
LEMMA ReadOne ==
  ASSUME TypeOK, NEW n \in 1 .. Len(content), NEW s, Read(n - 1) = s
  PROVE  Read(n) = ReadChar(s, content[n])
BY ReadUpToIs DEF Read, TypeOK

\* Characters that change nothing.
LEMMA ReadMore ==
  ASSUME TypeOK, NEW p \in 0 .. Len(content), NEW q \in p .. Len(content), NEW s, Read(p) = s,
         \A n \in p + 1 .. q : ReadChar(s, content[n]) = s
  PROVE  Read(q) = s
<1> DEFINE Bad == {n \in p .. q : Read(n) # s}
<1>1. Len(content) \in Nat /\ Bad \subseteq Nat BY DEF TypeOK
<1>2. ASSUME Bad # {} PROVE FALSE
  <2>1. Min(Bad) \in Bad /\ \A n \in Bad : Min(Bad) <= n
    <3> HIDE DEF Bad
    <3> QED BY <1>1, <1>2, Smallest
  <2>2. PICK n : n = Min(Bad) OBVIOUS
  <2>3. n \in p .. q /\ Read(n) # s BY <2>1, <2>2
  <2>4. n # p BY <2>3
  <2>5. n - 1 \in p .. q /\ n \in p + 1 .. q /\ n \in 1 .. Len(content) /\ n - 1 < n
    BY <1>1, <2>3, <2>4
  <2>6. n - 1 \notin Bad BY <2>1, <2>2, <2>5
  <2>7. Read(n - 1) = s BY <2>5, <2>6
  <2>8. Read(n) = ReadChar(s, content[n]) BY <2>5, <2>7, ReadOne
  <2> QED BY <2>3, <2>5, <2>8
<1>3. q \in p .. q BY <1>1
<1> QED BY <1>2, <1>3

\* A character in each mode.
LEMMA ReadCharIs ==
  ASSUME NEW o, NEW c
  PROVE  /\ ReadChar(Mode("item", o), c) = ItemChar(o, c)
         /\ ReadChar(Mode("comment", o), c) = IF c = Newline THEN Mode("item", o) ELSE Mode("comment", o)
         /\ ReadChar(Mode("key", o), c) = KeyChar(o, c)
         /\ ReadChar(Mode("value", o), c) = IF c = Space THEN Mode("value", o) ELSE ValueChar(o, c)
         /\ ReadChar(Mode("bare", o), c) = BareChar(o, c)
         /\ ReadChar(Mode("string", o), c) = StringChar(o, c)
         /\ ReadChar(Mode("escape", o), c) = IF c = Backslash THEN Mode("escape", o) ELSE Mode("string", o)
         /\ ReadChar(Mode("raw", o), c) = IF c = kRawStringBegin THEN Mode("end", o) ELSE Mode("raw", o)
         /\ ReadChar(Mode("end", o), c) = IF c = kKeyValEnd THEN Mode("item", o)
                                          ELSE Mode(Complaint("end"), o)
         /\ \A m \in Errors : ReadChar(Mode(m, o), c) = Mode(m, o)
<1>1. \A m : Mode(m, o).mode = m /\ Mode(m, o).open = o BY DEF Mode
<1> QED BY <1>1 DEF ReadChar, Errors

\* The messages, as facts.
LEMMA Complaints ==
  /\ Complaint("comment") = "comment_does_not_end_with_newline"
  /\ Complaint("key") = "key_value_pair_is_missing_separator"
  /\ Complaint("value") = "integer_or_boolean_value_does_not_end_with_semicolon"
  /\ Complaint("bare") = "integer_or_boolean_value_does_not_end_with_semicolon"
  /\ Complaint("string") = "string_value_does_not_end_with_quote"
  /\ Complaint("escape") = "string_value_does_not_end_with_quote"
  /\ Complaint("raw") = "raw_string_value_does_not_end_with_backtick"
  /\ Complaint("end") = "value_does_not_end_with_semicolon"
BY DEF Complaint

Messages == Errors \ {"none"}

\* The verdict when the document ends in the middle of something, or does not fit.
LEMMA VerdictInside ==
  ASSUME NEW o, NEW m \in {"comment", "key", "value", "bare", "string", "escape", "raw", "end"},
         Read(Len(content)) = Mode(m, o)
  PROVE  Verdict(content) = Complaint(m)
<1>1. Mode(m, o).mode = m /\ m # "item" BY DEF Mode
<1> QED BY <1>1 DEF Verdict, Read

\* The verdict when a character fits nowhere.
LEMMA VerdictStuck ==
  ASSUME TypeOK, NEW o, NEW m \in Messages, NEW n \in 0 .. Len(content), Read(n) = Mode(m, o)
  PROVE  Verdict(content) = m
<1>1. Len(content) \in n .. Len(content) BY DEF TypeOK
<1>2. \A c : ReadChar(Mode(m, o), c) = Mode(m, o) BY ReadCharIs DEF Messages
<1>4. Len(content) \in 0 .. Len(content) BY DEF TypeOK
<1>5. PICK s : s = Mode(m, o) OBVIOUS
<1>6. Read(Len(content)) = s BY <1>1, <1>2, <1>4, <1>5, ReadMore
<1>3. Mode(m, o).mode = m BY DEF Mode
<1> QED BY <1>3, <1>5, <1>6 DEF Verdict, Read, Messages, Errors

\* The scanner stands where a reader of one character after the other stands: what it
\* found in searches and skipped in trims left the reader in the mode of the function that
\* runs next.  A comment is left before its newline, and an integer or boolean before its
\* semicolon.  Between two pairs of the document no space was skipped for nothing.
ReadAlong ==
  /\ pc = "loop" => \/ /\ Read(pos - 1) = Mode("item", stack)
                       /\ pos = 1 \/ stack # <<>> \/ content[pos - 1] # Space
                    \/ Read(pos - 1) = Mode("comment", stack) /\ Expect(pos, Newline)
  /\ pc = "after" => Read(pos - 1) = Mode("item", stack)
  /\ pc = "sep" => Read(pos - 1) = Mode("key", stack)
  /\ pc = "value" => Read(pos - 1) = Mode("value", stack)
  /\ pc = "end" => \/ Read(pos - 1) = Mode("end", stack)
                   \/ Expect(pos, kKeyValEnd) /\ Read(pos) = Mode("item", stack)
  /\ ~Returned => error = "none"
  /\ VerdictIsRight

VInv == IInv /\ ReadAlong

-----------------------------------------------------------------------------
(* The steps of the scanner.                                               *)

\* What every step needs.
LEMMA Standing ==
  ASSUME TypeOK
  PROVE  /\ content \in Seq(Char) /\ Len(content) \in Nat
         /\ pos \in 1 .. Len(content) + 1 /\ pos - 1 \in 0 .. Len(content)
         /\ Trimmed \in pos .. Len(content) + 1 /\ Trimmed - 1 \in pos - 1 .. Len(content)
         /\ Trimmed - 1 \in 0 .. Len(content)
         /\ Trimmed <= Len(content) => content[Trimmed] # Space
         /\ \A n \in pos .. Trimmed - 1 : content[n] = Space
BY TrimmedRange, TrimmedBlank DEF TypeOK

\* Spaces before an item or a value.
LEMMA ReadTrimmed ==
  ASSUME TypeOK, NEW m \in {"item", "value"}, NEW o, Read(pos - 1) = Mode(m, o)
  PROVE  Read(Trimmed - 1) = Mode(m, o)
<1>1. ReadChar(Mode(m, o), Space) = Mode(m, o) BY ReadCharIs DEF ItemChar
<1>2. PICK s : s = Mode(m, o) OBVIOUS
<1>3. PICK p : p = pos - 1 OBVIOUS
<1>4. PICK q : q = Trimmed - 1 OBVIOUS
<1>5. p \in 0 .. Len(content) /\ q \in p .. Len(content) BY <1>3, <1>4, Standing
<1>6. ASSUME NEW n \in p + 1 .. q PROVE ReadChar(s, content[n]) = s
  <2>1. n \in pos .. Trimmed - 1 BY <1>3, <1>4, Standing
  <2> QED BY <1>1, <1>2, <2>1, Standing
<1> QED BY <1>2, <1>3, <1>4, <1>5, <1>6, ReadMore

\* A loop iteration.
LEMMA LoopReads ==
  ASSUME VInv, InLoop
  PROVE  \/ Read(Trimmed - 1) = Mode("item", stack)
         \/ Read(Trimmed - 1) = Mode("comment", stack) /\ Expect(Trimmed, Newline)
<1>1. TypeOK /\ pc = "loop" BY DEF VInv, IInv, InLoop
<1>2. CASE Read(pos - 1) = Mode("item", stack) BY <1>1, <1>2, ReadTrimmed
<1>3. CASE Read(pos - 1) = Mode("comment", stack) /\ Expect(pos, Newline)
  <2>1. content[pos] # Space BY <1>3 DEF Expect, Newline, Space
  <2>2. Trimmed = pos BY <1>1, <2>1, Standing
  <2> QED BY <1>3, <2>2
<1> QED BY <1>1, <1>2, <1>3 DEF VInv, ReadAlong

\* An item, if none of the other tests applies.
LEMMA ItemReads ==
  ASSUME VInv, AtItem
  PROVE  /\ Read(Trimmed - 1) = Mode("item", stack)
         /\ Trimmed <= Len(content) =>
              /\ content[Trimmed] \notin {Space, Newline, kCommentBegin}
              /\ stack # <<>> => content[Trimmed] # Closer
<1>1. TypeOK /\ InLoop BY DEF VInv, IInv, AtItem
<1> QED BY <1>1, LoopReads, Standing DEF AtItem, Expect

\* The step to an error.
LEMMA GiveUpAlong ==
  ASSUME NEW p, NEW m \in Messages, GiveUp(p, m), Verdict(content) = m PROVE ReadAlong'
<1>1. content' = content /\ pc' = "failed" /\ error' = m BY DEF GiveUp, Fail
<1> QED BY <1>1 DEF ReadAlong, VerdictIsRight, Returned, Messages

\* scan returns.
LEMMA DoneAlong == ASSUME VInv, Done PROVE ReadAlong'
<1>1. /\ TypeOK /\ pc = "loop" /\ stack = <<>> /\ pos > Len(content) /\ pc' = "done"
      /\ UNCHANGED <<content, error>>
  BY DEF VInv, IInv, Done, AtDocumentEnd
<1>2. pos - 1 = Len(content) /\ ~Expect(pos, Newline) BY <1>1, Standing DEF Expect
<1>3. Read(Len(content)) = Mode("item", <<>>) /\ (pos = 1 \/ content[pos - 1] # Space)
  BY <1>1, <1>2 DEF VInv, ReadAlong
<1>4. ~EndsInSpace(content) BY <1>1, <1>2, <1>3, Standing DEF EndsInSpace
<1>5. Verdict(content) = "none"
  <2>1. Mode("item", <<>>).mode = "item" /\ Mode("item", <<>>).open = <<>> BY DEF Mode
  <2> QED BY <1>3, <1>4, <2>1 DEF Verdict, Read, Innermost
<1>6. error = "none" BY <1>1 DEF VInv, ReadAlong, Returned
<1> QED BY <1>1, <1>5, <1>6 DEF ReadAlong, VerdictIsRight, Returned

\* scan_newline.
LEMMA NewlineAlong == ASSUME VInv, ScanNewline PROVE ReadAlong'
<1>1. /\ TypeOK /\ InLoop /\ Trimmed <= Len(content) /\ content[Trimmed] = Newline
      /\ pos' = Trimmed + 1 /\ pc' = "loop" /\ UNCHANGED <<content, stack, error>>
  BY DEF VInv, IInv, ScanNewline, Expect, Advance
<1>2. Trimmed \in 1 .. Len(content) /\ pos' - 1 = Trimmed BY <1>1, Standing
<1>3. Read(Trimmed) = Mode("item", stack)
  <2>1. CASE Read(Trimmed - 1) = Mode("item", stack)
    <3>1. Read(Trimmed) = ItemChar(stack, Newline) BY <1>1, <1>2, <2>1, ReadOne, ReadCharIs
    <3> QED BY <3>1 DEF ItemChar
  <2>2. CASE Read(Trimmed - 1) = Mode("comment", stack)
    BY <1>1, <1>2, <2>2, ReadOne, ReadCharIs
  <2> QED BY <1>1, <2>1, <2>2, LoopReads
<1>4. error = "none" BY <1>1 DEF VInv, ReadAlong, Returned, InLoop
<1>5. content[Trimmed] # Space BY <1>1 DEF Newline, Space
<1> QED BY <1>1, <1>2, <1>3, <1>4, <1>5 DEF ReadAlong, Read, VerdictIsRight, Returned

\* scan_comment: no newline before the one that is found.
LEMMA CommentAlong == ASSUME VInv, ScanComment PROVE ReadAlong'
<1> DEFINE newline == IndexAny(content, Trimmed, {Newline})
<1>1. TypeOK /\ InLoop /\ Trimmed <= Len(content) /\ content[Trimmed] = kCommentBegin
  BY DEF VInv, IInv, ScanComment, Expect
<1>2. Trimmed \in 1 .. Len(content) /\ content \in Seq(Char) /\ Len(content) \in Nat
  BY <1>1, Standing
<1>3. Read(Trimmed) = Mode("comment", stack)
  <2>1. ~Expect(Trimmed, Newline) BY <1>1 DEF Expect, Newline, kCommentBegin
  <2>2. Read(Trimmed) = ItemChar(stack, kCommentBegin)
    BY <1>1, <1>2, <2>1, LoopReads, ReadOne, ReadCharIs
  <2> QED BY <2>2 DEF ItemChar, kCommentBegin, Space, Newline
<1>4. ASSUME NEW q \in Trimmed .. Len(content), \A j \in Trimmed .. q : content[j] # Newline
      PROVE  Read(q) = Mode("comment", stack)
  <2>1. \A n \in Trimmed + 1 .. q : content[n] # Newline BY <1>2, <1>4
  <2>2. PICK s : s = Mode("comment", stack) OBVIOUS
  <2>3. \A n \in Trimmed + 1 .. q : ReadChar(s, content[n]) = s BY <2>1, <2>2, ReadCharIs
  <2>4. PICK p : p = Trimmed OBVIOUS
  <2>5. p \in 0 .. Len(content) /\ q \in p .. Len(content) BY <1>2, <2>4
  <2> QED BY <1>1, <1>3, <2>2, <2>3, <2>4, <2>5, ReadMore
<1>5. CASE newline = 0
  <2>1. GiveUp(Trimmed, "comment_does_not_end_with_newline") BY <1>5 DEF ScanComment
  <2>2. \A j \in Trimmed .. Len(content) : content[j] # Newline
    BY <1>2, <1>5, IndexAnyFirst
  <2>3. Read(Len(content)) = Mode("comment", stack) BY <1>2, <1>4, <2>2
  <2>4. Verdict(content) = "comment_does_not_end_with_newline"
    BY <2>3, VerdictInside, Complaints
  <2> QED BY <2>1, <2>4, GiveUpAlong DEF Messages, Errors
<1>6. CASE newline # 0
  <2>1. PICK q : /\ q = newline /\ q \in Trimmed .. Len(content) /\ content[q] = Newline
                 /\ \A j \in Trimmed .. q - 1 : content[j] # Newline
    <3>1. /\ newline \in Trimmed .. Len(content) /\ content[newline] = Newline
          /\ \A j \in Trimmed .. newline - 1 : content[j] # Newline
      BY <1>2, <1>6, IndexAnyFirst
    <3> HIDE DEF newline
    <3> QED BY <3>1
  <2>2. pos' = q /\ pc' = "loop" /\ UNCHANGED <<content, stack, error>>
    <3>1. Advance(newline, 0, "loop") /\ UNCHANGED <<content, stack>> BY <1>6 DEF ScanComment
    <3> HIDE DEF newline
    <3> QED BY <1>2, <2>1, <3>1 DEF Advance
  <2> HIDE DEF newline
  <2>3. q - 1 \in Trimmed .. Len(content)
    <3>1. q # Trimmed BY <1>1, <2>1 DEF Newline, kCommentBegin
    <3> QED BY <1>2, <2>1, <3>1
  <2>4. Read(q - 1) = Mode("comment", stack) BY <1>4, <2>1, <2>3
  <2>5. q <= Len(content) BY <1>2, <2>1
  <2>6. error = "none" BY <1>1 DEF VInv, ReadAlong, Returned, InLoop
  <2> QED BY <2>1, <2>2, <2>4, <2>5, <2>6 DEF ReadAlong, Read, Expect, VerdictIsRight, Returned
<1> QED BY <1>5, <1>6

\* The document ends in a list or table.
LEMMA UnclosedAlong == ASSUME VInv, ScanUnclosed PROVE ReadAlong'
<1>1. /\ TypeOK /\ InLoop /\ stack # <<>> /\ Trimmed > Len(content)
      /\ GiveUp(Trimmed, IF InList THEN "end_of_input_without_list_end"
                                   ELSE "end_of_input_without_table_end")
  BY DEF VInv, IInv, ScanUnclosed
<1>2. Trimmed - 1 = Len(content) /\ ~Expect(Trimmed, Newline) BY <1>1, Standing DEF Expect
<1>3. Read(Len(content)) = Mode("item", stack) BY <1>1, <1>2, LoopReads
<1>4. Head(stack) \in {"list", "table"} BY <1>1 DEF TypeOK, Frame
<1>5. Mode("item", stack).mode = "item" /\ Mode("item", stack).open = stack BY DEF Mode
<1>6. CASE Head(stack) = "list"
  <2>1. Verdict(content) = "end_of_input_without_list_end"
    BY <1>1, <1>3, <1>5, <1>6 DEF Verdict, Read, Innermost
  <2>2. InList BY <1>1, <1>6 DEF InList
  <2> QED BY <1>1, <2>1, <2>2, GiveUpAlong DEF Messages, Errors
<1>7. CASE Head(stack) = "table"
  <2>1. Verdict(content) = "end_of_input_without_table_end"
    BY <1>1, <1>3, <1>5, <1>7 DEF Verdict, Read, Innermost
  <2>2. ~InList BY <1>7 DEF InList
  <2> QED BY <1>1, <2>1, <2>2, GiveUpAlong DEF Messages, Errors
<1> QED BY <1>4, <1>6, <1>7

\* A closing bracket.
LEMMA CloseAlong ==
  ASSUME VInv, NEW p \in 1 .. Len(content) + 1, Read(p - 1) = Mode("item", stack), Close(p),
         ~Returned
  PROVE  ReadAlong'
<1>1. /\ TypeOK /\ stack # <<>> /\ p <= Len(content) /\ content[p] = Closer
      /\ stack' = Tail(stack) /\ pos' = p + 1 /\ pc' = "end" /\ UNCHANGED <<content, error>>
  BY DEF VInv, IInv, Close, Expect, Advance
<1>2. p \in 1 .. Len(content) /\ pos' - 1 = p BY <1>1, Standing
<1>3. Read(p) = ItemChar(stack, content[p]) BY <1>1, <1>2, ReadOne, ReadCharIs
<1>4. Head(stack) \in {"list", "table"} BY <1>1 DEF TypeOK, Frame
<1>5. Closes(stack, content[p]) /\ content[p] \in {kListEnd, kTableEnd}
  BY <1>1, <1>4 DEF Closes, Closer, InList, Innermost
<1>6. Read(p) = Mode("end", Tail(stack))
  BY <1>3, <1>5 DEF ItemChar, kListEnd, kTableEnd, Space, Newline, kCommentBegin
<1>7. error = "none" BY DEF VInv, ReadAlong
<1> QED BY <1>1, <1>2, <1>6, <1>7 DEF ReadAlong, Read, VerdictIsRight, Returned

\* A closing bracket at the start of an iteration.
LEMMA ScanCloseAlong == ASSUME VInv, ScanClose PROVE ReadAlong'
<1>1. TypeOK /\ InLoop /\ Close(Trimmed) /\ pc = "loop" BY DEF VInv, IInv, ScanClose, InLoop
<1>2. Trimmed \in 1 .. Len(content) + 1 /\ ~Returned BY <1>1, Standing DEF Returned
<1>3. ~Expect(Trimmed, Newline)
  BY <1>1 DEF Close, Expect, Closer, Newline, kListEnd, kTableEnd
<1> QED BY <1>1, <1>2, <1>3, LoopReads, CloseAlong

\* The test after an item.
LEMMA AfterItemAlong == ASSUME VInv, AfterItem PROVE ReadAlong'
<1>1. TypeOK /\ pc = "after" /\ stack # <<>> BY DEF VInv, IInv, AfterItem
<1>2. Read(pos - 1) = Mode("item", stack) /\ error = "none" /\ ~Returned
  BY <1>1 DEF VInv, ReadAlong, Returned
<1>3. CASE Close(pos) BY <1>1, <1>2, <1>3, Standing, CloseAlong
<1>4. CASE pc' = "loop" /\ UNCHANGED <<content, pos, stack, error>>
  BY <1>1, <1>2, <1>4 DEF ReadAlong, Read, VerdictIsRight, Returned
<1> QED BY <1>3, <1>4 DEF AfterItem

\* The first character of a key.
LEMMA KeyStarts ==
  ASSUME VInv, AtItem, ~InList, Trimmed <= Len(content)
  PROVE  Read(Trimmed) = IF content[Trimmed] = kKeyValSep THEN Mode("empty_key", stack)
                         ELSE KeyChar(stack, content[Trimmed])
<1>1. TypeOK BY DEF VInv, IInv
<1>2. Trimmed \in 1 .. Len(content) BY <1>1, Standing
<1>3. PICK c : c = content[Trimmed] OBVIOUS
<1>4. Read(Trimmed) = ItemChar(stack, c) BY <1>1, <1>2, <1>3, ItemReads, ReadOne, ReadCharIs
<1>5. c \notin {Space, Newline, kCommentBegin} /\ (stack # <<>> => c # Closer) BY <1>3, ItemReads
<1>6. Innermost(stack) # "list" BY DEF Innermost, InList
<1>7. ~Closes(stack, c) BY <1>5, <1>6 DEF Closes, Closer, InList, Innermost
<1> QED BY <1>3, <1>4, <1>5, <1>6, <1>7 DEF ItemChar

\* scan_key: up to the first character that may not stand in a key.
LEMMA KeyAlong == ASSUME VInv, ScanKey PROVE ReadAlong'
<1> DEFINE ends == {kKeyValSep, kKeyValEnd, Newline}
           sep == IndexAny(content, Trimmed, ends)
           msg == "key_value_pair_is_missing_separator"
<1>1. /\ TypeOK /\ AtItem /\ ~InList /\ content \in Seq(Char) /\ Len(content) \in Nat
      /\ pos \in 1 .. Len(content) + 1 /\ Trimmed \in pos .. Len(content) + 1
      /\ msg \in Messages /\ ~Returned
  BY Standing DEF VInv, IInv, ScanKey, Messages, Errors, AtItem, InLoop, Returned
<1>2. error = "none" BY <1>1 DEF VInv, ReadAlong
<1>3. PICK z : z = sep OBVIOUS
<1>4. /\ z = 0 \/ content[z] # kKeyValSep => GiveUp(Trimmed, msg)
      /\ z # 0 /\ content[z] = kKeyValSep =>
           /\ pos' = z /\ UNCHANGED <<content, stack>>
           /\ IF TrimRight(content, Trimmed, z - Trimmed) = 0
              THEN Fail("empty_key") ELSE pc' = "sep" /\ UNCHANGED error
  BY <1>3 DEF ScanKey, Lexeme
<1>5. \/ z = 0 /\ \A j \in Trimmed .. Len(content) : content[j] \notin ends
      \/ /\ z \in Trimmed .. Len(content) /\ content[z] \in ends
         /\ \A j \in Trimmed .. z - 1 : content[j] \notin ends
  <2>1. Trimmed \in Nat \ {0} BY <1>1
  <2> HIDE DEF ends
  <2> QED BY <1>1, <1>3, <2>1, IndexAnyFirst
<1>6. CASE Trimmed > Len(content)
  <2>1. stack = <<>> /\ pc = "loop" /\ pos <= Len(content)
    BY <1>1, <1>6 DEF AtItem, InLoop, AtDocumentEnd
  <2>2. Trimmed - 1 = Len(content) /\ Len(content) \in pos .. Trimmed - 1 BY <1>1, <1>6, <2>1
  <2>3. EndsInSpace(content) BY <1>1, <2>1, <2>2, Standing DEF EndsInSpace
  <2>4. Read(Len(content)) = Mode("item", <<>>) BY <1>1, <2>1, <2>2, ItemReads
  <2>5. Mode("item", <<>>).mode = "item" /\ Mode("item", <<>>).open = <<>> BY DEF Mode
  <2>6. Verdict(content) = msg BY <2>3, <2>4, <2>5, Complaints DEF Verdict, Read, Innermost
  <2>7. z = 0 BY <1>1, <1>5, <1>6
  <2> QED BY <1>1, <1>4, <2>6, <2>7, GiveUpAlong
<1>7. CASE Trimmed <= Len(content)
  <2>1. Trimmed \in 1 .. Len(content) BY <1>1, <1>7
  <2>2. Read(Trimmed) = IF content[Trimmed] = kKeyValSep THEN Mode("empty_key", stack)
                        ELSE KeyChar(stack, content[Trimmed])
    BY <1>1, <1>7, KeyStarts
  \* The key goes on to the separator.
  <2>3. ASSUME NEW q \in Trimmed .. Len(content), \A j \in Trimmed .. q : content[j] \notin ends
        PROVE  Read(q) = Mode("key", stack)
    <3>1. content[Trimmed] \notin ends BY <2>1, <2>3
    <3>2. PICK s : s = Mode("key", stack) OBVIOUS
    <3>3. Read(Trimmed) = s BY <2>2, <3>1, <3>2 DEF KeyChar
    <3>4. ASSUME NEW n \in Trimmed + 1 .. q PROVE ReadChar(s, content[n]) = s
      <4>1. content[n] \notin ends BY <2>1, <2>3
      <4>2. ReadChar(s, content[n]) = KeyChar(stack, content[n]) BY <3>2, ReadCharIs
      <4> QED BY <3>2, <4>1, <4>2 DEF KeyChar
    <3>5. PICK p : p = Trimmed OBVIOUS
    <3>6. p \in 0 .. Len(content) /\ q \in p .. Len(content) BY <2>1, <3>5
    <3> QED BY <1>1, <3>2, <3>3, <3>4, <3>5, <3>6, ReadMore
  <2>4. CASE z = 0
    <3>1. Len(content) \in Trimmed .. Len(content) BY <1>1, <2>1
    <3>2. \A j \in Trimmed .. Len(content) : content[j] \notin ends BY <1>5, <2>1, <2>4
    <3>3. Read(Len(content)) = Mode("key", stack) BY <2>3, <3>1, <3>2
    <3>4. Verdict(content) = msg BY <3>3, VerdictInside, Complaints
    <3> QED BY <1>1, <1>4, <2>4, <3>4, GiveUpAlong
  <2>5. CASE z # 0 /\ z = Trimmed
    <3>1. content[Trimmed] \in ends BY <1>5, <2>5
    <3>2. CASE content[Trimmed] = kKeyValSep
      <4>1. Read(Trimmed) = Mode("empty_key", stack) BY <2>2, <3>2
      <4>2. Verdict(content) = "empty_key"
        BY <1>1, <2>1, <4>1, VerdictStuck DEF Messages, Errors
      <4>3. z - Trimmed = 0 BY <2>1, <2>5
      <4>4. TrimRight(content, Trimmed, 0) = 0
        <5>1. Trimmed \in Nat /\ 0 \in Nat BY <1>1
        <5>2. TrimRight(content, Trimmed, 0) \in 0 .. 0 BY <5>1, TrimRightRange
        <5> QED BY <5>2
      <4>5. pc' = "failed" /\ error' = "empty_key" /\ content' = content
        BY <1>4, <2>5, <3>2, <4>3, <4>4 DEF Fail
      <4> QED BY <4>2, <4>5 DEF ReadAlong, VerdictIsRight, Returned
    <3>3. CASE content[Trimmed] # kKeyValSep
      <4>1. Read(Trimmed) = Mode(msg, stack) BY <2>2, <3>1, <3>3, Complaints DEF KeyChar
      <4>2. Verdict(content) = msg BY <1>1, <2>1, <4>1, VerdictStuck
      <4> QED BY <1>1, <1>4, <2>5, <3>3, <4>2, GiveUpAlong
    <3> QED BY <3>2, <3>3
  <2>6. CASE z # 0 /\ z # Trimmed
    <3>1. /\ z \in Trimmed + 1 .. Len(content) /\ z \in 1 .. Len(content)
          /\ z - 1 \in Trimmed .. Len(content) /\ content[z] \in ends
          /\ \A j \in Trimmed .. z - 1 : content[j] \notin ends
      <4>1. /\ z \in Trimmed .. Len(content) /\ content[z] \in ends
            /\ \A j \in Trimmed .. z - 1 : content[j] \notin ends
        BY <1>5, <2>6
      <4>2. z \in Trimmed + 1 .. Len(content) /\ z \in 1 .. Len(content)
            /\ z - 1 \in Trimmed .. Len(content)
        BY <1>1, <2>1, <2>6, <4>1
      <4> QED BY <4>1, <4>2
    <3>2. Read(z - 1) = Mode("key", stack) BY <2>3, <3>1
    <3>3. CASE content[z] = kKeyValSep
      <4>1. PICK n : n = z - Trimmed OBVIOUS
      <4>2. n \in Nat /\ n >= 1 BY <2>1, <3>1, <4>1
      <4>3. content[Trimmed] # Space BY <1>1, <1>7, ItemReads
      <4>4. TrimRight(content, Trimmed, n) # 0
        <5>1. ASSUME TrimRight(content, Trimmed, n) = 0 PROVE FALSE
          <6>1. PICK p, k : p = Trimmed /\ k = TrimRight(content, p, n) OBVIOUS
          <6>2. p \in Nat BY <1>1, <6>1
          <6>3. \A j \in k + 1 .. n : content[p + j - 1] = Space
            BY <4>2, <6>1, <6>2, TrimRightRange
          <6>4. k = 0 BY <5>1, <6>1
          <6>5. 1 \in k + 1 .. n /\ p + 1 - 1 = p BY <4>2, <6>2, <6>4
          <6>6. content[p + 1 - 1] = Space BY <6>3, <6>5
          <6> QED BY <4>3, <6>1, <6>5, <6>6
        <5> QED BY <5>1
      <4>5. pos' = z /\ UNCHANGED <<content, stack, error>> /\ pc' = "sep"
        BY <1>4, <2>6, <3>3, <4>1, <4>4
      <4> QED BY <1>2, <3>2, <4>5 DEF ReadAlong, Read, VerdictIsRight, Returned
    <3>4. CASE content[z] # kKeyValSep
      <4>1. Read(z) = KeyChar(stack, content[z]) BY <1>1, <3>1, <3>2, ReadOne, ReadCharIs
      <4>2. Read(z) = Mode(msg, stack) BY <3>1, <3>4, <4>1, Complaints DEF KeyChar
      <4>3. z \in 0 .. Len(content) BY <3>1
      <4>4. Verdict(content) = msg BY <1>1, <4>2, <4>3, VerdictStuck
      <4> QED BY <1>1, <1>4, <3>4, <4>4, GiveUpAlong
    <3> QED BY <3>3, <3>4
  <2> QED BY <2>4, <2>5, <2>6
<1> QED BY <1>1, <1>6, <1>7

\* The separator in scan_key_value.
LEMMA SeparatorAlong == ASSUME VInv, ScanSeparator PROVE ReadAlong'
<1>1. /\ TypeOK /\ pc = "sep" /\ pos <= Len(content) /\ content[pos] = kKeyValSep
      /\ pos' = pos + 1 /\ pc' = "value" /\ UNCHANGED <<content, stack, error>>
  BY DEF VInv, IInv, ScanSeparator, Expect, Advance
<1>2. pos \in 1 .. Len(content) /\ pos' - 1 = pos BY <1>1, Standing
<1>3. Read(pos - 1) = Mode("key", stack) /\ error = "none"
  BY <1>1 DEF VInv, ReadAlong, Returned
<1>4. Read(pos) = KeyChar(stack, kKeyValSep) BY <1>1, <1>2, <1>3, ReadOne, ReadCharIs
<1>5. Read(pos) = Mode("value", stack) BY <1>4 DEF KeyChar
<1> QED BY <1>1, <1>2, <1>3, <1>5 DEF ReadAlong, Read, VerdictIsRight, Returned

\* The first character of a value.
LEMMA ValueReads ==
  ASSUME VInv, AtValue
  PROVE  /\ TypeOK /\ error = "none" /\ ~Returned
         /\ Trimmed <= Len(content) => Read(Trimmed) = ValueChar(stack, content[Trimmed])
         /\ Trimmed > Len(content) => Read(Len(content)) = Mode("value", stack)
<1>1. TypeOK BY DEF VInv, IInv
<1>2. pc \in {"loop", "value"} /\ ~Returned BY AtValuePhase DEF Returned
<1>3. error = "none" BY <1>2 DEF VInv, ReadAlong
<1>4. CASE pc = "value"
  <2>1. Read(pos - 1) = Mode("value", stack) BY <1>4 DEF VInv, ReadAlong
  <2>2. Read(Trimmed - 1) = Mode("value", stack) BY <1>1, <2>1, ReadTrimmed
  <2>3. ASSUME Trimmed <= Len(content) PROVE Read(Trimmed) = ValueChar(stack, content[Trimmed])
    <3>1. Trimmed \in 1 .. Len(content) /\ content[Trimmed] # Space BY <1>1, <2>3, Standing
    <3> QED BY <1>1, <2>2, <3>1, ReadOne, ReadCharIs
  <2>4. Trimmed > Len(content) => Trimmed - 1 = Len(content) BY <1>1, Standing
  <2> QED BY <1>1, <1>2, <1>3, <2>2, <2>3, <2>4
<1>5. CASE AtItem /\ InList
  <2>1. Trimmed <= Len(content) BY <1>5 DEF AtItem, InList
  <2>2. Trimmed \in 1 .. Len(content) /\ ~(Trimmed > Len(content)) BY <1>1, <2>1, Standing
  <2>3. PICK c : c = content[Trimmed] OBVIOUS
  <2>4. Read(Trimmed) = ItemChar(stack, c) BY <1>1, <1>5, <2>2, <2>3, ItemReads, ReadOne, ReadCharIs
  <2>5. c \notin {Space, Newline, kCommentBegin} /\ c # Closer
    BY <1>5, <2>1, <2>3, ItemReads DEF InList
  <2>6. Innermost(stack) = "list" BY <1>5 DEF Innermost, InList
  <2>7. ~Closes(stack, c) BY <1>5, <2>5, <2>6 DEF Closes, Closer
  <2> QED BY <1>1, <1>2, <1>3, <2>2, <2>3, <2>4, <2>5, <2>6, <2>7 DEF ItemChar
<1> QED BY <1>4, <1>5 DEF AtValue

\* The entry of scan_list_value and scan_table_value.
LEMMA OpenAlong ==
  ASSUME VInv, NEW c, NEW k, Open(c, k),
         <<c, k>> \in {<<kListBegin, "list">>, <<kTableBegin, "table">>}
  PROVE  ReadAlong'
<1>1. /\ AtValue /\ Trimmed <= Len(content) /\ content[Trimmed] = c
      /\ stack' = <<k>> \o stack /\ pos' = Trimmed + 1 /\ pc' = "loop"
      /\ UNCHANGED <<content, error>>
  BY DEF Open, Expect, Advance
<1>2. TypeOK /\ error = "none" /\ Read(Trimmed) = ValueChar(stack, c) BY <1>1, ValueReads
<1>3. Trimmed \in 1 .. Len(content) /\ pos' - 1 = Trimmed BY <1>1, <1>2, Standing
<1>4. Read(Trimmed) = Mode("item", stack')
  BY <1>1, <1>2 DEF ValueChar, kListBegin, kTableBegin
<1>5. stack' # <<>> BY <1>1, <1>2 DEF TypeOK
<1> QED BY <1>1, <1>2, <1>3, <1>4, <1>5 DEF ReadAlong, Read, VerdictIsRight, Returned

\* A value ends with the character before pos'.
LEMMA EndAlong ==
  ASSUME VInv, ~Returned, content' = content, stack' = stack, error' = error, pc' = "end",
         NEW q \in 1 .. Len(content), pos' = q + 1, Read(q) = Mode("end", stack)
  PROVE  ReadAlong'
<1>1. pos' - 1 = q /\ error = "none" BY DEF VInv, ReadAlong
<1> QED BY <1>1 DEF ReadAlong, Read, VerdictIsRight, Returned

\* In a string, as long as no quote closes it.
LEMMA StringReads ==
  ASSUME TypeOK, NEW p \in 1 .. Len(content), content[p] = kStringBegin,
         Read(p) = Mode("string", stack), NEW q \in p .. Len(content),
         \A n \in p + 1 .. q : n \notin ClosingQuotes(p)
  PROVE  Read(q) = IF content[q] = Backslash THEN Mode("escape", stack) ELSE Mode("string", stack)
<1> DEFINE In(n) == IF content[n] = Backslash THEN Mode("escape", stack) ELSE Mode("string", stack)
           Bad == {n \in p .. q : Read(n) # In(n)}
<1>1. Len(content) \in Nat /\ Bad \subseteq Nat BY DEF TypeOK
<1>2. ASSUME Bad # {} PROVE FALSE
  <2>1. Min(Bad) \in Bad /\ \A n \in Bad : Min(Bad) <= n
    <3> HIDE DEF Bad
    <3> QED BY <1>1, <1>2, Smallest
  <2>2. PICK n : n = Min(Bad) OBVIOUS
  <2>3. n \in p .. q /\ Read(n) # In(n) BY <2>1, <2>2
  <2>4. In(p) = Mode("string", stack) BY DEF kStringBegin, Backslash
  <2>5. n # p BY <2>3, <2>4
  <2>6. n - 1 \in p .. q /\ n \in p + 1 .. q /\ n \in 1 .. Len(content) /\ n - 1 < n
    BY <1>1, <2>3, <2>5
  <2>7. n - 1 \notin Bad
    <3>1. ASSUME n - 1 \in Bad PROVE FALSE
      <4>1. n <= n - 1 BY <2>1, <2>2, <3>1
      <4> QED BY <2>6, <4>1
    <3> QED BY <3>1
  <2>8. Read(n - 1) = In(n - 1) BY <2>6, <2>7
  <2>9. content[n] = kStringBegin => content[n - 1] = Backslash
    <3>1. n \notin ClosingQuotes(p) /\ n \in p + 1 .. Len(content) BY <1>1, <2>6
    <3> QED BY <3>1 DEF ClosingQuotes
  <2>10. CASE content[n - 1] = Backslash
    <3>1. Read(n - 1) = Mode("escape", stack) BY <2>8, <2>10
    <3>2. Read(n) = In(n) BY <2>6, <3>1, ReadOne, ReadCharIs
    <3> QED BY <2>3, <3>2
  <2>11. CASE content[n - 1] # Backslash
    <3>1. Read(n - 1) = Mode("string", stack) BY <2>8, <2>11
    <3>2. Read(n) = StringChar(stack, content[n]) BY <2>6, <3>1, ReadOne, ReadCharIs
    <3> QED BY <2>3, <2>9, <2>11, <3>2 DEF StringChar
  <2> QED BY <2>10, <2>11
<1>3. q \in p .. q BY <1>1
<1> QED BY <1>2, <1>3

\* scan_string_value: up to the first quote that closes.
LEMMA StringAlong == ASSUME VInv, ScanString PROVE ReadAlong'
<1> DEFINE closing == ClosingQuotes(Trimmed)
<1>1. AtValue /\ Trimmed <= Len(content) /\ content[Trimmed] = kStringBegin
  BY DEF ScanString, Expect
<1>2. TypeOK /\ ~Returned /\ Read(Trimmed) = ValueChar(stack, kStringBegin) BY <1>1, ValueReads
<1>3. Read(Trimmed) = Mode("string", stack)
  BY <1>2 DEF ValueChar, kStringBegin, kListBegin, kTableBegin
<1>4. PICK p : p = Trimmed OBVIOUS
<1>5. p \in 1 .. Len(content) /\ Len(content) \in Nat BY <1>1, <1>2, <1>4, Standing
<1>6. ASSUME NEW q \in p .. Len(content), \A n \in p + 1 .. q : n \notin closing
      PROVE  Read(q) = IF content[q] = Backslash THEN Mode("escape", stack)
                       ELSE Mode("string", stack)
  BY <1>1, <1>2, <1>3, <1>4, <1>5, <1>6, StringReads
<1>7. CASE closing = {}
  <2>1. GiveUp(Trimmed, "string_value_does_not_end_with_quote") BY <1>7 DEF ScanString
  <2>2. PICK l : l = Len(content) OBVIOUS
  <2>3. l \in p .. Len(content) BY <1>5, <2>2
  <2>4. Read(l) = Mode("escape", stack) \/ Read(l) = Mode("string", stack)
    BY <1>6, <1>7, <2>3
  <2>5. Verdict(content) = "string_value_does_not_end_with_quote"
    BY <2>2, <2>4, VerdictInside, Complaints
  <2> QED BY <2>1, <2>5, GiveUpAlong DEF Messages, Errors
<1>8. CASE closing # {}
  <2>1. PICK q : q = Min(closing) /\ q \in closing /\ \A n \in closing : q <= n
    <3>1. closing \in SUBSET Nat BY <1>4, <1>5 DEF ClosingQuotes
    <3>2. Min(closing) \in closing /\ \A n \in closing : Min(closing) <= n
      <4> HIDE DEF closing
      <4> QED BY <1>8, <3>1, Smallest
    <3> QED BY <3>2
  <2>2. q \in p + 1 .. Len(content) /\ content[q] = kStringBegin /\ content[q - 1] # Backslash
    BY <1>4, <2>1 DEF ClosingQuotes
  <2>3. q - 1 \in p .. Len(content) /\ q \in 1 .. Len(content) BY <1>5, <2>2
  <2>4. \A n \in p + 1 .. q - 1 : n \notin closing BY <1>5, <2>1, <2>2
  <2>5. Read(q - 1) = Mode("string", stack) BY <1>6, <2>2, <2>3, <2>4
  <2>6. Read(q) = StringChar(stack, kStringBegin) BY <1>2, <2>2, <2>3, <2>5, ReadOne, ReadCharIs
  <2>7. Read(q) = Mode("end", stack) BY <2>6 DEF StringChar
  <2>8. /\ pos' = Trimmed + (Min(closing) - Trimmed + 1) /\ pc' = "end"
        /\ UNCHANGED <<content, stack, error>>
    BY <1>8 DEF ScanString, Advance
  <2>9. pos' = q + 1 BY <1>4, <1>5, <2>1, <2>3, <2>8
  <2> QED BY <1>2, <2>3, <2>7, <2>8, <2>9, EndAlong
<1> QED BY <1>7, <1>8

\* scan_raw_string: up to the next backtick.
LEMMA RawStringAlong == ASSUME VInv, ScanRawString PROVE ReadAlong'
<1> DEFINE closing == IndexAny(content, Trimmed + 1, {kRawStringBegin})
<1>1. AtValue /\ Trimmed <= Len(content) /\ content[Trimmed] = kRawStringBegin
  BY DEF ScanRawString, Expect
<1>2. TypeOK /\ ~Returned /\ Read(Trimmed) = ValueChar(stack, kRawStringBegin)
  BY <1>1, ValueReads
<1>3. Read(Trimmed) = Mode("raw", stack)
  BY <1>2 DEF ValueChar, kRawStringBegin, kStringBegin, kListBegin, kTableBegin
<1>4. PICK p : p = Trimmed OBVIOUS
<1>5. p \in 1 .. Len(content) /\ Len(content) \in Nat /\ content \in Seq(Char)
  BY <1>1, <1>2, <1>4, Standing
<1>6. ASSUME NEW q \in p .. Len(content), \A n \in p + 1 .. q : content[n] # kRawStringBegin
      PROVE  Read(q) = Mode("raw", stack)
  <2>1. PICK s : s = Mode("raw", stack) OBVIOUS
  <2>2. \A n \in p + 1 .. q : ReadChar(s, content[n]) = s BY <1>6, <2>1, ReadCharIs
  <2>3. p \in 0 .. Len(content) BY <1>5
  <2> QED BY <1>2, <1>3, <1>4, <2>1, <2>2, <2>3, ReadMore
<1>7. PICK z : z = closing OBVIOUS
<1>8. \/ z = 0 /\ \A j \in p + 1 .. Len(content) : content[j] # kRawStringBegin
      \/ /\ z \in p + 1 .. Len(content) /\ content[z] = kRawStringBegin
         /\ \A j \in p + 1 .. z - 1 : content[j] # kRawStringBegin
  <2>1. p + 1 \in Nat \ {0} BY <1>5
  <2> QED BY <1>4, <1>5, <1>7, <2>1, IndexAnyFirst
<1>9. CASE z = 0
  <2>1. GiveUp(Trimmed, "raw_string_value_does_not_end_with_backtick")
    BY <1>7, <1>9 DEF ScanRawString
  <2>2. PICK l : l = Len(content) OBVIOUS
  <2>3. l \in p .. Len(content) BY <1>5, <2>2
  <2>4. Read(l) = Mode("raw", stack) BY <1>5, <1>6, <1>8, <1>9, <2>2, <2>3
  <2>5. Verdict(content) = "raw_string_value_does_not_end_with_backtick"
    BY <2>2, <2>4, VerdictInside, Complaints
  <2> QED BY <2>1, <2>5, GiveUpAlong DEF Messages, Errors
<1>10. CASE z # 0
  <2>1. z - 1 \in p .. Len(content) /\ z \in 1 .. Len(content) BY <1>5, <1>8, <1>10
  <2>2. Read(z - 1) = Mode("raw", stack) BY <1>6, <1>8, <1>10, <2>1
  <2>3. Read(z) = Mode("end", stack) BY <1>2, <1>8, <1>10, <2>1, <2>2, ReadOne, ReadCharIs
  <2>4. /\ pos' = Trimmed + (z - Trimmed + 1) /\ pc' = "end"
        /\ UNCHANGED <<content, stack, error>>
    BY <1>7, <1>10 DEF ScanRawString, Advance
  <2>5. pos' = z + 1 BY <1>4, <1>5, <2>1, <2>4
  <2> QED BY <1>2, <2>1, <2>3, <2>4, <2>5, EndAlong
<1> QED BY <1>9, <1>10

\* An integer or boolean stands before its semicolon.
LEMMA BareAlong ==
  ASSUME VInv, ~Returned, content' = content, stack' = stack, error' = error, pc' = "end",
         NEW q \in 1 .. Len(content), pos' = q, content[q] = kKeyValEnd,
         Read(q) = BareChar(stack, content[q])
  PROVE  ReadAlong'
<1>1. Read(q) = Mode("item", stack) BY DEF BareChar
<1>2. error = "none" /\ q <= Len(content) BY DEF VInv, ReadAlong
<1> QED BY <1>1, <1>2 DEF ReadAlong, Read, Expect, VerdictIsRight, Returned

\* scan_int_or_bool_value: up to the first character that ends one.
LEMMA IntOrBoolAlong == ASSUME VInv, ScanIntOrBool PROVE ReadAlong'
<1> DEFINE ends == {kKeyValEnd, kListEnd, kTableEnd, Newline}
           end == IndexAny(content, Trimmed, ends)
           msg == "integer_or_boolean_value_does_not_end_with_semicolon"
<1>1. AtValue /\ msg \in Messages BY DEF ScanIntOrBool, Messages, Errors
<1>2. /\ TypeOK /\ ~Returned
      /\ Trimmed <= Len(content) => Read(Trimmed) = ValueChar(stack, content[Trimmed])
      /\ Trimmed > Len(content) => Read(Len(content)) = Mode("value", stack)
  BY <1>1, ValueReads
<1>3. PICK p : p = Trimmed OBVIOUS
<1>4. p \in 1 .. Len(content) + 1 /\ Len(content) \in Nat /\ content \in Seq(Char)
  BY <1>2, <1>3, Standing
<1>5. p <= Len(content) => Read(p) = BareChar(stack, content[p])
  <2>1. p <= Len(content) =>
          content[p] \notin {kListBegin, kTableBegin, kStringBegin, kRawStringBegin}
    BY <1>3 DEF ScanIntOrBool, Expect
  <2> QED BY <1>2, <1>3, <2>1 DEF ValueChar
<1>6. PICK z : z = end OBVIOUS
<1>7. \/ z = 0 /\ \A j \in p .. Len(content) : content[j] \notin ends
      \/ /\ z \in p .. Len(content) /\ content[z] \in ends
         /\ \A j \in p .. z - 1 : content[j] \notin ends
  <2>1. p \in Nat \ {0} BY <1>4
  <2> HIDE DEF ends
  <2> QED BY <1>3, <1>4, <1>6, <2>1, IndexAnyFirst
<1>8. /\ z = 0 \/ content[z] # kKeyValEnd => GiveUp(Trimmed, msg)
      /\ z # 0 /\ content[z] = kKeyValEnd =>
           pos' = Trimmed + (z - Trimmed) /\ pc' = "end" /\ UNCHANGED <<content, stack, error>>
  BY <1>6 DEF ScanIntOrBool, Advance
<1>9. ASSUME NEW q \in p .. Len(content), \A j \in p .. q : content[j] \notin ends
      PROVE  Read(q) = Mode("bare", stack)
  <2>1. p \in p .. q /\ p <= Len(content) BY <1>4
  <2>2. PICK s : s = Mode("bare", stack) OBVIOUS
  <2>3. Read(p) = s BY <1>5, <1>9, <2>1, <2>2 DEF BareChar
  <2>4. ASSUME NEW n \in p + 1 .. q PROVE ReadChar(s, content[n]) = s
    <3>1. content[n] \notin ends BY <1>4, <1>9
    <3>2. ReadChar(s, content[n]) = BareChar(stack, content[n]) BY <2>2, ReadCharIs
    <3> QED BY <2>2, <3>1, <3>2 DEF BareChar
  <2>5. p \in 0 .. Len(content) BY <1>4, <2>1
  <2> QED BY <1>2, <2>2, <2>3, <2>4, <2>5, ReadMore
<1>10. CASE z = 0
  <2>1. PICK l : l = Len(content) OBVIOUS
  <2>2. Read(l) = Mode("value", stack) \/ Read(l) = Mode("bare", stack)
    <3>1. CASE p > l BY <1>2, <1>3, <2>1, <3>1
    <3>2. CASE p <= l
      <4>1. l \in p .. Len(content) BY <1>4, <2>1, <3>2
      <4>2. \A j \in p .. l : content[j] \notin ends BY <1>4, <1>7, <1>10, <2>1
      <4> QED BY <1>9, <4>1, <4>2
    <3> QED BY <1>4, <2>1, <3>1, <3>2
  <2>3. Verdict(content) = msg BY <2>1, <2>2, VerdictInside, Complaints
  <2> QED BY <1>1, <1>8, <1>10, <2>3, GiveUpAlong
<1>11. CASE z # 0
  <2>1. z \in p .. Len(content) /\ z \in 1 .. Len(content) /\ content[z] \in ends
    BY <1>4, <1>7, <1>11
  <2>2. Read(z) = BareChar(stack, content[z])
    <3>1. CASE z = p BY <1>4, <1>5, <2>1, <3>1
    <3>2. CASE z # p
      <4>1. z - 1 \in p .. Len(content) BY <1>4, <2>1, <3>2
      <4>2. Read(z - 1) = Mode("bare", stack) BY <1>7, <1>9, <1>11, <4>1
      <4> QED BY <1>2, <2>1, <4>2, ReadOne, ReadCharIs
    <3> QED BY <3>1, <3>2
  <2>3. CASE content[z] = kKeyValEnd
    <3>1. pos' = z /\ pc' = "end" /\ UNCHANGED <<content, stack, error>>
      BY <1>3, <1>4, <1>8, <2>1, <2>3, <1>11
    <3> QED BY <1>2, <2>1, <2>2, <2>3, <3>1, BareAlong
  <2>4. CASE content[z] # kKeyValEnd
    <3>1. Read(z) = Mode(msg, stack) BY <2>1, <2>2, <2>4, Complaints DEF BareChar
    <3>2. z \in 0 .. Len(content) BY <2>1
    <3>3. Verdict(content) = msg BY <1>1, <1>2, <3>1, <3>2, VerdictStuck
    <3> QED BY <1>1, <1>8, <2>4, <3>3, GiveUpAlong
  <2> QED BY <2>3, <2>4
<1> QED BY <1>10, <1>11

\* scan_delim, at the end of scan_value.
LEMMA ValueEndAlong == ASSUME VInv, ScanValueEnd PROVE ReadAlong'
<1>1. TypeOK /\ pc = "end" BY DEF VInv, IInv, ScanValueEnd
<1>2. pos \in 1 .. Len(content) + 1 /\ pos - 1 \in 0 .. Len(content) /\ Len(content) \in Nat
  BY <1>1, Standing
<1>3. /\ error = "none"
      /\ \/ Read(pos - 1) = Mode("end", stack)
         \/ Expect(pos, kKeyValEnd) /\ Read(pos) = Mode("item", stack)
  BY <1>1 DEF VInv, ReadAlong, Returned
<1>4. CASE Expect(pos, kKeyValEnd)
  <2>1. pos \in 1 .. Len(content) /\ content[pos] = kKeyValEnd BY <1>2, <1>4 DEF Expect
  <2>2. Read(pos) = Mode("item", stack) BY <1>1, <1>3, <2>1, ReadOne, ReadCharIs
  <2>3. /\ pos' = pos + 1 /\ pc' = (IF stack = <<>> THEN "loop" ELSE "after")
        /\ UNCHANGED <<content, stack, error>>
    BY <1>4 DEF ScanValueEnd, Advance
  <2>4. pos' - 1 = pos BY <2>1, <2>3
  <2>5. content[pos] # Space BY <2>1 DEF kKeyValEnd, Space
  <2> QED BY <1>3, <2>2, <2>3, <2>4, <2>5 DEF ReadAlong, Read, VerdictIsRight, Returned
<1>5. CASE ~Expect(pos, kKeyValEnd)
  <2>1. GiveUp(pos, "value_does_not_end_with_semicolon") BY <1>5 DEF ScanValueEnd
  <2>2. Read(pos - 1) = Mode("end", stack) BY <1>3, <1>5
  <2>3. CASE pos <= Len(content)
    <3>1. pos \in 1 .. Len(content) /\ pos \in 0 .. Len(content) BY <1>2, <2>3
    <3>2. content[pos] # kKeyValEnd BY <1>5, <2>3 DEF Expect
    <3>3. Read(pos) = Mode("value_does_not_end_with_semicolon", stack)
      BY <1>1, <2>2, <3>1, <3>2, ReadOne, ReadCharIs, Complaints
    <3>4. Verdict(content) = "value_does_not_end_with_semicolon"
      BY <1>1, <3>1, <3>3, VerdictStuck DEF Messages, Errors
    <3> QED BY <2>1, <3>4, GiveUpAlong DEF Messages, Errors
  <2>4. CASE pos > Len(content)
    <3>1. pos - 1 = Len(content) BY <1>2, <2>4
    <3>2. Verdict(content) = "value_does_not_end_with_semicolon"
      BY <2>2, <3>1, VerdictInside, Complaints
    <3> QED BY <2>1, <3>2, GiveUpAlong DEF Messages, Errors
  <2> QED BY <1>2, <2>3, <2>4
<1> QED BY <1>4, <1>5

\* Nothing is read at first.
LEMMA InitAlong == ASSUME Init PROVE VInv
<1>1. IInv BY InitEstablishesIInv
<1>2. content \in Seq(Char) BY <1>1 DEF IInv, TypeOK
<1>3. pos = 1 /\ pos - 1 = 0 /\ pc = "loop" /\ stack = <<>> /\ error = "none" BY DEF Init
<1>4. Read(0) = Mode("item", <<>>) BY <1>2, ReadUpToIs DEF Read
<1> QED BY <1>1, <1>3, <1>4 DEF VInv, ReadAlong, VerdictIsRight, Returned

\* The reader keeps up with every step.
LEMMA NextAlong == ASSUME VInv, Next PROVE ReadAlong'
<1>1. CASE Done BY <1>1, DoneAlong
<1>2. CASE ScanNewline BY <1>2, NewlineAlong
<1>3. CASE ScanComment BY <1>3, CommentAlong
<1>4. CASE ScanUnclosed BY <1>4, UnclosedAlong
<1>5. CASE ScanClose BY <1>5, ScanCloseAlong
<1>6. CASE AfterItem BY <1>6, AfterItemAlong
<1>7. CASE ScanKey BY <1>7, KeyAlong
<1>8. CASE ScanSeparator BY <1>8, SeparatorAlong
<1>9. CASE ScanListBegin BY <1>9, OpenAlong DEF ScanListBegin
<1>10. CASE ScanTableBegin BY <1>10, OpenAlong DEF ScanTableBegin
<1>11. CASE ScanString BY <1>11, StringAlong
<1>12. CASE ScanRawString BY <1>12, RawStringAlong
<1>13. CASE ScanIntOrBool BY <1>13, IntOrBoolAlong
<1>14. CASE ScanValueEnd BY <1>14, ValueEndAlong
<1> QED
  BY <1>1, <1>2, <1>3, <1>4, <1>5, <1>6, <1>7, <1>8, <1>9, <1>10, <1>11, <1>12, <1>13, <1>14
  DEF Next

\* Whatever the document, scan accepts it, or gives the message about it, as a reader
\* does who takes one character after the other.
THEOREM VerdictsAreRight == Spec => []VerdictIsRight
<1>1. Init => VInv BY InitAlong
<1>2. VInv /\ Next => VInv'
  <2>1. VInv /\ Next => IInv' BY NextForward DEF VInv, Forward
  <2> QED BY <2>1, NextAlong DEF VInv
<1>3. VInv /\ UNCHANGED vars => VInv'
  BY DEF VInv, IInv, TypeOK, Expect, vars, ReadAlong, Read, VerdictIsRight, Returned
<1>4. VInv => VerdictIsRight BY DEF VInv, ReadAlong
<1> QED BY <1>1, <1>2, <1>3, <1>4, PTL DEF Spec

=============================================================================
