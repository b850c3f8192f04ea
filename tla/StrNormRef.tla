----------------------------- MODULE StrNormRef -----------------------------
(***************************************************************************)
(* What the body of an interpreted string stands for, by the readme: a     *)
(* sequence of code points.  Bad if it stands for nothing.                 *)
(***************************************************************************)
EXTENDS StrNorm

Bad == <<-1>>

Join(p, ps) == IF p = -1 \/ ps = Bad THEN Bad ELSE <<p>> \o ps

Nothing(n) == [point |-> -1, next |-> n + 1]

\* The places where an encoding that starts at n can end; one at most.
Ends(bs, n) == {m \in n .. Len(bs) : m < n + 4 /\ IsEncoding(SubSeq(bs, n, m))}

\* The character whose encoding starts at n.
CharAt(bs, n) ==
  LET m == CHOOSE e \in Ends(bs, n) : TRUE
  IN  IF Ends(bs, n) = {} THEN Nothing(n)
      ELSE [point |-> Point(SubSeq(bs, n, m)), next |-> m + 1]

-----------------------------------------------------------------------------

\* "0" .. "9", "a" .. "f" and "A" .. "F", in both orders of case.
HexDigits == <<48, 49, 50, 51, 52, 53, 54, 55, 56, 57, 97, 98, 99, 100, 101, 102>>
DigitValues(d) == {v \in 0 .. 15 : HexDigits[v + 1] = d \/ (v > 9 /\ HexDigits[v + 1] = d + 32)}

\* The numbers that the first digits of ds stand for.
HexNumbers(ds) ==
  LET number[k \in 0 .. Len(ds)] ==
        IF k = 0 THEN 0
        ELSE 16 * number[k - 1] + (CHOOSE v \in DigitValues(ds[k]) : TRUE)
  IN  number

\* The number that the hexadecimal digits ds stand for, -1 if they are none.
FromHex(ds) ==
  IF \E k \in 1 .. Len(ds) : DigitValues(ds[k]) = {} THEN -1
  ELSE HexNumbers(ds)[Len(ds)]

\* The readme's table of escape sequences, as <<letter, code point>>.
Table == {<<97, 7>>, <<98, 8>>, <<102, 12>>, <<110, 10>>, <<114, 13>>, <<116, 9>>,
          <<118, 11>>, <<92, 92>>, <<34, 34>>}

\* \u and \U, as <<letter, number of digits>>.
Widths == {<<117, 4>>, <<85, 8>>}

\* The escape sequence whose backslash is at n.
EscapeAt(bs, n) ==
  LET simple == {e \in Table : n + 1 <= Len(bs) /\ e[1] = bs[n + 1]}
      wide   == {w \in Widths : n + 1 + w[2] <= Len(bs) /\ w[1] = bs[n + 1]}
      s      == CHOOSE e \in simple : TRUE
      width  == (CHOOSE w \in wide : TRUE)[2]
      code   == FromHex(SubSeq(bs, n + 2, n + 1 + width))
  IN  IF simple # {} THEN [point |-> s[2], next |-> n + 2]
      ELSE IF wide # {} /\ IsScalar(code) THEN [point |-> code, next |-> n + 2 + width]
      ELSE Nothing(n)

-----------------------------------------------------------------------------

\* What stands at n: the point is -1 if it is nothing, and next is the place
\* where the next one starts.  Text is read as characters alone, or with its
\* escape sequences, or with those and a character for every other byte.
ItemAt(bs, n, as) ==
  IF as # "characters" /\ bs[n] = 92 THEN EscapeAt(bs, n)
  ELSE IF as = "bytes" THEN [point |-> bs[n], next |-> n + 1]
  ELSE CharAt(bs, n)

\* What is read from every place on.
Reading(bs, as) ==
  LET from[n \in 1 .. Len(bs) + 1] ==
        IF n = Len(bs) + 1 THEN <<>>
        ELSE LET item == ItemAt(bs, n, as) IN Join(item.point, from[item.next])
  IN  from

\* The code points of UTF-8 text.
FromUtf8(bs) == Reading(bs, "characters")[1]

\* What the body stands for once its escape sequences are replaced.
Meaning == Reading(self, "escapes")[1]

\* On UTF-8 text str_norm fails exactly when an escape sequence is not one of
\* the readme's or names no code point, and returns the UTF-8 encoding of what
\* the text stands for.
Interprets ==
  /\ pc = "done" /\ FromUtf8(self) # Bad => Meaning # Bad /\ FromUtf8(dst) = Meaning
  /\ pc = "error" /\ FromUtf8(self) # Bad => Meaning = Bad

=============================================================================
