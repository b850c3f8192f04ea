-------------------------------- MODULE StrNorm --------------------------------
(***************************************************************************)
(* str_norm of src/c/kevs.c: the body of an interpreted string, with its   *)
(* escape sequences replaced.  One action is one iteration of the loop.    *)
(*                                                                         *)
(* self is the slice between the two quotes of a string token, dst the     *)
(* buffer that string_reserve allocates with the length of the slice as    *)
(* its capacity.  Characters are bytes.                                    *)
(***************************************************************************)
EXTENDS Utf8

CONSTANT Bodies   \* the slices str_norm is called with

Backslash == 92
Quote     == 34
LowerU    == 117
UpperU    == 85

\* A string token ends at a quote that no backslash precedes (TokensWellFormed
\* of the scanner).
ASSUME BodiesAssumption ==
  \A b \in Bodies : b \in Seq(Byte) /\ (b # <<>> => b[Len(b)] # Backslash)

VARIABLES
  self,   \* the slice
  i,      \* the next byte of self, counted from 1
  dst,    \* the bytes in the buffer
  pc,
  error   \* the message returned, or "none"

vars == <<self, i, dst, pc, error>>

Errors == {"none", "too_few_hex_digits", "not_hex", "not_a_code_point",
           "unknown_escape_sequence"}

\* Type correctness: the loop stays within the slice, and what it stores are
\* bytes.
TypeOK ==
  /\ self \in Seq(Byte)
  /\ i \in 1 .. Len(self) + 1
  /\ dst \in Seq(Byte)
  /\ pc \in {"loop", "done", "error"}
  /\ error \in Errors

Init ==
  /\ self \in Bodies
  /\ i = 1 /\ dst = <<>> /\ pc = "loop" /\ error = "none"

-----------------------------------------------------------------------------

\* a, b, f, n, r, t, v, the quote and the backslash, and what they become.
SimpleEscapes == {97, 98, 102, 110, 114, 116, 118, Quote, Backslash}

Escaped(c) ==
  CASE c = 97  -> 7  [] c = 98  -> 8 [] c = 102 -> 12 [] c = 110 -> 10
    [] c = 114 -> 13 [] c = 116 -> 9 [] c = 118 -> 11 [] c \in {Quote, Backslash} -> c

Left == i <= Len(self)

\* The byte after a backslash; past the slice stands the closing quote.
Ahead == IF i + 1 <= Len(self) THEN self[i + 1] ELSE Quote

AtEscape == pc = "loop" /\ Left /\ self[i] = Backslash

\* string_append of every byte of bs.
Put(bs, n) == dst' = dst \o bs /\ i' = i + n /\ UNCHANGED <<self, pc, error>>

\* free(dst.ptr); return message;
Fail(message) == pc' = "error" /\ error' = message /\ UNCHANGED <<self, i, dst>>

Plain == pc = "loop" /\ Left /\ self[i] # Backslash /\ Put(<<self[i]>>, 1)

SimpleEscape == AtEscape /\ Ahead \in SimpleEscapes /\ Put(<<Escaped(Ahead)>>, 2)

UnknownEscape ==
  /\ AtEscape /\ Ahead \notin SimpleEscapes \cup {LowerU, UpperU}
  /\ Fail("unknown_escape_sequence")

IsHex(c) == c \in 48 .. 57 \/ c \in 65 .. 70 \/ c \in 97 .. 102

HexDigit(c) == IF c <= 57 THEN c - 48 ELSE IF c <= 70 THEN c - 55 ELSE c - 87

\* str_to_uint in base 16 of the four digits from p on, and of n = 4 or 8 of
\* them; eight digits do not overflow a uint64_t.
Hex4(p) ==
  (HexDigit(self[p]) * 4096) + (HexDigit(self[p + 1]) * 256)
  + (HexDigit(self[p + 2]) * 16) + HexDigit(self[p + 3])

Hex(p, n) == IF n = 4 THEN Hex4(p) ELSE (Hex4(p) * 65536) + Hex4(p + 4)

\* The slice is too short for \u and n digits.
TooShort(n) == i + 1 + n > Len(self)

\* Mutants: the digits are read again; one byte too many is skipped.
SkipLetter(n) == 2
SkipTooFar(n) == n + 3

\* The length of \u and its n digits.
Skip(n) == n + 2

UnicodeEscape(letter, n) ==
  /\ AtEscape /\ Ahead = letter
  /\ \/ TooShort(n) /\ Fail("too_few_hex_digits")
     \/ /\ ~TooShort(n) /\ \E p \in i + 2 .. i + 1 + n : ~IsHex(self[p])
        /\ Fail("not_hex")
     \/ /\ ~TooShort(n) /\ \A p \in i + 2 .. i + 1 + n : IsHex(self[p])
        /\ IF Utf8(Hex(i + 2, n)) = <<>>
           THEN Fail("not_a_code_point")
           ELSE Put(Utf8(Hex(i + 2, n)), Skip(n))

ShortUnicode == UnicodeEscape(LowerU, 4)
LongUnicode  == UnicodeEscape(UpperU, 8)

\* *out = dst.ptr
Done == pc = "loop" /\ ~Left /\ pc' = "done" /\ UNCHANGED <<self, i, dst, error>>

Next ==
  \/ Plain \/ SimpleEscape \/ UnknownEscape \/ ShortUnicode \/ LongUnicode
  \/ Done

Spec == Init /\ [][Next]_vars

-----------------------------------------------------------------------------

\* The buffer, as long as the slice, is never full when string_append asserts
\* that it is not, and no byte behind the slice is taken for an escape: what
\* has been written never overtakes what has been read.
InBounds ==
  /\ Len(dst) <= Len(self)
  /\ AtEscape => i + 1 <= Len(self)

=============================================================================
