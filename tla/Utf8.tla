--------------------------------- MODULE Utf8 ---------------------------------
(***************************************************************************)
(* ucs_to_utf8 of src/c/kevs.c, and what UTF-8 is.                         *)
(*                                                                         *)
(* The code builds a byte with | of bits that do not overlap, which is a   *)
(* sum here; a shift to the right is a division.                           *)
(***************************************************************************)
EXTENDS Integers, Sequences

Byte == 0 .. 255

\* The code points that have an encoding.
IsScalar(code) == 0 <= code /\ code <= 1114111 /\ ~(55296 <= code /\ code <= 57343)

\* The trailing byte that holds the six bits of code from `place` on.
Trailing(code, place) == 128 + ((code \div place) % 64)

\* Mutant: the last code point of two bytes takes three.
Utf8Overlong(code) ==
  IF ~IsScalar(code) THEN <<>>
  ELSE IF code <= 127 THEN <<code>>
  ELSE IF code < 2047 THEN <<192 + code \div 64, Trailing(code, 1)>>
  ELSE IF code <= 65535
  THEN <<224 + code \div 4096, Trailing(code, 64), Trailing(code, 1)>>
  ELSE <<240 + code \div 262144, Trailing(code, 4096), Trailing(code, 64), Trailing(code, 1)>>

\* ucs_to_utf8: the bytes of a code point; none, where the code returns 0, for
\* a surrogate and for what is beyond the last code point.
Utf8(code) ==
  IF ~IsScalar(code) THEN <<>>
  ELSE IF code <= 127 THEN <<code>>
  ELSE IF code <= 2047 THEN <<192 + code \div 64, Trailing(code, 1)>>
  ELSE IF code <= 65535
  THEN <<224 + code \div 4096, Trailing(code, 64), Trailing(code, 1)>>
  ELSE <<240 + code \div 262144, Trailing(code, 4096), Trailing(code, 64), Trailing(code, 1)>>

-----------------------------------------------------------------------------
(* UTF-8 (RFC 3629), read the other way: the code point that the bytes b   *)
(* stand for, or -1.                                                       *)

Within(x, lo, hi) == lo <= x /\ x <= hi
IsTrailing(x) == Within(x, 128, 191)

Point(b) ==
  IF Len(b) = 1 /\ Within(b[1], 0, 127) THEN b[1]
  ELSE IF Len(b) = 2 /\ Within(b[1], 192, 223) /\ IsTrailing(b[2])
  THEN ((b[1] - 192) * 64) + (b[2] - 128)
  ELSE IF Len(b) = 3 /\ Within(b[1], 224, 239) /\ IsTrailing(b[2]) /\ IsTrailing(b[3])
  THEN ((b[1] - 224) * 4096) + ((b[2] - 128) * 64) + (b[3] - 128)
  ELSE IF Len(b) = 4 /\ Within(b[1], 240, 247) /\ IsTrailing(b[2]) /\ IsTrailing(b[3]) /\ IsTrailing(b[4])
  THEN ((b[1] - 240) * 262144) + ((b[2] - 128) * 4096) + ((b[3] - 128) * 64) + (b[4] - 128)
  ELSE -1

\* The least code point that needs n bytes.
Least(n) == CASE n = 1 -> 0 [] n = 2 -> 128 [] n = 3 -> 2048 [] n = 4 -> 65536

\* b is the encoding of a code point, and its only one.
IsEncoding(b) == Len(b) \in 1 .. 4 /\ Point(b) >= Least(Len(b)) /\ IsScalar(Point(b))

===============================================================================
