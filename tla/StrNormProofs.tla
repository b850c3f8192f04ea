--------------------------- MODULE StrNormProofs ---------------------------
(***************************************************************************)
(* str_norm stays within its slice and its buffer, for every body; what it *)
(* returns is the text that the body stands for by the readme's table; and *)
(* ucs_to_utf8 is UTF-8, for every code point.                             *)
(*                                                                         *)
(* The third takes the most room.  The loop copies a character byte by     *)
(* byte where the reference reads it at once, so that between two bytes    *)
(* the two have nothing to say to each other; Follows relates them at the  *)
(* next place between two characters.                                      *)
(***************************************************************************)
EXTENDS StrNormRef, SequenceTheorems, WellFoundedInduction, TLAPS

-----------------------------------------------------------------------------
(* ucs_to_utf8.                                                            *)

\* A number of base 64 loses its last digit.
LEMMA LastDigit ==
  ASSUME NEW c \in Nat
  PROVE  \E q \in Nat, r \in 0 .. 63 :
           c = 64 * q + r /\ c \div 64 = q /\ c % 64 = r
<1>1. c \div 64 \in Nat /\ c % 64 \in 0 .. 63 /\ c = 64 * (c \div 64) + (c % 64) BY SMT
<1> QED BY <1>1

\* Every code point that has an encoding is encoded by ucs_to_utf8 in the
\* bytes, the only ones, that UTF-8 has for it.
THEOREM EncodesUtf8 ==
  ASSUME NEW code \in Nat, IsScalar(code)
  PROVE  /\ Utf8(code) \in Seq(Byte)
         /\ IsEncoding(Utf8(code)) /\ Point(Utf8(code)) = code
<1>1. PICK x \in Nat, r \in 0 .. 63 : code = 64 * x + r /\ code \div 64 = x /\ code % 64 = r
  BY LastDigit
<1>2. PICK y \in Nat, s \in 0 .. 63 : x = 64 * y + s /\ x \div 64 = y /\ x % 64 = s
  BY LastDigit
<1>3. PICK z \in Nat, t \in 0 .. 63 : y = 64 * z + t /\ y \div 64 = z /\ y % 64 = t
  BY LastDigit
<1>4. code \div 1 = code /\ code \div 4096 = y /\ code \div 262144 = z
  <2>1. /\ code = 4096 * y + (64 * s + r) /\ 64 * s + r < 4096
        /\ code = 262144 * z + (4096 * t + 64 * s + r) /\ 4096 * t + 64 * s + r < 262144
    BY <1>1, <1>2, <1>3, SMT
  <2> QED BY <2>1, SMT
<1>5. /\ Trailing(code, 1) = 128 + r /\ Trailing(code, 64) = 128 + s
      /\ Trailing(code, 4096) = 128 + t
  BY <1>1, <1>2, <1>3, <1>4 DEF Trailing
<1>6. code <= 1114111 BY SMT DEF IsScalar
<1>7. CASE code <= 127
  <2>1. Utf8(code) = <<code>> BY <1>7, SMT DEF Utf8
  <2>2. Point(<<code>>) = code BY <1>7, SMT DEF Point, Within
  <2> QED BY <1>7, <2>1, <2>2, SMT DEF Byte, IsEncoding, Least
<1>8. CASE 128 <= code /\ code <= 2047
  <2>1. Utf8(code) = <<192 + x, 128 + r>> BY <1>1, <1>5, <1>8, SMT DEF Utf8
  <2>2. x \in 2 .. 31 BY <1>1, <1>8, SMT
  <2>3. Point(<<192 + x, 128 + r>>) = code BY <1>1, <2>2, SMT DEF Point, IsTrailing, Within
  <2> QED BY <1>8, <2>1, <2>2, <2>3, SMT DEF Byte, IsEncoding, Least
<1>9. CASE 2048 <= code /\ code <= 65535
  <2>1. Utf8(code) = <<224 + y, 128 + s, 128 + r>> BY <1>4, <1>5, <1>9, SMT DEF Utf8
  <2>2. y \in 0 .. 15 BY <1>1, <1>2, <1>9, SMT
  <2>3. Point(<<224 + y, 128 + s, 128 + r>>) = code
    BY <1>1, <1>2, <2>2, SMT DEF Point, IsTrailing, Within
  <2> QED BY <1>9, <2>1, <2>2, <2>3, SMT DEF Byte, IsEncoding, Least
<1>10. CASE 65536 <= code /\ code <= 1114111
  <2>1. Utf8(code) = <<240 + z, 128 + t, 128 + s, 128 + r>>
    BY <1>4, <1>5, <1>10, SMT DEF Utf8
  <2>2. z \in 0 .. 4 BY <1>1, <1>2, <1>3, <1>10, SMT
  <2>3. Point(<<240 + z, 128 + t, 128 + s, 128 + r>>) = code
    BY <1>1, <1>2, <1>3, <2>2, SMT DEF Point, IsTrailing, Within
  <2> QED BY <1>10, <2>1, <2>2, <2>3, SMT DEF Byte, IsEncoding, Least
<1> QED BY <1>6, <1>7, <1>8, <1>9, <1>10, SMT

\* Everything else is rejected, and nothing takes more than four bytes.
LEMMA Utf8Length ==
  ASSUME NEW code \in Nat
  PROVE  Utf8(code) \in Seq(Byte) /\ Len(Utf8(code)) <= 4
<1>1. CASE IsScalar(code)
  <2>1. Utf8(code) \in Seq(Byte) /\ IsEncoding(Utf8(code)) BY <1>1, EncodesUtf8, Zenon
  <2>2. Len(Utf8(code)) \in 1 .. 4 BY <2>1, Zenon DEF IsEncoding
  <2>3. \A k \in 1 .. 4 : k <= 4 OBVIOUS
  <2> QED BY <2>1, <2>2, <2>3, Zenon
<1>2. CASE ~IsScalar(code)
  <2>1. Utf8(code) = <<>> BY <1>2 DEF Utf8
  <2> QED BY <2>1
<1> QED BY <1>1, <1>2

-----------------------------------------------------------------------------
(* str_norm.                                                               *)

\* What was written never overtakes what was read.
IInv ==
  /\ TypeOK
  /\ Len(dst) < i
  /\ self # <<>> => self[Len(self)] # Backslash

\* The initial states.
LEMMA InitEstablishesIInv == Init => IInv
<1> SUFFICES ASSUME Init PROVE IInv OBVIOUS
<1>1. self \in Seq(Byte) /\ (self # <<>> => self[Len(self)] # Backslash)
  BY BodiesAssumption DEF Init
<1>2. Len(self) \in Nat BY <1>1
<1> QED BY <1>1, <1>2 DEF Init, IInv, TypeOK, Errors

\* At least as much is read as is written.
LEMMA PutStep ==
  ASSUME IInv, NEW bs \in Seq(Byte), NEW n \in Nat,
         Len(bs) <= n, i + n <= Len(self) + 1, Put(bs, n)
  PROVE  IInv'
<1>1. dst \in Seq(Byte) /\ i \in 1 .. Len(self) + 1 /\ Len(self) \in Nat /\ Len(bs) \in Nat
  BY DEF IInv, TypeOK
<1>2. dst' \in Seq(Byte) /\ Len(dst') = Len(dst) + Len(bs) /\ Len(dst) \in Nat
  BY <1>1 DEF Put
<1>3. i' = i + n /\ UNCHANGED <<self, pc, error>> BY DEF Put
<1>4. TypeOK' BY <1>1, <1>2, <1>3 DEF IInv, TypeOK
<1>5. Len(dst') < i' BY <1>1, <1>2, <1>3 DEF IInv
<1> QED BY <1>3, <1>4, <1>5 DEF IInv

\* An error changes nothing that the invariant is about.
LEMMA FailStep ==
  ASSUME IInv, NEW message \in Errors, Fail(message)
  PROVE  IInv'
<1> QED BY DEF Fail, IInv, TypeOK

\* A byte that is no escape.
LEMMA PlainStep == IInv /\ Plain => IInv'
<1> SUFFICES ASSUME IInv, Plain PROVE IInv' OBVIOUS
<1>1. i \in 1 .. Len(self) /\ Len(self) \in Nat BY DEF IInv, TypeOK, Plain, Left
<1>2. self[i] \in Byte BY <1>1 DEF IInv, TypeOK
<1> DEFINE bs == <<self[i]>>
<1>3. bs \in Seq(Byte) /\ Len(bs) = 1 BY <1>2
<1>4. Put(bs, 1) BY DEF Plain
<1> HIDE DEF bs
<1>5. Len(bs) <= 1 /\ i + 1 <= Len(self) + 1 /\ 1 \in Nat BY <1>1, <1>3
<1> QED BY <1>3, <1>4, <1>5, PutStep, Zenon

\* The last byte of a body is no backslash.
LEMMA AheadInside ==
  ASSUME IInv, AtEscape
  PROVE  /\ i \in Nat /\ Len(self) \in Nat /\ i + 1 <= Len(self)
         /\ Ahead = self[i + 1]
<1>1. i \in 1 .. Len(self) /\ Len(self) \in Nat BY DEF IInv, TypeOK, AtEscape, Left
<1>2. self # <<>> BY <1>1 DEF IInv, TypeOK
<1>3. i # Len(self) BY <1>2 DEF IInv, AtEscape
<1> QED BY <1>1, <1>3 DEF Ahead

\* An escape of one letter.
LEMMA SimpleEscapeStep == IInv /\ SimpleEscape => IInv'
<1> SUFFICES ASSUME IInv, SimpleEscape PROVE IInv' OBVIOUS
<1>1. /\ i \in Nat /\ Len(self) \in Nat /\ i + 1 <= Len(self)
      /\ Ahead \in SimpleEscapes /\ Put(<<Escaped(Ahead)>>, 2)
  BY AheadInside DEF SimpleEscape
<1>2. Escaped(Ahead) \in Byte BY <1>1 DEF SimpleEscapes, Escaped, Byte, Quote, Backslash
<1> DEFINE bs == <<Escaped(Ahead)>>
<1>3. bs \in Seq(Byte) /\ Len(bs) = 1 BY <1>2
<1>4. Put(bs, 2) BY <1>1
<1> HIDE DEF bs
<1>5. Len(bs) <= 2 /\ i + 2 <= Len(self) + 1 /\ 2 \in Nat BY <1>1, <1>3
<1> QED BY <1>3, <1>4, <1>5, PutStep, Zenon

\* Hexadecimal digits make a number.
LEMMA HexNumber ==
  ASSUME NEW p \in Nat, NEW n \in {4, 8}, \A q \in p .. p + n - 1 : IsHex(self[q])
  PROVE  Hex(p, n) \in Nat
<1>1. ASSUME NEW c, IsHex(c) PROVE HexDigit(c) \in Nat BY <1>1 DEF IsHex, HexDigit
<1>2. ASSUME NEW q \in Nat, \A r \in q .. q + 3 : IsHex(self[r]) PROVE Hex4(q) \in Nat
  <2>1. /\ HexDigit(self[q]) \in Nat /\ HexDigit(self[q + 1]) \in Nat
        /\ HexDigit(self[q + 2]) \in Nat /\ HexDigit(self[q + 3]) \in Nat
    <3>1. /\ q \in q .. q + 3 /\ q + 1 \in q .. q + 3
          /\ q + 2 \in q .. q + 3 /\ q + 3 \in q .. q + 3
      OBVIOUS
    <3> QED BY <1>1, <1>2, <3>1
  <2> QED BY <2>1 DEF Hex4
<1>3. CASE n = 4 BY <1>2, <1>3 DEF Hex
<1>4. CASE n = 8
  <2>1. Hex4(p) \in Nat BY <1>2, <1>4
  <2>2. Hex4(p + 4) \in Nat BY <1>2, <1>4
  <2> QED BY <1>4, <2>1, <2>2 DEF Hex
<1> QED BY <1>3, <1>4

\* An escape of 6 bytes or 10 is replaced by 4 bytes at most.
LEMMA UnicodeEscapeStep ==
  ASSUME IInv, NEW letter, NEW n \in {4, 8}, UnicodeEscape(letter, n)
  PROVE  IInv'
<1>1. /\ i \in Nat /\ Len(self) \in Nat
  BY AheadInside DEF UnicodeEscape
<1>2. CASE Fail("too_few_hex_digits") BY <1>2, FailStep DEF Errors
<1>3. CASE Fail("not_hex") BY <1>3, FailStep DEF Errors
<1>4. CASE Fail("not_a_code_point") BY <1>4, FailStep DEF Errors
<1>5. CASE /\ ~TooShort(n) /\ \A p \in i + 2 .. i + 1 + n : IsHex(self[p])
           /\ Put(Utf8(Hex(i + 2, n)), Skip(n))
  <2>1. Hex(i + 2, n) \in Nat
    <3>1. i + 2 \in Nat /\ (i + 2) + n - 1 = i + 1 + n BY <1>1
    <3> QED BY <1>5, <3>1, HexNumber
  <2>2. Utf8(Hex(i + 2, n)) \in Seq(Byte) /\ Len(Utf8(Hex(i + 2, n))) <= 4 BY <2>1, Utf8Length
  <2>3. Skip(n) \in Nat /\ 4 <= Skip(n) /\ i + Skip(n) <= Len(self) + 1
    BY <1>1, <1>5 DEF Skip, TooShort
  <2>4. PICK bs \in Seq(Byte) : Len(bs) <= 4 /\ Put(bs, Skip(n)) BY <1>5, <2>2
  <2>5. Len(bs) <= Skip(n)
    <3>1. Len(bs) \in Nat OBVIOUS
    <3> QED BY <2>3, <2>4, <3>1
  <2> QED BY <2>3, <2>4, <2>5, PutStep
<1> QED BY <1>2, <1>3, <1>4, <1>5, Zenon DEF UnicodeEscape

\* Every step.
LEMMA NextPreservesIInv == IInv /\ [Next]_vars => IInv'
<1> SUFFICES ASSUME IInv, [Next]_vars PROVE IInv' OBVIOUS
<1>1. CASE Plain BY <1>1, PlainStep
<1>2. CASE SimpleEscape BY <1>2, SimpleEscapeStep
<1>3. CASE UnknownEscape BY <1>3, FailStep DEF UnknownEscape, Errors
<1>4. CASE ShortUnicode BY <1>4, UnicodeEscapeStep DEF ShortUnicode
<1>5. CASE LongUnicode BY <1>5, UnicodeEscapeStep DEF LongUnicode
<1>6. CASE Done BY <1>6 DEF Done, IInv, TypeOK
<1>7. CASE UNCHANGED vars BY <1>7 DEF vars, IInv, TypeOK
<1> QED BY <1>1, <1>2, <1>3, <1>4, <1>5, <1>6, <1>7 DEF Next

\* The invariant, for every body a string token may have.
LEMMA InvariantHolds == Spec => []IInv
<1> QED BY InitEstablishesIInv, NextPreservesIInv, PTL DEF Spec

\* Type correctness: the index of the loop never leaves the slice, and every
\* unit that is stored is a byte.
THEOREM TypeCorrect == Spec => []TypeOK
<1>1. IInv => TypeOK BY DEF IInv
<1> QED BY InvariantHolds, <1>1, PTL

\* The assertion of string_append never fails, and the lookahead after a
\* backslash stays inside the slice, for every string token of the scanner.
THEOREM NeverOutOfBounds == Spec => []InBounds
<1>1. IInv => InBounds
  <2> SUFFICES ASSUME IInv PROVE InBounds OBVIOUS
  <2>1. Len(dst) \in Nat /\ Len(self) \in Nat /\ i \in 1 .. Len(self) + 1 BY DEF IInv, TypeOK
  <2>2. Len(dst) <= Len(self) BY <2>1 DEF IInv
  <2> QED BY <2>2, AheadInside DEF InBounds
<1> QED BY InvariantHolds, <1>1, PTL

-----------------------------------------------------------------------------
(* Encodings.                                                              *)

\* The number of bytes that the first one announces.
Announced(x) == IF x <= 127 THEN 1 ELSE IF x <= 223 THEN 2 ELSE IF x <= 239 THEN 3 ELSE 4

\* The first byte of an encoding says how long it is, and the others are not
\* ASCII.
LEMMA EncodingBytes ==
  ASSUME NEW b \in Seq(Byte), IsEncoding(b)
  PROVE  /\ Point(b) \in Nat /\ Len(b) \in 1 .. 4
         /\ Len(b) = Announced(b[1])
         /\ Len(b) # 1 => \A k \in 1 .. Len(b) : b[k] >= 128
<1>1. Len(b) \in 1 .. 4 /\ IsScalar(Point(b)) /\ Point(b) >= Least(Len(b)) BY Zenon DEF IsEncoding
<1>2. \A k \in 1 .. Len(b) : b[k] \in 0 .. 255
  <2>1. \A k \in 1 .. Len(b) : b[k] \in Byte OBVIOUS
  <2> QED BY <2>1 DEF Byte
<1>3. Point(b) # -1
  <2>1. Least(Len(b)) \in Nat BY <1>1 DEF Least
  <2> QED BY <1>1, <2>1
<1>4. CASE Len(b) = 1
  <2>1. b[1] \in 0 .. 255 BY <1>2, <1>4
  <2>2. Within(b[1], 0, 127) BY <1>3, <1>4, SMT DEF Point
  <2>3. Point(b) = b[1] BY <1>4, <2>2, SMT DEF Point
  <2> QED BY <1>1, <1>4, <2>1, <2>2, <2>3 DEF Within, Announced
<1>5. CASE Len(b) = 2
  <2>1. PICK x, y \in 0 .. 255 : x = b[1] /\ y = b[2]
    <3>1. b[1] \in 0 .. 255 /\ b[2] \in 0 .. 255 BY <1>2, <1>5
    <3> QED BY <3>1, Zenon
  <2>2. Within(b[1], 192, 223) /\ IsTrailing(b[2])
    BY <1>3, <1>5, SMT DEF Point
  <2>3. x \in 192 .. 223 /\ y \in 128 .. 191
    <3>1. Within(x, 192, 223) /\ IsTrailing(y) BY <2>1, <2>2
    <3> QED BY <3>1 DEF Within, IsTrailing
  <2>4. Point(b) \in Nat
    <3>1. Point(b) = ((b[1] - 192) * 64) + (b[2] - 128)
      BY <1>5, <2>2, SMT DEF Point
    <3>2. Point(b) = ((x - 192) * 64) + (y - 128)
      BY <2>1, <3>1, SMT
    <3> QED BY <2>3, <3>2, SMT
  <2>5. b[1] >= 128 /\ b[2] >= 128 /\ Announced(b[1]) = 2
    <3>1. x >= 128 /\ y >= 128 /\ Announced(x) = 2 BY <2>3 DEF Announced
    <3> QED BY <2>1, <3>1
  <2>6. \A k \in 1 .. 2 : k = 1 \/ k = 2 OBVIOUS
  <2> QED BY <1>1, <1>5, <2>4, <2>5, <2>6
<1>6. CASE Len(b) = 3
  <2>1. PICK x, y, z \in 0 .. 255 : x = b[1] /\ y = b[2] /\ z = b[3]
    <3>1. b[1] \in 0 .. 255 /\ b[2] \in 0 .. 255 /\ b[3] \in 0 .. 255 BY <1>2, <1>6
    <3> QED BY <3>1, Zenon
  <2>2. Within(b[1], 224, 239) /\ IsTrailing(b[2]) /\ IsTrailing(b[3])
    BY <1>3, <1>6, SMT DEF Point
  <2>3. x \in 224 .. 239 /\ y \in 128 .. 191 /\ z \in 128 .. 191
    <3>1. Within(x, 224, 239) /\ IsTrailing(y) /\ IsTrailing(z) BY <2>1, <2>2
    <3> QED BY <3>1 DEF Within, IsTrailing
  <2>4. Point(b) \in Nat
    <3>1. Point(b) = ((b[1] - 224) * 4096) + ((b[2] - 128) * 64) + (b[3] - 128)
      BY <1>6, <2>2, SMT DEF Point
    <3>2. Point(b) = ((x - 224) * 4096) + ((y - 128) * 64) + (z - 128)
      BY <2>1, <3>1, SMT
    <3> QED BY <2>3, <3>2, SMT
  <2>5. b[1] >= 128 /\ b[2] >= 128 /\ b[3] >= 128 /\ Announced(b[1]) = 3
    <3>1. x >= 128 /\ y >= 128 /\ z >= 128 /\ Announced(x) = 3 BY <2>3 DEF Announced
    <3> QED BY <2>1, <3>1
  <2>6. \A k \in 1 .. 3 : k = 1 \/ k = 2 \/ k = 3 OBVIOUS
  <2> QED BY <1>1, <1>6, <2>4, <2>5, <2>6
<1>7. CASE Len(b) = 4
  <2>1. PICK x, y, z, w \in 0 .. 255 : x = b[1] /\ y = b[2] /\ z = b[3] /\ w = b[4]
    <3>1. b[1] \in 0 .. 255 /\ b[2] \in 0 .. 255 /\ b[3] \in 0 .. 255 /\ b[4] \in 0 .. 255 BY <1>2, <1>7
    <3> QED BY <3>1, Zenon
  <2>2. Within(b[1], 240, 247) /\ IsTrailing(b[2]) /\ IsTrailing(b[3]) /\ IsTrailing(b[4])
    BY <1>3, <1>7, SMT DEF Point
  <2>3. x \in 240 .. 247 /\ y \in 128 .. 191 /\ z \in 128 .. 191 /\ w \in 128 .. 191
    <3>1. Within(x, 240, 247) /\ IsTrailing(y) /\ IsTrailing(z) /\ IsTrailing(w) BY <2>1, <2>2
    <3> QED BY <3>1 DEF Within, IsTrailing
  <2>4. Point(b) \in Nat
    <3>1. Point(b) = ((b[1] - 240) * 262144) + ((b[2] - 128) * 4096) + ((b[3] - 128) * 64) + (b[4] - 128)
      BY <1>7, <2>2, SMT DEF Point
    <3>2. Point(b) = ((x - 240) * 262144) + ((y - 128) * 4096) + ((z - 128) * 64) + (w - 128)
      BY <2>1, <3>1, SMT
    <3> QED BY <2>3, <3>2, SMT
  <2>5. b[1] >= 128 /\ b[2] >= 128 /\ b[3] >= 128 /\ b[4] >= 128 /\ Announced(b[1]) = 4
    <3>1. x >= 128 /\ y >= 128 /\ z >= 128 /\ w >= 128 /\ Announced(x) = 4 BY <2>3 DEF Announced
    <3> QED BY <2>1, <3>1
  <2>6. \A k \in 1 .. 4 : k = 1 \/ k = 2 \/ k = 3 \/ k = 4 OBVIOUS
  <2> QED BY <1>1, <1>7, <2>4, <2>5, <2>6
<1> QED BY <1>1, <1>4, <1>5, <1>6, <1>7

\* A part of a text.
LEMMA Part ==
  ASSUME NEW bs \in Seq(Byte), NEW n \in 1 .. Len(bs), NEW m \in n .. Len(bs)
  PROVE  /\ SubSeq(bs, n, m) \in Seq(Byte) /\ Len(SubSeq(bs, n, m)) = m - n + 1
         /\ SubSeq(bs, n, m)[1] = bs[n]
         /\ \A k \in n .. m : /\ k - n + 1 \in 1 .. m - n + 1
                              /\ SubSeq(bs, n, m)[k - n + 1] = bs[k]
<1>1. n \in Nat /\ m \in Nat /\ Len(bs) \in Nat /\ n <= m OBVIOUS
<1>2. \A k \in n .. m : bs[k] \in Byte BY <1>1
<1>3. SubSeq(bs, n, m) = [k \in 1 .. m - n + 1 |-> bs[n + k - 1]] BY <1>1
<1>4. \A k \in 1 .. m - n + 1 : n + k - 1 \in n .. m BY <1>1
<1>5. SubSeq(bs, n, m) \in Seq(Byte) BY <1>1, <1>2, <1>3, <1>4
<1>6. Len(SubSeq(bs, n, m)) = m - n + 1 BY <1>1
<1>7. \A k \in n .. m : k - n + 1 \in 1 .. m - n + 1 /\ n + (k - n + 1) - 1 = k BY <1>1
<1>8. \A k \in n .. m : SubSeq(bs, n, m)[k - n + 1] = bs[k] BY <1>3, <1>7
<1>9. n \in n .. m /\ n - n + 1 = 1 BY <1>1
<1> QED BY <1>5, <1>6, <1>7, <1>8, <1>9

\* The character at n, when there is one.
LEMMA CharThere ==
  ASSUME NEW bs \in Seq(Byte), NEW n \in 1 .. Len(bs), NEW m \in n .. Len(bs),
         IsEncoding(SubSeq(bs, n, m))
  PROVE  /\ CharAt(bs, n) = [point |-> Point(SubSeq(bs, n, m)), next |-> m + 1]
         /\ Point(SubSeq(bs, n, m)) \in Nat
         /\ m # n => \A k \in n .. m : bs[k] >= 128
<1>1. ASSUME NEW e \in n .. Len(bs), IsEncoding(SubSeq(bs, n, e))
      PROVE  /\ e - n + 1 = Announced(bs[n]) /\ e < n + 4
             /\ Point(SubSeq(bs, n, e)) \in Nat
             /\ e # n => \A k \in n .. e : bs[k] >= 128
  <2>1. PICK b \in Seq(Byte) : b = SubSeq(bs, n, e) BY Part
  <2>2. /\ Len(b) = e - n + 1 /\ b[1] = bs[n]
        /\ \A k \in n .. e : k - n + 1 \in 1 .. e - n + 1 /\ b[k - n + 1] = bs[k]
    BY <2>1, Part
  <2>3. /\ Point(b) \in Nat /\ Len(b) \in 1 .. 4 /\ Len(b) = Announced(b[1])
        /\ Len(b) # 1 => \A k \in 1 .. Len(b) : b[k] >= 128
    BY <1>1, <2>1, EncodingBytes
  <2>4. e < n + 4 BY <2>2, <2>3
  <2>5. ASSUME e # n, NEW k \in n .. e PROVE bs[k] >= 128
    <3>1. Len(b) # 1 BY <2>2, <2>5
    <3> QED BY <2>2, <2>3, <3>1
  <2> QED BY <2>1, <2>2, <2>3, <2>4, <2>5
<1>2. Ends(bs, n) = {m}
  <2>1. m \in Ends(bs, n) BY <1>1 DEF Ends
  <2>2. ASSUME NEW e \in Ends(bs, n) PROVE e = m
    <3>1. e \in n .. Len(bs) /\ IsEncoding(SubSeq(bs, n, e)) BY DEF Ends
    <3>2. e - n + 1 = Announced(bs[n]) /\ m - n + 1 = Announced(bs[n]) BY <1>1, <3>1
    <3>3. e \in Int /\ m \in Int /\ n \in Int /\ e - n + 1 = m - n + 1 BY <3>1, <3>2
    <3> QED BY <3>3
  <2> QED BY <2>1, <2>2
<1>3. (CHOOSE e \in Ends(bs, n) : TRUE) = m BY <1>2
<1>4. CharAt(bs, n) = [point |-> Point(SubSeq(bs, n, m)), next |-> m + 1]
  BY <1>2, <1>3 DEF CharAt
<1> QED BY <1>1, <1>4

\* And when there is none.
LEMMA CharMissing ==
  ASSUME NEW bs \in Seq(Byte), NEW n \in 1 .. Len(bs)
  PROVE  \/ CharAt(bs, n) = Nothing(n)
         \/ \E m \in n .. Len(bs) : IsEncoding(SubSeq(bs, n, m))
<1>1. CASE Ends(bs, n) = {} BY <1>1 DEF CharAt
<1>2. CASE Ends(bs, n) # {} BY <1>2 DEF Ends
<1> QED BY <1>1, <1>2

-----------------------------------------------------------------------------
(* Readings.                                                               *)

\* There is a least number in every set of numbers that is not empty.
LEMMA LeastNumber ==
  ASSUME NEW T \in SUBSET Nat, T # {}
  PROVE  \E x \in T : \A y \in T : x <= y
<1> DEFINE R == OpToRel(<, Nat)
<1>1. \A x, y \in Nat : x < y => <<x, y>> \in R BY DEF OpToRel
<1>2. IsWellFoundedOn(R, Nat) BY NatLessThanWellFounded
<1> HIDE DEF R
<1>3. PICK x \in T : \A y \in T : ~(<<y, x>> \in R) BY <1>2, WFMin
<1>4. ASSUME NEW y \in T PROVE x <= y
  <2>1. x \in Nat /\ y \in Nat OBVIOUS
  <2>2. ~(y < x) BY <1>1, <1>3, <2>1, Zenon
  <2> QED BY <2>1, <2>2
<1> QED BY <1>4

\* What f says of n when at says what stands where, in a text of length len.
ReadAt(f, at, len, n) == IF n = len + 1 THEN <<>> ELSE Join(at[n].point, f[at[n].next])

\* The equations of Reading have a solution: one for the text from k + 1 on is
\* extended to k.
LEMMA ReadingsExist ==
  ASSUME NEW len \in Nat, NEW at, \A n \in 1 .. len : at[n].next \in n + 1 .. len + 1
  PROVE  \E f : f = [n \in 1 .. len + 1 |-> ReadAt(f, at, len, n)]
<1> DEFINE Solves(g, k) == /\ g = [n \in 1 .. len + 1 |-> g[n]]
                           /\ \A n \in k .. len + 1 : g[n] = ReadAt(g, at, len, n)
           Unsolved == {m \in 0 .. len : ~\E g : Solves(g, len + 1 - m)}
<1>1. ASSUME Unsolved # {} PROVE FALSE
  <2>1. PICK m \in Unsolved : \A y \in Unsolved : m <= y
    <3>1. Unsolved \in SUBSET Nat OBVIOUS
    <3> QED BY <1>1, <3>1, LeastNumber
  <2>2. m # 0
    <3>1. Solves([n \in 1 .. len + 1 |-> <<>>], len + 1)
      <4> DEFINE g == [n \in 1 .. len + 1 |-> <<>>]
      <4>1. g = [n \in 1 .. len + 1 |-> g[n]] OBVIOUS
      <4>2. ASSUME NEW n \in len + 1 .. len + 1 PROVE g[n] = ReadAt(g, at, len, n)
        <5>1. n = len + 1 /\ n \in 1 .. len + 1 BY <4>2
        <5> QED BY <5>1 DEF ReadAt
      <4> QED BY <4>1, <4>2
    <3>2. len + 1 - 0 = len + 1 OBVIOUS
    <3> HIDE DEF Solves
    <3> QED BY <2>1, <3>1, <3>2
  <2>3. m \in 1 .. len /\ m - 1 \in 0 .. len /\ ~(m <= m - 1) BY <2>2
  <2>4. PICK k \in 1 .. len : k = len + 1 - m /\ len + 1 - (m - 1) = k + 1 BY <2>3
  <2>5. PICK g : Solves(g, k + 1)
    <3> HIDE DEF Solves
    <3> QED BY <2>1, <2>3, <2>4
  <2> DEFINE f == [n \in 1 .. len + 1 |-> IF n = k THEN Join(at[k].point, g[at[k].next]) ELSE g[n]]
  <2>6. at[k].next \in k + 1 .. len + 1 OBVIOUS
  <2>7. \A n \in k + 1 .. len + 1 : n \in 1 .. len + 1 /\ n # k OBVIOUS
  <2>8. f[k] = Join(at[k].point, g[at[k].next]) /\ \A n \in k + 1 .. len + 1 : f[n] = g[n]
    BY <2>7
  <2>9. f = [n \in 1 .. len + 1 |-> f[n]] OBVIOUS
  <2> HIDE DEF f
  <2>10. ASSUME NEW n \in k .. len + 1 PROVE f[n] = ReadAt(f, at, len, n)
    <3>1. CASE n = k
      <4>1. f[at[k].next] = g[at[k].next] BY <2>6, <2>8
      <4>2. k # len + 1 OBVIOUS
      <4> QED BY <2>8, <3>1, <4>1, <4>2 DEF ReadAt
    <3>2. CASE n \in k + 1 .. len + 1
      <4>1. f[n] = g[n] /\ g[n] = ReadAt(g, at, len, n) BY <2>5, <2>8, <3>2
      <4>2. CASE n = len + 1 BY <4>1, <4>2 DEF ReadAt
      <4>3. CASE n \in 1 .. len
        <5>1. at[n].next \in n + 1 .. len + 1 BY <4>3
        <5>2. at[n].next \in k + 1 .. len + 1 BY <3>2, <4>3, <5>1
        <5>3. f[at[n].next] = g[at[n].next] BY <2>8, <5>2
        <5> QED BY <4>1, <5>3 DEF ReadAt
      <4>4. n = len + 1 \/ n \in 1 .. len BY <3>2
      <4> QED BY <4>2, <4>3, <4>4
    <3> QED BY <3>1, <3>2
  <2>11. Solves(f, k) BY <2>9, <2>10
  <2> HIDE DEF Solves
  <2> QED BY <2>1, <2>4, <2>11
<1>2. PICK g : Solves(g, 1)
  <2>1. len \in 0 .. len /\ len + 1 - len = 1 OBVIOUS
  <2> HIDE DEF Solves
  <2> QED BY <1>1, <2>1
<1> QED BY <1>2

\* The equations of Reading, of a text with bytes bs.
LEMMA ReadingEquations ==
  ASSUME NEW bs \in Seq(Byte), NEW as,
         \A n \in 1 .. Len(bs) : ItemAt(bs, n, as).next \in n + 1 .. Len(bs) + 1
  PROVE  /\ Reading(bs, as)[Len(bs) + 1] = <<>>
         /\ \A n \in 1 .. Len(bs) :
              Reading(bs, as)[n]
                = Join(ItemAt(bs, n, as).point, Reading(bs, as)[ItemAt(bs, n, as).next])
<1>1. PICK len \in Nat : len = Len(bs) OBVIOUS
<1> DEFINE at == [n \in 1 .. len |-> ItemAt(bs, n, as)]
           Solves(f) == f = [n \in 1 .. len + 1 |->
                               IF n = len + 1 THEN <<>>
                               ELSE Join(ItemAt(bs, n, as).point, f[ItemAt(bs, n, as).next])]
<1>2. PICK f : f = [n \in 1 .. len + 1 |-> ReadAt(f, at, len, n)]
  <2>1. \A n \in 1 .. len : at[n].next \in n + 1 .. len + 1 BY <1>1
  <2> HIDE DEF at
  <2> QED BY <2>1, ReadingsExist
<1>3. Solves(f)
  <2>1. ASSUME NEW n \in 1 .. len + 1
        PROVE  ReadAt(f, at, len, n)
                 = IF n = len + 1 THEN <<>>
                   ELSE Join(ItemAt(bs, n, as).point, f[ItemAt(bs, n, as).next])
    <3>1. CASE n = len + 1 BY <3>1 DEF ReadAt
    <3>2. CASE n # len + 1
      <4>1. n \in 1 .. len BY <3>2
      <4>2. at[n] = ItemAt(bs, n, as) BY <4>1
      <4> HIDE DEF at
      <4> QED BY <3>2, <4>2 DEF ReadAt
    <3> QED BY <3>1, <3>2
  <2> HIDE DEF at
  <2> QED BY <1>2, <2>1
<1>4. Reading(bs, as) = CHOOSE r : Solves(r) BY <1>1 DEF Reading
<1> HIDE DEF Solves
<1>5. Solves(Reading(bs, as)) BY <1>3, <1>4
<1>6. PICK r : r = Reading(bs, as) /\ Solves(r) BY <1>5
<1> USE DEF Solves
<1>7. \A n \in 1 .. len + 1 : r[n] = IF n = len + 1 THEN <<>>
                               ELSE Join(ItemAt(bs, n, as).point, r[ItemAt(bs, n, as).next])
  BY <1>6
<1>8. len + 1 \in 1 .. len + 1 /\ \A n \in 1 .. len : n \in 1 .. len + 1 /\ n # len + 1 OBVIOUS
<1>9. /\ r[len + 1] = <<>>
      /\ \A n \in 1 .. len : r[n] = Join(ItemAt(bs, n, as).point, r[ItemAt(bs, n, as).next])
  BY <1>7, <1>8, Zenon
<1> QED BY <1>1, <1>6, <1>9

\* What is read is nothing or a sequence of code points, if they are what the
\* items give.
LEMMA ReadingTypes ==
  ASSUME NEW bs \in Seq(Byte), NEW as,
         \A n \in 1 .. Len(bs) : /\ ItemAt(bs, n, as).next \in n + 1 .. Len(bs) + 1
                                 /\ ItemAt(bs, n, as).point \in Nat \cup {-1}
  PROVE  \A n \in 1 .. Len(bs) + 1 : Reading(bs, as)[n] \in Seq(Nat) \cup {Bad}
<1>1. PICK len \in Nat : len = Len(bs) OBVIOUS
<1>2. PICK f : f = Reading(bs, as) OBVIOUS
<1>3. /\ f[len + 1] = <<>>
      /\ \A n \in 1 .. len : f[n] = Join(ItemAt(bs, n, as).point, f[ItemAt(bs, n, as).next])
  BY <1>1, <1>2, ReadingEquations
<1> DEFINE Untyped == {m \in 0 .. len : f[len + 1 - m] \notin Seq(Nat) \cup {Bad}}
<1>4. ASSUME Untyped # {} PROVE FALSE
  <2>1. PICK m \in Untyped : \A y \in Untyped : m <= y
    <3>1. Untyped \in SUBSET Nat OBVIOUS
    <3> QED BY <1>4, <3>1, LeastNumber
  <2>2. len + 1 - 0 = len + 1 /\ <<>> \in Seq(Nat) OBVIOUS
  <2>3. m # 0 BY <1>3, <2>1, <2>2
  <2>4. PICK k \in 1 .. len : k = len + 1 - m BY <2>3
  <2>5. PICK x \in k + 1 .. len + 1 : x = ItemAt(bs, k, as).next BY <1>1
  <2>6. PICK p \in Nat \cup {-1} : p = ItemAt(bs, k, as).point BY <1>1
  <2>7. f[x] \in Seq(Nat) \cup {Bad}
    <3>1. len + 1 - x \in 0 .. len /\ ~(m <= len + 1 - x) /\ len + 1 - (len + 1 - x) = x
      BY <2>4
    <3> QED BY <2>1, <3>1
  <2>8. f[k] = Join(p, f[x]) BY <1>3, <2>5, <2>6
  <2>9. f[k] \in Seq(Nat) \cup {Bad}
    <3>1. CASE p = -1 \/ f[x] = Bad BY <2>8, <3>1 DEF Join
    <3>2. CASE p # -1 /\ f[x] # Bad
      <4>1. p \in Nat /\ f[x] \in Seq(Nat) BY <2>7, <3>2
      <4>2. f[k] = <<p>> \o f[x] BY <2>8, <3>2 DEF Join
      <4> QED BY <4>1, <4>2
    <3> QED BY <3>1, <3>2
  <2> QED BY <2>1, <2>4, <2>9
<1>5. ASSUME NEW n \in 1 .. len + 1 PROVE f[n] \in Seq(Nat) \cup {Bad}
  <2>1. len + 1 - n \in 0 .. len /\ len + 1 - (len + 1 - n) = n OBVIOUS
  <2> QED BY <1>4, <2>1
<1> QED BY <1>1, <1>2, <1>5

-----------------------------------------------------------------------------
(* Characters.                                                             *)

\* Where a character is, and how far it goes.
LEMMA CharItem ==
  ASSUME NEW bs \in Seq(Byte), NEW n \in 1 .. Len(bs)
  PROVE  /\ ItemAt(bs, n, "characters") = CharAt(bs, n)
         /\ CharAt(bs, n).next \in n + 1 .. Len(bs) + 1
         /\ CharAt(bs, n).point \in Nat \cup {-1}
<1>1. ItemAt(bs, n, "characters") = CharAt(bs, n) BY DEF ItemAt
<1>2. CASE CharAt(bs, n) = Nothing(n)
  <2>1. CharAt(bs, n).next = n + 1 /\ CharAt(bs, n).point = -1 BY <1>2 DEF Nothing
  <2> QED BY <1>1, <2>1
<1>3. ASSUME NEW m \in n .. Len(bs), IsEncoding(SubSeq(bs, n, m))
      PROVE  /\ CharAt(bs, n).next \in n + 1 .. Len(bs) + 1
             /\ CharAt(bs, n).point \in Nat \cup {-1}
  <2>1. PICK p \in Nat : CharAt(bs, n) = [point |-> p, next |-> m + 1] BY <1>3, CharThere
  <2>2. CharAt(bs, n).next = m + 1 /\ CharAt(bs, n).point = p BY <2>1
  <2> QED BY <2>2
<1> QED BY <1>1, <1>2, <1>3, CharMissing

\* From every place of a text where it can be read: there is a character, and
\* the rest can be read.
LEMMA CharRead ==
  ASSUME NEW bs \in Seq(Byte), NEW n \in 1 .. Len(bs),
         Reading(bs, "characters")[n] # Bad
  PROVE  \E m \in n .. Len(bs) :
           /\ IsEncoding(SubSeq(bs, n, m))
           /\ CharAt(bs, n) = [point |-> Point(SubSeq(bs, n, m)), next |-> m + 1]
           /\ Point(SubSeq(bs, n, m)) \in Nat
           /\ Reading(bs, "characters")[m + 1] \in Seq(Nat)
           /\ Reading(bs, "characters")[n]
                = <<Point(SubSeq(bs, n, m))>> \o Reading(bs, "characters")[m + 1]
<1>1. \A k \in 1 .. Len(bs) : /\ ItemAt(bs, k, "characters") = CharAt(bs, k)
                              /\ ItemAt(bs, k, "characters").next \in k + 1 .. Len(bs) + 1
                              /\ ItemAt(bs, k, "characters").point \in Nat \cup {-1}
  BY CharItem
<1>2. PICK f : f = Reading(bs, "characters") OBVIOUS
<1>3. \A k \in 1 .. Len(bs) + 1 : f[k] \in Seq(Nat) \cup {Bad} BY <1>1, <1>2, ReadingTypes
<1>4. f[n] = Join(CharAt(bs, n).point, f[CharAt(bs, n).next]) BY <1>1, <1>2, ReadingEquations
<1>5. CharAt(bs, n) # Nothing(n)
  <2>1. Nothing(n).point = -1 BY DEF Nothing
  <2> QED BY <1>2, <1>4, <2>1 DEF Join
<1>6. PICK m \in n .. Len(bs) : IsEncoding(SubSeq(bs, n, m)) BY <1>5, CharMissing
<1>7. PICK p \in Nat : p = Point(SubSeq(bs, n, m)) BY <1>6, CharThere
<1>8. CharAt(bs, n) = [point |-> p, next |-> m + 1] BY <1>6, <1>7, CharThere
<1>9. f[n] = Join(p, f[m + 1])
  <2>1. CharAt(bs, n).point = p /\ CharAt(bs, n).next = m + 1 BY <1>8
  <2> QED BY <1>4, <2>1
<1>10. f[m + 1] # Bad /\ f[n] = <<p>> \o f[m + 1] BY <1>2, <1>9 DEF Join
<1>11. f[m + 1] \in Seq(Nat)
  <2>1. m + 1 \in 1 .. Len(bs) + 1 OBVIOUS
  <2> QED BY <1>3, <1>10, <2>1
<1> QED BY <1>2, <1>6, <1>7, <1>8, <1>10, <1>11

\* A reading of characters is nothing or a sequence of code points, at every
\* place, and nothing is left to read at the end.
LEMMA CharsRead ==
  ASSUME NEW bs \in Seq(Byte)
  PROVE  /\ Reading(bs, "characters")[Len(bs) + 1] = <<>>
         /\ \A n \in 1 .. Len(bs) + 1 : Reading(bs, "characters")[n] \in Seq(Nat) \cup {Bad}
         /\ FromUtf8(bs) \in Seq(Nat) \cup {Bad}
<1>1. \A k \in 1 .. Len(bs) : /\ ItemAt(bs, k, "characters").next \in k + 1 .. Len(bs) + 1
                              /\ ItemAt(bs, k, "characters").point \in Nat \cup {-1}
  BY CharItem
<1>2. \A n \in 1 .. Len(bs) + 1 : Reading(bs, "characters")[n] \in Seq(Nat) \cup {Bad}
  BY <1>1, ReadingTypes
<1>3. Reading(bs, "characters")[Len(bs) + 1] = <<>> BY <1>1, ReadingEquations
<1>4. 1 \in 1 .. Len(bs) + 1
  <2>1. Len(bs) \in Nat OBVIOUS
  <2> QED BY <2>1
<1> QED BY <1>2, <1>3, <1>4 DEF FromUtf8

\* Nothing is a sequence of numbers.
LEMMA BadIsNone == Bad \notin Seq(Nat)
<1> SUFFICES ASSUME Bad \in Seq(Nat) PROVE FALSE OBVIOUS
<1>1. Bad = <<-1>> BY DEF Bad
<1>2. Len(Bad) = 1 /\ Bad[1] = -1 BY <1>1
<1>3. Bad[1] \in Nat BY <1>2
<1> QED BY <1>2, <1>3

\* A code point before a sequence, and one behind it.
LEMMA JoinSequences ==
  ASSUME NEW q \in Nat, NEW r \in Seq(Nat)
  PROVE  /\ Join(q, r) = <<q>> \o r /\ Join(q, r) \in Seq(Nat)
         /\ \A p \in Nat : Join(q, r \o <<p>>) = Join(q, r) \o <<p>>
<1>1. ASSUME NEW t \in Seq(Nat) PROVE Join(q, t) = <<q>> \o t
  <2>1. t # Bad BY BadIsNone, Zenon
  <2>2. q # -1 BY SMT
  <2> QED BY <2>1, <2>2, Zenon DEF Join
<1>2. ASSUME NEW p \in Nat PROVE Join(q, r \o <<p>>) = Join(q, r) \o <<p>>
  <2>1. r \o <<p>> \in Seq(Nat) /\ <<q>> \in Seq(Nat) /\ <<p>> \in Seq(Nat) OBVIOUS
  <2>2. (<<q>> \o r) \o <<p>> = <<q>> \o (r \o <<p>>) BY <2>1, ConcatAssociative, SMT
  <2>3. Join(q, r \o <<p>>) = <<q>> \o (r \o <<p>>) BY <1>1, <2>1, Zenon
  <2>4. Join(q, r) = <<q>> \o r BY <1>1
  <2> QED BY <2>2, <2>3, <2>4, Zenon
<1>3. <<q>> \o r \in Seq(Nat) OBVIOUS
<1> QED BY <1>1, <1>2, <1>3

\* The text of no bytes.
LEMMA EmptyDecodes == FromUtf8(<<>>) = <<>>
<1>1. <<>> \in Seq(Byte) /\ Len(<<>>) + 1 = 1 OBVIOUS
<1>2. PICK e : e = <<>> /\ e \in Seq(Byte) /\ Len(e) + 1 = 1 BY <1>1
<1> QED BY <1>2, CharsRead DEF FromUtf8

\* A part of a text that another text follows.
LEMMA PartOfPrefix ==
  ASSUME NEW ds \in Seq(Byte), NEW es \in Seq(Byte),
         NEW n \in 1 .. Len(ds), NEW m \in n .. Len(ds)
  PROVE  SubSeq(ds \o es, n, m) = SubSeq(ds, n, m)
<1>1. n \in Nat /\ m \in Nat /\ Len(ds) \in Nat /\ Len(es) \in Nat OBVIOUS
<1>2. Len(ds \o es) = Len(ds) + Len(es) /\ ds \o es \in Seq(Byte) OBVIOUS
<1>3. \A k \in 1 .. m - n + 1 : n + k - 1 \in 1 .. Len(ds) BY <1>1
<1>4. \A k \in 1 .. Len(ds) : (ds \o es)[k] = ds[k] OBVIOUS
<1>5. SubSeq(ds \o es, n, m) = [k \in 1 .. m - n + 1 |-> (ds \o es)[n + k - 1]] BY <1>1, <1>2
<1>6. SubSeq(ds, n, m) = [k \in 1 .. m - n + 1 |-> ds[n + k - 1]] BY <1>1
<1> QED BY <1>3, <1>4, <1>5, <1>6

\* An encoding at the end of a text is one code point more.
LEMMA AppendDecodes ==
  ASSUME NEW ds \in Seq(Byte), NEW e \in Seq(Byte), IsEncoding(e), FromUtf8(ds) # Bad
  PROVE  /\ FromUtf8(ds) \in Seq(Nat) /\ Point(e) \in Nat
         /\ FromUtf8(ds \o e) = FromUtf8(ds) \o <<Point(e)>>
         /\ FromUtf8(ds \o e) # Bad
<1>1. PICK len \in Nat : len = Len(ds) OBVIOUS
<1>2. PICK all \in Seq(Byte) : all = ds \o e
  <2>1. ds \o e \in Seq(Byte) BY ConcatProperties
  <2> QED BY <2>1
<1>3. Len(e) \in 1 .. 4 /\ Point(e) \in Nat BY EncodingBytes
<1>4. Len(all) = len + Len(e) BY <1>1, <1>2
<1>5. PICK p \in Nat : p = Point(e) BY <1>3
<1>6. PICK f : f = Reading(ds, "characters") OBVIOUS
<1>7. PICK g : g = Reading(all, "characters") OBVIOUS
<1>8. \A n \in 1 .. Len(all) : g[n] = Join(CharAt(all, n).point, g[CharAt(all, n).next])
  <2>1. \A n \in 1 .. Len(all) : /\ ItemAt(all, n, "characters") = CharAt(all, n)
                                 /\ ItemAt(all, n, "characters").next \in n + 1 .. Len(all) + 1
    BY CharItem
  <2> QED BY <1>7, <2>1, ReadingEquations
<1>9. g[len + 1] = <<p>>
  <2>1. len + 1 \in 1 .. Len(all) /\ Len(all) \in len + 1 .. Len(all) BY <1>3, <1>4
  <2>2. SubSeq(all, len + 1, Len(all)) = e
    <3>1. SubSeq(all, len + 1, Len(all)) = [k \in 1 .. Len(e) |-> all[len + k]]
      <4>1. Len(all) - (len + 1) + 1 = Len(e) BY <1>3, <1>4
      <4>2. \A k \in 1 .. Len(e) : (len + 1) + k - 1 = len + k BY <1>3
      <4>3. SubSeq(all, len + 1, Len(all))
              = [k \in 1 .. Len(all) - (len + 1) + 1 |-> all[(len + 1) + k - 1]]
        BY <2>1
      <4>4. [k \in 1 .. Len(e) |-> all[(len + 1) + k - 1]] = [k \in 1 .. Len(e) |-> all[len + k]]
        BY <4>2, Zenon
      <4>5. SubSeq(all, len + 1, Len(all)) = [k \in 1 .. Len(e) |-> all[(len + 1) + k - 1]]
        BY <4>1, <4>3, SMT
      <4> QED BY <4>4, <4>5, Zenon
    <3>2. \A k \in 1 .. Len(e) : all[len + k] = e[k] BY <1>1, <1>2
    <3>3. e = [k \in 1 .. Len(e) |-> e[k]] OBVIOUS
    <3>4. [k \in 1 .. Len(e) |-> all[len + k]] = [k \in 1 .. Len(e) |-> e[k]] BY <3>2, Zenon
    <3> QED BY <3>1, <3>3, <3>4, Zenon
  <2>3. CharAt(all, len + 1) = [point |-> p, next |-> Len(all) + 1]
    BY <1>5, <2>1, <2>2, CharThere
  <2>4. CharAt(all, len + 1).point = p /\ CharAt(all, len + 1).next = Len(all) + 1 BY <2>3
  <2>5. g[Len(all) + 1] = <<>> BY <1>7, CharsRead
  <2>6. g[len + 1] = Join(p, <<>>) BY <1>8, <2>1, <2>4, <2>5
  <2>7. Join(p, <<>>) = <<p>> \o <<>>
    <3>1. <<>> \in Seq(Nat) OBVIOUS
    <3> QED BY <3>1, JoinSequences, Zenon
  <2> QED BY <2>6, <2>7
<1> DEFINE Differs == {m \in 0 .. len : /\ f[len + 1 - m] # Bad
                                        /\ g[len + 1 - m] # f[len + 1 - m] \o <<p>>}
<1>10. ASSUME Differs # {} PROVE FALSE
  <2>1. PICK m \in Differs : \A y \in Differs : m <= y
    <3>1. Differs \in SUBSET Nat OBVIOUS
    <3> QED BY <1>10, <3>1, LeastNumber
  <2>2. m # 0
    <3>1. f[len + 1] = <<>> BY <1>1, <1>6, CharsRead
    <3>2. <<>> \o <<p>> = <<p>> /\ len + 1 - 0 = len + 1 OBVIOUS
    <3> QED BY <1>9, <2>1, <3>1, <3>2
  <2>3. PICK n \in 1 .. len : n = len + 1 - m BY <2>2
  <2>4. f[n] # Bad /\ g[n] # f[n] \o <<p>> BY <2>1, <2>3
  <2>5. PICK x \in n .. len :
          /\ IsEncoding(SubSeq(ds, n, x)) /\ Point(SubSeq(ds, n, x)) \in Nat
          /\ f[x + 1] \in Seq(Nat)
          /\ f[n] = <<Point(SubSeq(ds, n, x))>> \o f[x + 1]
    BY <1>1, <1>6, <2>4, CharRead
  <2>6. PICK q \in Nat : q = Point(SubSeq(ds, n, x)) BY <2>5
  <2>7. SubSeq(all, n, x) = SubSeq(ds, n, x) BY <1>1, <1>2, PartOfPrefix
  <2>8. n \in 1 .. Len(all) /\ x \in n .. Len(all) BY <1>3, <1>4
  <2>9. CharAt(all, n) = [point |-> q, next |-> x + 1]
    BY <2>5, <2>6, <2>7, <2>8, CharThere
  <2>10. g[x + 1] = f[x + 1] \o <<p>>
    <3>1. len + 1 - (x + 1) \in 0 .. len /\ ~(m <= len + 1 - (x + 1))
          /\ len + 1 - (len + 1 - (x + 1)) = x + 1
      BY <2>3
    <3>2. f[x + 1] # Bad BY <2>5, BadIsNone
    <3> QED BY <2>1, <3>1, <3>2
  <2>11. g[n] = Join(q, g[x + 1])
    <3>1. CharAt(all, n).point = q /\ CharAt(all, n).next = x + 1 BY <2>9
    <3> QED BY <1>8, <2>8, <3>1
  <2>12. PICK r \in Seq(Nat) : r = f[x + 1] BY <2>5
  <2>13. g[n] = Join(q, r \o <<p>>) BY <2>10, <2>11, <2>12, Zenon
  <2>14. Join(q, r \o <<p>>) = Join(q, r) \o <<p>> /\ Join(q, r) = <<q>> \o r
    BY JoinSequences, Zenon
  <2>15. f[n] = <<q>> \o r
    <3>1. f[n] = <<Point(SubSeq(ds, n, x))>> \o f[x + 1] BY <2>5, Zenon
    <3> HIDE DEF Differs
    <3> QED BY <3>1, <2>6, <2>12, SMT
  <2> HIDE DEF Differs
  <2>16. g[n] = f[n] \o <<p>>
    <3>1. Join(q, r) = f[n] BY <2>14, <2>15, Zenon
    <3>2. g[n] = Join(q, r) \o <<p>> BY <2>13, <2>14, Zenon
    <3> QED BY <3>1, <3>2, Zenon
  <2> QED BY <2>4, <2>16, Zenon
<1>11. FromUtf8(ds) = f[1] /\ FromUtf8(all) = g[1] BY <1>6, <1>7 DEF FromUtf8
<1>12. g[1] = f[1] \o <<p>>
  <2>1. len \in 0 .. len /\ len + 1 - len = 1 OBVIOUS
  <2> QED BY <1>10, <1>11, <2>1
<1>13. f[1] \in Seq(Nat) BY <1>11, CharsRead
<1>14. f[1] \o <<p>> \in Seq(Nat) BY <1>13
<1> QED BY <1>2, <1>3, <1>5, <1>11, <1>12, <1>13, <1>14, BadIsNone

-----------------------------------------------------------------------------
(* Escape sequences.                                                       *)

\* f are the numbers that the first digits stand for, of values d.
Sums(f, d, len) == f = [k \in 0 .. len |-> IF k = 0 THEN 0 ELSE 16 * f[k - 1] + d[k]]

\* The equations of HexNumbers have a solution: one for a digit less is
\* extended.
LEMMA SumsExist ==
  ASSUME NEW d, NEW len \in Nat
  PROVE  \E f : Sums(f, d, len)
<1> DEFINE None == {m \in Nat : ~\E f : Sums(f, d, m)}
<1>1. ASSUME None # {} PROVE FALSE
  <2>1. PICK m \in None : \A y \in None : m <= y BY <1>1, LeastNumber
  <2>2. CASE m = 0
    <3> DEFINE f == [k \in 0 .. 0 |-> 0]
    <3>1. f = [k \in 0 .. 0 |-> IF k = 0 THEN 0 ELSE 16 * f[k - 1] + d[k]] OBVIOUS
    <3> QED BY <2>1, <2>2, <3>1 DEF Sums
  <2>3. CASE m # 0
    <3>1. m - 1 \in Nat /\ ~(m <= m - 1) BY <2>3
    <3>2. PICK g : Sums(g, d, m - 1) BY <2>1, <3>1
    <3> DEFINE f == [k \in 0 .. m |-> IF k = m THEN 16 * g[m - 1] + d[m] ELSE g[k]]
    <3>3. /\ DOMAIN f = 0 .. m /\ f[m] = 16 * g[m - 1] + d[m]
          /\ \A k \in 0 .. m - 1 : f[k] = g[k]
          /\ g[0] = 0
          /\ \A k \in 1 .. m - 1 : g[k] = 16 * g[k - 1] + d[k]
      <4>1. \A k \in 0 .. m - 1 : k \in 0 .. m /\ k # m BY <3>1
      <4>2. m \in 0 .. m /\ 0 \in 0 .. m - 1 BY <3>1
      <4>3. \A k \in 1 .. m - 1 : k \in 0 .. m - 1 /\ k # 0 BY <3>1
      <4>4. g = [k \in 0 .. m - 1 |-> IF k = 0 THEN 0 ELSE 16 * g[k - 1] + d[k]]
        BY <3>2 DEF Sums
      <4>5. \A k \in 0 .. m - 1 : g[k] = IF k = 0 THEN 0 ELSE 16 * g[k - 1] + d[k] BY <4>4
      <4>6. g[0] = 0 BY <4>2, <4>5
      <4> QED BY <4>1, <4>2, <4>3, <4>5, <4>6
    <3>4. f = [k \in 0 .. m |-> f[k]] OBVIOUS
    <3> HIDE DEF f
    <3>5. ASSUME NEW k \in 0 .. m PROVE f[k] = IF k = 0 THEN 0 ELSE 16 * f[k - 1] + d[k]
      <4>1. CASE k = 0
        <5>1. 0 \in 0 .. m - 1 BY <3>1
        <5> QED BY <3>3, <4>1, <5>1
      <4>2. CASE k = m
        <5>1. m - 1 \in 0 .. m - 1 BY <3>1
        <5>2. f[m - 1] = g[m - 1] BY <3>3, <5>1
        <5> QED BY <2>3, <3>3, <4>2, <5>2
      <4>3. CASE k \in 1 .. m - 1
        <5>1. k \in 0 .. m - 1 /\ k - 1 \in 0 .. m - 1 /\ k # 0 BY <4>3
        <5>2. f[k - 1] = g[k - 1] /\ f[k] = g[k] BY <3>3, <5>1
        <5> QED BY <3>3, <4>3, <5>1, <5>2
      <4> QED BY <4>1, <4>2, <4>3
    <3>6. f = [k \in 0 .. m |-> IF k = 0 THEN 0 ELSE 16 * f[k - 1] + d[k]] BY <3>4, <3>5
    <3> QED BY <2>1, <3>6 DEF Sums
  <2> QED BY <2>2, <2>3
<1> QED BY <1>1

\* The digits of the reference are the digits of the code, with their values.
LEMMA DigitIs ==
  ASSUME NEW c \in Byte
  PROVE  /\ IsHex(c) <=> DigitValues(c) # {}
         /\ IsHex(c) => /\ HexDigit(c) \in 0 .. 15
                        /\ (CHOOSE v \in DigitValues(c) : TRUE) = HexDigit(c)
<1>1. ASSUME NEW v \in 0 .. 15 PROVE HexDigits[v + 1] = IF v <= 9 THEN 48 + v ELSE 87 + v
  <2>1. \/ v = 0 \/ v = 1 \/ v = 2 \/ v = 3 \/ v = 4 \/ v = 5 \/ v = 6 \/ v = 7
        \/ v = 8 \/ v = 9 \/ v = 10 \/ v = 11 \/ v = 12 \/ v = 13 \/ v = 14 \/ v = 15
    OBVIOUS
  <2> QED BY <2>1, SMT DEF HexDigits
<1>2. PICK x \in 0 .. 255 : x = c BY DEF Byte
<1>3. ASSUME NEW v \in DigitValues(c) PROVE IsHex(c) /\ v = HexDigit(c)
  <2>1. v \in 0 .. 15 /\ (HexDigits[v + 1] = x \/ (v > 9 /\ HexDigits[v + 1] = x + 32))
    BY <1>2 DEF DigitValues
  <2>2. \/ v <= 9 /\ x = 48 + v
        \/ v > 9 /\ x = 87 + v
        \/ v > 9 /\ x = 55 + v
    BY <1>1, <2>1
  <2> QED BY <1>2, <2>1, <2>2 DEF IsHex, HexDigit
<1>4. ASSUME IsHex(c) PROVE HexDigit(c) \in 0 .. 15 /\ HexDigit(c) \in DigitValues(c)
  <2>1. PICK v \in 0 .. 15 : /\ v = HexDigit(x)
                             /\ \/ v <= 9 /\ x = 48 + v
                                \/ v > 9 /\ x = 87 + v
                                \/ v > 9 /\ x = 55 + v
    <3>1. x \in 48 .. 57 \/ x \in 65 .. 70 \/ x \in 97 .. 102 BY <1>2, <1>4 DEF IsHex
    <3>2. CASE x \in 48 .. 57
      <4>1. HexDigit(x) = x - 48 BY <3>2 DEF HexDigit
      <4> QED BY <3>2, <4>1
    <3>3. CASE x \in 65 .. 70
      <4>1. HexDigit(x) = x - 55 BY <3>3 DEF HexDigit
      <4> QED BY <3>3, <4>1
    <3>4. CASE x \in 97 .. 102
      <4>1. HexDigit(x) = x - 87 BY <3>4 DEF HexDigit
      <4> QED BY <3>4, <4>1
    <3> QED BY <3>1, <3>2, <3>3, <3>4
  <2>2. HexDigits[v + 1] = x \/ (v > 9 /\ HexDigits[v + 1] = x + 32) BY <1>1, <2>1
  <2>3. v \in DigitValues(x) BY <2>2 DEF DigitValues
  <2> QED BY <1>2, <2>1, <2>3
<1>5. IsHex(c) => (CHOOSE v \in DigitValues(c) : TRUE) = HexDigit(c)
  <2> SUFFICES ASSUME IsHex(c) PROVE (CHOOSE v \in DigitValues(c) : TRUE) = HexDigit(c) OBVIOUS
  <2>1. DigitValues(c) # {} BY <1>4
  <2>2. (CHOOSE v \in DigitValues(c) : TRUE) \in DigitValues(c) BY <2>1
  <2> QED BY <1>3, <2>2
<1> QED BY <1>3, <1>4, <1>5

\* The numbers of the first digits.
LEMMA HexNumbersEquations ==
  ASSUME NEW ds \in Seq(Byte), \A k \in 1 .. Len(ds) : IsHex(ds[k])
  PROVE  /\ HexNumbers(ds)[0] = 0
         /\ \A k \in 1 .. Len(ds) : HexNumbers(ds)[k] = 16 * HexNumbers(ds)[k - 1] + HexDigit(ds[k])
<1>1. PICK len \in Nat : len = Len(ds) OBVIOUS
<1> DEFINE d == [k \in 1 .. len |-> CHOOSE v \in DigitValues(ds[k]) : TRUE]
           Solves(f) == f = [k \in 0 .. len |->
                               IF k = 0 THEN 0
                               ELSE 16 * f[k - 1] + (CHOOSE v \in DigitValues(ds[k]) : TRUE)]
<1>2. PICK f : Sums(f, d, len)
  <2> HIDE DEF d
  <2> QED BY SumsExist
<1>3. Solves(f)
  <2>1. \A k \in 1 .. len : d[k] = CHOOSE v \in DigitValues(ds[k]) : TRUE OBVIOUS
  <2> HIDE DEF d
  <2>2. ASSUME NEW k \in 0 .. len
        PROVE  (IF k = 0 THEN 0 ELSE 16 * f[k - 1] + d[k])
                 = IF k = 0 THEN 0 ELSE 16 * f[k - 1] + (CHOOSE v \in DigitValues(ds[k]) : TRUE)
    <3>1. CASE k = 0 BY <3>1
    <3>2. CASE k # 0
      <4>1. k \in 1 .. len BY <3>2
      <4> QED BY <2>1, <4>1
    <3> QED BY <3>1, <3>2
  <2> QED BY <1>2, <2>2 DEF Sums
<1>4. HexNumbers(ds) = CHOOSE r : Solves(r) BY <1>1 DEF HexNumbers
<1> HIDE DEF Solves
<1>5. PICK r : r = HexNumbers(ds) /\ Solves(r) BY <1>3, <1>4
<1> USE DEF Solves
<1>6. \A k \in 0 .. len : r[k] = IF k = 0 THEN 0
                                 ELSE 16 * r[k - 1] + (CHOOSE v \in DigitValues(ds[k]) : TRUE)
  BY <1>5
<1>7. 0 \in 0 .. len /\ \A k \in 1 .. len : k \in 0 .. len /\ k # 0 OBVIOUS
<1>8. /\ r[0] = 0
      /\ \A k \in 1 .. len : r[k] = 16 * r[k - 1] + (CHOOSE v \in DigitValues(ds[k]) : TRUE)
  BY <1>6, <1>7, Zenon
<1>9. \A k \in 1 .. len : (CHOOSE v \in DigitValues(ds[k]) : TRUE) = HexDigit(ds[k])
  <2>1. \A k \in 1 .. len : ds[k] \in Byte /\ IsHex(ds[k]) BY <1>1
  <2> QED BY <2>1, DigitIs
<1> QED BY <1>1, <1>5, <1>8, <1>9

\* The value of digits that are not all hexadecimal.
LEMMA NoHex ==
  ASSUME NEW ds \in Seq(Byte), NEW k \in 1 .. Len(ds), ~IsHex(ds[k])
  PROVE  FromHex(ds) = -1
<1>1. ds[k] \in Byte OBVIOUS
<1>2. DigitValues(ds[k]) = {} BY <1>1, DigitIs
<1> QED BY <1>2 DEF FromHex

\* The value of digits that are: that of the last number.
LEMMA AllHex ==
  ASSUME NEW ds \in Seq(Byte), \A k \in 1 .. Len(ds) : IsHex(ds[k])
  PROVE  FromHex(ds) = HexNumbers(ds)[Len(ds)]
<1>1. \A k \in 1 .. Len(ds) : ds[k] \in Byte OBVIOUS
<1>2. \A k \in 1 .. Len(ds) : DigitValues(ds[k]) # {} BY <1>1, DigitIs
<1> QED BY <1>2 DEF FromHex

\* A number with four digits more.
Shifted(x) == x * 65536

\* f are numbers, each of a digit more from p on.
FourMore(f, k, p) ==
  /\ f[k] \in Nat
  /\ \A j \in 1 .. 4 : /\ f[k + j] = 16 * f[k + j - 1] + HexDigit(self[p + j - 1])
                       /\ HexDigit(self[p + j - 1]) \in 0 .. 15

\* Four digits more.
LEMMA FourDigits ==
  ASSUME NEW f, NEW k \in Nat, NEW p \in Nat, FourMore(f, k, p)
  PROVE  /\ Hex4(p) \in Nat /\ f[k + 4] \in Nat
         /\ f[k + 4] = Shifted(f[k]) + Hex4(p)
<1>1. /\ f[k] \in Nat /\ 1 \in 1 .. 4 /\ 2 \in 1 .. 4 /\ 3 \in 1 .. 4 /\ 4 \in 1 .. 4
      /\ \A j \in 1 .. 4 : /\ f[k + j] = 16 * f[k + j - 1] + HexDigit(self[p + j - 1])
                           /\ HexDigit(self[p + j - 1]) \in 0 .. 15
  BY DEF FourMore
<1>2. /\ k + 1 - 1 = k /\ k + 2 - 1 = k + 1 /\ k + 3 - 1 = k + 2 /\ k + 4 - 1 = k + 3
      /\ p + 1 - 1 = p /\ p + 2 - 1 = p + 1 /\ p + 3 - 1 = p + 2 /\ p + 4 - 1 = p + 3
  OBVIOUS
<1>3. PICK x \in Nat : x = f[k] BY <1>1
<1>4. PICK v1 \in 0 .. 15 : v1 = HexDigit(self[p])
  <2>1. HexDigit(self[p + 1 - 1]) \in 0 .. 15 BY <1>1
  <2> QED BY <1>2, <2>1
<1>5. PICK v2 \in 0 .. 15 : v2 = HexDigit(self[p + 1])
  <2>1. HexDigit(self[p + 2 - 1]) \in 0 .. 15 BY <1>1
  <2> QED BY <1>2, <2>1
<1>6. PICK v3 \in 0 .. 15 : v3 = HexDigit(self[p + 2])
  <2>1. HexDigit(self[p + 3 - 1]) \in 0 .. 15 BY <1>1
  <2> QED BY <1>2, <2>1
<1>7. PICK v4 \in 0 .. 15 : v4 = HexDigit(self[p + 3])
  <2>1. HexDigit(self[p + 4 - 1]) \in 0 .. 15 BY <1>1
  <2> QED BY <1>2, <2>1
<1>8. f[k + 1] = 16 * x + v1
  <2>1. f[k + 1] = 16 * f[k + 1 - 1] + HexDigit(self[p + 1 - 1]) BY <1>1
  <2> QED BY <1>2, <1>3, <1>4, <2>1
<1>9. f[k + 2] = 16 * f[k + 1] + v2
  <2>1. f[k + 2] = 16 * f[k + 2 - 1] + HexDigit(self[p + 2 - 1]) BY <1>1
  <2> QED BY <1>2, <1>5, <2>1
<1>10. f[k + 3] = 16 * f[k + 2] + v3
  <2>1. f[k + 3] = 16 * f[k + 3 - 1] + HexDigit(self[p + 3 - 1]) BY <1>1
  <2> QED BY <1>2, <1>6, <2>1
<1>11. f[k + 4] = 16 * f[k + 3] + v4
  <2>1. f[k + 4] = 16 * f[k + 4 - 1] + HexDigit(self[p + 4 - 1]) BY <1>1
  <2> QED BY <1>2, <1>7, <2>1
<1>12. Hex4(p) = v1 * 4096 + v2 * 256 + v3 * 16 + v4
  BY <1>4, <1>5, <1>6, <1>7, SMT DEF Hex4
<1>13. PICK y1 \in Nat : y1 = f[k + 1] /\ y1 = 16 * x + v1 BY <1>8
<1>14. PICK y2 \in Nat : y2 = f[k + 2] /\ y2 = 16 * y1 + v2 BY <1>9, <1>13
<1>15. PICK y3 \in Nat : y3 = f[k + 3] /\ y3 = 16 * y2 + v3 BY <1>10, <1>14
<1>16. PICK y4 \in Nat : y4 = f[k + 4] /\ y4 = 16 * y3 + v4 BY <1>11, <1>15
<1>17. y4 = x * 65536 + (v1 * 4096 + v2 * 256 + v3 * 16 + v4) BY <1>13, <1>14, <1>15, <1>16, SMT
<1>18. v1 * 4096 + v2 * 256 + v3 * 16 + v4 \in Nat BY SMT
<1>19. PICK h \in Nat : h = Hex4(p) /\ y4 = x * 65536 + h BY <1>12, <1>17, <1>18, SMT
<1> QED BY <1>3, <1>16, <1>19, SMT DEF Shifted

\* The digits from p on, as the code and as the reference read them.
LEMMA HexAgrees ==
  ASSUME self \in Seq(Byte), NEW p \in 1 .. Len(self), NEW n \in {4, 8}, p + n - 1 <= Len(self)
  PROVE  /\ (\A q \in p .. p + n - 1 : IsHex(self[q])) =>
              FromHex(SubSeq(self, p, p + n - 1)) = Hex(p, n) /\ Hex(p, n) \in Nat
         /\ (\E q \in p .. p + n - 1 : ~IsHex(self[q])) =>
              FromHex(SubSeq(self, p, p + n - 1)) = -1
<1>1. p \in Nat /\ n \in Nat /\ Len(self) \in Nat /\ p + n - 1 \in p .. Len(self)
      /\ (p + n - 1) - p + 1 = n
  OBVIOUS
<1>2. PICK ds \in Seq(Byte) : ds = SubSeq(self, p, p + n - 1) BY <1>1, Part
<1>3. Len(ds) = n BY <1>1, <1>2, Part
<1>4. \A k \in 1 .. n : ds[k] = self[p + k - 1]
  <2>1. \A k \in 1 .. n : p + k - 1 \in p .. p + n - 1 /\ (p + k - 1) - p + 1 = k BY <1>1
  <2>2. \A q \in p .. p + n - 1 : ds[q - p + 1] = self[q] BY <1>1, <1>2, Part
  <2> QED BY <2>1, <2>2
<1>5. ASSUME NEW q \in p .. p + n - 1, ~IsHex(self[q]) PROVE FromHex(ds) = -1
  <2>1. q - p + 1 \in 1 .. n /\ p + (q - p + 1) - 1 = q BY <1>1
  <2>2. ds[q - p + 1] = self[q] BY <1>4, <2>1
  <2> QED BY <1>3, <1>5, <2>1, <2>2, NoHex
<1>6. ASSUME \A q \in p .. p + n - 1 : IsHex(self[q])
      PROVE  FromHex(ds) = Hex(p, n) /\ Hex(p, n) \in Nat
  <2>1. \A k \in 1 .. n : p + k - 1 \in p .. p + n - 1 BY <1>1
  <2>2. \A k \in 1 .. Len(ds) : IsHex(ds[k]) BY <1>3, <1>4, <1>6, <2>1
  <2>3. PICK f : f = HexNumbers(ds) OBVIOUS
  <2>4. f[0] = 0 /\ \A k \in 1 .. n : f[k] = 16 * f[k - 1] + HexDigit(self[p + k - 1])
    BY <1>3, <1>4, <2>2, <2>3, HexNumbersEquations
  <2>5. \A k \in 1 .. n : HexDigit(self[p + k - 1]) \in 0 .. 15
    <3>1. \A k \in 1 .. n : ds[k] \in Byte /\ IsHex(ds[k]) BY <1>3, <2>2
    <3> QED BY <1>4, <3>1, DigitIs
  <2>6. FromHex(ds) = f[n] BY <1>3, <2>2, <2>3, AllHex
  <2>7. ASSUME NEW k \in Nat, k + 4 <= n, f[k] \in Nat, NEW r \in Nat, r = p + k
        PROVE  Hex4(r) \in Nat /\ f[k + 4] \in Nat /\ f[k + 4] = Shifted(f[k]) + Hex4(r)
    <3>1. ASSUME NEW j \in 1 .. 4
          PROVE  /\ f[k + j] = 16 * f[k + j - 1] + HexDigit(self[r + j - 1])
                 /\ HexDigit(self[r + j - 1]) \in 0 .. 15
      <4>1. PICK l \in 1 .. n : l = k + j BY <1>1, <2>7
      <4>2. f[l] = 16 * f[l - 1] + HexDigit(self[p + l - 1]) BY <2>4
      <4>3. HexDigit(self[p + l - 1]) \in 0 .. 15 BY <2>5
      <4>4. p + l - 1 = r + j - 1 BY <1>1, <2>7, <4>1
      <4>5. HexDigit(self[r + j - 1]) \in 0 .. 15 BY <4>3, <4>4
      <4>6. f[k + j] = 16 * f[k + j - 1] + HexDigit(self[r + j - 1]) BY <4>1, <4>2, <4>4
      <4> QED BY <4>5, <4>6
    <3>2. \A j \in 1 .. 4 : /\ f[k + j] = 16 * f[k + j - 1] + HexDigit(self[r + j - 1])
                            /\ HexDigit(self[r + j - 1]) \in 0 .. 15
      BY <3>1, Zenon
    <3>3. f[k] \in Nat BY <2>7
    <3>4. FourMore(f, k, r) BY <3>2, <3>3, Zenon DEF FourMore
    <3> QED BY <3>4, FourDigits
  <2>8. Hex4(p) \in Nat /\ f[4] \in Nat /\ f[4] = Hex4(p)
    <3>1. f[0] \in Nat /\ 0 \in Nat /\ 0 + 4 <= n /\ p = p + 0 BY <1>1, <2>4
    <3>2. Hex4(p) \in Nat /\ f[0 + 4] \in Nat /\ f[0 + 4] = Shifted(f[0]) + Hex4(p)
      BY <1>1, <2>7, <3>1
    <3>3. PICK h \in Nat : h = Hex4(p) BY <3>2, SMT
    <3>4. f[0 + 4] = h
      <4>1. PICK z \in Nat : z = f[0] /\ z = 0 BY <2>4
      <4>2. f[0 + 4] = z * 65536 + h BY <3>2, <3>3, <4>1, SMT DEF Shifted
      <4> QED BY <4>1, <4>2, SMT
    <3> QED BY <3>3, <3>4
  <2>9. CASE n = 4
    <3>1. Hex(p, n) = Hex4(p) BY <2>9, SMT DEF Hex
    <3> QED BY <2>6, <2>8, <2>9, <3>1
  <2>10. CASE n = 8
    <3>1. PICK r \in Nat : r = p + 4 BY <1>1
    <3>2. 4 + 4 <= n /\ 4 \in Nat BY <2>10
    <3>3. Hex4(r) \in Nat /\ f[4 + 4] \in Nat /\ f[4 + 4] = Shifted(f[4]) + Hex4(r)
      BY <2>7, <2>8, <3>1, <3>2
    <3>4. Hex(p, n) = Hex4(p) * 65536 + Hex4(r) BY <2>10, <3>1, SMT DEF Hex
    <3>5. f[8] \in Nat /\ f[8] = Hex(p, n) BY <2>8, <3>3, <3>4, SMT DEF Shifted
    <3> QED BY <2>6, <2>10, <3>5
  <2> QED BY <2>9, <2>10
<1> QED BY <1>2, <1>5, <1>6

\* The table of the readme is that of the code.
LEMMA TableIs ==
  /\ \A e \in Table : e = <<e[1], Escaped(e[1])>> /\ e[1] \in SimpleEscapes
  /\ \A c \in SimpleEscapes : <<c, Escaped(c)>> \in Table /\ Escaped(c) \in 0 .. 127
<1>1. ASSUME NEW e \in Table PROVE e = <<e[1], Escaped(e[1])>> /\ e[1] \in SimpleEscapes
  BY SMT DEF Table, Escaped, SimpleEscapes, Quote, Backslash
<1>2. ASSUME NEW c \in SimpleEscapes PROVE <<c, Escaped(c)>> \in Table /\ Escaped(c) \in 0 .. 127
  BY SMT DEF Table, Escaped, SimpleEscapes, Quote, Backslash
<1> QED BY <1>1, <1>2

\* An escape of one letter.
LEMMA EscapeSimple ==
  ASSUME NEW bs, NEW n \in Nat, n + 1 <= Len(bs), bs[n + 1] \in SimpleEscapes
  PROVE  EscapeAt(bs, n) = [point |-> Escaped(bs[n + 1]), next |-> n + 2]
<1>1. PICK c \in SimpleEscapes : c = bs[n + 1] OBVIOUS
<1> DEFINE simple == {e \in Table : n + 1 <= Len(bs) /\ e[1] = bs[n + 1]}
<1>2. simple = {<<c, Escaped(c)>>}
  <2>1. <<c, Escaped(c)>> \in simple
    <3>1. <<c, Escaped(c)>>[1] = c OBVIOUS
    <3> QED BY <1>1, <3>1, TableIs
  <2>2. ASSUME NEW e \in simple PROVE e = <<c, Escaped(c)>> BY <1>1, TableIs
  <2> QED BY <2>1, <2>2
<1>3. simple # {} /\ (CHOOSE e \in simple : TRUE) = <<c, Escaped(c)>> BY <1>2
<1>4. <<c, Escaped(c)>>[2] = Escaped(c) OBVIOUS
<1> QED BY <1>1, <1>3, <1>4, Zenon DEF EscapeAt

\* The letters before hexadecimal digits.
Letter(w) == IF w = 4 THEN LowerU ELSE UpperU

\* No letter has two meanings.
LEMMA WidthsAre ==
  /\ \A e \in Widths : e[2] \in {4, 8} /\ e[1] = Letter(e[2]) /\ e = <<e[1], e[2]>>
  /\ \A w \in {4, 8} : <<Letter(w), w>> \in Widths /\ Letter(w) \notin SimpleEscapes
  /\ Letter(4) # Letter(8)
<1>1. ASSUME NEW e \in Widths PROVE e[2] \in {4, 8} /\ e[1] = Letter(e[2]) /\ e = <<e[1], e[2]>>
  BY SMT DEF Widths, Letter, LowerU, UpperU
<1>2. ASSUME NEW w \in {4, 8} PROVE <<Letter(w), w>> \in Widths /\ Letter(w) \notin SimpleEscapes
  BY SMT DEF Widths, Letter, LowerU, UpperU, SimpleEscapes, Quote, Backslash
<1>3. Letter(4) # Letter(8) BY SMT DEF Letter, LowerU, UpperU
<1> QED BY <1>1, <1>2, <1>3

\* Where no letter of the table stands.
LEMMA NotSimple ==
  ASSUME NEW bs, NEW n \in Nat, n + 1 <= Len(bs) => bs[n + 1] \notin SimpleEscapes
  PROVE  {e \in Table : n + 1 <= Len(bs) /\ e[1] = bs[n + 1]} = {}
<1>1. ASSUME NEW e \in Table, n + 1 <= Len(bs), e[1] = bs[n + 1] PROVE FALSE BY <1>1, TableIs
<1> QED BY <1>1, Zenon

\* An escape of four digits or eight.
LEMMA EscapeWide ==
  ASSUME NEW bs, NEW n \in Nat, NEW w \in {4, 8}, n + 1 + w <= Len(bs), Len(bs) \in Nat,
         bs[n + 1] = Letter(w)
  PROVE  EscapeAt(bs, n)
           = IF IsScalar(FromHex(SubSeq(bs, n + 2, n + 1 + w)))
             THEN [point |-> FromHex(SubSeq(bs, n + 2, n + 1 + w)), next |-> n + 2 + w]
             ELSE Nothing(n)
<1> DEFINE simple == {e \in Table : n + 1 <= Len(bs) /\ e[1] = bs[n + 1]}
           wide   == {e \in Widths : n + 1 + e[2] <= Len(bs) /\ e[1] = bs[n + 1]}
<1>1. simple = {}
  <2>1. bs[n + 1] \notin SimpleEscapes BY WidthsAre
  <2> QED BY <2>1, NotSimple
<1>2. wide = {<<Letter(w), w>>}
  <2>1. <<Letter(w), w>> \in wide
    <3>1. <<Letter(w), w>>[1] = Letter(w) /\ <<Letter(w), w>>[2] = w OBVIOUS
    <3>2. <<Letter(w), w>> \in Widths BY WidthsAre
    <3> QED BY <3>1, <3>2
  <2>2. ASSUME NEW e \in wide PROVE e = <<Letter(w), w>>
    <3>1. e[2] \in {4, 8} /\ e[1] = Letter(e[2]) /\ e = <<e[1], e[2]>> /\ e[1] = Letter(w)
      BY WidthsAre
    <3>2. e[2] = w
      <4>1. e[2] = 4 \/ e[2] = 8 BY <3>1
      <4>2. w = 4 \/ w = 8 OBVIOUS
      <4> QED BY <3>1, <4>1, <4>2, WidthsAre, Zenon
    <3> QED BY <3>1, <3>2, Zenon
  <2> QED BY <2>1, <2>2
<1>3. wide # {} /\ (CHOOSE e \in wide : TRUE) = <<Letter(w), w>> BY <1>2
<1>4. <<Letter(w), w>>[2] = w OBVIOUS
<1>5. (CHOOSE e \in wide : TRUE)[2] = w BY <1>3, <1>4
<1> QED BY <1>1, <1>3, <1>5, Zenon DEF EscapeAt

\* And everything else that starts with a backslash.
LEMMA EscapeNone ==
  ASSUME NEW bs, NEW n \in Nat, Len(bs) \in Nat,
         n + 1 <= Len(bs) => bs[n + 1] \notin SimpleEscapes,
         \A w \in {4, 8} : n + 1 + w <= Len(bs) => bs[n + 1] # Letter(w)
  PROVE  EscapeAt(bs, n) = Nothing(n)
<1> DEFINE simple == {e \in Table : n + 1 <= Len(bs) /\ e[1] = bs[n + 1]}
           wide   == {e \in Widths : n + 1 + e[2] <= Len(bs) /\ e[1] = bs[n + 1]}
<1>1. simple = {} BY NotSimple
<1>2. ASSUME NEW e \in wide PROVE FALSE
  <2>1. e[2] \in {4, 8} /\ e[1] = Letter(e[2]) BY WidthsAre
  <2>2. n + 1 + e[2] <= Len(bs) /\ e[1] = bs[n + 1] OBVIOUS
  <2> QED BY <2>1, <2>2
<1>3. wide = {} BY <1>2
<1> QED BY <1>1, <1>3, Zenon DEF EscapeAt

\* Where an escape sequence ends, and what it stands for.
LEMMA EscapeItem ==
  ASSUME self \in Seq(Byte), NEW n \in 1 .. Len(self)
  PROVE  /\ EscapeAt(self, n).next \in n + 1 .. Len(self) + 1
         /\ EscapeAt(self, n).point \in Nat \cup {-1}
<1>1. n \in Nat /\ Len(self) \in Nat OBVIOUS
<1>2. ASSUME EscapeAt(self, n) = Nothing(n)
      PROVE  /\ EscapeAt(self, n).next \in n + 1 .. Len(self) + 1
             /\ EscapeAt(self, n).point \in Nat \cup {-1}
  <2>1. EscapeAt(self, n).next = n + 1 /\ EscapeAt(self, n).point = -1 BY <1>2 DEF Nothing
  <2> QED BY <2>1
<1>3. CASE n + 1 <= Len(self) /\ self[n + 1] \in SimpleEscapes
  <2>1. EscapeAt(self, n) = [point |-> Escaped(self[n + 1]), next |-> n + 2]
    BY <1>1, <1>3, EscapeSimple
  <2>2. Escaped(self[n + 1]) \in 0 .. 127 BY <1>3, TableIs
  <2>3. EscapeAt(self, n).next = n + 2 /\ EscapeAt(self, n).point \in 0 .. 127 BY <2>1, <2>2
  <2>4. n + 2 \in n + 1 .. Len(self) + 1 BY <1>1, <1>3
  <2>5. EscapeAt(self, n).point \in Nat
    <3>1. \A x \in 0 .. 127 : x \in Nat OBVIOUS
    <3> QED BY <2>3, <3>1, Zenon
  <2> QED BY <2>3, <2>4, <2>5, Zenon
<1>4. ASSUME NEW w \in {4, 8}, n + 1 + w <= Len(self), self[n + 1] = Letter(w)
      PROVE  /\ EscapeAt(self, n).next \in n + 1 .. Len(self) + 1
             /\ EscapeAt(self, n).point \in Nat \cup {-1}
  <2>1. PICK code : code = FromHex(SubSeq(self, n + 2, n + 1 + w)) OBVIOUS
  <2>2. EscapeAt(self, n) = IF IsScalar(code) THEN [point |-> code, next |-> n + 2 + w]
                            ELSE Nothing(n)
    BY <1>1, <1>4, <2>1, EscapeWide
  <2>3. code \in Nat \cup {-1}
    <3>1. n + 2 \in 1 .. Len(self) /\ (n + 2) + w - 1 = n + 1 + w BY <1>1, <1>4
    <3>2. (n + 2) + w - 1 <= Len(self) BY <1>4, <3>1
    <3>3. CASE \A q \in n + 2 .. (n + 2) + w - 1 : IsHex(self[q])
      BY <2>1, <3>1, <3>2, <3>3, HexAgrees
    <3>4. CASE \E q \in n + 2 .. (n + 2) + w - 1 : ~IsHex(self[q])
      <4>1. code = -1 BY <2>1, <3>1, <3>2, <3>4, HexAgrees
      <4> QED BY <4>1
    <3> QED BY <3>3, <3>4
  <2>4. CASE IsScalar(code)
    <3>1. EscapeAt(self, n).next = n + 2 + w /\ EscapeAt(self, n).point = code BY <2>2, <2>4
    <3> QED BY <1>1, <1>4, <2>3, <3>1
  <2>5. CASE ~IsScalar(code) BY <1>2, <2>2, <2>5
  <2> QED BY <2>4, <2>5
<1>5. CASE /\ n + 1 <= Len(self) => self[n + 1] \notin SimpleEscapes
           /\ \A w \in {4, 8} : n + 1 + w <= Len(self) => self[n + 1] # Letter(w)
  <2>1. EscapeAt(self, n) = Nothing(n) BY <1>1, <1>5, EscapeNone
  <2> QED BY <1>2, <2>1
<1> QED BY <1>3, <1>4, <1>5

\* The equations of the body with its escape sequences.
LEMMA BodyRead ==
  ASSUME self \in Seq(Byte)
  PROVE  /\ Reading(self, "escapes")[Len(self) + 1] = <<>>
         /\ \A n \in 1 .. Len(self) + 1 : Reading(self, "escapes")[n] \in Seq(Nat) \cup {Bad}
         /\ \A n \in 1 .. Len(self) :
              LET item == IF self[n] = 92 THEN EscapeAt(self, n) ELSE CharAt(self, n)
              IN  Reading(self, "escapes")[n]
                    = Join(item.point, Reading(self, "escapes")[item.next])
<1>1. ASSUME NEW n \in 1 .. Len(self)
      PROVE  /\ ItemAt(self, n, "escapes")
                  = IF self[n] = 92 THEN EscapeAt(self, n) ELSE CharAt(self, n)
             /\ ItemAt(self, n, "escapes").next \in n + 1 .. Len(self) + 1
             /\ ItemAt(self, n, "escapes").point \in Nat \cup {-1}
  <2>1. "escapes" # "characters" /\ "escapes" # "bytes" OBVIOUS
  <2>2. ItemAt(self, n, "escapes")
          = IF self[n] = 92 THEN EscapeAt(self, n) ELSE CharAt(self, n)
    BY <2>1, Zenon DEF ItemAt
  <2>3. CASE self[n] = 92 BY <2>2, <2>3, EscapeItem
  <2>4. CASE self[n] # 92 BY <2>2, <2>4, CharItem
  <2> QED BY <2>2, <2>3, <2>4
<1>2. /\ Reading(self, "escapes")[Len(self) + 1] = <<>>
      /\ \A n \in 1 .. Len(self) :
           Reading(self, "escapes")[n]
             = Join(ItemAt(self, n, "escapes").point,
                    Reading(self, "escapes")[ItemAt(self, n, "escapes").next])
  BY <1>1, ReadingEquations
<1>3. \A n \in 1 .. Len(self) + 1 : Reading(self, "escapes")[n] \in Seq(Nat) \cup {Bad}
  BY <1>1, ReadingTypes
<1>4. ASSUME NEW n \in 1 .. Len(self)
      PROVE  LET item == IF self[n] = 92 THEN EscapeAt(self, n) ELSE CharAt(self, n)
             IN  Reading(self, "escapes")[n]
                   = Join(item.point, Reading(self, "escapes")[item.next])
  <2>1. PICK item : /\ item = ItemAt(self, n, "escapes")
                    /\ item = IF self[n] = 92 THEN EscapeAt(self, n) ELSE CharAt(self, n)
    BY <1>1
  <2>2. Reading(self, "escapes")[n] = Join(item.point, Reading(self, "escapes")[item.next])
    BY <1>2, <2>1
  <2> QED BY <2>1, <2>2, Zenon
<1> QED BY <1>2, <1>3, <1>4

-----------------------------------------------------------------------------
(* The loop.                                                               *)

\* ASCII is a character.
LEMMA AsciiEncoding ==
  ASSUME NEW c \in 0 .. 127
  PROVE  <<c>> \in Seq(Byte) /\ IsEncoding(<<c>>) /\ Point(<<c>>) = c
<1>1. Len(<<c>>) = 1 /\ <<c>>[1] = c OBVIOUS
<1>2. Point(<<c>>) = c BY <1>1, SMT DEF Point, Within
<1>3. IsScalar(c) BY SMT DEF IsScalar
<1>4. Least(1) = 0 BY SMT DEF Least
<1>5. IsEncoding(<<c>>) BY <1>1, <1>2, <1>3, <1>4 DEF IsEncoding
<1>6. c \in Byte BY DEF Byte
<1> QED BY <1>2, <1>5, <1>6

\* Behind ASCII the rest can be read.
LEMMA AsciiRun ==
  ASSUME NEW s \in Seq(Byte), NEW n \in 1 .. Len(s), NEW len \in Nat, n + len <= Len(s) + 1,
         Reading(s, "characters")[n] # Bad, \A j \in n .. n + len - 1 : s[j] <= 127
  PROVE  Reading(s, "characters")[n + len] # Bad
<1> DEFINE Stuck == {m \in 0 .. len : Reading(s, "characters")[n + m] = Bad}
<1>1. ASSUME Stuck # {} PROVE FALSE
  <2>1. PICK m \in Stuck : \A y \in Stuck : m <= y
    <3>1. Stuck \in SUBSET Nat OBVIOUS
    <3> QED BY <1>1, <3>1, LeastNumber
  <2>2. m # 0
    <3>1. n + 0 = n OBVIOUS
    <3> QED BY <2>1, <3>1
  <2>3. m - 1 \in 0 .. len /\ ~(m <= m - 1) BY <2>2
  <2>4. PICK k \in 1 .. Len(s) : k = n + (m - 1) /\ k + 1 = n + m BY <2>3
  <2>5. Reading(s, "characters")[k] # Bad BY <2>1, <2>3, <2>4
  <2>6. s[k] <= 127 BY <2>3, <2>4
  <2>7. PICK e \in k .. Len(s) : /\ IsEncoding(SubSeq(s, k, e))
                                 /\ Reading(s, "characters")[e + 1] \in Seq(Nat)
    BY <2>5, CharRead
  <2>8. e # k => s[k] >= 128
    <3>1. e # k => \A j \in k .. e : s[j] >= 128 BY <2>7, CharThere
    <3>2. k \in k .. e OBVIOUS
    <3> QED BY <3>1, <3>2
  <2>9. s[k] \in 0 .. 255
    <3>1. s[k] \in Byte OBVIOUS
    <3> QED BY <3>1 DEF Byte
  <2>10. e = k
    <3>1. PICK x \in 0 .. 255 : x = s[k] BY <2>9
    <3>2. ~(x >= 128) BY <2>6, <3>1
    <3> QED BY <2>8, <3>1, <3>2, Zenon
  <2>11. Reading(s, "characters")[n + m] \in Seq(Nat) BY <2>4, <2>7, <2>10
  <2> QED BY <2>1, <2>11, BadIsNone
<1>2. len \in 0 .. len OBVIOUS
<1> QED BY <1>1, <1>2

\* What is read before is followed by what is read from here on.
Glue(q, r) == IF r = Bad THEN Bad ELSE q \o r

\* The loop is at k of the body s and has written d.  A character that it is
\* in the middle of ends before b: once that is written, d is the encoding of
\* what is read before b, and the rest is read from b on.
Caught(s, k, d, b) ==
  /\ \A j \in k .. b - 1 : s[j] # Backslash
  /\ Reading(s, "characters")[b] # Bad
  /\ FromUtf8(d \o SubSeq(s, k, b - 1)) # Bad
  /\ Reading(s, "escapes")[1]
       = Glue(FromUtf8(d \o SubSeq(s, k, b - 1)), Reading(s, "escapes")[b])

\* The loop follows the reference, on UTF-8 text.
Follows ==
  FromUtf8(self) # Bad =>
    /\ pc = "loop"  => \E b \in i .. Len(self) + 1 : Caught(self, i, dst, b)
    /\ pc = "done"  => Meaning # Bad /\ FromUtf8(dst) = Meaning
    /\ pc = "error" => Meaning = Bad

\* A code point moves from what is to be read to what has been.
LEMMA GlueJoin ==
  ASSUME NEW q \in Seq(Nat), NEW p \in Nat, NEW r \in Seq(Nat) \cup {Bad}
  PROVE  Glue(q, Join(p, r)) = Glue(q \o <<p>>, r)
<1>1. CASE r = Bad
  <2>1. Join(p, r) = Bad BY <1>1, Zenon DEF Join
  <2> QED BY <1>1, <2>1, Zenon DEF Glue
<1>2. CASE r \in Seq(Nat)
  <2>1. Join(p, r) = <<p>> \o r /\ Join(p, r) \in Seq(Nat) BY <1>2, JoinSequences, Zenon
  <2>2. Join(p, r) # Bad /\ r # Bad BY <1>2, <2>1, BadIsNone, Zenon
  <2>3. <<p>> \in Seq(Nat) OBVIOUS
  <2>4. (q \o <<p>>) \o r = q \o (<<p>> \o r) BY <1>2, <2>3, ConcatAssociative, SMT
  <2>5. Glue(q, Join(p, r)) = q \o (<<p>> \o r) BY <2>1, <2>2, Zenon DEF Glue
  <2>6. Glue(q \o <<p>>, r) = (q \o <<p>>) \o r BY <2>2, Zenon DEF Glue
  <2> QED BY <2>4, <2>5, <2>6, Zenon
<1> QED BY <1>1, <1>2

\* An item of the body is read, and its encoding written.
LEMMA OneMore ==
  ASSUME self \in Seq(Byte), NEW d \in Seq(Byte), NEW e \in Seq(Byte), IsEncoding(e),
         NEW n \in 1 .. Len(self), NEW x \in 1 .. Len(self) + 1, FromUtf8(d) # Bad,
         Reading(self, "escapes")[1] = Glue(FromUtf8(d), Reading(self, "escapes")[n]),
         Reading(self, "escapes")[n] = Join(Point(e), Reading(self, "escapes")[x])
  PROVE  /\ FromUtf8(d \o e) # Bad
         /\ Reading(self, "escapes")[1] = Glue(FromUtf8(d \o e), Reading(self, "escapes")[x])
<1>1. PICK f : f = Reading(self, "escapes") OBVIOUS
<1>2. f[x] \in Seq(Nat) \cup {Bad} BY <1>1, BodyRead
<1>3. PICK q \in Seq(Nat) : q = FromUtf8(d) BY AppendDecodes
<1>4. PICK p \in Nat : p = Point(e) BY AppendDecodes
<1>5. FromUtf8(d \o e) = q \o <<p>> /\ FromUtf8(d \o e) # Bad BY <1>3, <1>4, AppendDecodes
<1>6. f[1] = Glue(q, Join(p, f[x])) BY <1>1, <1>3, <1>4, Zenon
<1>7. Glue(q, Join(p, f[x])) = Glue(q \o <<p>>, f[x]) BY <1>2, GlueJoin, Zenon
<1> QED BY <1>1, <1>5, <1>6, <1>7, Zenon

\* No bytes of a character are left.
LEMMA NoneLeft ==
  ASSUME NEW s \in Seq(Byte), NEW d \in Seq(Byte), NEW k \in 1 .. Len(s) + 1
  PROVE  d \o SubSeq(s, k, k - 1) = d
<1>1. SubSeq(s, k, k - 1) = <<>>
  <2>1. k \in Nat /\ k - 1 < k OBVIOUS
  <2> QED BY <2>1
<1> QED BY <1>1

\* Between two characters, what is written is what was read.
LEMMA BetweenCharacters ==
  ASSUME NEW s \in Seq(Byte), NEW d \in Seq(Byte), NEW k \in 1 .. Len(s) + 1
  PROVE  Caught(s, k, d, k) <=>
           /\ Reading(s, "characters")[k] # Bad /\ FromUtf8(d) # Bad
           /\ Reading(s, "escapes")[1] = Glue(FromUtf8(d), Reading(s, "escapes")[k])
<1>1. d \o SubSeq(s, k, k - 1) = d BY NoneLeft
<1>2. \A j \in k .. k - 1 : FALSE OBVIOUS
<1> QED BY <1>1, <1>2, Zenon DEF Caught

\* The loop comes to a character.
LEMMA NextCharacter ==
  ASSUME self \in Seq(Byte), NEW d \in Seq(Byte), NEW k \in 1 .. Len(self),
         self[k] # Backslash, Caught(self, k, d, k)
  PROVE  \E b \in k + 1 .. Len(self) + 1 : Caught(self, k, d, b)
<1>1. k \in 1 .. Len(self) + 1 OBVIOUS
<1>2. /\ Reading(self, "characters")[k] # Bad /\ FromUtf8(d) # Bad
      /\ Reading(self, "escapes")[1] = Glue(FromUtf8(d), Reading(self, "escapes")[k])
  BY <1>1, BetweenCharacters
<1>3. PICK m \in k .. Len(self) :
        /\ IsEncoding(SubSeq(self, k, m))
        /\ CharAt(self, k) = [point |-> Point(SubSeq(self, k, m)), next |-> m + 1]
        /\ Reading(self, "characters")[m + 1] \in Seq(Nat)
  BY <1>2, CharRead
<1>4. PICK e \in Seq(Byte) : e = SubSeq(self, k, m) BY Part
<1>5. Reading(self, "escapes")[k] = Join(Point(e), Reading(self, "escapes")[m + 1])
  <2>1. self[k] # 92 BY DEF Backslash
  <2>2. CharAt(self, k).point = Point(e) /\ CharAt(self, k).next = m + 1 BY <1>3, <1>4
  <2>3. Reading(self, "escapes")[k]
          = Join(CharAt(self, k).point, Reading(self, "escapes")[CharAt(self, k).next])
    BY <2>1, BodyRead
  <2> QED BY <2>2, <2>3
<1>6. m + 1 \in k + 1 .. Len(self) + 1 /\ m + 1 \in 1 .. Len(self) + 1 /\ (m + 1) - 1 = m OBVIOUS
<1>7. /\ FromUtf8(d \o e) # Bad
      /\ Reading(self, "escapes")[1] = Glue(FromUtf8(d \o e), Reading(self, "escapes")[m + 1])
  BY <1>2, <1>3, <1>4, <1>5, <1>6, OneMore
<1>8. ASSUME NEW j \in k .. m PROVE self[j] # Backslash
  <2>1. CASE m = k
    <3>1. j = k BY <2>1
    <3> QED BY <3>1
  <2>2. CASE m # k
    <3>1. self[j] >= 128 BY <1>3, <2>2, CharThere
    <3> QED BY <3>1 DEF Backslash
  <2> QED BY <2>1, <2>2
<1>9. Reading(self, "characters")[m + 1] # Bad BY <1>3, BadIsNone, Zenon
<1>10. Caught(self, k, d, m + 1) BY <1>4, <1>6, <1>7, <1>8, <1>9 DEF Caught
<1> QED BY <1>6, <1>10

\* Three texts, one behind the other.
LEMMA ThreeTexts ==
  ASSUME NEW a \in Seq(Byte), NEW b \in Seq(Byte), NEW c \in Seq(Byte)
  PROVE  (a \o b) \o c = a \o (b \o c)
<1> QED BY ConcatAssociative

\* A byte before others.
LEMMA Prepended ==
  ASSUME NEW c \in Byte, NEW t \in Seq(Byte), NEW n \in Nat, Len(t) = n
  PROVE  /\ <<c>> \o t \in Seq(Byte)
         /\ Len(<<c>> \o t) = n + 1 /\ (<<c>> \o t)[1] = c
         /\ \A j \in 1 .. n : (<<c>> \o t)[j + 1] = t[j]
OBVIOUS

\* A byte of a character is copied.
LEMMA CopyByte ==
  ASSUME NEW s \in Seq(Byte), NEW d \in Seq(Byte), NEW k \in 1 .. Len(s),
         NEW b \in k + 1 .. Len(s) + 1, Caught(s, k, d, b)
  PROVE  Caught(s, k + 1, d \o <<s[k]>>, b)
<1>1. PICK m \in k .. Len(s) : m = b - 1 OBVIOUS
<1>2. <<s[k]>> \o SubSeq(s, k + 1, m) = SubSeq(s, k, m)
  <2>1. s[k] \in Byte OBVIOUS
  <2>2. PICK t \in Seq(Byte) : /\ t = SubSeq(s, k + 1, m) /\ Len(t) = m - k
                               /\ \A j \in 1 .. m - k : t[j] = s[k + j]
    <3>1. \A j \in k + 1 .. m : s[j] \in Byte OBVIOUS
    <3>2. SubSeq(s, k + 1, m) = [j \in 1 .. m - k |-> s[k + j]]
      <4>1. m - (k + 1) + 1 = m - k OBVIOUS
      <4>2. SubSeq(s, k + 1, m) = [j \in 1 .. m - (k + 1) + 1 |-> s[(k + 1) + j - 1]] OBVIOUS
      <4>3. \A j \in 1 .. m - k : (k + 1) + j - 1 = k + j OBVIOUS
      <4>4. [j \in 1 .. m - k |-> s[(k + 1) + j - 1]] = [j \in 1 .. m - k |-> s[k + j]]
        BY <4>3, Zenon
      <4>5. SubSeq(s, k + 1, m) = [j \in 1 .. m - k |-> s[(k + 1) + j - 1]]
        BY <4>1, <4>2, SMT
      <4> QED BY <4>4, <4>5, Zenon
    <3>3. m - k \in Nat /\ \A j \in 1 .. m - k : s[k + j] \in Byte
      <4>1. \A j \in 1 .. m - k : k + j \in k + 1 .. m OBVIOUS
      <4> QED BY <3>1, <4>1
    <3>4. PICK t : t = [j \in 1 .. m - k |-> s[k + j]] OBVIOUS
    <3>5. t \in Seq(Byte) /\ Len(t) = m - k /\ \A j \in 1 .. m - k : t[j] = s[k + j]
      BY <3>3, <3>4
    <3> QED BY <3>2, <3>4, <3>5
  <2>3. PICK u \in Seq(Byte) : /\ u = SubSeq(s, k, m) /\ Len(u) = m - k + 1 /\ u[1] = s[k]
                               /\ \A j \in k .. m : u[j - k + 1] = s[j]
    BY Part
  <2>4. PICK v \in Seq(Byte) : v = <<s[k]>> \o t
    <3>1. <<s[k]>> \in Seq(Byte) BY <2>1
    <3>2. <<s[k]>> \o t \in Seq(Byte) BY <3>1, ConcatProperties, Zenon
    <3> QED BY <3>2, Zenon
  <2>5. Len(v) = m - k + 1 /\ v[1] = s[k] /\ \A j \in 1 .. m - k : v[j + 1] = t[j]
    BY <2>1, <2>2, <2>4, Prepended
  <2>6. ASSUME NEW j \in 1 .. m - k + 1 PROVE v[j] = u[j]
    <3>1. CASE j = 1 BY <2>3, <2>5, <3>1
    <3>2. CASE j # 1
      <4>1. PICK l \in 1 .. m - k : j = l + 1 /\ k + l \in k .. m /\ (k + l) - k + 1 = j
        <5>1. j - 1 \in 1 .. m - k /\ j = (j - 1) + 1 BY <3>2
        <5>2. k + (j - 1) \in k .. m /\ (k + (j - 1)) - k + 1 = j BY <5>1
        <5> QED BY <5>1, <5>2
      <4>2. v[j] = s[k + l] BY <2>2, <2>5, <4>1
      <4>3. u[(k + l) - k + 1] = s[k + l] BY <2>3, <4>1
      <4> QED BY <4>1, <4>2, <4>3
    <3> QED BY <3>1, <3>2
  <2>7. v = u BY <2>3, <2>5, <2>6, SeqEqual
  <2> QED BY <2>2, <2>3, <2>4, <2>7, Zenon
<1>3. (d \o <<s[k]>>) \o SubSeq(s, k + 1, m) = d \o SubSeq(s, k, m)
  <2>1. <<s[k]>> \in Seq(Byte)
    <3>1. s[k] \in Byte OBVIOUS
    <3> QED BY <3>1
  <2>2. SubSeq(s, k + 1, m) \in Seq(Byte) OBVIOUS
  <2>3. (d \o <<s[k]>>) \o SubSeq(s, k + 1, m) = d \o (<<s[k]>> \o SubSeq(s, k + 1, m))
    <3>1. PICK h \in Seq(Byte) : h = <<s[k]>> BY <2>1, Zenon
    <3>2. PICK t \in Seq(Byte) : t = SubSeq(s, k + 1, m) BY <2>2, Zenon
    <3>3. (d \o h) \o t = d \o (h \o t) BY ThreeTexts
    <3> QED BY <3>1, <3>2, <3>3, Zenon
  <2> QED BY <1>2, <2>3, Zenon
<1>4. \A j \in k + 1 .. m : j \in k .. m OBVIOUS
<1> QED BY <1>1, <1>3, <1>4 DEF Caught

\* Hexadecimal digits are ASCII.
LEMMA HexIsAscii ==
  ASSUME NEW c, IsHex(c)
  PROVE  c <= 127
BY DEF IsHex

\* Nothing has been read.
LEMMA InitFollows == Init => Follows
<1> SUFFICES ASSUME Init, FromUtf8(self) # Bad
             PROVE  \E b \in i .. Len(self) + 1 : Caught(self, i, dst, b)
  BY DEF Init, Follows
<1>1. self \in Seq(Byte) /\ i = 1 /\ dst = <<>> BY BodiesAssumption DEF Init
<1>2. 1 \in 1 .. Len(self) + 1
  <2>1. Len(self) \in Nat BY <1>1
  <2> QED BY <2>1
<1>3. Reading(self, "characters")[1] # Bad BY DEF FromUtf8
<1>4. PICK d \in Seq(Byte) : d = <<>>
  <2>1. <<>> \in Seq(Byte) OBVIOUS
  <2> QED BY <2>1, Zenon
<1>5. FromUtf8(d) = <<>> /\ FromUtf8(d) # Bad
  <2>1. <<>> \in Seq(Nat) OBVIOUS
  <2> QED BY <1>4, <2>1, EmptyDecodes, BadIsNone
<1>6. PICK f : f = Reading(self, "escapes") OBVIOUS
<1>7. f[1] = Glue(<<>>, f[1])
  <2>1. f[1] \in Seq(Nat) \cup {Bad} BY <1>1, <1>2, <1>6, BodyRead
  <2> QED BY <2>1 DEF Glue
<1>8. Caught(self, 1, d, 1) BY <1>1, <1>2, <1>3, <1>5, <1>6, <1>7, BetweenCharacters
<1> QED BY <1>1, <1>2, <1>4, <1>8, Zenon

\* A byte is copied: the first of a character, or another one.
LEMMA PlainFollows ==
  ASSUME IInv, Plain, NEW b \in i .. Len(self) + 1, Caught(self, i, dst, b)
  PROVE  \E c \in i' .. Len(self) + 1 : Caught(self, i', dst', c)
<1>1. /\ self \in Seq(Byte) /\ dst \in Seq(Byte) /\ Len(self) \in Nat /\ i \in 1 .. Len(self)
      /\ self[i] # Backslash /\ i' = i + 1 /\ dst' = dst \o <<self[i]>>
  BY DEF IInv, TypeOK, Plain, Left, Put
<1>2. PICK c \in i + 1 .. Len(self) + 1 : Caught(self, i, dst, c)
  <2>1. CASE b = i BY <1>1, <2>1, NextCharacter
  <2>2. CASE b # i
    <3>1. b \in i + 1 .. Len(self) + 1 BY <1>1, <2>2
    <3> QED BY <3>1
  <2> QED BY <2>1, <2>2
<1>3. Caught(self, i + 1, dst \o <<self[i]>>, c) BY <1>1, <1>2, CopyByte
<1> QED BY <1>1, <1>2, <1>3, Zenon

\* At a backslash the loop is between two characters.
LEMMA EscapeStarts ==
  ASSUME IInv, AtEscape, NEW b \in i .. Len(self) + 1, Caught(self, i, dst, b)
  PROVE  Caught(self, i, dst, i)
<1>1. i \in 1 .. Len(self) /\ Len(self) \in Nat /\ self[i] = Backslash
  BY DEF IInv, TypeOK, AtEscape, Left
<1>2. ASSUME b # i PROVE FALSE
  <2>1. i \in i .. b - 1 BY <1>1, <1>2
  <2> QED BY <1>1, <2>1 DEF Caught
<1> QED BY <1>2

\* An escape sequence is replaced.
LEMMA EscapeReplaced ==
  ASSUME IInv, AtEscape, Caught(self, i, dst, i),
         NEW x \in i + 1 .. Len(self) + 1, NEW e \in Seq(Byte), IsEncoding(e),
         EscapeAt(self, i) = [point |-> Point(e), next |-> x],
         \A j \in i .. x - 1 : self[j] <= 127
  PROVE  Caught(self, x, dst \o e, x)
<1>1. /\ self \in Seq(Byte) /\ dst \in Seq(Byte) /\ Len(self) \in Nat /\ i \in 1 .. Len(self)
      /\ self[i] = 92
  BY DEF IInv, TypeOK, AtEscape, Left, Backslash
<1>2. /\ Reading(self, "characters")[i] # Bad /\ FromUtf8(dst) # Bad
      /\ Reading(self, "escapes")[1] = Glue(FromUtf8(dst), Reading(self, "escapes")[i])
  <2>1. i \in 1 .. Len(self) + 1 BY <1>1
  <2> QED BY <1>1, <2>1, BetweenCharacters
<1>3. Reading(self, "characters")[x] # Bad
  <2>1. PICK len \in Nat : len = x - i /\ i + len = x /\ i + len - 1 = x - 1
    <3>1. x - i \in Nat /\ i + (x - i) = x /\ i + (x - i) - 1 = x - 1 BY <1>1
    <3> QED BY <3>1
  <2>2. i + len <= Len(self) + 1 BY <1>1, <2>1
  <2>3. \A j \in i .. i + len - 1 : self[j] <= 127 BY <2>1
  <2>4. self \in Seq(Byte) /\ i \in 1 .. Len(self) BY <1>1
  <2>5. Reading(self, "characters")[i + len] # Bad
    BY <1>2, <2>2, <2>3, <2>4, AsciiRun, Zenon
  <2> QED BY <2>1, <2>5
<1>4. Reading(self, "escapes")[i] = Join(Point(e), Reading(self, "escapes")[x])
  <2>1. EscapeAt(self, i).point = Point(e) /\ EscapeAt(self, i).next = x OBVIOUS
  <2>2. Reading(self, "escapes")[i]
          = Join(EscapeAt(self, i).point, Reading(self, "escapes")[EscapeAt(self, i).next])
    BY <1>1, BodyRead
  <2> QED BY <2>1, <2>2
<1>5. x \in 1 .. Len(self) + 1 BY <1>1
<1>6. /\ FromUtf8(dst \o e) # Bad
      /\ Reading(self, "escapes")[1] = Glue(FromUtf8(dst \o e), Reading(self, "escapes")[x])
  BY <1>1, <1>2, <1>4, <1>5, OneMore
<1>7. dst \o e \in Seq(Byte) BY <1>1, ConcatProperties, Zenon
<1> QED BY <1>1, <1>3, <1>5, <1>6, <1>7, BetweenCharacters

\* A body with an escape sequence that is none stands for nothing.
LEMMA EscapeBroken ==
  ASSUME IInv, AtEscape, Caught(self, i, dst, i), EscapeAt(self, i) = Nothing(i)
  PROVE  Meaning = Bad
<1>1. /\ self \in Seq(Byte) /\ dst \in Seq(Byte) /\ Len(self) \in Nat /\ i \in 1 .. Len(self)
      /\ self[i] = 92
  BY DEF IInv, TypeOK, AtEscape, Left, Backslash
<1>2. Reading(self, "escapes")[i] = Bad
  <2>1. EscapeAt(self, i).point = -1 BY DEF Nothing
  <2>2. Reading(self, "escapes")[i]
          = Join(EscapeAt(self, i).point, Reading(self, "escapes")[EscapeAt(self, i).next])
    BY <1>1, BodyRead
  <2> QED BY <2>1, <2>2 DEF Join
<1>3. Reading(self, "escapes")[1] = Glue(FromUtf8(dst), Reading(self, "escapes")[i])
  <2>1. i \in 1 .. Len(self) + 1 BY <1>1
  <2> QED BY <1>1, <2>1, BetweenCharacters
<1> QED BY <1>2, <1>3 DEF Glue, Meaning

\* An escape of one letter.
LEMMA SimpleEscapeFollows ==
  ASSUME IInv, SimpleEscape, Caught(self, i, dst, i)
  PROVE  i' \in 1 .. Len(self) + 1 /\ Caught(self, i', dst', i')
<1>1. AtEscape /\ Ahead \in SimpleEscapes /\ Put(<<Escaped(Ahead)>>, 2) BY DEF SimpleEscape
<1>2. i \in Nat /\ Len(self) \in Nat /\ i + 1 <= Len(self) /\ Ahead = self[i + 1]
  BY <1>1, AheadInside
<1>3. i \in 1 .. Len(self) /\ self[i] = 92 BY <1>1, <1>2 DEF IInv, TypeOK, AtEscape, Backslash
<1>4. PICK v \in 0 .. 127 : v = Escaped(Ahead) BY <1>1, TableIs
<1>5. PICK e \in Seq(Byte) : e = <<v>> /\ IsEncoding(e) /\ Point(e) = v BY AsciiEncoding
<1>6. EscapeAt(self, i) = [point |-> Point(e), next |-> i + 2]
  BY <1>1, <1>2, <1>4, <1>5, EscapeSimple
<1>7. ASSUME NEW j \in i .. (i + 2) - 1 PROVE self[j] <= 127
  <2>1. j = i \/ j = i + 1 BY <1>2
  <2>2. self[i] <= 127 BY <1>3
  <2>3. self[i + 1] <= 127 BY <1>1, <1>2 DEF SimpleEscapes, Quote, Backslash
  <2> QED BY <2>1, <2>2, <2>3
<1>8. i + 2 \in i + 1 .. Len(self) + 1 /\ i + 2 \in 1 .. Len(self) + 1 BY <1>2
<1>9. Caught(self, i + 2, dst \o e, i + 2) BY <1>1, <1>5, <1>6, <1>7, <1>8, EscapeReplaced
<1>10. i' = i + 2 /\ dst' = dst \o e BY <1>1, <1>4, <1>5 DEF Put
<1> QED BY <1>8, <1>9, <1>10, Zenon

\* A letter that is none of the table's.
LEMMA UnknownEscapeFollows ==
  ASSUME IInv, UnknownEscape, Caught(self, i, dst, i)
  PROVE  Meaning = Bad
<1>1. AtEscape /\ Ahead \notin SimpleEscapes \cup {LowerU, UpperU} BY DEF UnknownEscape
<1>2. i \in Nat /\ Len(self) \in Nat /\ i + 1 <= Len(self) /\ Ahead = self[i + 1]
  BY <1>1, AheadInside
<1>3. \A w \in {4, 8} : self[i + 1] # Letter(w) BY <1>1, <1>2 DEF Letter
<1>4. EscapeAt(self, i) = Nothing(i) BY <1>1, <1>2, <1>3, EscapeNone
<1> QED BY <1>1, <1>4, EscapeBroken

\* An escape of four digits or eight: it is replaced by the encoding of its
\* code point, or the body stands for nothing.
LEMMA UnicodeEscapeFollows ==
  ASSUME IInv, NEW n \in {4, 8}, UnicodeEscape(Letter(n), n), Caught(self, i, dst, i)
  PROVE  \/ pc' = "error" /\ Meaning = Bad
         \/ pc' = pc /\ i' \in 1 .. Len(self) + 1 /\ Caught(self, i', dst', i')
<1>1. AtEscape /\ Ahead = Letter(n) BY DEF UnicodeEscape
<1>2. i \in Nat /\ Len(self) \in Nat /\ i + 1 <= Len(self) /\ Ahead = self[i + 1]
  BY <1>1, AheadInside
<1>3. /\ i \in 1 .. Len(self) /\ self[i] = 92 /\ self[i + 1] = Letter(n) /\ n \in Nat
      /\ self \in Seq(Byte)
  BY <1>1, <1>2 DEF IInv, TypeOK, AtEscape, Backslash
<1>4. CASE TooShort(n) /\ Fail("too_few_hex_digits")
  <2>1. ~(i + 1 + n <= Len(self)) BY <1>2, <1>4 DEF TooShort
  <2>2. ASSUME NEW w \in {4, 8}, i + 1 + w <= Len(self) PROVE self[i + 1] # Letter(w)
    <3>1. w # n BY <2>1, <2>2
    <3>2. Letter(w) # Letter(n)
      <4>1. (w = 4 /\ n = 8) \/ (w = 8 /\ n = 4) BY <3>1
      <4> QED BY <4>1, WidthsAre, Zenon
    <3> QED BY <1>3, <3>2
  <2>3. self[i + 1] \notin SimpleEscapes BY <1>3, WidthsAre
  <2>4. EscapeAt(self, i) = Nothing(i) BY <1>2, <2>2, <2>3, EscapeNone
  <2> QED BY <1>1, <1>4, <2>4, EscapeBroken DEF Fail
<1>5. ASSUME ~TooShort(n)
      PROVE  /\ i + 1 + n <= Len(self) /\ i + 2 \in 1 .. Len(self) /\ i + 2 \in Nat
             /\ (i + 2) + n - 1 = i + 1 + n /\ (i + 2) + n - 1 <= Len(self)
  BY <1>2, <1>5 DEF TooShort
<1>6. ASSUME ~TooShort(n), NEW code, code = FromHex(SubSeq(self, i + 2, i + 1 + n))
      PROVE  EscapeAt(self, i) = IF IsScalar(code) THEN [point |-> code, next |-> i + 2 + n]
                                 ELSE Nothing(i)
  BY <1>2, <1>3, <1>5, <1>6, EscapeWide
<1>7. CASE /\ ~TooShort(n) /\ \E p \in i + 2 .. i + 1 + n : ~IsHex(self[p])
           /\ Fail("not_hex")
  <2>1. FromHex(SubSeq(self, i + 2, i + 1 + n)) = -1
    <3>1. \E p \in i + 2 .. (i + 2) + n - 1 : ~IsHex(self[p]) BY <1>5, <1>7
    <3> QED BY <1>3, <1>5, <1>7, <3>1, HexAgrees
  <2>2. ~IsScalar(-1) BY SMT DEF IsScalar
  <2>3. EscapeAt(self, i) = Nothing(i) BY <1>6, <1>7, <2>1, <2>2
  <2> QED BY <1>1, <1>7, <2>3, EscapeBroken DEF Fail
<1>8. ASSUME ~TooShort(n), \A p \in i + 2 .. i + 1 + n : IsHex(self[p])
      PROVE  /\ FromHex(SubSeq(self, i + 2, i + 1 + n)) = Hex(i + 2, n)
             /\ Hex(i + 2, n) \in Nat
  <2>1. \A p \in i + 2 .. (i + 2) + n - 1 : IsHex(self[p]) BY <1>5, <1>8
  <2> QED BY <1>3, <1>5, <1>8, <2>1, HexAgrees
<1>9. CASE /\ ~TooShort(n) /\ \A p \in i + 2 .. i + 1 + n : IsHex(self[p])
           /\ Utf8(Hex(i + 2, n)) = <<>> /\ Fail("not_a_code_point")
  <2>1. PICK code \in Nat : code = Hex(i + 2, n) /\ code = FromHex(SubSeq(self, i + 2, i + 1 + n))
    BY <1>8, <1>9
  <2>2. ~IsScalar(code)
    <3>1. IsScalar(code) => IsEncoding(<<>>) BY <1>9, <2>1, EncodesUtf8
    <3>2. ~IsEncoding(<<>>)
      <4>1. Len(<<>>) = 0 /\ 0 \notin 1 .. 4 OBVIOUS
      <4> QED BY <4>1 DEF IsEncoding
    <3> QED BY <3>1, <3>2
  <2>3. EscapeAt(self, i) = Nothing(i) BY <1>6, <1>9, <2>1, <2>2
  <2> QED BY <1>1, <1>9, <2>3, EscapeBroken DEF Fail
<1>10. CASE /\ ~TooShort(n) /\ \A p \in i + 2 .. i + 1 + n : IsHex(self[p])
            /\ Utf8(Hex(i + 2, n)) # <<>> /\ Put(Utf8(Hex(i + 2, n)), Skip(n))
  <2>1. PICK code \in Nat : code = Hex(i + 2, n) /\ code = FromHex(SubSeq(self, i + 2, i + 1 + n))
    BY <1>8, <1>10
  <2>2. IsScalar(code)
    <3>1. Utf8(code) # <<>> BY <1>10, <2>1
    <3> QED BY <3>1, SMT DEF Utf8
  <2>3. PICK e \in Seq(Byte) : e = Utf8(code) /\ IsEncoding(e) /\ Point(e) = code
    BY <2>2, EncodesUtf8
  <2>4. PICK x \in i + 1 .. Len(self) + 1 : x = i + 2 + n BY <1>2, <1>3, <1>5, <1>10
  <2>5. EscapeAt(self, i) = [point |-> Point(e), next |-> x] BY <1>6, <1>10, <2>1, <2>2, <2>3, <2>4
  <2>6. ASSUME NEW j \in i .. x - 1 PROVE self[j] <= 127
    <3>1. j = i \/ j = i + 1 \/ j \in i + 2 .. i + 1 + n BY <1>2, <1>3, <2>4
    <3>2. self[i] <= 127 BY <1>3
    <3>3. self[i + 1] <= 127 BY <1>3 DEF Letter, LowerU, UpperU
    <3>4. CASE j \in i + 2 .. i + 1 + n
      <4>1. IsHex(self[j]) BY <1>10, <3>4
      <4> QED BY <4>1, HexIsAscii
    <3> QED BY <3>1, <3>2, <3>3, <3>4
  <2>7. Caught(self, x, dst \o e, x) BY <1>1, <2>3, <2>5, <2>6, EscapeReplaced
  <2>8. /\ Skip(n) = n + 2 /\ i' = i + Skip(n) /\ dst' = dst \o Utf8(Hex(i + 2, n)) /\ pc' = pc
    BY <1>10 DEF Put, Skip
  <2>9. i' = x /\ dst' = dst \o e
    <3>1. i + (n + 2) = i + 2 + n BY <1>2, <1>3
    <3> QED BY <2>1, <2>3, <2>4, <2>8, <3>1
  <2>10. x \in 1 .. Len(self) + 1 BY <1>2
  <2> QED BY <2>7, <2>8, <2>9, <2>10, Zenon
<1> QED BY <1>4, <1>7, <1>9, <1>10, Zenon DEF UnicodeEscape

\* The end of the body.
LEMMA DoneFollows ==
  ASSUME IInv, Done, NEW b \in i .. Len(self) + 1, Caught(self, i, dst, b)
  PROVE  Meaning # Bad /\ FromUtf8(dst) = Meaning
<1>1. /\ self \in Seq(Byte) /\ dst \in Seq(Byte) /\ Len(self) \in Nat
      /\ i = Len(self) + 1 /\ b = i /\ i \in 1 .. Len(self) + 1
  BY DEF IInv, TypeOK, Done, Left
<1>2. /\ FromUtf8(dst) # Bad
      /\ Reading(self, "escapes")[1] = Glue(FromUtf8(dst), Reading(self, "escapes")[i])
  BY <1>1, BetweenCharacters
<1>3. Reading(self, "escapes")[i] = <<>> BY <1>1, BodyRead
<1>4. PICK q \in Seq(Nat) : q = FromUtf8(dst) BY <1>1, <1>2, CharsRead
<1>5. Glue(q, <<>>) = q
  <2>1. <<>> \in Seq(Nat) OBVIOUS
  <2>2. <<>> # Bad BY <2>1, BadIsNone, Zenon
  <2>3. q \o <<>> = q OBVIOUS
  <2> QED BY <2>2, <2>3, Zenon DEF Glue
<1> QED BY <1>2, <1>3, <1>4, <1>5 DEF Meaning

\* Every step of the loop.
LEMMA NextFollows == IInv /\ Follows /\ [Next]_vars => Follows'
<1> SUFFICES ASSUME IInv, Follows, [Next]_vars, FromUtf8(self') # Bad
             PROVE  /\ pc' = "loop"  => \E b \in i' .. Len(self') + 1 : Caught(self', i', dst', b)
                    /\ pc' = "done"  => Reading(self', "escapes")[1] # Bad
                                        /\ FromUtf8(dst') = Reading(self', "escapes")[1]
                    /\ pc' = "error" => Reading(self', "escapes")[1] = Bad
  BY DEF Follows, Meaning
<1>1. self' = self
  BY DEF Next, vars, Plain, SimpleEscape, UnknownEscape, ShortUnicode, LongUnicode, UnicodeEscape,
         Done, Put, Fail
<1>2. FromUtf8(self) # Bad BY <1>1
<1>3. CASE UNCHANGED vars BY <1>1, <1>2, <1>3 DEF vars, Follows, Meaning
<1>4. ASSUME pc = "loop", Next
      PROVE  \/ /\ pc' = "loop" /\ \E b \in i' .. Len(self) + 1 : Caught(self, i', dst', b)
             \/ pc' = "done" /\ Meaning # Bad /\ FromUtf8(dst') = Meaning
             \/ pc' = "error" /\ Meaning = Bad
  <2>1. PICK b \in i .. Len(self) + 1 : Caught(self, i, dst, b) BY <1>2, <1>4 DEF Follows
  <2>2. CASE Plain
    <3>1. pc' = "loop" BY <1>4, <2>2 DEF Plain, Put
    <3> QED BY <2>1, <2>2, <3>1, PlainFollows
  <2>3. ASSUME i' \in 1 .. Len(self) + 1, Caught(self, i', dst', i')
        PROVE  \E c \in i' .. Len(self) + 1 : Caught(self, i', dst', c)
    <3>1. i' \in i' .. Len(self) + 1 BY <2>3
    <3> QED BY <2>3, <3>1
  <2>4. AtEscape => Caught(self, i, dst, i) BY <2>1, EscapeStarts
  <2>5. CASE SimpleEscape
    <3>1. AtEscape /\ pc' = "loop" BY <1>4, <2>5 DEF SimpleEscape, Put
    <3> QED BY <2>3, <2>4, <2>5, <3>1, SimpleEscapeFollows
  <2>6. CASE UnknownEscape
    <3>1. AtEscape /\ pc' = "error" BY <2>6 DEF UnknownEscape, Fail
    <3> QED BY <2>4, <2>6, <3>1, UnknownEscapeFollows
  <2>7. ASSUME NEW n \in {4, 8}, UnicodeEscape(Letter(n), n)
        PROVE  \/ pc' = "error" /\ Meaning = Bad
               \/ pc' = "loop" /\ \E c \in i' .. Len(self) + 1 : Caught(self, i', dst', c)
    <3>1. AtEscape BY <2>7 DEF UnicodeEscape
    <3> QED BY <1>4, <2>3, <2>4, <2>7, <3>1, UnicodeEscapeFollows
  <2>8. CASE ShortUnicode
    <3>1. Letter(4) = LowerU BY DEF Letter
    <3>2. UnicodeEscape(Letter(4), 4) BY <2>8, <3>1 DEF ShortUnicode
    <3> QED BY <2>7, <3>2
  <2>9. CASE LongUnicode
    <3>1. Letter(8) = UpperU BY DEF Letter
    <3>2. UnicodeEscape(Letter(8), 8) BY <2>9, <3>1 DEF LongUnicode
    <3> QED BY <2>7, <3>2
  <2>10. CASE Done
    <3>1. pc' = "done" /\ dst' = dst BY <2>10 DEF Done
    <3> QED BY <2>1, <2>10, <3>1, DoneFollows
  <2> QED BY <1>4, <2>2, <2>5, <2>6, <2>8, <2>9, <2>10 DEF Next
<1>5. Next => pc = "loop"
  BY DEF Next, Plain, SimpleEscape, UnknownEscape, ShortUnicode, LongUnicode, UnicodeEscape,
         AtEscape, Done
<1>6. CASE Next
  <2>1. \/ /\ pc' = "loop" /\ \E b \in i' .. Len(self) + 1 : Caught(self, i', dst', b)
        \/ pc' = "done" /\ Meaning # Bad /\ FromUtf8(dst') = Meaning
        \/ pc' = "error" /\ Meaning = Bad
    BY <1>4, <1>5, <1>6
  <2>2. Meaning = Reading(self', "escapes")[1] BY <1>1 DEF Meaning
  <2>3. \/ /\ pc' = "loop" /\ \E b \in i' .. Len(self') + 1 : Caught(self', i', dst', b)
        \/ /\ pc' = "done" /\ Reading(self', "escapes")[1] # Bad
           /\ FromUtf8(dst') = Reading(self', "escapes")[1]
        \/ pc' = "error" /\ Reading(self', "escapes")[1] = Bad
    BY <1>1, <2>1, <2>2
  <2> QED BY <2>3
<1> QED BY <1>3, <1>6

\* For every body of UTF-8 text: str_norm fails exactly where the readme knows
\* no meaning, and what it returns is the UTF-8 encoding of the meaning.
THEOREM InterpretsText == Spec => []Interprets
<1>1. Init => IInv /\ Follows BY InitEstablishesIInv, InitFollows
<1>2. IInv /\ Follows /\ [Next]_vars => (IInv /\ Follows)'
  BY NextPreservesIInv, NextFollows
<1>3. Follows => Interprets BY DEF Follows, Interprets
<1> QED BY <1>1, <1>2, <1>3, PTL DEF Spec

=============================================================================
