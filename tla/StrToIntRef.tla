----------------------------- MODULE StrToIntRef -----------------------------
(***************************************************************************)
(* What a text given to str_to_int or str_to_uint stands for, by the       *)
(* readme: read as a whole, and not character by character.                *)
(***************************************************************************)
EXTENDS StrToInt

IsSigned == fn = "str_to_int" /\ text # <<>> /\ text[1] \in {Plus, Minus}
Unsigned == IF IsSigned THEN Tail(text) ELSE text

\* 0x, 0o and 0b.
HasPrefix ==
  /\ fn = "str_to_int" /\ Len(Unsigned) > 2
  /\ Unsigned[1] = 0 /\ Unsigned[2] \in {33, 24, 11}

TrueBase == IF fn = "str_to_uint" THEN 16
            ELSE IF HasPrefix THEN BaseOf(Unsigned[2]) ELSE 10

\* Upper case letters are 26 above the lower case ones.
Values == LET ds == IF HasPrefix THEN SubSeq(Unsigned, 3, Len(Unsigned)) ELSE Unsigned
          IN  [k \in 1 .. Len(ds) |-> IF ds[k] \in 36 .. 61 THEN ds[k] - 26 ELSE ds[k]]

IsNumber ==
  /\ Values # <<>>
  /\ \A k \in DOMAIN Values : Values[k] < TrueBase
  /\ fn = "str_to_int" /\ ~HasPrefix /\ Values[1] = 0 => Len(Values) = 1

\* The numbers that the first digits of ds stand for, in base b.
Numbers(ds, b) ==
  LET number[k \in 0 .. Len(ds)] == IF k = 0 THEN 0 ELSE number[k - 1] * b + ds[k]
  IN  number

Magnitude == Numbers(Values, TrueBase)[Len(Values)]

Number == IF IsSigned /\ text[1] = Minus THEN -Magnitude ELSE Magnitude

Representable == Number \in (IF fn = "str_to_int" THEN -Half .. Half - 1 ELSE 0 .. UMax)

\* str_to_int and str_to_uint accept exactly the numbers of the readme that
\* the type holds, both extremes included, and return what they stand for;
\* a decimal number may not start with 0.
AgreesWithReference ==
  /\ pc = "ok" => IsNumber /\ Representable /\ result = Number
  /\ pc = "error" => ~(IsNumber /\ Representable)

=============================================================================
