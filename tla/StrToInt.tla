------------------------------- MODULE StrToInt -------------------------------
(***************************************************************************)
(* str_to_int and str_to_uint of src/c/kevs.c: one action for the sign,    *)
(* one for the base, one per iteration of the digit loop, one for the      *)
(* range check.  uint64_t arithmetic is modulo 2 * Half; the program has   *)
(* Half = 2^63.                                                            *)
(*                                                                         *)
(* parse_simple_value calls str_to_int with base 0; str_norm calls         *)
(* str_to_uint with base 16 on the digits of a \u or \U.                   *)
(***************************************************************************)
EXTENDS Integers, Sequences

CONSTANTS
  Half,     \* half the number of values of the unsigned type
  Texts,    \* the texts given to str_to_int
  Digits    \* the texts given to str_to_uint with base 16

\* A character is its digit value, 0 .. 35 for 0 .. 9 and a .. z, or 26 more
\* for an upper case letter, or one of those that are no digit.
Plus  == 62
Minus == 63
Other == 64
Char  == 0 .. 64

ASSUME HalfAssumption == Half \in Nat /\ Half >= 8
ASSUME TextsAssumption == Texts \subseteq Seq(Char) /\ Digits \subseteq Seq(Char)

VARIABLES
  text,     \* the input
  fn,       \* the function called
  at,       \* the first character of text not yet consumed
  neg, base, n, pc, result,
  error,    \* the message returned, or "none"
  exact     \* history: the number that the digits read so far stand for

vars == <<text, fn, at, neg, base, n, pc, result, error, exact>>

Errors == { "none",
            "empty_input",
            "leading_0",
            "invalid_base_char",
            "invalid_char",
            "invalid_digit",
            "mul_overflows",
            "add_overflows",
            "overflows_max",
            "underflows_min" }

UMax == 2 * Half - 1

\* Mutant: the overflow tests, on a type that does not overflow.
Wider(x) == x

U(x) == x % (2 * Half)

\* Type correctness: the digit loop stays within the text, and the number in
\* the unsigned type.
TypeOK ==
  /\ text \in Seq(Char)
  /\ fn \in {"str_to_int", "str_to_uint"}
  /\ at \in 1 .. Len(text) + 1
  /\ neg \in BOOLEAN
  /\ base \in {0, 2, 8, 10, 16}
  /\ n \in 0 .. UMax
  /\ pc \in {"sign", "base", "digits", "range", "ok", "error"}
  /\ result \in Int
  /\ error \in Errors
  /\ exact \in Nat

Init ==
  /\ \/ fn = "str_to_int"  /\ text \in Texts  /\ base = 0  /\ pc = "sign"
     \/ fn = "str_to_uint" /\ text \in Digits /\ base = 16 /\ pc = "base"
  /\ at = 1 /\ neg = FALSE /\ n = 0 /\ result = 0 /\ error = "none" /\ exact = 0

-----------------------------------------------------------------------------

Left == Len(text) - at + 1

Fail(message) == pc' = "error" /\ error' = message

Sign ==
  /\ pc = "sign"
  /\ IF Len(text) = 0
     THEN Fail("empty_input") /\ UNCHANGED <<at, neg>>
     ELSE /\ neg' = (text[1] = Minus)
          /\ at' = IF text[1] \in {Plus, Minus} THEN 2 ELSE 1
          /\ pc' = "base" /\ UNCHANGED error
  /\ UNCHANGED <<text, fn, base, n, result, exact>>

\* 'x', 'o' and 'b', as digits.
BaseChar == {33, 24, 11}
BaseOf(c) == CASE c = 33 -> 16 [] c = 24 -> 8 [] c = 11 -> 2

\* str_to_uint before its loop.
Base ==
  /\ pc = "base"
  /\ \/ Left = 0 /\ Fail("empty_input") /\ UNCHANGED <<at, base>>
     \/ Left > 0 /\ base # 0 /\ pc' = "digits" /\ UNCHANGED <<at, base, error>>
     \/ /\ Left > 0 /\ base = 0 /\ text[at] # 0
        /\ base' = 10 /\ pc' = "digits" /\ UNCHANGED <<at, error>>
     \/ /\ Left = 1 /\ base = 0 /\ text[at] = 0
        /\ at' = at + 1 /\ pc' = "range" /\ UNCHANGED <<base, error>>
     \/ /\ Left = 2 /\ base = 0 /\ text[at] = 0
        /\ Fail("leading_0") /\ UNCHANGED <<at, base>>
     \/ /\ Left > 2 /\ base = 0 /\ text[at] = 0
        /\ IF text[at + 1] \in BaseChar
           THEN /\ base' = BaseOf(text[at + 1]) /\ at' = at + 2
                /\ pc' = "digits" /\ UNCHANGED error
           ELSE /\ Fail("invalid_base_char")
                /\ UNCHANGED <<at, base>>
  /\ UNCHANGED <<text, fn, neg, n, result, exact>>

\* Mutants: the cutoff is off by one, either way; a capital is not folded.
CutoffTooBig == UMax \div base + 2
CutoffTooSmall == UMax \div base
DigitOfLower(c) == c

Cutoff == UMax \div base + 1

\* lower() folds the case of a letter.
DigitOf(c) == IF c <= 35 THEN c ELSE c - 26

Digit ==
  /\ pc = "digits" /\ Left > 0
  /\ LET c  == text[at]
         d  == DigitOf(c)
         n1 == U(U(n * base) + d)
         Read == at' = at + 1 /\ exact' = exact * base + d
     IN  \/ /\ c \in {Plus, Minus, Other}
            /\ Fail("invalid_char") /\ UNCHANGED <<at, n, exact>>
         \/ /\ c \notin {Plus, Minus, Other} /\ d >= base
            /\ Fail("invalid_digit") /\ UNCHANGED <<at, n, exact>>
         \/ /\ c \notin {Plus, Minus, Other} /\ d < base
            /\ Read
            /\ IF n >= Cutoff
               THEN Fail("mul_overflows") /\ UNCHANGED n
               ELSE IF n1 < U(n * base)
               THEN Fail("add_overflows") /\ n' = U(n * base)
               ELSE n' = n1 /\ UNCHANGED <<pc, error>>
  /\ UNCHANGED <<text, fn, neg, base, result>>

\* *out = n
DigitsEnd ==
  /\ pc = "digits" /\ Left = 0
  /\ IF fn = "str_to_int"
     THEN pc' = "range" /\ UNCHANGED result
     ELSE pc' = "ok" /\ result' = n
  /\ UNCHANGED <<text, fn, at, neg, base, n, error, exact>>

\* The conversion of uint64_t to int64_t.
S(x) == IF x < Half THEN x ELSE x - 2 * Half

\* Mutant: the bounds of the two signs are confused.
TooLargeAbove == ~neg /\ n > Half

TooLarge == ~neg /\ n >= Half
TooSmall == neg /\ n > Half

\* The end of str_to_int.
CheckRange ==
  /\ pc = "range"
  /\ \/ TooLarge
        /\ Fail("overflows_max") /\ UNCHANGED result
     \/ TooSmall
        /\ Fail("underflows_min") /\ UNCHANGED result
     \/ /\ ~TooLarge /\ ~TooSmall
        /\ result' = IF neg /\ S(n) >= 0 THEN -S(n) ELSE S(n)
        /\ pc' = "ok" /\ UNCHANGED error
  /\ UNCHANGED <<text, fn, at, neg, base, n, exact>>

Next == Sign \/ Base \/ Digit \/ DigitsEnd \/ CheckRange

Spec == Init /\ [][Next]_vars

-----------------------------------------------------------------------------

Signed(x) == IF neg THEN -x ELSE x

\* The 2 * Half values of the unsigned type suffice for as long as the loop
\* goes on: the test before the multiplication and the one after the addition
\* let no wrapped number through.
NoWrap == pc \in {"digits", "range", "ok"} => n = exact

\* What is returned is the number that was read, and it is in the range of
\* the type it is returned in.
ResultExact ==
  pc = "ok" =>
    /\ result = Signed(exact)
    /\ IF fn = "str_to_int" THEN result \in -Half .. Half - 1 ELSE result \in 0 .. UMax

\* A number is rejected for its size only if it has no place in the type,
\* whatever digits follow.
RejectsOnlyTooLarge ==
  /\ error \in {"mul_overflows", "add_overflows"}
       => exact > UMax
  /\ error \in {"overflows_max", "underflows_min"}
       => Signed(exact) \notin -Half .. Half - 1

=============================================================================
