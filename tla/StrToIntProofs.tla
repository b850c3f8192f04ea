---------------------------- MODULE StrToIntProofs ----------------------------
(***************************************************************************)
(* The conversion is exact for every width of the integers: the theorems   *)
(* hold for every Half, that of the program included, and for texts of any *)
(* length.                                                                 *)
(***************************************************************************)
EXTENDS StrToIntRef, SequenceTheorems, WellFoundedInduction, TLAPS

Bases == {2, 8, 10, 16}

\* Cutoff is what its comment in the code says, for the bases that occur.
LEMMA CutoffIsSmallest ==
  ASSUME base \in Bases
  PROVE  /\ Cutoff \in Nat
         /\ Cutoff * base > UMax
         /\ \A k \in Nat : k < Cutoff => k * base <= UMax
<1>1. CASE base = 2  BY <1>1, HalfAssumption, SMT DEF Cutoff, UMax
<1>2. CASE base = 8  BY <1>2, HalfAssumption, SMT DEF Cutoff, UMax
<1>3. CASE base = 10 BY <1>3, HalfAssumption, SMT DEF Cutoff, UMax
<1>4. CASE base = 16 BY <1>4, HalfAssumption, SMT DEF Cutoff, UMax
<1> QED BY <1>1, <1>2, <1>3, <1>4 DEF Bases

\* Unsigned arithmetic wraps at most once in the addition.
LEMMA WrapOnce ==
  ASSUME NEW x \in Nat, x < 4 * Half
  PROVE  /\ x <= UMax => U(x) = x
         /\ x > UMax => U(x) = x - 2 * Half
<1> QED BY HalfAssumption, SMT DEF U, UMax

-----------------------------------------------------------------------------

\* Before the loop nothing has been read; in the loop a base has been chosen.
Phase ==
  /\ pc \in {"sign", "base"} => n = 0 /\ exact = 0
  /\ pc = "sign" => at = 1
  /\ pc = "digits" => base \in Bases
  /\ pc \in {"sign", "range"} => fn = "str_to_int"
  /\ pc # "error" => error = "none"
  /\ fn = "str_to_uint" => ~neg /\ base = 16

IInv == TypeOK /\ Phase /\ NoWrap /\ ResultExact /\ RejectsOnlyTooLarge

\* The initial states satisfy the invariant.
LEMMA InitEstablishesIInv == Init => IInv
<1> SUFFICES ASSUME Init PROVE IInv OBVIOUS
<1>1. text \in Seq(Char) BY TextsAssumption DEF Init
<1>2. neg \in BOOLEAN BY Zenon DEF Init
<1>3. n \in 0 .. UMax /\ at \in 1 .. Len(text) + 1
  BY <1>1, HalfAssumption DEF Init, UMax
<1>4. TypeOK BY <1>1, <1>2, <1>3 DEF Init, TypeOK, Errors
<1> QED BY <1>4 DEF Init, IInv, Phase, NoWrap, ResultExact, RejectsOnlyTooLarge

\* One iteration of the loop, when its digit is in range.
LEMMA DigitStep ==
  ASSUME TypeOK, base \in Bases, n = exact,
         NEW d \in Nat, d < base
  PROVE  /\ exact * base + d \in Nat
         /\ n >= Cutoff => exact * base + d > UMax
         /\ n < Cutoff /\ U(U(n * base) + d) < U(n * base)
              => exact * base + d > UMax
         /\ n < Cutoff /\ ~(U(U(n * base) + d) < U(n * base))
              => /\ U(U(n * base) + d) = exact * base + d
                 /\ U(U(n * base) + d) \in 0 .. UMax
         /\ U(n * base) \in 0 .. UMax
<1>1. n \in Nat /\ n * base \in Nat /\ base \in Nat BY DEF TypeOK, Bases, UMax
<1>2. CASE n >= Cutoff
  <2>1. n * base > UMax
    <3>1. CASE base = 2  BY <3>1, <1>1, <1>2, HalfAssumption, SMT DEF Cutoff, UMax
    <3>2. CASE base = 8  BY <3>2, <1>1, <1>2, HalfAssumption, SMT DEF Cutoff, UMax
    <3>3. CASE base = 10 BY <3>3, <1>1, <1>2, HalfAssumption, SMT DEF Cutoff, UMax
    <3>4. CASE base = 16 BY <3>4, <1>1, <1>2, HalfAssumption, SMT DEF Cutoff, UMax
    <3> QED BY <3>1, <3>2, <3>3, <3>4 DEF Bases
  <2>2. U(n * base) \in 0 .. UMax BY <1>1, HalfAssumption, SMT DEF U, UMax
  <2> QED BY <1>1, <1>2, <2>1, <2>2, CutoffIsSmallest, HalfAssumption DEF UMax
<1>3. CASE n < Cutoff
  <2>1. PICK m \in Nat : m = n * base BY <1>1
  <2>2. m <= UMax BY <1>1, <1>3, <2>1, CutoffIsSmallest
  <2>3. d <= 15 BY DEF Bases
  <2>4. PICK s \in Nat : s = m + d OBVIOUS
  <2>5. m < 4 * Half /\ s < 4 * Half
    BY <2>2, <2>3, <2>4, HalfAssumption DEF UMax
  <2>6. U(m) = m BY <2>2, <2>5, WrapOnce
  <2>7. /\ s <= UMax => U(s) = s
        /\ s > UMax => U(s) = s - 2 * Half
    BY <2>5, WrapOnce
  <2>8. /\ U(s) < m => s > UMax
        /\ ~(U(s) < m) => U(s) = s /\ U(s) \in 0 .. UMax
    BY <2>2, <2>3, <2>4, <2>5, <2>7, HalfAssumption DEF UMax
  <2>9. /\ exact * base + d = s
        /\ U(n * base) = m
        /\ U(U(n * base) + d) = U(s)
    BY <2>1, <2>4, <2>6
  <2> QED BY <1>1, <1>3, <2>2, <2>8, <2>9, CutoffIsSmallest, HalfAssumption DEF UMax
<1> QED BY <1>1, <1>2, <1>3, CutoffIsSmallest

-----------------------------------------------------------------------------

\* The length of the text is a number, and the index lies within it.
LEMMA TextLength == TypeOK => Len(text) \in Nat /\ at \in 1 .. Len(text) + 1
<1> QED BY DEF TypeOK

\* Where no digit is read, only the phase of the call matters.
LEMMA NothingRead ==
  ASSUME IInv, UNCHANGED <<text, fn, n, result, exact>>, neg' \in BOOLEAN,
         at' \in 1 .. Len(text) + 1, base' \in {0, 2, 8, 10, 16},
         pc' \in {"base", "digits", "range", "error"}, Phase', NoWrap',
         error' \in Errors \ {"mul_overflows", "add_overflows",
                              "overflows_max",
                              "underflows_min"}
  PROVE  IInv'
<1>1. TypeOK' BY DEF IInv, TypeOK
<1>2. ResultExact' BY DEF ResultExact
<1>3. RejectsOnlyTooLarge' BY DEF RejectsOnlyTooLarge
<1> QED BY <1>1, <1>2, <1>3 DEF IInv

\* The sign is read.
LEMMA SignStep == IInv /\ Sign => IInv'
<1> SUFFICES ASSUME IInv, Sign PROVE IInv' OBVIOUS
<1>1. /\ TypeOK /\ Phase /\ pc = "sign" /\ error = "none" /\ at = 1
      /\ n = 0 /\ exact = 0 /\ fn = "str_to_int"
  <2>1. TypeOK /\ Phase /\ pc = "sign" BY Zenon DEF IInv, Sign
  <2> QED BY <2>1 DEF Phase
<1>2. /\ UNCHANGED <<text, fn, base, n, result, exact>>
      /\ pc' = "error" => error' = "empty_input"
      /\ pc' # "error" => error' = error /\ pc' = "base"
      /\ at' = at \/ at' = 1 \/ (at' = 2 /\ Len(text) # 0)
      /\ pc' \in {"base", "error"}
  BY DEF Sign, Fail
<1>3. neg' \in BOOLEAN BY Zenon DEF Sign, Fail, IInv, TypeOK
<1>4. at' \in 1 .. Len(text) + 1 BY <1>1, <1>2, TextLength
<1>5. Phase' /\ NoWrap' BY <1>1, <1>2 DEF Phase, NoWrap
<1>6. error' \in {"none", "empty_input"} /\ base' \in {0, 2, 8, 10, 16}
  BY <1>1, <1>2 DEF TypeOK
<1> QED BY <1>2, <1>3, <1>4, <1>5, <1>6, NothingRead DEF Errors

\* The base is chosen.
LEMMA BaseStep == IInv /\ Base => IInv'
<1> SUFFICES ASSUME IInv, Base PROVE IInv' OBVIOUS
<1>1. TypeOK /\ Phase /\ pc = "base" /\ error = "none" /\ n = 0 /\ exact = 0
  <2>1. TypeOK /\ Phase /\ pc = "base" BY Zenon DEF IInv, Base
  <2> QED BY <2>1 DEF Phase
<1>2. UNCHANGED <<text, fn, neg, n, result, exact>> BY DEF Base
<1>t. at' = at \/ (Left = 1 /\ at' = at + 1) \/ (Left > 2 /\ at' = at + 2)
  BY DEF Base, Fail
<1>3. /\ \/ pc' = "digits" /\ error' = error /\ base # 0 /\ base' = base
         \/ pc' = "digits" /\ error' = error /\ base' = 10 /\ base = 0
         \/ /\ pc' = "digits" /\ error' = error /\ base = 0
            /\ text[at + 1] \in BaseChar /\ base' = BaseOf(text[at + 1])
         \/ pc' = "range" /\ error' = error /\ base' = base /\ base = 0
         \/ /\ pc' = "error" /\ base' = base
            /\ error' \in {"empty_input", "leading_0",
                           "invalid_base_char"}
  BY DEF Base, Fail
<1>4. at' \in 1 .. Len(text) + 1
  <2>1. Len(text) \in Nat /\ at \in 1 .. Len(text) + 1 BY <1>1, TextLength
  <2> QED BY <1>t, <2>1 DEF Left
<1>5. \A c \in BaseChar : BaseOf(c) \in Bases BY DEF BaseChar, BaseOf, Bases
<1>6. /\ base' \in {0, 2, 8, 10, 16}
      /\ pc' = "digits" => base' \in Bases
  BY <1>1, <1>3, <1>5 DEF TypeOK, Bases
<1>7. fn = "str_to_int" \/ (fn = "str_to_uint" /\ base # 0)
  BY <1>1 DEF TypeOK, Phase
<1>8. Phase'
  BY <1>1, <1>2, <1>3, <1>6, <1>7 DEF Phase
<1>9. NoWrap' BY <1>1, <1>2 DEF NoWrap
<1> QED
  BY <1>1, <1>2, <1>3, <1>4, <1>6, <1>8, <1>9, NothingRead DEF Errors, IInv, TypeOK

\* One iteration of the loop, whatever the character is.
LEMMA DigitIterationStep == IInv /\ Digit => IInv'
<1> SUFFICES ASSUME IInv, Digit PROVE IInv' OBVIOUS
<1> DEFINE c  == text[at]
           d  == DigitOf(c)
           n1 == U(U(n * base) + d)
<1>1. /\ TypeOK /\ Phase /\ n = exact /\ base \in Bases /\ pc = "digits" /\ error = "none"
      /\ at' \in {at, at + 1} /\ at \in 1 .. Len(text) /\ c \in Char
  <2>1. TypeOK /\ Phase /\ NoWrap /\ pc = "digits" /\ Left > 0 BY Zenon DEF IInv, Digit
  <2>2. at \in 1 .. Len(text) BY <2>1, TextLength DEF Left
  <2>3. c \in Char BY <2>1, <2>2 DEF TypeOK
  <2>4. at' \in {at, at + 1} BY DEF Digit
  <2> QED BY <2>1, <2>2, <2>3, <2>4 DEF Phase, NoWrap
<1>2. CASE UNCHANGED <<at, n, exact>> /\ pc' = "error"
            /\ error' \in {"invalid_char",
                           "invalid_digit"}
  BY <1>1, <1>2 DEF IInv, Digit, TypeOK, Phase, NoWrap, ResultExact, RejectsOnlyTooLarge, Errors
<1>3. CASE c \notin {Plus, Minus, Other} /\ d < base /\ at' = at + 1 /\ exact' = exact * base + d
            /\ IF n >= Cutoff
               THEN Fail("mul_overflows") /\ UNCHANGED n
               ELSE IF n1 < U(n * base)
               THEN Fail("add_overflows") /\ n' = U(n * base)
               ELSE n' = n1 /\ UNCHANGED <<pc, error>>
  <2>1. d \in Nat
    <3>1. \A x \in Char \ {Plus, Minus, Other} : DigitOf(x) \in Nat
      BY DEF DigitOf, Char, Plus, Minus, Other
    <3> QED BY <1>1, <1>3, <3>1
  <2> HIDE DEF d, c
  <2>2. /\ exact' \in Nat
        /\ n >= Cutoff => exact' > UMax
        /\ n < Cutoff /\ n1 < U(n * base) => exact' > UMax
        /\ n < Cutoff /\ ~(n1 < U(n * base)) => n1 = exact' /\ n1 \in 0 .. UMax
        /\ U(n * base) \in 0 .. UMax
    BY <1>1, <1>3, <2>1, DigitStep
  <2> HIDE DEF n1
  <2>3. ~(n >= Cutoff) => n < Cutoff
    BY <1>1, CutoffIsSmallest DEF TypeOK, UMax
  <2>4. UNCHANGED <<text, fn, neg, base, result>> BY DEF Digit
  <2>5. n' \in 0 .. UMax BY <1>1, <1>3, <2>2, <2>3 DEF Fail, TypeOK
  <2>6. at' \in 1 .. Len(text') + 1 BY <1>1, <2>4 DEF TypeOK
  <2>7. TypeOK' BY <1>1, <1>3, <2>2, <2>4, <2>5, <2>6 DEF TypeOK, Fail, Errors
  <2>8. Phase' BY <1>1, <1>3, <2>4 DEF Phase, Fail
  <2>9. NoWrap' /\ ResultExact' /\ RejectsOnlyTooLarge'
    BY <1>1, <1>3, <2>2, <2>3, <2>4 DEF NoWrap, ResultExact, RejectsOnlyTooLarge, Fail, UMax
  <2> QED BY <2>7, <2>8, <2>9 DEF IInv
<1> QED BY <1>2, <1>3, Zenon DEF Digit, Fail

\* The loop ends.
LEMMA DigitsEndStep == IInv /\ DigitsEnd => IInv'
<1> SUFFICES ASSUME IInv, DigitsEnd PROVE IInv' OBVIOUS
<1> USE DEF IInv, DigitsEnd, Phase, TypeOK
<1>1. n \in Int /\ exact \in Int BY DEF UMax
<1> QED BY <1>1 DEF NoWrap, ResultExact, RejectsOnlyTooLarge, Signed

\* str_to_int checks the range, and converts.
LEMMA RangeStep == IInv /\ CheckRange => IInv'
<1> SUFFICES ASSUME IInv, CheckRange PROVE IInv' OBVIOUS
<1> USE DEF CheckRange, TooLarge, TooSmall
<1>1. n \in Nat /\ n = exact /\ n <= UMax /\ fn = "str_to_int"
  <2>1. TypeOK /\ Phase /\ NoWrap /\ pc = "range" BY Zenon DEF IInv, CheckRange
  <2>2. n \in 0 .. UMax BY <2>1, Zenon DEF TypeOK
  <2>3. n = exact /\ fn = "str_to_int" BY <2>1 DEF NoWrap, Phase
  <2> QED BY <2>2, <2>3, HalfAssumption DEF UMax
<1>2. TypeOK'
  <2>1. result' \in Int BY <1>1, HalfAssumption DEF Fail, S, UMax, IInv, TypeOK
  <2> QED BY <2>1 DEF Fail, Errors, IInv, TypeOK
<1>3. Phase' BY DEF Fail, IInv, Phase
<1>4. NoWrap' BY DEF NoWrap, Fail, IInv
<1>5. ResultExact'
  BY <1>1, HalfAssumption DEF ResultExact, Signed, S, Fail, UMax
<1>6. RejectsOnlyTooLarge'
  <2>1. RejectsOnlyTooLarge /\ UNCHANGED <<neg, n, exact>> BY Zenon DEF IInv, CheckRange
  <2>2. CASE UNCHANGED error BY <2>1, <2>2 DEF RejectsOnlyTooLarge, Signed
  <2>3. CASE ~neg /\ n >= Half /\ error' = "overflows_max"
    BY <1>1, <2>1, <2>3, HalfAssumption DEF RejectsOnlyTooLarge, Signed
  <2>4. CASE neg /\ n > Half /\ error' = "underflows_min"
    BY <1>1, <2>1, <2>4, HalfAssumption DEF RejectsOnlyTooLarge, Signed
  <2> QED BY <2>2, <2>3, <2>4 DEF CheckRange, Fail
<1> QED BY <1>2, <1>3, <1>4, <1>5, <1>6 DEF IInv

\* Every step preserves the invariant.
LEMMA NextPreservesIInv == IInv /\ [Next]_vars => IInv'
<1> SUFFICES ASSUME IInv, [Next]_vars PROVE IInv' OBVIOUS
<1>1. CASE Sign BY <1>1, SignStep
<1>2. CASE Base BY <1>2, BaseStep
<1>3. CASE Digit BY <1>3, DigitIterationStep
<1>4. CASE DigitsEnd BY <1>4, DigitsEndStep
<1>5. CASE CheckRange BY <1>5, RangeStep
<1>6. CASE UNCHANGED vars
  BY <1>6 DEF vars, IInv, TypeOK, Phase, NoWrap, ResultExact, RejectsOnlyTooLarge, Signed
<1> QED BY <1>1, <1>2, <1>3, <1>4, <1>5, <1>6 DEF Next

\* The inductive invariant that the theorems below are read off from: the
\* type invariant, the three properties, and what is known in each phase.
THEOREM InvariantHolds == Spec => []IInv
<1> QED BY InitEstablishesIInv, NextPreservesIInv, PTL DEF Spec

\* Type correctness: in particular no index of the digit loop leaves the text.
THEOREM TypeCorrect == Spec => []TypeOK
<1>1. IInv => TypeOK BY DEF IInv
<1> QED BY InvariantHolds, <1>1, PTL

\* For every width, the digit loop of str_to_uint computes without wrapping.
THEOREM NeverWraps == Spec => []NoWrap
<1>1. IInv => NoWrap BY DEF IInv
<1> QED BY InvariantHolds, <1>1, PTL

\* For every width, what str_to_int and str_to_uint return is what was read.
THEOREM ResultIsExact == Spec => []ResultExact
<1>1. IInv => ResultExact BY DEF IInv
<1> QED BY InvariantHolds, <1>1, PTL

\* For every width, the overflow messages are only given to numbers that the
\* type cannot hold.
THEOREM OnlyTooLargeRejected == Spec => []RejectsOnlyTooLarge
<1>1. IInv => RejectsOnlyTooLarge BY DEF IInv
<1> QED BY InvariantHolds, <1>1, PTL

-----------------------------------------------------------------------------
(* The reference.  What its recursive function computes is proved by       *)
(* looking at the least number that is a counterexample.                   *)

\* A set of numbers has a least one.
LEMMA LeastNumber ==
  ASSUME NEW T \in SUBSET Nat, T # {}
  PROVE  \E x \in T : \A y \in T : x <= y
<1> DEFINE R == OpToRel(<, Nat)
<1>1. \A x, y \in Nat : x < y => <<x, y>> \in R BY DEF OpToRel
<1>2. IsWellFoundedOn(R, Nat) BY NatLessThanWellFounded
<1> HIDE DEF R
<1>3. PICK x \in T : \A y \in T : ~(<<y, x>> \in R) BY <1>2, WFMin
<1>4. ASSUME NEW y \in T PROVE x <= y
  <2>1. x \in Nat /\ y \in Nat OBVIOUS
  <2>2. ~(y < x) BY <1>1, <1>3, <2>1, Zenon
  <2> QED BY <2>1, <2>2
<1> QED BY <1>4

\* f satisfies the equations of Numbers for the first len digits.
Reads(f, ds, b, len) == f = [k \in 0 .. len |-> IF k = 0 THEN 0 ELSE f[k - 1] * b + ds[k]]

\* There is a function that satisfies the equations: a least number without one
\* would have one, that for one digit less with another digit.
LEMMA NumbersExist ==
  ASSUME NEW ds, NEW b, NEW len \in Nat
  PROVE  \E f : Reads(f, ds, b, len)
<1> DEFINE Bad == {m \in Nat : ~\E f : Reads(f, ds, b, m)}
<1>1. ASSUME Bad # {} PROVE FALSE
  <2>1. PICK m \in Bad : \A y \in Bad : m <= y BY <1>1, LeastNumber
  <2>2. CASE m = 0
    <3> DEFINE f == [k \in 0 .. 0 |-> 0]
    <3>1. f = [k \in 0 .. 0 |-> IF k = 0 THEN 0 ELSE f[k - 1] * b + ds[k]] OBVIOUS
    <3> QED BY <2>2, <3>1 DEF Reads
  <2>3. CASE m # 0
    <3>1. m - 1 \in Nat /\ ~(m <= m - 1) BY <2>3
    <3>2. PICK g : Reads(g, ds, b, m - 1) BY <2>1, <3>1
    <3> DEFINE f == [k \in 0 .. m |-> IF k = m THEN g[m - 1] * b + ds[m] ELSE g[k]]
    <3>3. /\ DOMAIN f = 0 .. m /\ f[m] = g[m - 1] * b + ds[m]
          /\ \A k \in 0 .. m - 1 : f[k] = g[k]
          /\ g[0] = 0
          /\ \A k \in 1 .. m - 1 : g[k] = g[k - 1] * b + ds[k]
      <4>1. \A k \in 0 .. m - 1 : k \in 0 .. m /\ k # m BY <3>1
      <4>2. m \in 0 .. m /\ 0 \in 0 .. m - 1 BY <3>1
      <4>3. \A k \in 1 .. m - 1 : k \in 0 .. m - 1 /\ k # 0 BY <3>1
      <4>4. g = [k \in 0 .. m - 1 |-> IF k = 0 THEN 0 ELSE g[k - 1] * b + ds[k]]
        BY <3>2 DEF Reads
      <4>5. \A k \in 0 .. m - 1 : g[k] = IF k = 0 THEN 0 ELSE g[k - 1] * b + ds[k]
        BY <4>4
      <4>6. g[0] = 0 BY <4>2, <4>5
      <4> QED BY <4>1, <4>2, <4>3, <4>5, <4>6
    <3> HIDE DEF f
    <3>4. ASSUME NEW k \in 0 .. m
          PROVE  f[k] = IF k = 0 THEN 0 ELSE f[k - 1] * b + ds[k]
      <4>1. CASE k = 0
        <5>1. 0 \in 0 .. m - 1 BY <3>1
        <5> QED BY <3>3, <4>1, <5>1
      <4>2. CASE k = m
        <5>1. m - 1 \in 0 .. m - 1 BY <3>1
        <5>2. f[m - 1] = g[m - 1] BY <3>3, <5>1
        <5> QED BY <2>3, <3>3, <4>2, <5>2
      <4>3. CASE k \in 1 .. m - 1
        <5>1. k \in 0 .. m - 1 /\ k - 1 \in 0 .. m - 1 /\ k # 0 BY <4>3
        <5>2. f[k - 1] = g[k - 1] /\ f[k] = g[k] BY <3>3, <5>1
        <5> QED BY <3>3, <4>3, <5>1, <5>2
      <4> QED BY <4>1, <4>2, <4>3
    <3>5. f = [k \in 0 .. m |-> f[k]] BY <3>3 DEF f
    <3>6. f = [k \in 0 .. m |-> IF k = 0 THEN 0 ELSE f[k - 1] * b + ds[k]]
      BY <3>4, <3>5
    <3> QED BY <2>1, <3>6 DEF Reads
  <2> QED BY <2>2, <2>3
<1> QED BY <1>1

\* The equations of Numbers.
LEMMA NumbersEquations ==
  ASSUME NEW ds, NEW b, Len(ds) \in Nat
  PROVE  /\ Numbers(ds, b)[0] = 0
         /\ \A k \in 1 .. Len(ds) : Numbers(ds, b)[k] = Numbers(ds, b)[k - 1] * b + ds[k]
<1>1. PICK len \in Nat : len = Len(ds) OBVIOUS
<1>2. Numbers(ds, b) = CHOOSE f : f = [k \in 0 .. len |-> IF k = 0 THEN 0 ELSE f[k - 1] * b + ds[k]]
  BY <1>1 DEF Numbers
<1>3. Numbers(ds, b) = CHOOSE f : Reads(f, ds, b, len) BY <1>2 DEF Reads
<1>4. Reads(Numbers(ds, b), ds, b, len) BY <1>3, NumbersExist
<1>5. PICK v : v = Numbers(ds, b) OBVIOUS
<1>6. v = [k \in 0 .. len |-> IF k = 0 THEN 0 ELSE v[k - 1] * b + ds[k]]
  BY <1>4, <1>5 DEF Reads
<1>7. \A k \in 0 .. len : v[k] = IF k = 0 THEN 0 ELSE v[k - 1] * b + ds[k] BY <1>6
<1>8. 0 \in 0 .. len /\ \A k \in 1 .. len : k \in 0 .. len /\ k # 0 OBVIOUS
<1>9. v[0] = 0 /\ \A k \in 1 .. len : v[k] = v[k - 1] * b + ds[k] BY <1>7, <1>8, Zenon
<1> QED BY <1>1, <1>5, <1>9

\* Another digit makes no number smaller.
LEMMA TimesBase ==
  ASSUME NEW b \in Bases, NEW x \in Nat, NEW d \in Nat
  PROVE  x * b + d \in Nat /\ x <= x * b + d
<1>1. b = 2 \/ b = 8 \/ b = 10 \/ b = 16 BY DEF Bases
<1> QED BY <1>1

\* The numbers are natural, and grow with every digit.
LEMMA NumbersGrow ==
  ASSUME NEW ds \in Seq(Nat), NEW b \in Bases
  PROVE  \A k \in 0 .. Len(ds) : /\ Numbers(ds, b)[k] \in Nat
                                 /\ Numbers(ds, b)[k] <= Numbers(ds, b)[Len(ds)]
<1>1. PICK v : v = Numbers(ds, b) OBVIOUS
<1>2. PICK len \in Nat : len = Len(ds) OBVIOUS
<1>3. v[0] = 0 /\ \A k \in 1 .. len : v[k] = v[k - 1] * b + ds[k] /\ ds[k] \in Nat
  BY <1>1, <1>2, NumbersEquations
<1>4. \A k \in 0 .. len : v[k] \in Nat
  <2> DEFINE Bad == {k \in 0 .. len : v[k] \notin Nat}
  <2>1. ASSUME Bad # {} PROVE FALSE
    <3>1. PICK k \in Bad : \A y \in Bad : k <= y
      <4>1. Bad \in SUBSET Nat OBVIOUS
      <4> QED BY <2>1, <4>1, LeastNumber
    <3>2. k \in 1 .. len /\ k - 1 \in 0 .. len /\ ~(k <= k - 1)
      <4>1. k # 0 BY <1>3
      <4> QED BY <4>1
    <3>3. v[k - 1] \in Nat BY <3>1, <3>2
    <3> QED BY <1>3, <3>2, <3>3, TimesBase
  <2> QED BY <2>1
<1>5. \A k \in 0 .. len : v[k] <= v[len]
  <2> DEFINE Bad == {k \in 0 .. len : ~(v[len - k] <= v[len])}
  <2>1. ASSUME Bad # {} PROVE FALSE
    <3>1. PICK k \in Bad : \A y \in Bad : k <= y
      <4>1. Bad \in SUBSET Nat OBVIOUS
      <4> QED BY <2>1, <4>1, LeastNumber
    <3>2. len \in 0 .. len /\ len - 0 = len OBVIOUS
    <3>3. k # 0 BY <1>4, <3>2
    <3>4. /\ k - 1 \in 0 .. len /\ ~(k <= k - 1)
          /\ len - k \in 0 .. len /\ len - (k - 1) \in 1 .. len /\ (len - (k - 1)) - 1 = len - k
      BY <3>3
    <3>5. v[len - (k - 1)] <= v[len] BY <3>1, <3>4
    <3>6. v[len - k] <= v[len - (k - 1)]
      <4>1. PICK j \in 1 .. len : j = len - (k - 1) /\ j - 1 = len - k BY <3>4
      <4>2. v[j] = v[j - 1] * b + ds[j] /\ ds[j] \in Nat /\ v[j - 1] \in Nat
        BY <1>3, <1>4, <3>4, <4>1
      <4>3. v[j - 1] <= v[j] BY <4>2, TimesBase
      <4> QED BY <4>1, <4>3
    <3>7. v[len - (k - 1)] \in Nat /\ v[len - k] \in Nat /\ v[len] \in Nat
      <4>1. len - (k - 1) \in 0 .. len BY <3>4
      <4> QED BY <1>4, <3>2, <3>4, <4>1
    <3> QED BY <3>5, <3>6, <3>7
  <2>2. ASSUME NEW k \in 0 .. len PROVE v[k] <= v[len]
    <3>1. len - k \in 0 .. len /\ len - (len - k) = k OBVIOUS
    <3> QED BY <2>1, <3>1
  <2> QED BY <2>2
<1> QED BY <1>1, <1>2, <1>4, <1>5

-----------------------------------------------------------------------------
(* The text, as the reference takes it apart.                              *)

\* How many characters stand before the digits.
SignLen == IF IsSigned THEN 1 ELSE 0
DigitsFrom == SignLen + IF HasPrefix THEN 2 ELSE 0

Folded(c) == IF c \in 36 .. 61 THEN c - 26 ELSE c

\* The text without its sign.
LEMMA UnsignedText ==
  ASSUME text \in Seq(Char)
  PROVE  /\ Len(text) \in Nat /\ SignLen \in {0, 1} /\ SignLen <= Len(text)
         /\ Unsigned \in Seq(Char) /\ Len(Unsigned) = Len(text) - SignLen
         /\ \A k \in 1 .. Len(Unsigned) : Unsigned[k] = text[SignLen + k]
<1>1. CASE IsSigned
  <2>1. text # <<>> /\ Unsigned = Tail(text) /\ SignLen = 1 BY <1>1 DEF IsSigned, Unsigned, SignLen
  <2>2. /\ Tail(text) \in Seq(Char) /\ Len(Tail(text)) = Len(text) - 1
        /\ \A k \in 1 .. Len(Tail(text)) : Tail(text)[k] = text[k + 1]
    BY <2>1, HeadTailProperties
  <2>3. Len(text) \in Nat /\ 1 <= Len(text) BY <2>1
  <2>4. \A k \in 1 .. Len(Tail(text)) : k + 1 = 1 + k OBVIOUS
  <2> QED BY <2>1, <2>2, <2>3, <2>4
<1>2. CASE ~IsSigned
  <2>1. Unsigned = text /\ SignLen = 0 BY <1>2 DEF Unsigned, SignLen
  <2>2. Len(text) \in Nat /\ Len(text) = Len(text) - 0
        /\ \A k \in 1 .. Len(text) : 0 + k = k
    OBVIOUS
  <2> QED BY <2>1, <2>2
<1> QED BY <1>1, <1>2

\* The values of the digits are those of the characters behind the prefix.
LEMMA ValuesOfText ==
  ASSUME text \in Seq(Char)
  PROVE  /\ Values \in Seq(Nat) /\ DigitsFrom \in Nat
         /\ Len(Values) = Len(text) - DigitsFrom
         /\ \A k \in 1 .. Len(Values) :
              /\ text[DigitsFrom + k] \in Char
              /\ Values[k] = Folded(text[DigitsFrom + k])
<1> DEFINE ds == IF HasPrefix THEN SubSeq(Unsigned, 3, Len(Unsigned)) ELSE Unsigned
           skip == IF HasPrefix THEN 2 ELSE 0
<1>1. /\ Len(text) \in Nat /\ SignLen \in {0, 1} /\ Unsigned \in Seq(Char)
      /\ Len(Unsigned) = Len(text) - SignLen /\ Len(Unsigned) \in Nat
      /\ \A k \in 1 .. Len(Unsigned) : Unsigned[k] = text[SignLen + k]
  BY UnsignedText
<1>2. /\ ds \in Seq(Char) /\ Len(ds) = Len(Unsigned) - skip /\ skip \in {0, 2}
      /\ \A k \in 1 .. Len(ds) : ds[k] = Unsigned[skip + k]
  <2>1. CASE HasPrefix
    <3>1. Len(Unsigned) > 2 /\ ds = SubSeq(Unsigned, 3, Len(Unsigned)) /\ skip = 2
      BY <2>1 DEF HasPrefix
    <3> HIDE DEF ds, skip
    <3>2. PICK len \in Nat : len = Len(Unsigned) /\ len > 2 BY <1>1, <3>1
    <3>3. \A i \in 3 .. len : Unsigned[i] \in Char BY <1>1, <3>2
    <3>4. ds = [k \in 1 .. len - 2 |-> Unsigned[k + 2]]
      <4>1. 3 \in Int /\ len \in Int /\ len - 3 + 1 = len - 2 OBVIOUS
      <4>2. ds = [k \in 1 .. len - 3 + 1 |-> Unsigned[3 + k - 1]] BY <3>1, <3>2
      <4>3. \A k \in 1 .. len - 2 : 3 + k - 1 = k + 2 OBVIOUS
      <4> QED BY <4>1, <4>2, <4>3
    <3>5. \A k \in 1 .. len - 2 : k + 2 \in 3 .. len /\ k + 2 = 2 + k OBVIOUS
    <3>6. ds \in Seq(Char) /\ Len(ds) = len - 2
      <4>1. len - 2 \in Nat BY <3>2
      <4>2. ds \in [1 .. len - 2 -> Char] BY <3>3, <3>4, <3>5
      <4> QED BY <4>1, <4>2
    <3>7. \A k \in 1 .. Len(ds) : ds[k] = Unsigned[2 + k] BY <3>4, <3>5, <3>6
    <3> QED BY <3>1, <3>2, <3>6, <3>7
  <2>2. CASE ~HasPrefix
    <3>1. ds = Unsigned /\ skip = 0 BY <2>2
    <3> HIDE DEF ds, skip
    <3>2. Len(Unsigned) = Len(Unsigned) - 0 /\ \A k \in 1 .. Len(Unsigned) : 0 + k = k
      BY <1>1
    <3> QED BY <1>1, <3>1, <3>2
  <2> QED BY <2>1, <2>2
<1>3. Values = [k \in 1 .. Len(ds) |-> Folded(ds[k])] BY DEF Values, Folded
<1>4. DigitsFrom = SignLen + skip BY DEF DigitsFrom
<1> HIDE DEF ds, skip
<1>5. Len(ds) \in Nat BY <1>2
<1>6. \A c \in Char : Folded(c) \in Nat BY DEF Folded, Char
<1>7. \A k \in 1 .. Len(ds) : ds[k] \in Char BY <1>2
<1>8. Values \in Seq(Nat) /\ Len(Values) = Len(ds)
  <2>1. Values \in [1 .. Len(ds) -> Nat] BY <1>3, <1>6, <1>7
  <2> QED BY <1>5, <2>1
<1>9. DigitsFrom \in Nat /\ Len(ds) = Len(text) - DigitsFrom BY <1>1, <1>2, <1>4
<1>10. ASSUME NEW k \in 1 .. Len(ds) PROVE ds[k] = text[DigitsFrom + k]
  <2>1. skip + k \in 1 .. Len(Unsigned) BY <1>1, <1>2
  <2>2. SignLen + (skip + k) = DigitsFrom + k BY <1>1, <1>2, <1>4
  <2> QED BY <1>1, <1>2, <2>1, <2>2
<1> QED BY <1>3, <1>7, <1>8, <1>9, <1>10

LEMMA TrueBaseIsBase == TrueBase \in Bases
BY DEF TrueBase, HasPrefix, BaseOf, Bases

\* What a text stands for does not change.
LEMMA ReferenceSame ==
  ASSUME UNCHANGED <<text, fn>>
  PROVE  /\ (IsSigned' <=> IsSigned) /\ (HasPrefix' <=> HasPrefix)
         /\ TrueBase' = TrueBase /\ Values' = Values
         /\ SignLen' = SignLen /\ DigitsFrom' = DigitsFrom
         /\ (IsNumber' <=> IsNumber)
         /\ Magnitude' = Magnitude /\ Number' = Number /\ (Representable' <=> Representable)
<1>1. (IsSigned' <=> IsSigned) /\ Unsigned' = Unsigned BY DEF IsSigned, Unsigned
<1>2. HasPrefix' <=> HasPrefix BY <1>1 DEF HasPrefix
<1>3. TrueBase' = TrueBase /\ Values' = Values BY <1>1, <1>2 DEF TrueBase, Values
<1>4. SignLen' = SignLen /\ DigitsFrom' = DigitsFrom BY <1>1, <1>2 DEF SignLen, DigitsFrom
<1>5. IsNumber' <=> IsNumber BY <1>2, <1>3 DEF IsNumber
<1>6. Magnitude' = Magnitude BY <1>3 DEF Magnitude
<1>7. Number' = Number BY <1>1, <1>6 DEF Number
<1>8. Representable' <=> Representable BY <1>7 DEF Representable
<1> QED BY <1>1, <1>2, <1>3, <1>4, <1>5, <1>6, <1>7, <1>8

-----------------------------------------------------------------------------
(* Agreement with the reference.                                           *)

\* How many digits have been read.
Read == at - 1 - DigitsFrom

\* In each phase the code has understood the text as far as it has read it:
\* its sign, its base, and the number that the digits so far stand for, none
\* of which has made the text no number.
RefInv ==
  /\ pc = "sign" => base = 0 /\ ~neg
  /\ pc # "sign" => (neg <=> IsSigned /\ text[1] = Minus)
  /\ pc = "base" => at = SignLen + 1 /\ (fn = "str_to_int" => base = 0)
  /\ pc = "digits" =>
       /\ base = TrueBase /\ Values # <<>> /\ Read \in 0 .. Len(Values)
       /\ \A k \in 1 .. Read : Values[k] < TrueBase
       /\ fn = "str_to_int" /\ ~HasPrefix => Values[1] # 0
       /\ exact = Numbers(Values, TrueBase)[Read]
  /\ pc = "range" => IsNumber /\ exact = Magnitude

\* What RefInv says of the next state, of a text that stays the same.
RefInvNext ==
  /\ pc' # "sign"
  /\ (neg' <=> IsSigned /\ text[1] = Minus)
  /\ pc' = "base" => at' = SignLen + 1 /\ (fn = "str_to_int" => base' = 0)
  /\ pc' = "digits" =>
       /\ base' = TrueBase /\ Values # <<>> /\ at' - 1 - DigitsFrom \in 0 .. Len(Values)
       /\ \A k \in 1 .. at' - 1 - DigitsFrom : Values[k] < TrueBase
       /\ fn = "str_to_int" /\ ~HasPrefix => Values[1] # 0
       /\ exact' = Numbers(Values, TrueBase)[at' - 1 - DigitsFrom]
  /\ pc' = "range" => IsNumber /\ exact' = Magnitude
  /\ pc' = "ok" => IsNumber /\ Representable /\ result' = Number
  /\ pc' = "error" => ~(IsNumber /\ Representable)

LEMMA RefInvKept ==
  ASSUME UNCHANGED <<text, fn>>, RefInvNext
  PROVE  RefInv' /\ AgreesWithReference'
<1>1. Numbers(Values, TrueBase)' = Numbers(Values, TrueBase) BY ReferenceSame DEF Numbers
<1>2. Read' = at' - 1 - DigitsFrom BY ReferenceSame DEF Read
<1>3. RefInv' BY <1>1, <1>2, ReferenceSame DEF RefInvNext, RefInv
<1>4. AgreesWithReference' BY ReferenceSame DEF RefInvNext, AgreesWithReference
<1> QED BY <1>3, <1>4

\* A text without digits is no number.
LEMMA NoDigits ==
  ASSUME TypeOK, at = SignLen + 1, Left = 0
  PROVE  ~IsNumber
<1>1. text \in Seq(Char) BY DEF TypeOK
<1>2. Len(Unsigned) = 0 BY <1>1, UnsignedText DEF Left
<1>3. ~HasPrefix BY <1>2 DEF HasPrefix
<1>4. Len(Values) = 0
  <2>1. DigitsFrom = SignLen BY <1>1, <1>3, UnsignedText DEF DigitsFrom
  <2> QED BY <1>1, <1>2, <2>1, ValuesOfText, UnsignedText
<1>5. Values = <<>> BY <1>1, <1>4, ValuesOfText, EmptySeq
<1> QED BY <1>5 DEF IsNumber

\* The sign is read.
LEMMA SignAgrees == IInv /\ RefInv /\ Sign => RefInvNext
<1> SUFFICES ASSUME IInv, RefInv, Sign PROVE RefInvNext OBVIOUS
<1>1. /\ TypeOK /\ pc = "sign" /\ at = 1 /\ fn = "str_to_int" /\ base = 0
      /\ text \in Seq(Char) /\ base' = base
  <2>1. TypeOK /\ Phase /\ pc = "sign" BY Zenon DEF IInv, Sign
  <2> QED BY <2>1 DEF Phase, TypeOK, RefInv, Sign
<1>2. CASE Len(text) = 0
  <2>1. pc' = "error" /\ neg' = neg BY <1>2 DEF Sign, Fail
  <2>2. text = <<>> BY <1>1, <1>2, EmptySeq
  <2>3. ~IsSigned /\ SignLen = 0 /\ Left = 0
    BY <1>1, <1>2, <2>2 DEF IsSigned, SignLen, Left
  <2>4. ~IsNumber BY <1>1, <2>3, NoDigits
  <2>5. ~neg' BY <1>1, <2>1 DEF RefInv
  <2> QED BY <2>1, <2>3, <2>4, <2>5 DEF RefInvNext
<1>3. CASE Len(text) # 0
  <2>1. /\ neg' = (text[1] = Minus) /\ at' = IF text[1] \in {Plus, Minus} THEN 2 ELSE 1
        /\ pc' = "base"
    BY <1>3 DEF Sign
  <2>2. text # <<>> BY <1>3
  <2>3. IsSigned <=> text[1] \in {Plus, Minus} BY <1>1, <2>2 DEF IsSigned
  <2>4. at' = SignLen + 1 BY <2>1, <2>3 DEF SignLen
  <2>5. neg' <=> IsSigned /\ text[1] = Minus BY <2>1, <2>3
  <2> QED BY <1>1, <2>1, <2>4, <2>5 DEF RefInvNext
<1> QED BY <1>2, <1>3

\* The base is chosen: what stands before the digits is what the reference
\* takes for the prefix.
LEMMA BaseAgrees == IInv /\ RefInv /\ Base => RefInvNext
<1> SUFFICES ASSUME IInv, RefInv, Base PROVE RefInvNext OBVIOUS
<1>1. /\ TypeOK /\ pc = "base" /\ at = SignLen + 1 /\ exact = 0
      /\ (fn = "str_to_int" => base = 0) /\ (fn = "str_to_uint" => base = 16)
      /\ (neg <=> IsSigned /\ text[1] = Minus) /\ text \in Seq(Char)
      /\ fn \in {"str_to_int", "str_to_uint"}
  <2>1. TypeOK /\ Phase /\ pc = "base" BY Zenon DEF IInv, Base
  <2> QED BY <2>1 DEF Phase, TypeOK, RefInv
<1>2. UNCHANGED <<neg, exact>> BY DEF Base
<1>3. /\ Len(text) \in Nat /\ SignLen \in {0, 1} /\ SignLen <= Len(text)
      /\ Unsigned \in Seq(Char) /\ Len(Unsigned) = Len(text) - SignLen
      /\ \A k \in 1 .. Len(Unsigned) : Unsigned[k] = text[SignLen + k]
  BY <1>1, UnsignedText
<1>4. Len(Unsigned) = Left /\ Left \in Nat BY <1>1, <1>3 DEF Left
<1>5. Left > 0 => Unsigned[1] = text[at] BY <1>1, <1>3, <1>4
<1>6. /\ Values \in Seq(Nat) /\ Len(Values) = Len(text) - DigitsFrom
      /\ \A k \in 1 .. Len(Values) : Values[k] = Folded(text[DigitsFrom + k])
  BY <1>1, ValuesOfText
<1>7. Numbers(Values, TrueBase)[0] = 0
  <2>1. Len(Values) \in Nat BY <1>6
  <2> QED BY <2>1, NumbersEquations
<1>8. ASSUME ~HasPrefix, Left > 0
      PROVE  /\ DigitsFrom = SignLen /\ Len(Values) = Left /\ Values # <<>>
             /\ Values[1] = Folded(text[at]) /\ at - 1 - DigitsFrom = 0
  <2>1. DigitsFrom = SignLen BY <1>3, <1>8 DEF DigitsFrom
  <2>2. Len(Values) = Left BY <1>3, <1>4, <1>6, <2>1
  <2>3. 1 \in 1 .. Len(Values) /\ DigitsFrom + 1 = at BY <1>1, <1>3, <1>4, <1>8, <2>1, <2>2
  <2>4. Values # <<>> BY <1>4, <1>8, <2>2
  <2>5. at - 1 - DigitsFrom = 0 BY <1>1, <1>3, <2>1
  <2> QED BY <1>6, <2>1, <2>2, <2>3, <2>4, <2>5
\* The digits start here.
<1>9. ASSUME ~HasPrefix, Left > 0, pc' = "digits", at' = at, base' = TrueBase,
             fn = "str_to_int" => text[at] # 0
      PROVE  RefInvNext
  <2>1. fn = "str_to_int" => Values[1] # 0
    <3>1. \A c \in Char : c # 0 => Folded(c) # 0 BY DEF Folded, Char
    <3>2. text[at] \in Char BY <1>1, <1>3, <1>4, <1>9
    <3> QED BY <1>8, <1>9, <3>1, <3>2
  <2>2. at' - 1 - DigitsFrom = 0 /\ 0 \in 0 .. Len(Values) /\ \A k \in 1 .. 0 : FALSE
    BY <1>4, <1>8, <1>9
  <2>3. /\ Values # <<>> /\ exact' = Numbers(Values, TrueBase)[at' - 1 - DigitsFrom]
        /\ at' - 1 - DigitsFrom \in 0 .. Len(Values)
        /\ \A k \in 1 .. at' - 1 - DigitsFrom : Values[k] < TrueBase
    BY <1>1, <1>2, <1>7, <1>8, <1>9, <2>2
  <2> QED BY <1>1, <1>2, <1>9, <2>1, <2>3 DEF RefInvNext
<1>10. CASE Left = 0 /\ Fail("empty_input") /\ UNCHANGED <<at, base>>
  <2>1. ~IsNumber BY <1>1, <1>10, NoDigits
  <2> QED BY <1>1, <1>2, <1>10, <2>1 DEF RefInvNext, Fail
<1>11. CASE Left > 0 /\ base # 0 /\ pc' = "digits" /\ UNCHANGED <<at, base, error>>
  <2>1. fn = "str_to_uint" BY <1>1, <1>11
  <2>2. ~HasPrefix /\ TrueBase = 16 BY <2>1 DEF HasPrefix, TrueBase
  <2> QED BY <1>1, <1>9, <1>11, <2>1, <2>2
<1>12. CASE /\ Left > 0 /\ base = 0 /\ text[at] # 0
            /\ base' = 10 /\ pc' = "digits" /\ UNCHANGED <<at, error>>
  <2>1. fn = "str_to_int" BY <1>1, <1>12
  <2>2. ~HasPrefix BY <1>5, <1>12 DEF HasPrefix
  <2>3. TrueBase = 10 BY <2>1, <2>2 DEF TrueBase
  <2> QED BY <1>9, <1>12, <2>2, <2>3
<1>13. CASE /\ Left = 1 /\ base = 0 /\ text[at] = 0
            /\ at' = at + 1 /\ pc' = "range" /\ UNCHANGED <<base, error>>
  <2>1. fn = "str_to_int" BY <1>1, <1>13
  <2>2. ~HasPrefix BY <1>4, <1>13 DEF HasPrefix
  <2>3. TrueBase = 10 BY <2>1, <2>2 DEF TrueBase
  <2>4. Len(Values) = 1 /\ Values # <<>> /\ Values[1] = 0 BY <1>8, <1>13, <2>2 DEF Folded
  <2>5. IsNumber
    <3>1. \A k \in DOMAIN Values : k = 1
      <4>1. DOMAIN Values = 1 .. Len(Values) BY <1>6
      <4>2. \A k \in 1 .. 1 : k = 1 OBVIOUS
      <4> QED BY <2>4, <4>1, <4>2
    <3> QED BY <2>3, <2>4, <3>1 DEF IsNumber
  <2>6. Magnitude = 0
    <3>1. Numbers(Values, TrueBase)[1] = Numbers(Values, TrueBase)[1 - 1] * TrueBase + Values[1]
      BY <2>4, NumbersEquations
    <3>2. Numbers(Values, TrueBase)[1] = 0 * 10 + 0 BY <1>7, <2>3, <2>4, <3>1
    <3> QED BY <2>4, <3>2 DEF Magnitude
  <2> QED BY <1>1, <1>2, <1>13, <2>5, <2>6 DEF RefInvNext
<1>14. CASE /\ Left = 2 /\ base = 0 /\ text[at] = 0
            /\ Fail("leading_0") /\ UNCHANGED <<at, base>>
  <2>1. fn = "str_to_int" BY <1>1, <1>14
  <2>2. ~HasPrefix BY <1>4, <1>14 DEF HasPrefix
  <2>3. Len(Values) = 2 /\ Values[1] = 0 BY <1>8, <1>14, <2>2 DEF Folded
  <2>4. ~IsNumber BY <2>1, <2>2, <2>3 DEF IsNumber
  <2> QED BY <1>1, <1>2, <1>14, <2>4 DEF RefInvNext, Fail
<1>15. CASE /\ Left > 2 /\ base = 0 /\ text[at] = 0
            /\ IF text[at + 1] \in BaseChar
               THEN /\ base' = BaseOf(text[at + 1]) /\ at' = at + 2
                    /\ pc' = "digits" /\ UNCHANGED error
               ELSE /\ Fail("invalid_base_char")
                    /\ UNCHANGED <<at, base>>
  <2>1. fn = "str_to_int" BY <1>1, <1>15
  <2>0. Left > 2 /\ Left > 0 /\ text[at] = 0 BY <1>4, <1>15
  <2>2. Unsigned[1] = 0 /\ Unsigned[2] = text[at + 1]
    <3>1. 2 \in 1 .. Len(Unsigned) /\ SignLen + 2 = at + 1 BY <1>1, <1>3, <1>4, <2>0
    <3>2. Unsigned[1] = 0 BY <1>5, <2>0
    <3>3. Unsigned[2] = text[SignLen + 2] BY <1>3, <3>1
    <3> QED BY <3>1, <3>2, <3>3
  <2>3. CASE text[at + 1] \in BaseChar
    <3>1. HasPrefix BY <1>4, <1>15, <2>1, <2>2, <2>3 DEF HasPrefix, BaseChar
    <3>2. base' = TrueBase /\ at' = at + 2 /\ pc' = "digits"
      BY <1>15, <2>1, <2>2, <2>3, <3>1 DEF TrueBase
    <3>3. DigitsFrom = SignLen + 2 BY <3>1 DEF DigitsFrom
    <3>4. at' - 1 - DigitsFrom = 0 /\ Len(Values) > 0 BY <1>1, <1>3, <1>4, <1>6, <1>15, <3>2, <3>3
    <3>5. Values # <<>> /\ 0 \in 0 .. Len(Values) /\ \A k \in 1 .. 0 : FALSE BY <1>6, <3>4
    <3>6. /\ exact' = Numbers(Values, TrueBase)[at' - 1 - DigitsFrom]
          /\ at' - 1 - DigitsFrom \in 0 .. Len(Values)
          /\ \A k \in 1 .. at' - 1 - DigitsFrom : Values[k] < TrueBase
      BY <1>1, <1>2, <1>7, <3>4, <3>5
    <3> QED BY <1>1, <1>2, <3>1, <3>2, <3>5, <3>6 DEF RefInvNext
  <2>4. CASE text[at + 1] \notin BaseChar
    <3>1. pc' = "error" BY <1>15, <2>4 DEF Fail
    <3>2. ~HasPrefix BY <2>2, <2>4 DEF HasPrefix, BaseChar
    <3>3. Len(Values) > 2 /\ Values[1] = 0 BY <1>8, <2>0, <3>2 DEF Folded
    <3>4. Len(Values) # 1 BY <1>6, <3>3
    <3>5. ~IsNumber BY <2>1, <3>2, <3>3, <3>4 DEF IsNumber
    <3> QED BY <1>1, <1>2, <3>1, <3>5 DEF RefInvNext
  <2> QED BY <2>3, <2>4
<1> QED BY <1>10, <1>11, <1>12, <1>13, <1>14, <1>15, Zenon DEF Base

\* What the digit loop knows, and the digit that comes next.
LEMMA NextDigit ==
  ASSUME IInv, RefInv, pc = "digits", Left > 0
  PROVE  /\ Read \in Nat /\ Read + 1 \in 1 .. Len(Values) /\ (at + 1) - 1 - DigitsFrom = Read + 1
         /\ text[at] \in Char /\ Values[Read + 1] = Folded(text[at]) /\ Values[Read + 1] \in Nat
         /\ Numbers(Values, TrueBase)[Read + 1] = exact * base + Values[Read + 1]
<1>1. /\ TypeOK /\ text \in Seq(Char) /\ at \in Nat /\ Len(text) \in Nat /\ at <= Len(text)
      /\ base = TrueBase /\ Read \in 0 .. Len(Values)
      /\ exact = Numbers(Values, TrueBase)[Read]
  <2>1. TypeOK BY DEF IInv
  <2>2. at \in Nat /\ Len(text) \in Nat /\ at <= Len(text) BY <2>1, TextLength DEF Left
  <2> QED BY <2>1, <2>2 DEF RefInv, TypeOK
<1>2. /\ Values \in Seq(Nat) /\ DigitsFrom \in Nat /\ Len(Values) = Len(text) - DigitsFrom
      /\ \A k \in 1 .. Len(Values) : /\ text[DigitsFrom + k] \in Char
                                     /\ Values[k] = Folded(text[DigitsFrom + k])
  BY <1>1, ValuesOfText
<1>3. PICK k \in Nat : k = Read + 1 /\ k = at - DigitsFrom /\ k - 1 = Read
  BY <1>1, <1>2 DEF Read
<1>4. k \in 1 .. Len(Values) /\ DigitsFrom + k = at BY <1>1, <1>2, <1>3
<1>5. Numbers(Values, TrueBase)[k] = Numbers(Values, TrueBase)[k - 1] * TrueBase + Values[k]
  <2>1. Len(Values) \in Nat BY <1>2
  <2> QED BY <1>4, <2>1, NumbersEquations
<1>6. Values[k] \in Nat BY <1>2, <1>4
<1>7. (at + 1) - 1 - DigitsFrom = k BY <1>1, <1>2, <1>3
<1> QED BY <1>1, <1>2, <1>3, <1>4, <1>5, <1>6, <1>7

\* One iteration of the loop.
LEMMA DigitAgrees == IInv /\ RefInv /\ Digit => RefInvNext
<1> SUFFICES ASSUME IInv, RefInv, Digit PROVE RefInvNext OBVIOUS
<1> DEFINE c == text[at]
           d == DigitOf(c)
<1>1. /\ pc = "digits" /\ Left > 0 /\ UNCHANGED <<text, fn, neg, base, result>>
      /\ fn \in {"str_to_int", "str_to_uint"}
  <2>1. TypeOK /\ pc = "digits" /\ Left > 0 BY Zenon DEF IInv, Digit
  <2> QED BY <2>1 DEF Digit, TypeOK
<1>2. /\ Read \in Nat /\ Read + 1 \in 1 .. Len(Values) /\ (at + 1) - 1 - DigitsFrom = Read + 1
      /\ c \in Char /\ Values[Read + 1] = Folded(c) /\ Values[Read + 1] \in Nat
      /\ Numbers(Values, TrueBase)[Read + 1] = exact * base + Values[Read + 1]
  BY <1>1, NextDigit
<1>3. /\ (neg <=> IsSigned /\ text[1] = Minus) /\ base = TrueBase /\ Values # <<>>
      /\ \A k \in 1 .. Read : Values[k] < TrueBase
      /\ fn = "str_to_int" /\ ~HasPrefix => Values[1] # 0
  BY <1>1 DEF RefInv
<1>4. neg' <=> IsSigned /\ text[1] = Minus BY <1>1, <1>3, Zenon
<1>5. TrueBase \in Bases /\ Values \in Seq(Nat) /\ Len(Values) \in Nat
  <2>1. text \in Seq(Char) BY DEF IInv, TypeOK
  <2>2. Values \in Seq(Nat) BY <2>1, ValuesOfText
  <2> QED BY <2>2, TrueBaseIsBase
<1>6. c \notin {Plus, Minus, Other} => Values[Read + 1] = d
  <2>1. \A x \in Char \ {Plus, Minus, Other} : Folded(x) = DigitOf(x)
    BY DEF Char, Plus, Minus, Other, Folded, DigitOf
  <2> QED BY <1>2, <2>1
<1>7. ASSUME ~(Values[Read + 1] < TrueBase) PROVE ~IsNumber
  BY <1>2, <1>5, <1>7 DEF IsNumber
<1>8. CASE c \in {Plus, Minus, Other} /\ Fail("invalid_char")
  <2>1. Folded(c) >= 26 BY <1>8 DEF Folded, Plus, Minus, Other
  <2>2. ~(Values[Read + 1] < TrueBase) BY <1>2, <1>5, <2>1 DEF Bases
  <2> QED BY <1>4, <1>7, <1>8, <2>2 DEF RefInvNext, Fail
<1>9. CASE c \notin {Plus, Minus, Other} /\ d >= base /\ Fail("invalid_digit")
  <2>1. ~(Values[Read + 1] < TrueBase) BY <1>2, <1>3, <1>5, <1>6, <1>9 DEF Bases
  <2> QED BY <1>4, <1>7, <1>9, <2>1 DEF RefInvNext, Fail
<1>10. CASE c \notin {Plus, Minus, Other} /\ d < base /\ at' = at + 1 /\ exact' = exact * base + d
            /\ IF n >= Cutoff
               THEN Fail("mul_overflows") /\ UNCHANGED n
               ELSE IF U(U(n * base) + d) < U(n * base)
               THEN Fail("add_overflows") /\ n' = U(n * base)
               ELSE n' = U(U(n * base) + d) /\ UNCHANGED <<pc, error>>
  <2>1. exact' = Numbers(Values, TrueBase)[Read + 1] BY <1>2, <1>6, <1>10
  <2>2. CASE pc' = "digits"
    <3>1. \A k \in 1 .. Read + 1 : Values[k] < TrueBase
      <4>1. Values[Read + 1] < TrueBase BY <1>3, <1>6, <1>10
      <4>2. \A k \in 1 .. Read + 1 : k \in 1 .. Read \/ k = Read + 1 BY <1>2
      <4> QED BY <1>3, <4>1, <4>2
    <3>2. Read + 1 \in 0 .. Len(Values) BY <1>2, <1>5
    <3>3. at' - 1 - DigitsFrom = Read + 1 BY <1>2, <1>10
    <3>4. base' = TrueBase BY <1>1, <1>3
    <3> QED BY <1>3, <1>4, <2>1, <2>2, <3>1, <3>2, <3>3, <3>4 DEF RefInvNext
  <2>3. CASE pc' = "error" /\ error' \in {"mul_overflows", "add_overflows"}
    <3>1. exact' > UMax
      <4>1. IInv' BY DigitIterationStep
      <4> QED BY <2>3, <4>1 DEF IInv, RejectsOnlyTooLarge
    <3>2. Magnitude \in Nat /\ exact' <= Magnitude /\ exact' \in Nat
      <4>1. Read + 1 \in 0 .. Len(Values) /\ Len(Values) \in 0 .. Len(Values) BY <1>2, <1>5
      <4> QED BY <1>5, <2>1, <4>1, NumbersGrow DEF Magnitude
    <3>3. Magnitude > UMax BY <3>1, <3>2, HalfAssumption DEF UMax
    <3>4. ~Representable BY <3>2, <3>3, HalfAssumption DEF Representable, Number, UMax
    <3> QED BY <1>4, <2>3, <3>4 DEF RefInvNext
  <2> QED BY <1>1, <1>10, <2>2, <2>3 DEF Fail
<1> QED BY <1>8, <1>9, <1>10, Zenon DEF Digit

\* The loop ends: all digits have been read.
LEMMA DigitsEndAgrees == IInv /\ RefInv /\ DigitsEnd => RefInvNext
<1> SUFFICES ASSUME IInv, RefInv, DigitsEnd PROVE RefInvNext OBVIOUS
<1>1. /\ TypeOK /\ pc = "digits" /\ Left = 0 /\ n = exact /\ n \in 0 .. UMax
      /\ text \in Seq(Char) /\ at \in 1 .. Len(text) + 1 /\ Len(text) \in Nat
      /\ fn \in {"str_to_int", "str_to_uint"}
  <2>1. TypeOK /\ NoWrap /\ pc = "digits" /\ Left = 0 BY Zenon DEF IInv, DigitsEnd
  <2> QED BY <2>1, TextLength DEF TypeOK, NoWrap
<1>2. UNCHANGED <<text, fn, at, neg, base, n, error, exact>> BY DEF DigitsEnd
<1>3. /\ (neg <=> IsSigned /\ text[1] = Minus) /\ Values # <<>>
      /\ \A k \in 1 .. Read : Values[k] < TrueBase
      /\ fn = "str_to_int" /\ ~HasPrefix => Values[1] # 0
      /\ exact = Numbers(Values, TrueBase)[Read]
  BY <1>1 DEF RefInv
<1>4. /\ Values \in Seq(Nat) /\ DigitsFrom \in Nat /\ Len(Values) = Len(text) - DigitsFrom
  BY <1>1, ValuesOfText
<1>5. Read = Len(Values) BY <1>1, <1>4 DEF Read, Left
<1>6. IsNumber /\ exact = Magnitude
  <2>1. \A k \in DOMAIN Values : k \in 1 .. Read BY <1>4, <1>5
  <2> QED BY <1>3, <1>5, <2>1 DEF IsNumber, Magnitude
<1>7. CASE fn = "str_to_int"
  <2>1. pc' = "range" BY <1>7 DEF DigitsEnd
  <2> QED BY <1>2, <1>3, <1>6, <2>1 DEF RefInvNext
<1>8. CASE fn = "str_to_uint"
  <2>1. pc' = "ok" /\ result' = n BY <1>8 DEF DigitsEnd
  <2>2. Number = Magnitude BY <1>8 DEF Number, IsSigned
  <2>3. Representable BY <1>1, <1>6, <1>8, <2>2 DEF Representable
  <2> QED BY <1>1, <1>2, <1>3, <1>6, <2>1, <2>2, <2>3 DEF RefInvNext
<1> QED BY <1>1, <1>7, <1>8

\* str_to_int checks the range.
LEMMA RangeAgrees == IInv /\ RefInv /\ CheckRange => RefInvNext
<1> SUFFICES ASSUME IInv, RefInv, CheckRange PROVE RefInvNext OBVIOUS
<1>1. /\ pc = "range" /\ fn = "str_to_int" /\ UNCHANGED <<text, fn, at, neg, base, n, exact>>
      /\ IInv'
  <2>1. Phase /\ pc = "range" BY Zenon DEF IInv, CheckRange
  <2> QED BY <2>1, RangeStep DEF Phase, CheckRange
<1>2. (neg <=> IsSigned /\ text[1] = Minus) /\ IsNumber /\ exact = Magnitude
  BY <1>1 DEF RefInv
<1>3. Number = Signed(exact) BY <1>2 DEF Number, Signed
<1>4. Signed(exact)' = Signed(exact) BY <1>1 DEF Signed
<1>5. neg' <=> IsSigned /\ text[1] = Minus BY <1>1, <1>2, Zenon
<1>6. CASE pc' = "ok"
  <2>1. result' = Number /\ result' \in -Half .. Half - 1
    BY <1>1, <1>3, <1>4, <1>6 DEF IInv, ResultExact
  <2>2. Representable BY <1>1, <2>1 DEF Representable
  <2> QED BY <1>2, <1>5, <1>6, <2>1, <2>2 DEF RefInvNext
<1>7. CASE pc' = "error" /\ error' \in {"overflows_max", "underflows_min"}
  <2>1. Signed(exact) \notin -Half .. Half - 1
    BY <1>1, <1>4, <1>7 DEF IInv, RejectsOnlyTooLarge
  <2>2. ~Representable BY <1>1, <1>3, <2>1 DEF Representable
  <2> QED BY <1>5, <1>7, <2>2 DEF RefInvNext
<1> QED BY <1>6, <1>7 DEF CheckRange, Fail

\* Every step keeps the agreement.
LEMMA NextAgrees ==
  IInv /\ RefInv /\ AgreesWithReference /\ [Next]_vars => RefInv' /\ AgreesWithReference'
<1> SUFFICES ASSUME IInv, RefInv, AgreesWithReference, [Next]_vars
             PROVE  RefInv' /\ AgreesWithReference'
  OBVIOUS
<1>1. CASE Next
  <2>1. UNCHANGED <<text, fn>> BY <1>1 DEF Next, Sign, Base, Digit, DigitsEnd, CheckRange
  <2>2. RefInvNext
    BY <1>1, SignAgrees, BaseAgrees, DigitAgrees, DigitsEndAgrees, RangeAgrees DEF Next
  <2> QED BY <2>1, <2>2, RefInvKept
<1>2. CASE UNCHANGED vars
  <2>1. UNCHANGED <<text, fn, at, neg, base, pc, result, exact>> BY <1>2 DEF vars
  <2>2. Numbers(Values, TrueBase)' = Numbers(Values, TrueBase) BY <2>1, ReferenceSame DEF Numbers
  <2>3. Read' = Read BY <2>1, ReferenceSame DEF Read
  <2>4. RefInv' BY <2>1, <2>2, <2>3, ReferenceSame DEF RefInv
  <2>5. AgreesWithReference' BY <2>1, ReferenceSame DEF AgreesWithReference
  <2> QED BY <2>4, <2>5
<1> QED BY <1>1, <1>2

\* For every width and every text, str_to_int and str_to_uint accept exactly
\* the numbers of the readme that the type holds, and return what the text as
\* a whole stands for.
THEOREM AgreesWithReadme == Spec => []AgreesWithReference
<1>1. Init => RefInv /\ AgreesWithReference
  <2> SUFFICES ASSUME Init PROVE RefInv /\ AgreesWithReference OBVIOUS
  <2>1. /\ pc \in {"sign", "base"} /\ ~neg /\ at = 1
        /\ pc = "sign" => base = 0
        /\ pc = "base" => fn = "str_to_uint"
    BY DEF Init
  <2>2. pc = "base" => ~IsSigned /\ SignLen = 0 BY <2>1 DEF IsSigned, SignLen
  <2> QED BY <2>1, <2>2 DEF RefInv, AgreesWithReference
<1> QED BY InvariantHolds, <1>1, NextAgrees, PTL DEF Spec

=============================================================================
