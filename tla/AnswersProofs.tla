---------------------------- MODULE AnswersProofs -----------------------------
(***************************************************************************)
(* What the lookups and the dumps show of an accepted document, for every  *)
(* document and every session of calls: all of it, where the document has  *)
(* it, and nothing else; and what kevs.py makes of the same tokens.        *)
(***************************************************************************)
EXTENDS KevsParseProofs, KevsParseProps

-----------------------------------------------------------------------------
(* Values and the lists and tables around them.                            *)

\* The values before n are values, counted.
ValuesOf(b, n) == {q \in Values : q < n /\ Around(q) = b}

\* The tokens are numbered from 1.
LEMMA TokenNumbers ==
  ASSUME tokens \in Seq(Token)
  PROVE  /\ Len(tokens) \in Nat /\ DOMAIN tokens = 1 .. Len(tokens)
         /\ Values \subseteq 1 .. Len(tokens) /\ IsFiniteSet(Values)
         /\ \A n \in DOMAIN tokens : n \in Values <=> tokens[n].kind = "value" \/ IsBracket(Openers, n)
<1>1. Len(tokens) \in Nat /\ DOMAIN tokens = 1 .. Len(tokens) BY LenProperties
<1>2. Values \subseteq 1 .. Len(tokens) BY <1>1 DEF Values
<1>3. IsFiniteSet(Values)
  <2>1. IsFiniteSet(1 .. Len(tokens)) BY <1>1, FS_Interval
  <2> QED BY <1>2, <2>1, FS_Subset
<1>4. ASSUME NEW n \in DOMAIN tokens PROVE Brackets(Openers, n, n) = 1 <=> IsBracket(Openers, n)
  <2>1. n \in Nat \ {0} BY <1>1
  <2> QED BY <2>1, BracketsOne
<1>5. \A n \in DOMAIN tokens : n \in Values <=> tokens[n].kind = "value" \/ IsBracket(Openers, n)
  BY <1>4 DEF Values
<1> QED BY <1>1, <1>2, <1>3, <1>5

\* The list or table around a token opens before it.
LEMMA AroundBefore ==
  ASSUME tokens \in Seq(Token), NEW n \in Nat \ {0}, n <= Len(tokens) + 1
  PROVE  /\ Around(n) \in Nat /\ Around(n) < n
         /\ Around(n) # 0 => /\ Around(n) \in OpenAt(n) /\ Around(n) \in Values
                             /\ IsBracket(Openers, Around(n))
<1>1. Len(tokens) \in Nat /\ DOMAIN tokens = 1 .. Len(tokens) BY TokenNumbers
<1>2. OpenAt(n) \subseteq 1 .. n - 1 BY DEF OpenAt
<1>3. CASE OpenAt(n) = {} BY <1>3 DEF Around
<1>4. CASE OpenAt(n) # {}
  <2> DEFINE S == OpenAt(n)
  <2>1. Around(n) = Max(S) BY <1>4 DEF Around
  <2>2. IsFiniteSet(S)
    <3>1. IsFiniteSet(1 .. n - 1) BY FS_Interval
    <3> QED BY <1>2, <3>1, FS_Subset
  <2>3. Max(S) \in S
    <3> HIDE DEF S
    <3>1. S \subseteq Nat /\ S # {} /\ \A x \in S : x < n BY <1>2, <1>4 DEF S
    <3>2. \E k \in S : \A m \in S : k >= m
      <4> DEFINE T == {k \in Nat : \A m \in S : m <= k}
      <4>1. T \subseteq Nat /\ n \in T BY <3>1
      <4> HIDE DEF T
      <4>2. PICK k \in T : \A m \in T : ~(m < k) BY <4>1, LeastOf
      <4>3. k \in S
        <5>1. SUFFICES ASSUME k \notin S PROVE FALSE OBVIOUS
        <5>2. k \in Nat /\ \A m \in S : m \in Nat /\ m <= k /\ m # k BY <3>1, <4>2, <5>1 DEF T
        <5>3. PICK m \in S : TRUE BY <3>1
        <5>4. k - 1 \in Nat /\ \A x \in S : x <= k - 1 BY <5>2, <5>3
        <5>5. k - 1 \in T BY <5>4 DEF T
        <5> QED BY <4>2, <5>2, <5>5
      <4>4. \A m \in S : k >= m BY <3>1, <4>2, <4>3 DEF T
      <4> QED BY <4>3, <4>4
    <3> QED BY <3>2 DEF Max
  <2>4. Around(n) \in S BY <2>1, <2>3
  <2> HIDE DEF S
  <2>5. Around(n) \in 1 .. n - 1 BY <1>2, <2>4 DEF S
  <2>6. Brackets(Openers, Around(n), Around(n)) = 1 BY <2>4 DEF S, OpenAt
  <2>7. Around(n) \in DOMAIN tokens BY <1>1, <2>5
  <2>8. Around(n) \in Values BY <2>6, <2>7 DEF Values
  <2>9. IsBracket(Openers, Around(n))
    <3> DEFINE a == Around(n)
    <3>1. a \in Nat \ {0} /\ Brackets(Openers, a, a) = 1 BY <2>5, <2>6
    <3> HIDE DEF a
    <3>2. IsBracket(Openers, a) BY <3>1, BracketsOne
    <3> QED BY <3>2 DEF a
  <2> QED BY <2>4, <2>5, <2>8, <2>9 DEF S
<1> QED BY <1>3, <1>4

\* The brackets rise with the levels.
Rising(P, e) == P[0] = 0 /\ \A j, k \in 0 .. e : P[j] \in Nat /\ (j < k => P[j] < P[k])

\* The list or table around a token is the innermost one.
LEMMA AroundIs ==
  ASSUME NEW P, NEW d \in Nat, Rising(P, d), NEW n, Opened(P, d, n)
  PROVE  Around(n) = P[d] /\ (OpenAt(n) = {} <=> d = 0)
<1>1. OpenAt(n) = OpenTo(P, d) BY DEF Opened
<1>2. CASE d = 0
  <2>1. 1 .. d = {} BY <1>2
  <2>2. OpenTo(P, d) = {} BY <2>1 DEF OpenTo
  <2> QED BY <1>1, <1>2, <2>2 DEF Around, Rising
<1>3. CASE d # 0
  <2> DEFINE S == OpenTo(P, d)
  <2>1. P[d] \in S /\ S # {}
    <3>1. d \in 1 .. d BY <1>3
    <3> QED BY <3>1 DEF OpenTo
  <2>2. \A x \in S : x \in Nat /\ P[d] >= x
    <3>1. SUFFICES ASSUME NEW j \in 1 .. d PROVE P[j] \in Nat /\ P[d] >= P[j] BY DEF OpenTo
    <3>2. j \in 0 .. d /\ d \in 0 .. d /\ (j = d \/ j < d) OBVIOUS
    <3> QED BY <3>2 DEF Rising
  <2>3. P[d] \in Nat BY <2>1, <2>2
  <2> HIDE DEF S
  <2>4. Max(S) = P[d]
    <3> DEFINE M == Max(S)
    <3>1. M \in S /\ \A y \in S : M >= y BY <2>1, <2>2 DEF Max
    <3>2. M >= P[d] /\ P[d] >= M /\ M \in Nat BY <2>1, <2>2, <3>1
    <3> HIDE DEF M
    <3> QED BY <2>3, <3>2 DEF M
  <2> QED BY <1>1, <1>3, <2>1, <2>4 DEF Around, S
<1> QED BY <1>2, <1>3

\* One more token is one more value in the list or table around it, or none.
LEMMA NumberNext ==
  ASSUME tokens \in Seq(Token), NEW n \in Nat, NEW b
  PROVE  /\ NumberIn(b, n) \in Nat
         /\ NumberIn(b, n + 1) =
              IF n \in Values /\ Around(n) = b THEN NumberIn(b, n) + 1 ELSE NumberIn(b, n)
<1> DEFINE S == ValuesOf(b, n)
           T == ValuesOf(b, n + 1)
<1>1. Values \subseteq Nat /\ IsFiniteSet(Values)
  <2>1. Values \subseteq 1 .. Len(tokens) /\ IsFiniteSet(Values) /\ Len(tokens) \in Nat BY TokenNumbers
  <2> QED BY <2>1
<1>2. NumberIn(b, n) = Cardinality(S) /\ NumberIn(b, n + 1) = Cardinality(T) BY DEF NumberIn, ValuesOf
<1>3. IsFiniteSet(S) /\ Cardinality(S) \in Nat
  <2>1. S \subseteq Values BY DEF ValuesOf
  <2>2. IsFiniteSet(S) BY <1>1, <2>1, FS_Subset
  <2> QED BY <2>2, FS_CardinalityType
<1>4. n \notin S BY DEF ValuesOf
<1>5. \A q \in Values : q < n + 1 <=> q < n \/ q = n BY <1>1
<1>6. CASE n \in Values /\ Around(n) = b
  <2>1. T = S \cup {n} BY <1>5, <1>6 DEF ValuesOf
  <2>2. Cardinality(T) = Cardinality(S) + 1 BY <1>3, <1>4, <2>1, FS_AddElement
  <2> QED BY <1>2, <1>3, <1>6, <2>2
<1>7. CASE ~(n \in Values /\ Around(n) = b)
  <2>1. T = S BY <1>5, <1>7 DEF ValuesOf
  <2> QED BY <1>2, <1>3, <1>7, <2>1
<1> QED BY <1>6, <1>7

\* A list or table that opens now has no values, and before the first token there is none.
LEMMA NumberNone ==
  ASSUME tokens \in Seq(Token), NEW b \in Nat, NEW n \in Nat, n <= b + 1
  PROVE  NumberIn(b, n) = 0
<1>1. ValuesOf(b, n) = {}
  <2>1. SUFFICES ASSUME NEW q \in Values, q < n, Around(q) = b PROVE FALSE BY DEF ValuesOf
  <2>2. q \in 1 .. Len(tokens) /\ Len(tokens) \in Nat BY TokenNumbers
  <2>3. q \in Nat \ {0} /\ q <= Len(tokens) + 1 BY <2>2
  <2>4. Around(q) < q BY <2>3, AroundBefore
  <2> QED BY <2>1, <2>3, <2>4
<1>2. NumberIn(b, n) = Cardinality({}) BY <1>1 DEF NumberIn, ValuesOf
<1> QED BY <1>2, FS_EmptySet

\* Every number below the count is that of a value.
LEMMA NumberOf ==
  ASSUME tokens \in Seq(Token), NEW b \in Nat, NEW n \in Nat, NEW c \in Nat, c < NumberIn(b, n)
  PROVE  \E m \in Values : m < n /\ Around(m) = b /\ NumberIn(b, m) = c
<1> DEFINE T == {l \in 0 .. n : c < NumberIn(b, l)}
<1>1. T \subseteq Nat /\ n \in T OBVIOUS
<1> HIDE DEF T
<1>2. PICK l \in T : \A m \in T : ~(m < l) BY <1>1, LeastOf
<1>3. l \in 0 .. n /\ c < NumberIn(b, l) BY <1>2 DEF T
<1>4. l # 0
  <2>1. NumberIn(b, 0) = 0 BY NumberNone
  <2> QED BY <1>3, <2>1
<1> DEFINE m == l - 1
<1>5. m \in Nat /\ m \in 0 .. n /\ m < l /\ l = m + 1 /\ m < n BY <1>3, <1>4
<1> HIDE DEF m
<1>6. ~(c < NumberIn(b, m)) BY <1>2, <1>5 DEF T
<1>7. /\ NumberIn(b, m) \in Nat
      /\ NumberIn(b, m + 1) = IF m \in Values /\ Around(m) = b THEN NumberIn(b, m) + 1 ELSE NumberIn(b, m)
  BY <1>5, NumberNext
<1>8. m \in Values /\ Around(m) = b /\ NumberIn(b, m) = c BY <1>3, <1>5, <1>6, <1>7, SMTT(30)
<1> QED BY <1>5, <1>8

-----------------------------------------------------------------------------
(* The levels under construction and the entries of the values read.       *)

\* The stack entries of values that have begun: in "value" the top one has not.
Begun(p, s) == IF p = "value" THEN Len(s) - 1 ELSE Len(s)

\* The lists and tables that have begun before n, by their brackets; how many elements each
\* had before this call.
Openings(n) == {0} \cup {b \in Values : b < n /\ IsBracket(Openers, b)}

Old(b) == IF b = 0 THEN Len(ElemsIn(was.heap, was.root.ptr)) ELSE 0

\* The values under construction, from the outside in, are in each other; P gives their
\* tokens, and L the entry that each value so far has.
Leveled(P, L, e, n, s, r) ==
  /\ Rising(P, e)
  /\ \A k \in 0 .. e : L[P[k]] = Level(s, r, k)
  /\ \A k \in 1 .. e : P[k] \in Values /\ P[k] < n /\ Around(P[k]) = P[k - 1]

\* The value at m is in the list or table around it, at the place that the values before
\* m leave it.
Placed(h, L, m) ==
  LET es == ElemsIn(h, L[Around(m)].ptr)
      c  == Old(Around(m)) + NumberIn(Around(m), m) + 1
  IN  c \in 1 .. Len(es) /\ L[m] = es[c]

\* All values so far are what their tokens say, and those that are complete are in place.
Lodged(P, L, e, n, h) ==
  /\ \A m \in Values : m < n => Line(L[m]) = LineAt(m) /\ (m \notin OpenTo(P, e) => Placed(h, L, m))
  /\ \A b \in Openings(n) : L[b].ptr # NULL => L[b].ptr \in DOMAIN h
  /\ \A c \in 1 .. Old(0) : ElemsIn(h, L[0].ptr)[c] = ElemsIn(was.heap, was.root.ptr)[c]

\* No list or table has more elements than there are values for.
Counted(P, L, e, n, h) ==
  /\ \A b \in Openings(n) :
       (\A k \in 1 .. e : b # P[k - 1]) => Len(ElemsIn(h, L[b].ptr)) = Old(b) + NumberIn(b, n)
  /\ \A k \in 1 .. e :
       /\ Len(ElemsIn(h, L[P[k - 1]].ptr)) = Old(P[k - 1]) + NumberIn(P[k - 1], P[k])
       /\ NumberIn(P[k - 1], n) = NumberIn(P[k - 1], P[k]) + 1

Holding(P, L, e, n, h, s, r) ==
  Leveled(P, L, e, n, s, r) /\ Lodged(P, L, e, n, h) /\ Counted(P, L, e, n, h)

\* The lists and tables that have begun.
LEMMA OpeningsNext ==
  ASSUME tokens \in Seq(Token), NEW n \in Nat \ {0}
  PROVE  /\ Openings(n + 1) = Openings(n) \cup {b \in {n} : n \in Values /\ IsBracket(Openers, n)}
         /\ Openings(n) \subseteq 0 .. n - 1
         /\ \A m \in Values : m \in Nat /\ (m < n + 1 <=> m < n \/ m = n)
<1>1. Len(tokens) \in Nat /\ Values \subseteq 1 .. Len(tokens) BY TokenNumbers
<1>2. \A m \in Values : m \in Nat /\ m \in Nat \ {0} /\ (m < n + 1 <=> m < n \/ m = n) BY <1>1
<1>3. Openings(n + 1) = Openings(n) \cup {b \in {n} : n \in Values /\ IsBracket(Openers, n)}
  BY <1>2 DEF Openings
<1>4. Openings(n) \subseteq 0 .. n - 1 BY <1>2 DEF Openings
<1> QED BY <1>2, <1>3, <1>4

\* The list or table around a value has begun before it.
LEMMA AroundBegun ==
  ASSUME tokens \in Seq(Token), NEW m \in Values
  PROVE  /\ Around(m) \in Openings(m) /\ Around(m) < m /\ Around(m) \in Nat
         /\ m \in Nat \ {0} /\ m \in 1 .. Len(tokens)
<1>1. Len(tokens) \in Nat /\ Values \subseteq 1 .. Len(tokens) BY TokenNumbers
<1>2. m \in 1 .. Len(tokens) BY <1>1
<1>3. m \in Nat \ {0} /\ m <= Len(tokens) + 1 BY <1>1, <1>2
<1>4. /\ Around(m) \in Nat /\ Around(m) < m
      /\ Around(m) # 0 => Around(m) \in Values /\ IsBracket(Openers, Around(m))
  BY <1>3, AroundBefore
<1>5. Around(m) \in Openings(m) BY <1>4 DEF Openings
<1> QED BY <1>2, <1>3, <1>4, <1>5

\* A step that reads no value.
LEMMA QuietPlaces ==
  ASSUME tokens \in Seq(Token), NEW e \in Nat, NEW n \in Nat \ {0}, NEW P, NEW L, NEW h, NEW s, NEW r,
         Holding(P, L, e, n, h, s, r), NEW t, \A k \in 0 .. e : Level(t, r, k) = Level(s, r, k)
  PROVE  Holding(P, L, e, n, h, t, r) /\ (n \notin Values => Holding(P, L, e, n + 1, h, t, r))
<1>1. Leveled(P, L, e, n, s, r) /\ Lodged(P, L, e, n, h) /\ Counted(P, L, e, n, h) BY DEF Holding
<1>2. Leveled(P, L, e, n, t, r) BY <1>1 DEF Leveled
<1>3. ASSUME n \notin Values PROVE Holding(P, L, e, n + 1, h, t, r)
  <2>1. Openings(n + 1) = Openings(n) /\ \A m \in Values : m \in Nat /\ (m < n + 1 <=> m < n)
    BY <1>3, OpeningsNext
  <2>2. \A b : NumberIn(b, n + 1) = NumberIn(b, n) BY <1>3, NumberNext
  <2>3. Leveled(P, L, e, n + 1, t, r) BY <1>2, <2>1 DEF Leveled
  <2>4. Lodged(P, L, e, n + 1, h) BY <1>1, <2>1 DEF Lodged
  <2>5. Counted(P, L, e, n + 1, h) BY <1>1, <2>1, <2>2 DEF Counted
  <2> QED BY <2>3, <2>4, <2>5 DEF Holding
<1> QED BY <1>1, <1>2, <1>3 DEF Holding

\* A step that reads a value.
LEMMA ValuePlaces ==
  ASSUME tokens \in Seq(Token), NEW e \in Nat, NEW n \in Values, NEW P, NEW L, NEW h, NEW s, NEW r,
         Holding(P, L, e, n, h, s, r), Around(n) = P[e],
         NEW t, \A k \in 0 .. e : Level(t, r, k) = Level(s, r, k),
         NEW x, Level(t, r, e + 1) = x, Line(x) = LineAt(n), IsBracket(Openers, n) => x.ptr = NULL,
         NEW g, \A b \in DOMAIN h : b \in DOMAIN g /\ g[b] = h[b]
  PROVE  \E Q, K : /\ \A j \in 0 .. e : Q[j] = P[j]
                   /\ Q[e + 1] = n
                   /\ Holding(Q, K, e + 1, n + 1, g, t, r)
<1>1. Leveled(P, L, e, n, s, r) /\ Lodged(P, L, e, n, h) /\ Counted(P, L, e, n, h) BY DEF Holding
<1>2. n \in Nat \ {0} /\ P[e] \in Openings(n) /\ P[e] < n BY AroundBegun
<1>3. PICK Q : Q = [k \in 0 .. e + 1 |-> IF k = e + 1 THEN n ELSE P[k]] OBVIOUS
<1>4. Q[e + 1] = n /\ \A j \in 0 .. e : Q[j] = P[j]
  <2>1. e + 1 \in 0 .. e + 1 /\ \A j \in 0 .. e : j \in 0 .. e + 1 /\ j # e + 1 OBVIOUS
  <2> QED BY <1>3, <2>1
<1>5. PICK K : K = [m \in {0} \cup Values |-> IF m = n THEN x ELSE L[m]] OBVIOUS
<1>6. K[n] = x /\ \A m \in {0} \cup Values : m # n => K[m] = L[m] BY <1>5
<1>7. /\ Openings(n + 1) = Openings(n) \cup {b \in {n} : IsBracket(Openers, n)}
      /\ Openings(n) \subseteq 0 .. n - 1
      /\ \A m \in Values : m \in Nat /\ (m < n + 1 <=> m < n \/ m = n)
  BY <1>2, OpeningsNext
<1>8. Openings(n) \subseteq {0} \cup Values /\ n \notin Openings(n) BY <1>2, <1>7 DEF Openings
<1>9. \A b : NumberIn(b, n + 1) = IF b = P[e] THEN NumberIn(b, n) + 1 ELSE NumberIn(b, n)
  BY <1>2, NumberNext
<1>10. Rising(P, e) /\ \A k \in 0 .. e : P[k] \in Nat /\ P[k] <= P[e] /\ P[k] < n /\ P[k] # n
  <2>1. Rising(P, e) BY <1>1 DEF Leveled
  <2>2. \A k \in 0 .. e : k = e \/ k < e OBVIOUS
  <2>3. e \in 0 .. e OBVIOUS
  <2>4. \A k \in 0 .. e : P[k] \in Nat /\ (k < e => P[k] < P[e]) BY <2>1, <2>3 DEF Rising
  <2> QED BY <1>2, <2>1, <2>2, <2>3, <2>4, SMTT(30)
<1>11. 1 .. e + 1 = (1 .. e) \cup {e + 1} /\ 0 .. e + 1 = (0 .. e) \cup {e + 1}
       /\ e \in 0 .. e /\ (e + 1) - 1 = e /\ \A k \in 1 .. e : k \in 0 .. e /\ k - 1 \in 0 .. e
  OBVIOUS
<1>12. \A k \in 0 .. e : P[k] \in {0} \cup Values
  <2>1. \A k \in 0 .. e : k = 0 \/ k \in 1 .. e OBVIOUS
  <2> QED BY <1>1, <1>10, <2>1 DEF Leveled, Rising
<1>13. ASSUME NEW b \in Openings(n)
       PROVE  ElemsIn(g, K[b].ptr) = ElemsIn(h, L[b].ptr) /\ K[b] = L[b]
              /\ (K[b].ptr # NULL => K[b].ptr \in DOMAIN g)
  <2>1. K[b] = L[b] BY <1>6, <1>8
  <2>2. L[b].ptr # NULL => L[b].ptr \in DOMAIN h BY <1>1 DEF Lodged
  <2> QED BY <2>1, <2>2 DEF ElemsIn
<1>14. Leveled(Q, K, e + 1, n + 1, t, r)
  <2>1. Rising(Q, e + 1)
    <3>1. Q[0] = 0 BY <1>4, <1>10 DEF Rising
    <3>2. \A j \in 0 .. e + 1 : Q[j] \in Nat BY <1>2, <1>4, <1>10, <1>11
    <3>3. ASSUME NEW j \in 0 .. e + 1, NEW k \in 0 .. e + 1, j < k PROVE Q[j] < Q[k]
      <4>1. j \in 0 .. e BY <3>3
      <4>2. CASE k = e + 1 BY <1>4, <1>10, <4>1, <4>2
      <4>3. CASE k # e + 1
        <5>1. k \in 0 .. e BY <4>3
        <5> QED BY <1>4, <1>10, <3>3, <4>1, <5>1 DEF Rising
      <4> QED BY <4>2, <4>3
    <3> QED BY <3>1, <3>2, <3>3 DEF Rising
  <2>2. \A k \in 0 .. e : K[Q[k]] = Level(t, r, k)
    BY <1>1, <1>4, <1>6, <1>10, <1>12 DEF Leveled
  <2>3. K[Q[e + 1]] = Level(t, r, e + 1) BY <1>4, <1>6
  <2>4. \A k \in 1 .. e : Q[k] \in Values /\ Q[k] < n + 1 /\ Around(Q[k]) = Q[k - 1]
    BY <1>1, <1>4, <1>7, <1>11 DEF Leveled
  <2>5. Q[e + 1] \in Values /\ Q[e + 1] < n + 1 /\ Around(Q[e + 1]) = Q[(e + 1) - 1]
    BY <1>2, <1>4, <1>11
  <2> QED BY <1>11, <2>1, <2>2, <2>3, <2>4, <2>5 DEF Leveled
<1>15. OpenTo(Q, e + 1) = OpenTo(P, e) \cup {n}
  <2>1. OpenTo(Q, e + 1) = {Q[j] : j \in 1 .. e} \cup {Q[e + 1]} BY <1>11 DEF OpenTo
  <2>2. {Q[j] : j \in 1 .. e} = OpenTo(P, e) BY <1>4, <1>11 DEF OpenTo
  <2> QED BY <1>4, <2>1, <2>2
<1>16. Lodged(Q, K, e + 1, n + 1, g)
  <2>1. ASSUME NEW m \in Values, m < n + 1
        PROVE  Line(K[m]) = LineAt(m) /\ (m \notin OpenTo(Q, e + 1) => Placed(g, K, m))
    <3>1. CASE m = n BY <1>6, <1>15, <3>1
    <3>2. CASE m # n
      <4>1. m < n /\ K[m] = L[m] BY <1>6, <1>7, <2>1, <3>2
      <4>2. Line(L[m]) = LineAt(m) /\ (m \notin OpenTo(P, e) => Placed(h, L, m)) BY <1>1, <4>1 DEF Lodged
      <4>3. Around(m) \in Openings(n)
        <5>1. Around(m) \in Openings(m) /\ Around(m) < m /\ Around(m) \in Nat BY AroundBegun
        <5>2. Around(m) < n BY <1>2, <1>7, <4>1, <5>1
        <5> QED BY <5>1, <5>2 DEF Openings
      <4>4. ElemsIn(g, K[Around(m)].ptr) = ElemsIn(h, L[Around(m)].ptr) BY <1>13, <4>3
      <4>5. Placed(h, L, m) => Placed(g, K, m) BY <4>1, <4>4 DEF Placed
      <4> QED BY <1>15, <4>1, <4>2, <4>5
    <3> QED BY <3>1, <3>2
  <2>2. ASSUME NEW b \in Openings(n + 1), K[b].ptr # NULL PROVE K[b].ptr \in DOMAIN g
    <3>1. CASE b \in Openings(n) BY <1>13, <2>2, <3>1
    <3>2. CASE b = n BY <1>6, <1>7, <1>8, <2>2, <3>2
    <3> QED BY <1>7, <3>1, <3>2
  <2>3. 0 \in Openings(n) BY DEF Openings
  <2>4. \A c \in 1 .. Old(0) : ElemsIn(g, K[0].ptr)[c] = ElemsIn(was.heap, was.root.ptr)[c]
    BY <1>1, <1>13, <2>3 DEF Lodged
  <2> QED BY <2>1, <2>2, <2>4 DEF Lodged
<1>17. Counted(Q, K, e + 1, n + 1, g)
  <2>1. ASSUME NEW b \in Openings(n + 1), \A k \in 1 .. e + 1 : b # Q[k - 1]
        PROVE  Len(ElemsIn(g, K[b].ptr)) = Old(b) + NumberIn(b, n + 1)
    <3>1. b # P[e] /\ \A k \in 1 .. e : b # P[k - 1] BY <1>4, <1>11, <2>1
    <3>2. NumberIn(b, n + 1) = NumberIn(b, n) BY <1>9, <3>1
    <3>3. CASE b \in Openings(n) BY <1>1, <1>13, <3>1, <3>2, <3>3 DEF Counted
    <3>4. CASE b \notin Openings(n)
      <4>1. b = n /\ K[b].ptr = NULL BY <1>6, <1>7, <3>4
      <4>2. ElemsIn(g, K[b].ptr) = <<>> BY <4>1 DEF ElemsIn
      <4>3. NumberIn(n, n + 1) = 0 BY <1>2, NumberNone
      <4>4. Old(b) = 0 BY <1>2, <4>1 DEF Old
      <4> QED BY <4>1, <4>2, <4>3, <4>4
    <3> QED BY <3>3, <3>4
  <2>2. ASSUME NEW k \in 1 .. e
        PROVE  /\ Len(ElemsIn(g, K[Q[k - 1]].ptr)) = Old(Q[k - 1]) + NumberIn(Q[k - 1], Q[k])
               /\ NumberIn(Q[k - 1], n + 1) = NumberIn(Q[k - 1], Q[k]) + 1
    <3>1. Q[k - 1] = P[k - 1] /\ Q[k] = P[k] BY <1>4, <1>11
    <3>2. P[k - 1] # P[e]
      <4>1. k - 1 < e /\ k - 1 \in 0 .. e OBVIOUS
      <4>2. P[k - 1] < P[e] /\ P[k - 1] \in Nat /\ P[e] \in Nat BY <1>10, <1>11, <4>1 DEF Rising
      <4> QED BY <4>2
    <3>3. P[k - 1] \in Openings(n)
      <4>1. P[k] \in Values /\ P[k] < n /\ Around(P[k]) = P[k - 1] BY <1>1 DEF Leveled
      <4>2. P[k - 1] \in Openings(P[k]) BY <4>1, AroundBegun
      <4>3. P[k - 1] < n BY <1>10, <1>11
      <4> QED BY <4>2, <4>3 DEF Openings
    <3>4. ElemsIn(g, K[P[k - 1]].ptr) = ElemsIn(h, L[P[k - 1]].ptr) BY <1>13, <3>3
    <3>5. NumberIn(P[k - 1], n + 1) = NumberIn(P[k - 1], n) BY <1>9, <3>2
    <3> QED BY <1>1, <3>1, <3>4, <3>5 DEF Counted
  <2>3. /\ Len(ElemsIn(g, K[P[e]].ptr)) = Old(P[e]) + NumberIn(P[e], n)
        /\ NumberIn(P[e], n + 1) = NumberIn(P[e], n) + 1
    <3>1. \A k \in 1 .. e : P[e] # P[k - 1]
      <4>1. SUFFICES ASSUME NEW k \in 1 .. e PROVE P[e] # P[k - 1] OBVIOUS
      <4>2. k - 1 < e /\ k - 1 \in 0 .. e OBVIOUS
      <4>3. P[k - 1] < P[e] /\ P[k - 1] \in Nat /\ P[e] \in Nat BY <1>10, <1>11, <4>2 DEF Rising
      <4> QED BY <4>3
    <3>2. ElemsIn(g, K[P[e]].ptr) = ElemsIn(h, L[P[e]].ptr) BY <1>2, <1>13
    <3> QED BY <1>1, <1>2, <1>9, <3>1, <3>2 DEF Counted
  <2>4. ASSUME NEW k \in 1 .. e + 1
        PROVE  /\ Len(ElemsIn(g, K[Q[k - 1]].ptr)) = Old(Q[k - 1]) + NumberIn(Q[k - 1], Q[k])
               /\ NumberIn(Q[k - 1], n + 1) = NumberIn(Q[k - 1], Q[k]) + 1
    <3>1. CASE k \in 1 .. e BY <2>2, <3>1
    <3>2. CASE k = e + 1
      <4>1. k - 1 = e /\ Q[k - 1] = P[e] /\ Q[k] = n BY <1>4, <1>11, <3>2
      <4> QED BY <2>3, <4>1
    <3> QED BY <1>11, <3>1, <3>2
  <2> QED BY <2>1, <2>4 DEF Counted
<1>18. Holding(Q, K, e + 1, n + 1, g, t, r) BY <1>14, <1>16, <1>17 DEF Holding
<1> QED BY <1>4, <1>18

\* Between h, s, r and g, t, q the value x at level d + 1 is stored behind the elements es
\* of the list or table at level d, which is c from then on; the others stay.
Storing(P, L, d, n, h, s, r, g, t, q, c, es, x) ==
  /\ Old(0) \in Nat /\ d \in Nat /\ n \in Nat \ {0}
  /\ Holding(P, L, d + 1, n, h, s, r)
  /\ \A k \in 0 .. d : k < d => Level(t, q, k) = Level(s, r, k)
  /\ c = Level(t, q, d) /\ Line(c) = Line(Level(s, r, d))
  /\ c.ptr # NULL /\ c.ptr \in DOMAIN g
  /\ es \in Seq(Entry) /\ es = ElemsIn(h, Level(s, r, d).ptr)
  /\ x \in Entry /\ x = Level(s, r, d + 1) /\ ElemsIn(g, c.ptr) = Append(es, x)
  /\ \A b \in Openings(n) : b # P[d] /\ L[b].ptr # NULL =>
       L[b].ptr \in DOMAIN g /\ g[L[b].ptr] = h[L[b].ptr]

\* A value is stored.
LEMMA AppendPlaces ==
  ASSUME tokens \in Seq(Token), NEW P, NEW L, NEW d, NEW n, NEW h, NEW s, NEW r,
         NEW g, NEW t, NEW q, NEW c, NEW es, NEW x, Storing(P, L, d, n, h, s, r, g, t, q, c, es, x)
  PROVE  \E K : Holding(P, K, d, n, g, t, q)
<1> /\ Old(0) \in Nat /\ d \in Nat /\ n \in Nat \ {0} BY DEF Storing
<1> Holding(P, L, d + 1, n, h, s, r) BY DEF Storing
<1> \A k \in 0 .. d : k < d => Level(t, q, k) = Level(s, r, k) BY DEF Storing
<1> c = Level(t, q, d) /\ Line(c) = Line(Level(s, r, d)) BY DEF Storing
<1> c.ptr # NULL /\ c.ptr \in DOMAIN g BY DEF Storing
<1> es \in Seq(Entry) /\ es = ElemsIn(h, Level(s, r, d).ptr) BY DEF Storing
<1> x \in Entry /\ x = Level(s, r, d + 1) /\ ElemsIn(g, c.ptr) = Append(es, x) BY DEF Storing
<1> \A b \in Openings(n) : b # P[d] /\ L[b].ptr # NULL =>
       L[b].ptr \in DOMAIN g /\ g[L[b].ptr] = h[L[b].ptr]
  BY DEF Storing
<1>1. Leveled(P, L, d + 1, n, s, r) /\ Lodged(P, L, d + 1, n, h) /\ Counted(P, L, d + 1, n, h)
  BY DEF Holding
<1>2. PICK K : K = [m \in {0} \cup Values |-> IF m = P[d] THEN c ELSE L[m]] OBVIOUS
<1>3. /\ d \in 0 .. d + 1 /\ d + 1 \in 1 .. d + 1 /\ d + 1 \in 0 .. d + 1 /\ (d + 1) - 1 = d
      /\ 1 .. d + 1 = (1 .. d) \cup {d + 1} /\ \A k \in 0 .. d : k \in 0 .. d + 1 /\ (k < d \/ k = d)
      /\ \A k \in 1 .. d : k \in 0 .. d /\ k - 1 \in 0 .. d /\ k - 1 < d /\ k \in 1 .. d + 1
      /\ \A k \in 0 .. d : k = 0 \/ k \in 1 .. d
  BY SMTT(30)
<1>4. /\ Rising(P, d + 1) /\ P[0] = 0
      /\ \A j, k \in 0 .. d + 1 : P[j] \in Nat /\ (j < k => P[j] < P[k])
  BY <1>1 DEF Leveled, Rising
<1>5. Rising(P, d) BY <1>3, <1>4 DEF Rising
<1>6. \A k \in 0 .. d : k < d => P[k] # P[d] BY <1>3, <1>4
<1>7. P[d + 1] # P[d] BY <1>3, <1>4
<1>8. \A k \in 0 .. d : P[k] \in {0} \cup Values BY <1>1, <1>3, <1>4 DEF Leveled
<1>9. P[d] \in {0} \cup Values BY <1>3, <1>8
<1>10. K[P[d]] = c /\ \A m \in {0} \cup Values : m # P[d] => K[m] = L[m] BY <1>2, <1>9
<1>11. L[P[d]] = Level(s, r, d) /\ L[P[d + 1]] = x /\ P[d + 1] \in Values /\ P[d + 1] < n
       /\ Around(P[d + 1]) = P[d] /\ (d # 0 => P[d] \in Values)
  BY <1>1, <1>3 DEF Leveled
<1>12. Openings(n) \subseteq {0} \cup Values BY DEF Openings
<1>13. ASSUME NEW b \in Openings(n), b # P[d]
       PROVE  K[b] = L[b] /\ ElemsIn(g, K[b].ptr) = ElemsIn(h, L[b].ptr)
              /\ (K[b].ptr # NULL => K[b].ptr \in DOMAIN g)
  BY <1>10, <1>12, <1>13 DEF ElemsIn
<1>14. ElemsIn(g, K[P[d]].ptr) = Append(es, x) /\ ElemsIn(h, L[P[d]].ptr) = es BY <1>10, <1>11
<1>15. /\ Len(Append(es, x)) = Len(es) + 1 /\ Len(es) \in Nat /\ Append(es, x)[Len(es) + 1] = x
       /\ \A k \in 1 .. Len(es) : Append(es, x)[k] = es[k]
  BY AppendProperties, LenProperties
<1>16. Len(es) = Old(P[d]) + NumberIn(P[d], P[d + 1]) /\ NumberIn(P[d], n) = NumberIn(P[d], P[d + 1]) + 1
  BY <1>1, <1>3, <1>14 DEF Counted
<1>17. NumberIn(P[d], P[d + 1]) \in Nat BY <1>3, <1>4, NumberNext
<1>18. \A b : Old(b) \in Nat BY DEF Old
<1>19. Leveled(P, K, d, n, t, q)
  <2>1. ASSUME NEW k \in 0 .. d PROVE K[P[k]] = Level(t, q, k)
    <3>1. CASE k = d BY <1>10, <3>1
    <3>2. CASE k # d
      <4>1. k < d /\ k \in 0 .. d + 1 /\ P[k] # P[d] BY <1>3, <1>6, <3>2
      <4>2. L[P[k]] = Level(s, r, k) BY <1>1, <4>1 DEF Leveled
      <4> QED BY <1>8, <1>10, <4>1, <4>2
    <3> QED BY <3>1, <3>2
  <2>2. \A k \in 1 .. d : P[k] \in Values /\ P[k] < n /\ Around(P[k]) = P[k - 1]
    BY <1>1, <1>3 DEF Leveled
  <2> QED BY <1>5, <2>1, <2>2 DEF Leveled
<1>20. OpenTo(P, d + 1) = OpenTo(P, d) \cup {P[d + 1]} BY <1>3 DEF OpenTo
<1>21. d # 0 => P[d] \in OpenTo(P, d)
  <2>1. d # 0 => d \in 1 .. d OBVIOUS
  <2> QED BY <2>1 DEF OpenTo
<1>22. Lodged(P, K, d, n, g)
  <2>1. ASSUME NEW m \in Values, m < n PROVE Line(K[m]) = LineAt(m)
    <3>1. Line(L[m]) = LineAt(m) BY <1>1, <2>1 DEF Lodged
    <3> QED BY <1>10, <1>11, <3>1
  <2>2. ASSUME NEW m \in Values, m < n, m \notin OpenTo(P, d) PROVE Placed(g, K, m)
    <3>1. m # P[d]
      <4>1. CASE d = 0
        <5>1. Values \subseteq 1 .. Len(tokens) BY TokenNumbers
        <5>2. 0 \notin Values BY <5>1
        <5> QED BY <1>4, <4>1, <5>2
      <4>2. CASE d # 0 BY <1>21, <2>2, <4>2
      <4> QED BY <4>1, <4>2
    <3>2. K[m] = L[m] BY <1>10, <3>1
    <3>3. CASE m = P[d + 1]
      <4> DEFINE k == Old(Around(m)) + NumberIn(Around(m), m) + 1
      <4>1. k = Len(es) + 1 BY <1>11, <1>16, <3>3
      <4>2. ElemsIn(g, K[Around(m)].ptr) = Append(es, x) BY <1>11, <1>14, <3>3
      <4>3. K[m] = x BY <1>11, <3>2, <3>3
      <4>4. k \in 1 .. Len(Append(es, x)) /\ K[m] = Append(es, x)[k] BY <1>15, <4>1, <4>3
      <4> QED BY <4>2, <4>4 DEF Placed
    <3>4. CASE m # P[d + 1]
      <4>1. Placed(h, L, m) BY <1>1, <1>20, <2>2, <3>4 DEF Lodged
      <4>2. Around(m) \in Openings(n)
        <5>1. Around(m) \in Openings(m) /\ Around(m) < m /\ Around(m) \in Nat /\ m \in Nat BY AroundBegun
        <5>2. Around(m) < n BY <2>2, <5>1
        <5> QED BY <5>1, <5>2 DEF Openings
      <4>3. CASE Around(m) = P[d]
        <5> DEFINE k == Old(Around(m)) + NumberIn(Around(m), m) + 1
        <5>1. k \in 1 .. Len(es) /\ L[m] = es[k] BY <1>14, <4>1, <4>3 DEF Placed
        <5> HIDE DEF k
        <5>2. k \in 1 .. Len(Append(es, x)) /\ K[m] = Append(es, x)[k] BY <1>15, <3>2, <5>1
        <5>3. ElemsIn(g, K[Around(m)].ptr) = Append(es, x) BY <1>14, <4>3
        <5> QED BY <5>2, <5>3 DEF Placed, k
      <4>4. CASE Around(m) # P[d]
        <5>1. ElemsIn(g, K[Around(m)].ptr) = ElemsIn(h, L[Around(m)].ptr) BY <1>13, <4>2, <4>4
        <5> QED BY <3>2, <4>1, <5>1 DEF Placed
      <4> QED BY <4>3, <4>4
    <3> QED BY <3>3, <3>4
  <2>3. ASSUME NEW b \in Openings(n), K[b].ptr # NULL PROVE K[b].ptr \in DOMAIN g
    BY <1>10, <1>13, <2>3
  <2>4. ASSUME NEW k \in 1 .. Old(0) PROVE ElemsIn(g, K[0].ptr)[k] = ElemsIn(was.heap, was.root.ptr)[k]
    <3>1. ElemsIn(h, L[0].ptr)[k] = ElemsIn(was.heap, was.root.ptr)[k] BY <1>1 DEF Lodged
    <3>2. CASE P[d] = 0
      <4>1. k \in 1 .. Len(es) BY <1>16, <1>17, <1>18, <3>2, SMTT(30)
      <4> QED BY <1>14, <1>15, <3>1, <3>2, <4>1
    <3>3. CASE P[d] # 0
      <4>1. 0 \in Openings(n) BY DEF Openings
      <4> QED BY <1>13, <3>1, <3>3, <4>1
    <3> QED BY <3>2, <3>3
  <2> QED BY <2>1, <2>2, <2>3, <2>4 DEF Lodged
<1>23. Counted(P, K, d, n, g)
  <2>1. ASSUME NEW b \in Openings(n), \A k \in 1 .. d : b # P[k - 1]
        PROVE  Len(ElemsIn(g, K[b].ptr)) = Old(b) + NumberIn(b, n)
    <3>1. CASE b = P[d]
      <4>1. Len(ElemsIn(g, K[b].ptr)) = Len(es) + 1 BY <1>14, <1>15, <3>1
      <4>2. Old(b) \in Nat BY <1>18
      <4> QED BY <1>16, <1>17, <3>1, <4>1, <4>2
    <3>2. CASE b # P[d]
      <4>1. \A k \in 1 .. d + 1 : b # P[k - 1] BY <1>3, <2>1, <3>2
      <4>2. Len(ElemsIn(h, L[b].ptr)) = Old(b) + NumberIn(b, n) BY <1>1, <4>1 DEF Counted
      <4> QED BY <1>13, <3>2, <4>2
    <3> QED BY <3>1, <3>2
  <2>2. ASSUME NEW k \in 1 .. d
        PROVE  /\ Len(ElemsIn(g, K[P[k - 1]].ptr)) = Old(P[k - 1]) + NumberIn(P[k - 1], P[k])
               /\ NumberIn(P[k - 1], n) = NumberIn(P[k - 1], P[k]) + 1
    <3>1. k \in 1 .. d + 1 /\ k - 1 \in 0 .. d /\ P[k - 1] # P[d] BY <1>3, <1>6
    <3>2. P[k - 1] \in Openings(n)
      <4>1. P[k] \in Values /\ P[k] < n /\ Around(P[k]) = P[k - 1] /\ P[k] \in Nat
        BY <1>1, <1>3, <1>4 DEF Leveled
      <4>2. P[k - 1] \in Openings(P[k]) /\ P[k - 1] < P[k] /\ P[k - 1] \in Nat BY <4>1, AroundBegun
      <4>3. P[k - 1] < n BY <4>1, <4>2, SMTT(30)
      <4> QED BY <4>2, <4>3 DEF Openings
    <3>3. ElemsIn(g, K[P[k - 1]].ptr) = ElemsIn(h, L[P[k - 1]].ptr) BY <1>13, <3>1, <3>2
    <3> QED BY <1>1, <3>1, <3>3 DEF Counted
  <2> QED BY <2>1, <2>2 DEF Counted
<1>24. Holding(P, K, d, n, g, t, q) BY <1>19, <1>22, <1>23 DEF Holding
<1> QED BY <1>24

-----------------------------------------------------------------------------
(* What the places are before and after a token.                           *)

\* The tokens read so far are in their places.
Placing(p, n, h, s, r) ==
  \E P, L : Opened(P, Depth(p, s), n) /\ Holding(P, L, Begun(p, s), n, h, s, r)

\* Opened is about the brackets of the levels alone.
LEMMA OpenedLike ==
  ASSUME NEW P, NEW d \in Nat, NEW n, Opened(P, d, n), NEW Q, \A j \in 1 .. d : Q[j] = P[j]
  PROVE  Opened(Q, d, n)
BY DEF Opened, OpenTo

\* Between two tokens.
LEMMA PlaceOn ==
  ASSUME tokens \in Seq(Token), NEW n \in Nat \ {0}, NEW p, NEW h, NEW s, NEW r, Placing(p, n, h, s, r),
         NEW q, NEW t, Depth(q, t) = Depth(p, s), Begun(q, t) = Begun(p, s), Begun(p, s) \in Nat,
         \A k \in 0 .. Begun(p, s) : Level(t, r, k) = Level(s, r, k)
  PROVE  Placing(q, n, h, t, r)
<1>1. PICK P, L : Opened(P, Depth(p, s), n) /\ Holding(P, L, Begun(p, s), n, h, s, r) BY DEF Placing
<1> DEFINE e == Begun(p, s)
<1>2. e \in Nat /\ Holding(P, L, e, n, h, s, r) /\ \A k \in 0 .. e : Level(t, r, k) = Level(s, r, k) BY <1>1
<1> HIDE DEF e
<1>3. Holding(P, L, e, n, h, t, r) BY <1>2, QuietPlaces
<1> QED BY <1>1, <1>3 DEF Placing, e

\* A token that is neither a value nor a bracket, or one that closes a list or table.
LEMMA PlaceToken ==
  ASSUME tokens \in Seq(Token), NEW n \in 1 .. Len(tokens), NEW p, NEW h, NEW s, NEW r,
         Placing(p, n, h, s, r), tokens[n].kind # "value", ~IsBracket(Openers, n),
         NEW q, NEW t, Depth(p, s) \in Nat,
         \/ ~IsBracket(Closers, n) /\ Depth(q, t) = Depth(p, s)
         \/ IsBracket(Closers, n) /\ Depth(p, s) # 0 /\ Depth(q, t) = Depth(p, s) - 1,
         Begun(q, t) = Begun(p, s), Begun(p, s) \in Nat,
         \A k \in 0 .. Begun(p, s) : Level(t, r, k) = Level(s, r, k)
  PROVE  Placing(q, n + 1, h, t, r)
<1>1. PICK P, L : Opened(P, Depth(p, s), n) /\ Holding(P, L, Begun(p, s), n, h, s, r) BY DEF Placing
<1>2. n \notin Values /\ n \in Nat \ {0} BY TokenNumbers
<1>3. Holding(P, L, Begun(q, t), n + 1, h, t, r)
  <2> DEFINE e == Begun(p, s)
  <2>1. e \in Nat /\ Holding(P, L, e, n, h, s, r) /\ \A k \in 0 .. e : Level(t, r, k) = Level(s, r, k) BY <1>1
  <2> HIDE DEF e
  <2>2. Holding(P, L, e, n + 1, h, t, r) BY <1>2, <2>1, QuietPlaces
  <2> QED BY <2>2 DEF e
<1>4. Opened(P, Depth(q, t), n + 1)
  <2> DEFINE d == Depth(p, s)
  <2>1. d \in Nat /\ Opened(P, d, n) BY <1>1
  <2>2. CASE ~IsBracket(Closers, n) /\ Depth(q, t) = Depth(p, s)
    <3> HIDE DEF d
    <3>1. Opened(P, d, n + 1) BY <1>2, <2>1, <2>2, OpenedSame
    <3> QED BY <2>2, <3>1 DEF d
  <2>3. CASE IsBracket(Closers, n) /\ Depth(p, s) # 0 /\ Depth(q, t) = Depth(p, s) - 1
    <3>1. d \in Nat \ {0} BY <2>1, <2>3
    <3> HIDE DEF d
    <3>2. Opened(P, d - 1, n + 1) BY <1>2, <2>1, <2>3, <3>1, OpenedLess
    <3> QED BY <2>3, <3>2 DEF d
  <2> QED BY <2>2, <2>3
<1> QED BY <1>3, <1>4 DEF Placing

\* A token that begins a value.
LEMMA PlaceValue ==
  ASSUME tokens \in Seq(Token), NEW n \in Values, NEW p, NEW h, NEW s, NEW r,
         Placing(p, n, h, s, r), NEW d \in Nat, Depth(p, s) = d, Begun(p, s) = d,
         NEW q, NEW t, Begun(q, t) = d + 1,
         \/ IsBracket(Openers, n) /\ Depth(q, t) = d + 1
         \/ ~IsBracket(Openers, n) /\ Depth(q, t) = d,
         \A k \in 0 .. d : Level(t, r, k) = Level(s, r, k),
         NEW x, Level(t, r, d + 1) = x, Line(x) = LineAt(n), IsBracket(Openers, n) => x.ptr = NULL,
         NEW g, \A b \in DOMAIN h : b \in DOMAIN g /\ g[b] = h[b]
  PROVE  Placing(q, n + 1, g, t, r)
<1>1. PICK P, L : Opened(P, d, n) /\ Holding(P, L, d, n, h, s, r) BY DEF Placing
<1>2. n \in Nat \ {0} /\ n \in 1 .. Len(tokens) BY AroundBegun
<1>3. Rising(P, d) BY <1>1 DEF Holding, Leveled
<1>4. Around(n) = P[d] BY <1>1, <1>3, AroundIs
<1>5. PICK Q, K : /\ \A j \in 0 .. d : Q[j] = P[j]
                  /\ Q[d + 1] = n
                  /\ Holding(Q, K, d + 1, n + 1, g, t, r)
  BY <1>1, <1>4, ValuePlaces
<1>6. Opened(Q, Depth(q, t), n + 1)
  <2>1. \A j \in 1 .. d : Q[j] = P[j] BY <1>5
  <2>2. CASE IsBracket(Openers, n) /\ Depth(q, t) = d + 1
    <3>1. Opened(Q, d + 1, n + 1) BY <1>1, <1>2, <1>5, <2>1, <2>2, OpenedMore
    <3> QED BY <2>2, <3>1
  <2>3. CASE ~IsBracket(Openers, n) /\ Depth(q, t) = d
    <3>1. ~IsBracket(Closers, n)
      <4>1. tokens[n].kind = "value" BY <1>2, <2>3, TokenNumbers
      <4> QED BY <4>1 DEF IsBracket
    <3>2. Opened(P, d, n + 1) BY <1>1, <1>2, <2>3, <3>1, OpenedSame
    <3>3. Opened(Q, d, n + 1) BY <2>1, <3>2, OpenedLike
    <3> QED BY <2>3, <3>3
  <2> QED BY <2>2, <2>3
<1> QED BY <1>5, <1>6 DEF Placing

\* What is open, and the entries of it.
LEMMA AppendLevel ==
  ASSUME MemoryInv, AppendValue, NEW d, d = Len(stack) - 1
  PROVE  Level(stack', root', d) = [Target EXCEPT !.ptr = Moved]
<1>1. Len(stack) \in Nat \ {0} /\ Len(stack) = d + 1 /\ d \in Nat BY AppendTarget
<1>2. CASE d = 0 BY <1>1, <1>2, AppendFacts DEF Level, Target
<1>3. CASE d # 0
  <2> DEFINE c == [stack[2] EXCEPT !.ptr = Moved]
             t == Tail(Tail(stack))
             u == stack'
  <2>1. Len(stack) # 1 /\ Target = stack[2] BY <1>1, <1>3 DEF Target
  <2>2. u = <<c>> \o t /\ t \in Seq(Entry) BY <2>1, AppendFacts, AppendContainer
  <2>3. Len(u) = d BY AppendLevels
  <2> HIDE DEF c, t, u
  <2>4. u[1] = c BY <2>2
  <2>5. Len(u) + 1 - d = 1 BY <1>1, <2>3
  <2>6. Level(u, root', d) = c BY <1>3, <2>4, <2>5 DEF Level, Nth
  <2> QED BY <2>1, <2>6 DEF c, u
<1> QED BY <1>2, <1>3

\* Every list or table that has begun is the owner of its array, in a place of its own.
LEMMA OpeningOwned ==
  ASSUME MemoryInv, work = <<>>, NEW P, NEW L, NEW e, e = Len(stack), NEW n \in Nat,
         Holding(P, L, e, n, heap, stack, root), NEW b \in Openings(n)
  PROVE  \E place : /\ Own(place, L[b]) \subseteq Owners
                    /\ \A k \in 0 .. e : place = <<0, k>> => b = P[k]
<1>1. tokens \in Seq(Token) /\ stack \in Seq(Entry) /\ e \in Nat /\ DOMAIN heap \subseteq Nat \ {0}
      /\ \A c \in DOMAIN heap : heap[c].elems \in Seq(Entry)
  <2>1. tokens \in Seq(Token) /\ stack \in Seq(Entry) /\ fresh \in Nat /\ DOMAIN heap \subseteq 1 .. fresh - 1
        /\ \A c \in DOMAIN heap : heap[c] \in Block
    BY DEF MemoryInv, Shape, TypeOK
  <2>2. \A c \in DOMAIN heap : heap[c].elems \in Seq(Entry) BY <2>1 DEF Block
  <2> QED BY <2>1, <2>2, LenProperties
<1>2. Leveled(P, L, e, n, stack, root) /\ Lodged(P, L, e, n, heap) BY DEF Holding
<1>3. CASE \E k \in 0 .. e : b = P[k]
  <2>1. PICK k \in 0 .. e : b = P[k] BY <1>3
  <2>2. k \in 0 .. Len(stack) /\ L[b] = Level(stack, root, k) BY <1>2, <2>1 DEF Leveled
  <2>3. Own(<<0, k>>, L[b]) \subseteq Owners BY <2>2, LevelOwned
  <2>4. \A j \in 0 .. e : <<0, k>> = <<0, j>> => b = P[j] BY <2>1
  <2> QED BY <2>3, <2>4
<1>4. CASE \A k \in 0 .. e : b # P[k]
  <2>1. b # P[0] /\ P[0] = 0 /\ 0 \in 0 .. e BY <1>1, <1>2, <1>4 DEF Leveled, Rising
  <2>2. b \in Values /\ b < n BY <2>1 DEF Openings
  <2>3. b \notin OpenTo(P, e) BY <1>4 DEF OpenTo
  <2>4. Placed(heap, L, b) BY <1>2, <2>2, <2>3 DEF Lodged
  <2> DEFINE a == Around(b)
             p == L[a].ptr
  <2>5. a \in Openings(n)
    <3>1. a \in Openings(b) /\ a < b /\ a \in Nat /\ b \in Nat BY <1>1, <2>2, AroundBegun
    <3>2. a < n BY <2>2, <3>1
    <3> QED BY <3>1, <3>2 DEF Openings
  <2>6. PICK c : c \in 1 .. Len(ElemsIn(heap, p)) /\ L[b] = ElemsIn(heap, p)[c] BY <2>4 DEF Placed
  <2> HIDE DEF a
  <2>7. p # NULL
    <3>1. SUFFICES ASSUME p = NULL PROVE FALSE OBVIOUS
    <3>2. ElemsIn(heap, p) = <<>> BY <3>1 DEF ElemsIn
    <3>3. c \in 1 .. 0 BY <2>6, <3>2
    <3> QED BY <3>3
  <2>8. p \in DOMAIN heap BY <1>2, <2>5, <2>7 DEF Lodged
  <2> HIDE DEF p
  <2>9. L[b] = heap[p].elems[c] /\ c \in 1 .. Len(heap[p].elems) BY <2>6, <2>7 DEF ElemsIn
  <2>10. Dying = {} BY DEF Dying
  <2>11. Own(<<p, c>>, heap[p].elems[c]) \subseteq Owners BY <2>8, <2>9, <2>10, OwnersAt
  <2>12. \A k \in 0 .. e : <<p, c>> # <<0, k>> BY <1>1, <2>8
  <2> QED BY <2>9, <2>11, <2>12
<1> QED BY <1>3, <1>4

\* The key of the value at q stands two tokens before it, in the same table.
KeyAhead(q) ==
  q - 2 \in DOMAIN tokens /\ tokens[q - 2].kind = "key" /\ OpenAt(q - 2) = OpenAt(q)

\* Every value so far that is in a table has a key ahead, and every key a value behind,
\* but for the last; that one is the key of the value under construction.
Keyed(p, n, s, x) ==
  /\ \A q \in Values : q < n /\ ~InList(q) => KeyAhead(q)
  /\ \A m \in 1 .. n - 1 : tokens[m].kind = "key" =>
       \/ m + 2 \in Values /\ m + 2 < n /\ OpenAt(m + 2) = OpenAt(m)
       \/ p = "sep" /\ m = n - 1
       \/ p = "value" /\ m = n - 2 /\ OpenAt(m) = OpenAt(n)
  /\ p = "sep" => /\ ~InList(n) /\ n - 1 \in DOMAIN tokens /\ OpenAt(n - 1) = OpenAt(n)
                  /\ tokens[n - 1].kind = "key" /\ tokens[n - 1].sym = x
  /\ p = "value" => IF InList(n) THEN Head(s).key = NoKey
                    ELSE KeyAhead(n) /\ tokens[n - 2].sym = Head(s).key

\* A token that is no bracket leaves open what is open.
LEMMA OpenSame ==
  ASSUME NEW n \in Nat \ {0}, NEW P, NEW d \in Nat, Opened(P, d, n),
         ~IsBracket(Openers, n), ~IsBracket(Closers, n)
  PROVE  OpenAt(n + 1) = OpenAt(n) /\ (InList(n + 1) <=> InList(n))
<1>1. Opened(P, d, n + 1) BY OpenedSame
<1>2. OpenAt(n + 1) = OpenAt(n) BY <1>1 DEF Opened
<1> QED BY <1>2 DEF InList, Around

\* A key.
LEMMA KeyedKey ==
  ASSUME tokens \in Seq(Token), NEW n \in 1 .. Len(tokens), NEW s, NEW x, Keyed("pair", n, s, x),
         tokens[n].kind = "key", ~InList(n), OpenAt(n + 1) = OpenAt(n), ~InList(n + 1)
  PROVE  Keyed("sep", n + 1, s, tokens[n].sym)
<1>1. n \notin Values /\ n \in Nat \ {0} /\ DOMAIN tokens = 1 .. Len(tokens)
      /\ Values \subseteq 1 .. Len(tokens) /\ Len(tokens) \in Nat
  <2>1. ~IsBracket(Openers, n) BY DEF IsBracket
  <2> QED BY <2>1, TokenNumbers
<1>2. \A q \in Values : q < n + 1 => q < n BY <1>1
<1>3. \A m \in 1 .. (n + 1) - 1 : m = n \/ m \in 1 .. n - 1 BY <1>1
<1>4. \A m \in Nat : m + 2 < n => m + 2 < n + 1 BY <1>1
<1>5. \A m \in 1 .. n - 1 : m \in Nat OBVIOUS
<1>6. (n + 1) - 1 = n BY <1>1
<1> QED BY <1>1, <1>2, <1>3, <1>4, <1>5, <1>6 DEF Keyed

\* A separator.
LEMMA KeyedSeparator ==
  ASSUME tokens \in Seq(Token), NEW n \in 1 .. Len(tokens), NEW s, NEW x, Keyed("sep", n, s, x),
         tokens[n].kind = "delim", ~IsBracket(Openers, n), NEW t, Head(t).key = x,
         OpenAt(n + 1) = OpenAt(n), InList(n + 1) <=> InList(n), NEW y
  PROVE  Keyed("value", n + 1, t, y)
<1>1. n \notin Values /\ n \in Nat \ {0} /\ DOMAIN tokens = 1 .. Len(tokens)
      /\ Values \subseteq 1 .. Len(tokens) /\ Len(tokens) \in Nat
  BY TokenNumbers
<1>2. \A q \in Values : q < n + 1 => q < n BY <1>1
<1>3. \A m \in 1 .. (n + 1) - 1 : m = n \/ m \in 1 .. n - 1 BY <1>1
<1>4. \A m \in 1 .. n - 1 : m + 2 < n => m + 2 < n + 1 BY <1>1
<1>5. (n + 1) - 1 = n /\ (n + 1) - 2 = n - 1 BY <1>1
<1>6. tokens[n].kind # "key" OBVIOUS
<1> QED BY <1>2, <1>3, <1>4, <1>5, <1>6 DEF Keyed, KeyAhead

\* A value.
LEMMA KeyedValue ==
  ASSUME tokens \in Seq(Token), NEW n \in Values, NEW s, NEW x, Keyed("value", n, s, x),
         NEW q, q \notin {"sep", "value"}, NEW t, NEW y
  PROVE  Keyed(q, n + 1, t, y)
<1>1. n \in Nat \ {0} /\ Values \subseteq 1 .. Len(tokens) /\ Len(tokens) \in Nat /\ tokens[n].kind # "key"
  <2>1. Values \subseteq 1 .. Len(tokens) /\ Len(tokens) \in Nat
        /\ (\A m \in DOMAIN tokens : m \in Values <=> (tokens[m].kind = "value" \/ IsBracket(Openers, m)))
        /\ DOMAIN tokens = 1 .. Len(tokens)
    BY TokenNumbers
  <2> QED BY <2>1 DEF IsBracket
<1>2. \A m \in Values : m < n + 1 => m < n \/ m = n BY <1>1
<1>3. \A m \in 1 .. (n + 1) - 1 : m = n \/ m \in 1 .. n - 1 BY <1>1
<1>4. \A m \in 1 .. n - 1 : (m + 2 < n => m + 2 < n + 1) /\ (m = n - 2 => m + 2 = n) BY <1>1
<1>5. n < n + 1 BY <1>1
<1> QED BY <1>1, <1>2, <1>3, <1>4, <1>5 DEF Keyed

\* Another token, or none.
LEMMA KeyedOther ==
  ASSUME tokens \in Seq(Token), NEW n \in Nat \ {0}, NEW p, p \notin {"sep", "value"},
         NEW s, NEW x, Keyed(p, n, s, x), NEW q, q \notin {"sep", "value"}, NEW t, NEW y
  PROVE  /\ Keyed(q, n, t, y)
         /\ n \notin Values /\ tokens[n].kind # "key" => Keyed(q, n + 1, t, y)
         /\ InList(n) /\ Head(t).key = NoKey => Keyed("value", n, t, y)
<1>1. Values \subseteq Nat
  <2>1. Values \subseteq 1 .. Len(tokens) /\ Len(tokens) \in Nat BY TokenNumbers
  <2> QED BY <2>1
<1>2. n \notin Values => \A m \in Values : m < n + 1 => m < n BY <1>1
<1>3. \A m \in 1 .. (n + 1) - 1 : m = n \/ m \in 1 .. n - 1 BY <1>1
<1>4. \A m \in 1 .. n - 1 : m + 2 < n => m + 2 < n + 1 OBVIOUS
<1> QED BY <1>2, <1>3, <1>4 DEF Keyed

\* The list or table around the next token is the innermost one.
LEMMA InListIs ==
  ASSUME tokens \in Seq(Token), NEW n \in Nat \ {0}, NEW p, NEW h, NEW s, NEW r, Placing(p, n, h, s, r),
         NEW d \in Nat, Depth(p, s) = d, Begun(p, s) = d
  PROVE  /\ InList(n) <=> d # 0 /\ Level(s, r, d).kind = "list"
         /\ OpenAt(n) = {} <=> d = 0
<1>1. PICK P, L : Opened(P, d, n) /\ Holding(P, L, d, n, h, s, r) BY DEF Placing
<1>2. Leveled(P, L, d, n, s, r) /\ Lodged(P, L, d, n, h) BY <1>1 DEF Holding
<1>3. Around(n) = P[d] /\ (OpenAt(n) = {} <=> d = 0) BY <1>1, <1>2, AroundIs DEF Leveled
<1>4. CASE d = 0 BY <1>2, <1>3, <1>4 DEF InList, Leveled, Rising
<1>5. CASE d # 0
  <2> DEFINE b == P[d]
  <2>1. d \in 1 .. d /\ d \in 0 .. d BY <1>5
  <2>2. b \in Values /\ b < n /\ L[b] = Level(s, r, d) BY <1>2, <2>1 DEF Leveled
  <2>3. b \in OpenAt(n) BY <1>1, <2>1 DEF Opened, OpenTo
  <2>4. b \in Nat \ {0} /\ Brackets(Openers, b, b) = 1 BY <2>2, <2>3, AroundBegun DEF OpenAt
  <2> HIDE DEF b
  <2>5. IsBracket(Openers, b) BY <2>4, BracketsOne
  <2>6. Line(L[b]) = LineAt(b) BY <1>2, <2>2 DEF Lodged
  <2>7. L[b].kind = KindAt(b) BY <2>6 DEF Line, LineAt
  <2>8. KindAt(b) = IF tokens[b].sym = kListBegin THEN "list" ELSE "table"
    BY <2>5 DEF KindAt, IsBracket
  <2>9. InList(n) <=> tokens[b].sym = kListBegin BY <1>3, <2>4 DEF InList, b
  <2> QED BY <1>3, <1>5, <2>2, <2>7, <2>8, <2>9
<1> QED BY <1>4, <1>5

\* The key of the value that is due.
LEMMA KeyOf ==
  ASSUME NEW n, NEW s, NEW x, Keyed("value", n, s, x)
  PROVE  KeyAt(n) = Head(s).key
BY DEF Keyed, KeyAt

\* The line of a list or table that has begun, and of a value that has been read.
LEMMA LineOf ==
  ASSUME NEW n, NEW e, e.key = KeyAt(n)
  PROVE  /\ /\ IsBracket(Openers, n) /\ e.data = NoData
            /\ e.kind = IF tokens[n].sym = kListBegin THEN "list" ELSE "table"
            => Line(e) = LineAt(n)
         /\ /\ tokens[n].kind = "value" /\ e.data = tokens[n].sym
            /\ e.kind = IF Class[tokens[n].sym] = "raw" THEN "string" ELSE Class[tokens[n].sym]
            => Line(e) = LineAt(n)
BY DEF Line, LineAt, KindAt, IsBracket

-----------------------------------------------------------------------------
(* The invariant, and the steps of parse that store nothing.               *)

\* What was there before this call was an array.
Known == ElemsIn(was.heap, was.root.ptr) \in Seq(Entry)

PlaceInv ==
  /\ pc \in {"unwind", "failed"} => error # "none"
  /\ pc \in Parsing => Known /\ Placing(pc, i, heap, stack, root) /\ Keyed(pc, i, stack, key)
  /\ pc \in {"done", "returned"} /\ error = "none" =>
       /\ Known /\ i = Len(tokens) + 1
       /\ Placing("pair", i, heap, <<>>, root) /\ Keyed("pair", i, <<>>, key)

\* Where the tokens belong changes with the tokens and the caller's table only.
LEMMA SamePlaces ==
  ASSUME UNCHANGED <<tokens, was>>
  PROVE  /\ Values' = Values /\ Known' = Known /\ LinesTo' = LinesTo
         /\ \A syms, n : IsBracket(syms, n)' = IsBracket(syms, n)
         /\ \A n : OpenAt(n)' = OpenAt(n)
         /\ \A n : Around(n)' = Around(n)
         /\ \A n : InList(n)' = InList(n)
         /\ \A n : LineAt(n)' = LineAt(n)
         /\ \A n : KeyAhead(n)' = KeyAhead(n)
         /\ \A b, n : NumberIn(b, n)' = NumberIn(b, n)
         /\ \A b : Old(b)' = Old(b)
         /\ \A n : Openings(n)' = Openings(n)
         /\ \A y, p, n : Brackets(y, p, n)' = Brackets(y, p, n)
<1>1. (\A y, p, n : Brackets(y, p, n)' = Brackets(y, p, n)) /\ (\A n : OpenAt(n)' = OpenAt(n)) BY SameMeaning
<1>2. Values' = Values BY <1>1 DEF Values
<1>3. \A n : Around(n)' = Around(n) BY <1>1 DEF Around
<1>4. \A n : InList(n)' = InList(n) BY <1>3 DEF InList
<1>5. \A n : KindAt(n)' = KindAt(n) BY DEF KindAt
<1>6. \A n : KeyAt(n)' = KeyAt(n) BY <1>4 DEF KeyAt
<1>7. \A n : LineAt(n)' = LineAt(n) BY <1>5, <1>6 DEF LineAt
<1>8. \A n : KeyAhead(n)' = KeyAhead(n) BY <1>1 DEF KeyAhead
<1>9. \A b, n : NumberIn(b, n)' = NumberIn(b, n) BY <1>2, <1>3 DEF NumberIn
<1>10. \A b : Old(b)' = Old(b) BY DEF Old
<1>11. \A syms, n : IsBracket(syms, n)' = IsBracket(syms, n) BY DEF IsBracket
<1>12. \A n : Openings(n)' = Openings(n) BY <1>2, <1>11 DEF Openings
<1>13. LinesTo' = LinesTo BY <1>2, <1>7 DEF LinesTo
<1>14. Known' = Known BY DEF Known
<1> QED BY <1>1, <1>2, <1>3, <1>4, <1>7, <1>8, <1>9, <1>10, <1>11, <1>12, <1>13, <1>14

\* The same, of the entries that the values have.
LEMMA SamePlacing ==
  ASSUME UNCHANGED <<tokens, was>>
  PROVE  /\ \A p, n, h, s, r : Placing(p, n, h, s, r)' = Placing(p, n, h, s, r)
         /\ \A p, n, s, x : Keyed(p, n, s, x)' = Keyed(p, n, s, x)
<1>1. \A P, d, n : Opened(P, d, n)' = Opened(P, d, n) BY SamePlaces DEF Opened
<1>2. \A P, L, e, n, s, r : Leveled(P, L, e, n, s, r)' = Leveled(P, L, e, n, s, r)
  BY SamePlaces DEF Leveled
<1>3. \A h, L, m : Placed(h, L, m)' = Placed(h, L, m) BY SamePlaces DEF Placed
<1>4. \A P, L, e, n, h : Lodged(P, L, e, n, h)' = Lodged(P, L, e, n, h)
  <2>1. TAKE P, L, e, n, h
  <2>2. was' = was OBVIOUS
  <2> QED BY <1>3, <2>2, SamePlaces DEF Lodged
<1>5. \A P, L, e, n, h : Counted(P, L, e, n, h)' = Counted(P, L, e, n, h)
  BY SamePlaces DEF Counted
<1>6. \A P, L, e, n, h, s, r : Holding(P, L, e, n, h, s, r)' = Holding(P, L, e, n, h, s, r)
  BY <1>2, <1>4, <1>5 DEF Holding
<1>7. \A p, n, h, s, r : Placing(p, n, h, s, r)' = Placing(p, n, h, s, r) BY <1>1, <1>6 DEF Placing
<1>8. \A p, n, s, x : Keyed(p, n, s, x)' = Keyed(p, n, s, x)
  <2>1. TAKE p, n, s, x
  <2>2. tokens' = tokens OBVIOUS
  <2> QED BY <2>2, SamePlaces DEF Keyed
<1> QED BY <1>7, <1>8

\* Steps of parse that read on.
LEMMA PlacesOn ==
  ASSUME UNCHANGED <<tokens, was>>, pc' \in Parsing, Known,
         Placing(pc', i', heap', stack', root'), Keyed(pc', i', stack', key')
  PROVE  PlaceInv'
<1>1. Placing(pc, i, heap, stack, root)' BY SamePlacing
<1>2. Keyed(pc, i, stack, key)' BY SamePlacing
<1>3. Known' BY SamePlaces
<1> QED BY <1>1, <1>2, <1>3 DEF PlaceInv, Parsing

\* What is stored once parse has returned NULL stays.
LEMMA PlacesStay ==
  ASSUME UNCHANGED <<tokens, was, i, heap, root, key>>, pc' \notin Parsing,
         pc' \in {"unwind", "failed"} => error' # "none",
         pc' \in {"done", "returned"} /\ error' = "none" =>
           /\ Known /\ i = Len(tokens) + 1
           /\ Placing("pair", i, heap, <<>>, root) /\ Keyed("pair", i, <<>>, key)
  PROVE  PlaceInv'
<1>1. Placing("pair", i, heap, <<>>, root)' <=> Placing("pair", i, heap, <<>>, root) BY SamePlacing
<1>2. Keyed("pair", i, <<>>, key)' <=> Keyed("pair", i, <<>>, key) BY SamePlacing
<1>3. Known' <=> Known BY SamePlaces
<1> QED BY <1>1, <1>2, <1>3 DEF PlaceInv

\* A function that returns an error.
LEMMA FailPlaces ==
  ASSUME pc' = "unwind", error' # "none" PROVE PlaceInv'
BY DEF PlaceInv, Parsing

\* What parse has read when it is at work.
LEMMA PlacesNow ==
  ASSUME MemoryInv, MeaningInv, PlaceInv, pc \in Parsing
  PROVE  /\ tokens \in Seq(Token) /\ i \in Nat \ {0} /\ i <= Len(tokens) + 1 /\ error = "none" /\ work = <<>>
         /\ stack \in Seq(Entry) /\ Len(stack) \in Nat /\ (stack # <<>> => Len(stack) # 0)
         /\ Known /\ Placing(pc, i, heap, stack, root) /\ Keyed(pc, i, stack, key)
         /\ \E P : Opened(P, Depth(pc, stack), i)
<1>1. tokens \in Seq(Token) /\ i \in 1 .. Len(tokens) + 1 /\ work = <<>> /\ stack \in Seq(Entry)
  BY DEF MemoryInv, Shape, TypeOK, Control, Parsing
<1>2. Len(tokens) \in Nat BY TokenNumbers, <1>1
<1>3. error = "none" BY DEF MeaningInv
<1>4. Len(stack) \in Nat /\ (stack # <<>> => Len(stack) # 0) BY <1>1, LenProperties, EmptySeq
<1>5. Known /\ Placing(pc, i, heap, stack, root) /\ Keyed(pc, i, stack, key) BY DEF PlaceInv
<1>6. \E P : Opened(P, Depth(pc, stack), i) BY <1>5 DEF Placing
<1> QED BY <1>1, <1>2, <1>3, <1>4, <1>5, <1>6

\* parse_key: the places.
LEMMA ParseKeyPlaces ==
  ASSUME MemoryInv, GrammarInv, GrammarInv', MeaningInv, PlaceInv, ParseKey, was' = was PROVE PlaceInv'
<1> DEFINE d == Len(stack)
<1>1. /\ pc = "pair" /\ pc \in Parsing /\ UNCHANGED <<tokens, stack, root, heap>>
  BY DEF ParseKey, AtPair, Parsing
<1>2. /\ tokens \in Seq(Token) /\ i \in Nat \ {0} /\ stack \in Seq(Entry) /\ d \in Nat
      /\ Known /\ Placing(pc, i, heap, stack, root) /\ Keyed(pc, i, stack, key) /\ error = "none"
  BY <1>1, PlacesNow
<1>3. Expect("key")
  <2>1. error' # "expected_key_token" BY DEF GrammarInv, Suffices
  <2> QED BY <2>1 DEF ParseKey, Fail
<1>4. ~NoneLeft /\ tokens[i].kind = "key" BY <1>3 DEF Expect
<1>5. i \in 1 .. Len(tokens) BY <1>4, AtToken
<1>6. CASE pc' = "unwind"
  <2>1. error' # "none" BY <1>3, <1>6 DEF ParseKey, Fail
  <2> QED BY <1>6, <2>1, FailPlaces
<1>7. CASE pc' # "unwind"
  <2>1. key' = tokens[i].sym /\ i' = i + 1 /\ pc' = "sep" BY <1>3, <1>7 DEF ParseKey, Fail, Pop
  <2>2. \A syms : ~IsBracket(syms, i) BY <1>4 DEF IsBracket
  <2>3. Depth("sep", stack) = d /\ Begun("sep", stack) = d /\ Depth("pair", stack) = d /\ Begun("pair", stack) = d
    BY DEF Depth, InValue, Begun
  <2>4. Placing("sep", i + 1, heap, stack, root)
    <3> HIDE DEF d
    <3>1. tokens[i].kind # "value" BY <1>4
    <3> QED BY <1>1, <1>2, <1>5, <2>2, <2>3, <3>1, PlaceToken
  <2>5. OpenAt(i + 1) = OpenAt(i) /\ (InList(i + 1) <=> InList(i))
    <3>1. PICK P : Opened(P, d, i) BY <1>1, <2>3, PlacesNow
    <3> HIDE DEF d
    <3> QED BY <1>2, <2>2, <3>1, OpenSame
  <2>6. ~InList(i)
    <3>1. InList(i) <=> d # 0 /\ Level(stack, root, d).kind = "list"
      <4> HIDE DEF d
      <4> QED BY <1>1, <1>2, <2>3, InListIs
    <3>2. stack # <<>> => Head(stack).kind = "table" BY <1>1 DEF GrammarInv, Follows
    <3>3. stack # <<>> => Nth(stack, Len(stack)) = Head(stack) BY <1>2, NthTop
    <3>4. d # 0 => stack # <<>> OBVIOUS
    <3> QED BY <3>1, <3>2, <3>3, <3>4 DEF Level
  <2>7. Keyed("sep", i + 1, stack, tokens[i].sym) BY <1>1, <1>2, <1>4, <1>5, <2>5, <2>6, KeyedKey
  <2>8. Placing(pc', i', heap', stack', root') /\ Keyed(pc', i', stack', key') BY <1>1, <2>1, <2>4, <2>7
  <2> QED BY <1>1, <1>2, <2>1, <2>8, PlacesOn DEF Parsing
<1> QED BY <1>6, <1>7

\* parse_delim, after a key: the places.
LEMMA ParseSeparatorPlaces ==
  ASSUME MemoryInv, GrammarInv', MeaningInv, PlaceInv, ParseSeparator, was' = was PROVE PlaceInv'
<1> DEFINE d == Len(stack)
           t == stack'
<1>1. /\ pc = "sep" /\ pc \in Parsing /\ UNCHANGED <<tokens, key, root, heap>>
  BY DEF ParseSeparator, Parsing
<1>2. /\ tokens \in Seq(Token) /\ i \in Nat \ {0} /\ stack \in Seq(Entry) /\ d \in Nat
      /\ Known /\ Placing(pc, i, heap, stack, root) /\ Keyed(pc, i, stack, key) /\ error = "none"
  BY <1>1, PlacesNow
<1>3. ExpectDelim(kKeyValSep)
  <2>1. error' # "missing_key_value_separator" BY DEF GrammarInv, Suffices
  <2> QED BY <2>1 DEF ParseSeparator, Fail
<1>4. t = <<Undefined(key)>> \o stack /\ i' = i + 1 /\ pc' = "value" BY <1>3 DEF ParseSeparator, Pop
<1>5. /\ ~NoneLeft /\ tokens[i].kind = "delim" /\ ~IsBracket(Openers, i) /\ ~IsBracket(Closers, i)
  BY <1>3 DEF ExpectDelim, Expect, IsBracket, Openers, Closers, kKeyValSep, kListBegin, kTableBegin,
    kListEnd, kTableEnd
<1>6. i \in 1 .. Len(tokens) BY <1>5, AtToken
<1>7. t \in Seq(Entry) /\ t # <<>> /\ Tail(t) = stack /\ Head(t) = Undefined(key)
  <2>1. Undefined(key) \in Entry
    <3>1. key \in Keys \cup {NoKey} BY DEF MemoryInv, Shape, TypeOK
    <3> QED BY <3>1 DEF Undefined, Entry, NULL
  <2> QED BY <1>2, <1>4, <2>1, Pushed
<1>8. Len(t) = d + 1 /\ \A k \in 1 .. d : Nth(t, k) = Nth(stack, k) BY <1>2, <1>7, NthPush
<1>9. Depth("value", t) = d /\ Begun("value", t) = d /\ Depth("sep", stack) = d /\ Begun("sep", stack) = d
  <2>1. Len(t) - 1 = d BY <1>2, <1>8
  <2> QED BY <2>1 DEF Depth, InValue, Begun
<1>10. \A k \in 0 .. d : Level(t, root, k) = Level(stack, root, k)
  <2>1. \A k \in 0 .. d : k = 0 \/ k \in 1 .. d BY <1>2
  <2> QED BY <1>8, <2>1 DEF Level
<1>11. Placing("value", i + 1, heap, t, root)
  <2> HIDE DEF d, t
  <2>1. tokens[i].kind # "value" BY <1>5
  <2> QED BY <1>1, <1>2, <1>5, <1>6, <1>9, <1>10, <2>1, PlaceToken
<1>12. OpenAt(i + 1) = OpenAt(i) /\ (InList(i + 1) <=> InList(i))
  <2>1. PICK P : Opened(P, d, i) BY <1>1, <1>9, PlacesNow
  <2> HIDE DEF d
  <2> QED BY <1>2, <1>5, <2>1, OpenSame
<1>13. Keyed("value", i + 1, t, key)
  <2>1. Head(t).key = key BY <1>7 DEF Undefined
  <2> HIDE DEF t
  <2> QED BY <1>1, <1>2, <1>5, <1>6, <1>12, <2>1, KeyedSeparator
<1>14. Placing(pc', i', heap', stack', root') /\ Keyed(pc', i', stack', key') BY <1>1, <1>4, <1>11, <1>13
<1> QED BY <1>1, <1>2, <1>4, <1>14, PlacesOn DEF Parsing

\* The token at i begins the value of this kind and text, of which q is the next step.
Begins(kind, data, p, q) ==
  \/ /\ IsBracket(Openers, i) /\ data = NoData /\ p = NULL /\ q = "loop"
     /\ kind = IF tokens[i].sym = kListBegin THEN "list" ELSE "table"
  \/ /\ tokens[i].kind = "value" /\ data = tokens[i].sym /\ q = "end"
     /\ kind = IF Class[tokens[i].sym] = "raw" THEN "string" ELSE Class[tokens[i].sym]

\* A value that begins: the line of it, and the places.
LEMMA ValueRead ==
  ASSUME MemoryInv, MeaningInv, PlaceInv, pc = "value", ~NoneLeft,
         NEW kind \in {"string", "integer", "boolean", "list", "table"},
         NEW data \in Literals \cup {NoData}, NEW p \in Nat, Out(kind, data, p),
         NEW q, Begins(kind, data, p, q),
         NEW g, \A b \in DOMAIN heap : b \in DOMAIN g /\ g[b] = heap[b]
  PROVE  /\ i \in Values /\ Line(Head(stack')) = LineAt(i)
         /\ Placing(q, i + 1, g, stack', root) /\ Keyed(q, i + 1, stack', key)
<1> DEFINE d == Len(stack) - 1
           t == stack'
<1>1. pc \in Parsing /\ stack # <<>> BY DEF Parsing, MemoryInv, Shape, Control
<1>2. /\ tokens \in Seq(Token) /\ i \in Nat \ {0} /\ stack \in Seq(Entry) /\ d \in Nat /\ Len(stack) = d + 1
      /\ Known /\ Placing(pc, i, heap, stack, root) /\ Keyed(pc, i, stack, key)
  BY <1>1, PlacesNow
<1>3. /\ t \in Seq(Entry) /\ t # <<>> /\ Tail(t) = Tail(stack) /\ Head(t).ptr = p
      /\ Head(t).key = Head(stack).key /\ Head(t).kind = kind /\ Head(t).data = data
  BY <1>1, <1>2, OutStep, OutKey, OutData
<1>4. /\ Len(t) = d + 1 /\ \A k \in 1 .. d : Nth(t, k) = Nth(stack, k)
      /\ Nth(t, d + 1) = Head(t)
  BY <1>1, <1>2, <1>3, NthTop
<1> DEFINE x == Head(t)
<1> HIDE DEF t, d
<1>5. i \in Values
  <2>1. i \in 1 .. Len(tokens) BY AtToken
  <2> QED BY <1>2, <2>1, TokenNumbers DEF Begins
<1>6. KeyAt(i) = x.key BY <1>2, <1>3, KeyOf
<1>7. Line(x) = LineAt(i)
  <2> HIDE DEF x
  <2>1. x.kind = kind /\ x.data = data BY <1>3 DEF x
  <2> QED BY <1>6, <2>1, LineOf DEF Begins
<1>8. Depth("value", stack) = d /\ Begun("value", stack) = d BY DEF d, Depth, InValue, Begun
<1>9. /\ Begun(q, t) = d + 1
      /\ \/ IsBracket(Openers, i) /\ Depth(q, t) = d + 1
         \/ ~IsBracket(Openers, i) /\ Depth(q, t) = d
      /\ q \notin {"sep", "value"} /\ (IsBracket(Openers, i) => x.ptr = NULL)
  <2>1. CASE IsBracket(Openers, i)
    <3>1. q = "loop" /\ p = NULL BY <2>1 DEF Begins, IsBracket
    <3> QED BY <1>3, <1>4, <2>1, <3>1 DEF Depth, InValue, Begun
  <2>2. CASE ~IsBracket(Openers, i)
    <3>1. q = "end" BY <2>2 DEF Begins
    <3>2. Len(t) - 1 = d BY <1>2, <1>4
    <3> QED BY <1>4, <2>2, <3>1, <3>2 DEF Depth, InValue, Begun
  <2> QED BY <2>1, <2>2
<1>10. (\A k \in 0 .. d : Level(t, root, k) = Level(stack, root, k)) /\ Level(t, root, d + 1) = x
  <2>1. (\A k \in 0 .. d : k = 0 \/ k \in 1 .. d) /\ d + 1 # 0 BY <1>2
  <2> QED BY <1>4, <2>1 DEF Level
<1> HIDE DEF x
<1>11. Placing(q, i + 1, g, t, root)
  <2>1. Placing("value", i, heap, stack, root) BY <1>2
  <2> QED BY <1>2, <1>5, <1>7, <1>8, <1>9, <1>10, <2>1, PlaceValue
<1>12. Keyed(q, i + 1, t, key)
  <2>1. Keyed("value", i, stack, key) BY <1>2
  <2> QED BY <1>2, <1>5, <1>9, <2>1, KeyedValue
<1> QED BY <1>5, <1>7, <1>11, <1>12 DEF t, x

\* What the steps that read a value have in common.
ReadsValue(kind, data, p, q) ==
  /\ pc = "value" /\ ~NoneLeft /\ Out(kind, data, p) /\ Begins(kind, data, p, q)
  /\ kind \in {"string", "integer", "boolean", "list", "table"}
  /\ data \in Literals \cup {NoData} /\ p \in Nat
  /\ i' = i + 1 /\ pc' = q /\ q \in {"loop", "end"} /\ UNCHANGED <<tokens, key, root, work, error>>
  /\ \A b \in DOMAIN heap : b \in DOMAIN heap' /\ heap'[b] = heap[b]
  /\ \/ heap' = heap
     \/ /\ ParseString /\ p = fresh /\ fresh \notin DOMAIN heap
        /\ DOMAIN heap' = DOMAIN heap \cup {fresh} /\ heap'[fresh].elems = <<>>

LEMMA ValueSteps ==
  ASSUME MemoryInv, ParseList \/ ParseTable \/ ParseString \/ ParseScalar
  PROVE  \E kind, data, p, q : ReadsValue(kind, data, p, q)
<1>1. NULL \in Nat /\ fresh \in Nat /\ NULL \notin DOMAIN heap /\ fresh \notin DOMAIN heap
  BY DEF MemoryInv, Shape, TypeOK, NULL
<1>2. ASSUME NEW bracket, NEW kind, ParseOpen(bracket, kind),
             \/ bracket = kListBegin /\ kind = "list"
             \/ bracket = kTableBegin /\ kind = "table"
      PROVE  ReadsValue(kind, NoData, NULL, "loop")
  <2>1. /\ pc = "value" /\ ~NoneLeft /\ tokens[i].kind = "delim" /\ tokens[i].sym = bracket
        /\ Out(kind, NoData, NULL) /\ i' = i + 1 /\ pc' = "loop"
        /\ UNCHANGED <<tokens, key, root, heap, work, error>>
    BY <1>2 DEF ParseOpen, ExpectDelim, Expect, Pop
  <2>2. IsBracket(Openers, i) BY <1>2, <2>1 DEF IsBracket, Openers
  <2>3. kind = IF tokens[i].sym = kListBegin THEN "list" ELSE "table"
    BY <1>2, <2>1 DEF kListBegin, kTableBegin
  <2> QED BY <1>1, <1>2, <2>1, <2>2, <2>3 DEF ReadsValue, Begins
<1>3. CASE ParseList BY <1>2, <1>3 DEF ParseList
<1>4. CASE ParseTable BY <1>2, <1>4 DEF ParseTable
<1>5. ASSUME Expect("value") PROVE ~NoneLeft /\ tokens[i].kind = "value" /\ tokens[i].sym \in Literals
  <2>1. ~NoneLeft /\ tokens[i].kind = "value" BY <1>5 DEF Expect
  <2> QED BY <2>1, CurrentToken
<1>6. CASE ParseString
  <2> DEFINE w == tokens[i].sym
  <2>1. /\ pc = "value" /\ Expect("value") /\ Class[w] \in {"string", "raw"}
        /\ Out("string", w, fresh) /\ i' = i + 1 /\ pc' = "end"
        /\ UNCHANGED <<tokens, key, root, work, error>>
        /\ heap' = [b \in DOMAIN heap \cup {fresh} |->
                      IF b = fresh THEN [cap |-> 0, elems |-> <<>>] ELSE heap[b]]
    BY <1>6 DEF ParseString, Pop
  <2>2. /\ \A b \in DOMAIN heap : b \in DOMAIN heap' /\ heap'[b] = heap[b]
        /\ DOMAIN heap' = DOMAIN heap \cup {fresh} /\ heap'[fresh].elems = <<>>
    BY <1>1, <2>1
  <2>3. ~NoneLeft /\ tokens[i].kind = "value" /\ w \in Literals BY <1>5, <2>1
  <2>4. Begins("string", w, fresh, "end")
    <3>1. "string" = IF Class[w] = "raw" THEN "string" ELSE Class[w] BY <2>1
    <3> QED BY <2>3, <3>1 DEF Begins
  <2> HIDE DEF w
  <2>5. ReadsValue("string", w, fresh, "end") BY <1>1, <1>6, <2>1, <2>2, <2>3, <2>4 DEF ReadsValue
  <2> QED BY <2>5
<1>7. CASE ParseScalar
  <2> DEFINE w == tokens[i].sym
             k == Class[tokens[i].sym]
  <2>1. /\ pc = "value" /\ Expect("value") /\ k \in {"boolean", "integer"}
        /\ Out(k, w, NULL) /\ i' = i + 1 /\ pc' = "end"
        /\ UNCHANGED <<tokens, key, root, heap, work, error>>
    BY <1>7 DEF ParseScalar, Pop
  <2>2. ~NoneLeft /\ tokens[i].kind = "value" /\ w \in Literals BY <1>5, <2>1
  <2>3. Begins(k, w, NULL, "end")
    <3>1. k = IF Class[tokens[i].sym] = "raw" THEN "string" ELSE Class[tokens[i].sym] BY <2>1
    <3> QED BY <2>2, <3>1 DEF Begins
  <2> HIDE DEF w, k
  <2>4. ReadsValue(k, w, NULL, "end") BY <1>1, <2>1, <2>2, <2>3 DEF ReadsValue
  <2> QED BY <2>4
<1> QED BY <1>3, <1>4, <1>6, <1>7

\* parse_list_value, parse_table_value and parse_simple_value: the places.
LEMMA ValuePlaced ==
  ASSUME MemoryInv, MeaningInv, PlaceInv, was' = was,
         ParseList \/ ParseTable \/ ParseString \/ ParseScalar
  PROVE  PlaceInv'
<1>1. PICK kind, data, p, q : ReadsValue(kind, data, p, q) BY ValueSteps
<1>2. Placing(q, i + 1, heap', stack', root) /\ Keyed(q, i + 1, stack', key)
  BY <1>1, ValueRead DEF ReadsValue
<1>3. pc' \in Parsing /\ pc \in Parsing BY <1>1 DEF ReadsValue, Parsing
<1>4. Known BY <1>3 DEF PlaceInv
<1>5. Placing(pc', i', heap', stack', root') /\ Keyed(pc', i', stack', key') BY <1>1, <1>2 DEF ReadsValue
<1> QED BY <1>1, <1>3, <1>4, <1>5, PlacesOn DEF ReadsValue

\* parse_simple_value, of anything else: the places.
LEMMA ParseBadValuePlaces == ASSUME ParseBadValue PROVE PlaceInv'
<1>1. pc' = "unwind" /\ error' # "none" BY DEF ParseBadValue, Fail
<1> QED BY <1>1, FailPlaces

\* parse_delim, after a value: the places.
LEMMA ParseValueEndPlaces ==
  ASSUME MemoryInv, MeaningInv, PlaceInv, ParseValueEnd, was' = was PROVE PlaceInv'
<1> DEFINE d == Len(stack) - 1
<1>1. /\ pc = "end" /\ pc \in Parsing /\ UNCHANGED <<tokens, key, stack, root, heap>> /\ stack # <<>>
  BY DEF ParseValueEnd, tree, Parsing, MemoryInv, Shape, Control
<1>2. /\ tokens \in Seq(Token) /\ i \in Nat \ {0} /\ stack \in Seq(Entry) /\ d \in Nat /\ Len(stack) = d + 1
      /\ Known /\ Placing(pc, i, heap, stack, root) /\ Keyed(pc, i, stack, key)
  BY <1>1, PlacesNow
<1>3. CASE ~ExpectDelim(kKeyValEnd)
  <2>1. pc' = "unwind" /\ error' # "none" BY <1>3 DEF ParseValueEnd, Fail
  <2> QED BY <2>1, FailPlaces
<1>4. CASE ExpectDelim(kKeyValEnd)
  <2>1. i' = i + 1 /\ pc' = "append" BY <1>4 DEF ParseValueEnd, PopDelim, Pop
  <2>2. /\ ~NoneLeft /\ tokens[i].kind = "delim" /\ ~IsBracket(Openers, i) /\ ~IsBracket(Closers, i)
    BY <1>4 DEF ExpectDelim, Expect, IsBracket, Openers, Closers, kKeyValEnd, kListBegin, kTableBegin,
      kListEnd, kTableEnd
  <2>3. i \in 1 .. Len(tokens) /\ i \notin Values /\ tokens[i].kind # "value" /\ tokens[i].kind # "key"
    <3>1. i \in 1 .. Len(tokens) BY <2>2, AtToken
    <3> QED BY <1>2, <2>2, <3>1, TokenNumbers
  <2>4. /\ Depth("append", stack) = d /\ Depth("end", stack) = d /\ Begun("append", stack) = Len(stack)
        /\ Begun("end", stack) = Len(stack) /\ Len(stack) \in Nat
    BY <1>2 DEF Depth, InValue, Begun
  <2>5. Placing("append", i + 1, heap, stack, root)
    <3>1. \A k \in 0 .. Begun("end", stack) : Level(stack, root, k) = Level(stack, root, k) OBVIOUS
    <3>2. Placing("end", i, heap, stack, root) BY <1>1, <1>2
    <3> HIDE DEF d
    <3> QED BY <1>2, <2>2, <2>3, <2>4, <3>1, <3>2, PlaceToken
  <2>6. Keyed("append", i + 1, stack, key) BY <1>1, <1>2, <2>3, KeyedOther
  <2>7. Placing(pc', i', heap', stack', root') /\ Keyed(pc', i', stack', key') BY <1>1, <2>1, <2>5, <2>6
  <2> QED BY <1>1, <1>2, <2>1, <2>7, PlacesOn DEF Parsing
<1> QED BY <1>3, <1>4

\* The bracket that closes the list or table on top of the stack.
LEMMA CloserPlaces ==
  ASSUME MemoryInv, MeaningInv, PlaceInv, pc \in {"loop", "after"}, ExpectDelim(Closer)
  PROVE  Placing("end", i + 1, heap, stack, root) /\ Keyed("end", i + 1, stack, key)
<1> DEFINE d == Len(stack)
<1>1. pc \in Parsing /\ stack # <<>> BY DEF Parsing, MemoryInv, Shape, Control
<1>2. /\ tokens \in Seq(Token) /\ i \in Nat \ {0} /\ stack \in Seq(Entry) /\ d \in Nat /\ d # 0
      /\ Known /\ Placing(pc, i, heap, stack, root) /\ Keyed(pc, i, stack, key)
  BY <1>1, PlacesNow
<1>3. /\ ~NoneLeft /\ tokens[i].kind = "delim" /\ ~IsBracket(Openers, i) /\ IsBracket(Closers, i)
  BY DEF ExpectDelim, Expect, IsBracket, Openers, Closers, Closer, kListBegin, kTableBegin,
    kListEnd, kTableEnd
<1>4. i \in 1 .. Len(tokens) /\ i \notin Values /\ tokens[i].kind # "value" /\ tokens[i].kind # "key"
  <2>1. i \in 1 .. Len(tokens) BY <1>3, AtToken
  <2> QED BY <1>2, <1>3, <2>1, TokenNumbers
<1>5. /\ Depth("end", stack) = d - 1 /\ Depth(pc, stack) = d /\ Begun("end", stack) = d /\ Begun(pc, stack) = d
  BY DEF Depth, InValue, Begun
<1>6. Placing("end", i + 1, heap, stack, root)
  <2>1. \A k \in 0 .. Begun(pc, stack) : Level(stack, root, k) = Level(stack, root, k) OBVIOUS
  <2> HIDE DEF d
  <2> QED BY <1>2, <1>3, <1>4, <1>5, <2>1, PlaceToken
<1>7. Keyed("end", i + 1, stack, key)
  <2>1. pc \notin {"sep", "value"} OBVIOUS
  <2> QED BY <1>2, <1>4, <2>1, KeyedOther
<1> QED BY <1>6, <1>7

\* The loops of parse_list_value and parse_table_value: the places.
LEMMA ParseLoopPlaces ==
  ASSUME MemoryInv, MeaningInv, PlaceInv, ParseLoop, was' = was PROVE PlaceInv'
<1> DEFINE d == Len(stack)
           t == stack'
<1>1. /\ pc = "loop" /\ pc \in Parsing /\ UNCHANGED <<tokens, root, heap, key>> /\ stack # <<>>
  BY DEF ParseLoop, Parsing, MemoryInv, Shape, Control
<1>2. /\ tokens \in Seq(Token) /\ i \in Nat \ {0} /\ stack \in Seq(Entry) /\ d \in Nat /\ d # 0
      /\ Known /\ Placing(pc, i, heap, stack, root) /\ Keyed(pc, i, stack, key)
  BY <1>1, PlacesNow
<1>3. CASE ExpectDelim(Closer)
  <2>1. i' = i + 1 /\ pc' = "end" /\ stack' = stack BY <1>3 DEF ParseLoop, Pop
  <2>2. Placing(pc', i', heap', stack', root') /\ Keyed(pc', i', stack', key')
    BY <1>1, <1>3, <2>1, CloserPlaces
  <2> QED BY <1>1, <1>2, <2>1, <2>2, PlacesOn DEF Parsing
<1>4. Depth("loop", stack) = d /\ Begun("loop", stack) = d /\ Depth("pair", stack) = d /\ Begun("pair", stack) = d
  BY DEF Depth, InValue, Begun
<1>5. CASE ~ExpectDelim(Closer) /\ Head(stack).kind # "list"
  <2>1. stack' = stack /\ pc' = "pair" /\ i' = i BY <1>5 DEF ParseLoop
  <2>2. Placing("pair", i, heap, stack, root)
    <3>1. \A k \in 0 .. Begun("loop", stack) : Level(stack, root, k) = Level(stack, root, k) OBVIOUS
    <3> HIDE DEF d
    <3> QED BY <1>1, <1>2, <1>4, <3>1, PlaceOn
  <2>3. Keyed("pair", i, stack, key) BY <1>1, <1>2, KeyedOther
  <2>4. Placing(pc', i', heap', stack', root') /\ Keyed(pc', i', stack', key') BY <1>1, <2>1, <2>2, <2>3
  <2> QED BY <1>1, <1>2, <2>1, <2>4, PlacesOn DEF Parsing
<1>6. CASE ~ExpectDelim(Closer) /\ Head(stack).kind = "list"
  <2> DEFINE e == Undefined(NoKey)
  <2>1. t = <<e>> \o stack /\ pc' = "value" /\ i' = i BY <1>6 DEF ParseLoop
  <2>2. e \in Entry /\ e.key = NoKey BY DEF Undefined, Entry, NULL
  <2> HIDE DEF e, t
  <2>3. t \in Seq(Entry) /\ t # <<>> /\ Tail(t) = stack /\ Head(t) = e BY <1>2, <2>1, <2>2, Pushed
  <2>4. Len(t) = d + 1 /\ \A k \in 1 .. d : Nth(t, k) = Nth(stack, k) BY <1>2, <2>3, NthPush
  <2>5. Depth("value", t) = d /\ Begun("value", t) = d
    <3>1. Len(t) - 1 = d BY <1>2, <2>4
    <3> QED BY <3>1 DEF Depth, InValue, Begun
  <2>6. \A k \in 0 .. d : Level(t, root, k) = Level(stack, root, k)
    <3>1. \A k \in 0 .. d : k = 0 \/ k \in 1 .. d BY <1>2
    <3> QED BY <2>4, <3>1 DEF Level
  <2>7. InList(i)
    <3>1. Nth(stack, Len(stack)) = Head(stack) BY <1>1, <1>2, NthTop
    <3>2. Level(stack, root, d).kind = "list" BY <1>2, <1>6, <3>1 DEF Level
    <3> HIDE DEF d
    <3> QED BY <1>1, <1>2, <1>4, <3>2, InListIs
  <2>8. Placing("value", i, heap, t, root)
    <3> HIDE DEF d
    <3> QED BY <1>1, <1>2, <1>4, <2>5, <2>6, PlaceOn
  <2>9. Keyed("value", i, t, key) BY <1>1, <1>2, <2>2, <2>3, <2>7, KeyedOther, SMTT(30)
  <2>10. Placing(pc', i', heap', stack', root') /\ Keyed(pc', i', stack', key')
    BY <1>1, <2>1, <2>8, <2>9 DEF t
  <2> QED BY <1>1, <1>2, <2>1, <2>10, PlacesOn DEF Parsing
<1> QED BY <1>3, <1>5, <1>6

\* The closing bracket after an element: the places.
LEMMA ParseAfterPlaces ==
  ASSUME MemoryInv, MeaningInv, PlaceInv, ParseAfter, was' = was PROVE PlaceInv'
<1>1. /\ pc = "after" /\ pc \in Parsing /\ UNCHANGED <<tokens, stack, root, heap, key>>
  BY DEF ParseAfter, tree, Parsing
<1>2. /\ tokens \in Seq(Token) /\ i \in Nat \ {0} /\ Len(stack) \in Nat
      /\ Known /\ Placing(pc, i, heap, stack, root) /\ Keyed(pc, i, stack, key)
  BY <1>1, PlacesNow
<1>3. CASE ExpectDelim(Closer)
  <2>1. i' = i + 1 /\ pc' = "end" BY <1>3 DEF ParseAfter, Pop
  <2>2. Placing(pc', i', heap', stack', root') /\ Keyed(pc', i', stack', key')
    BY <1>1, <1>3, <2>1, CloserPlaces
  <2> QED BY <1>1, <1>2, <2>1, <2>2, PlacesOn DEF Parsing
<1>4. CASE ~ExpectDelim(Closer)
  <2>1. i' = i /\ pc' = "loop" BY <1>4 DEF ParseAfter
  <2>2. Placing("loop", i, heap, stack, root)
    <3>1. \A k \in 0 .. Begun("after", stack) : Level(stack, root, k) = Level(stack, root, k) OBVIOUS
    <3>2. Depth("loop", stack) = Depth("after", stack) /\ Begun("loop", stack) = Begun("after", stack)
          /\ Begun("after", stack) \in Nat
      BY <1>2 DEF Depth, InValue, Begun
    <3> QED BY <1>1, <1>2, <3>1, <3>2, PlaceOn
  <2>3. Keyed("loop", i, stack, key) BY <1>1, <1>2, KeyedOther
  <2>4. Placing(pc', i', heap', stack', root') /\ Keyed(pc', i', stack', key') BY <1>1, <2>1, <2>2, <2>3
  <2> QED BY <1>1, <1>2, <2>1, <2>4, PlacesOn DEF Parsing
<1> QED BY <1>3, <1>4

-----------------------------------------------------------------------------
(* Storing a value, and the other steps.                                   *)

\* list_append and table_append: the places.
LEMMA AppendValuePlaces ==
  ASSUME MemoryInv, MeaningInv, PlaceInv, AppendValue, was' = was PROVE PlaceInv'
<1>0. SUFFICES ASSUME NEW d, d = Len(stack) - 1, NEW t, t = stack', NEW q, q = root',
                      NEW g, g = heap', NEW c, c = Level(t, q, d)
               PROVE  PlaceInv'
  OBVIOUS
<1>1. /\ pc = "append" /\ pc \in Parsing /\ UNCHANGED <<tokens, key, i>>
      /\ pc' \in {"pair", "after"}
  BY DEF AppendValue, Parsing
<1>2. /\ tokens \in Seq(Token) /\ i \in Nat \ {0} /\ work = <<>>
      /\ Known /\ Placing(pc, i, heap, stack, root) /\ Keyed(pc, i, stack, key)
  BY <1>1, PlacesNow
<1>3. /\ d \in Nat /\ Len(t) = d /\ Len(stack) = d + 1
      /\ Level(stack, root, d) = Target /\ Nth(stack, d + 1) = Head(stack)
  BY <1>0, AppendLevels, AppendTarget
<1>4. \A k \in 0 .. d : k < d => Level(t, q, k) = Level(stack, root, k)
  BY <1>0, AppendLevels
<1>5. /\ g[Moved] = Filled /\ Moved \in DOMAIN g /\ Moved # NULL /\ Target \in Entry
      /\ Elems(Target.ptr) \in Seq(Entry) /\ Head(stack) \in Entry
  BY <1>0, AppendFacts DEF NULL
<1>6. PICK P, L : Opened(P, d, i) /\ Holding(P, L, d + 1, i, heap, stack, root)
  <2>1. Depth("append", stack) = d /\ Begun("append", stack) = d + 1 BY <1>3 DEF Depth, InValue, Begun
  <2> QED BY <1>1, <1>2, <2>1 DEF Placing
<1>7. ASSUME NEW b \in Openings(i), b # P[d], L[b].ptr # NULL
      PROVE  L[b].ptr \in DOMAIN g /\ g[L[b].ptr] = heap[L[b].ptr]
  <2>1. PICK place : /\ Own(place, L[b]) \subseteq Owners
                     /\ \A k \in 0 .. d + 1 : place = <<0, k>> => b = P[k]
    <3>1. i \in Nat /\ d + 1 = Len(stack) BY <1>2, <1>3
    <3> QED BY <1>2, <1>6, <3>1, OpeningOwned
  <2>2. place # <<0, d>>
    <3>1. d \in 0 .. d + 1 BY <1>3
    <3> QED BY <1>7, <2>1, <3>1
  <2>3. (IF Len(stack) = 1 THEN <<0, 0>> ELSE <<0, Len(stack) - 1>>) = <<0, d>> BY <1>3
  <2> QED BY <1>0, <1>7, <2>1, <2>2, <2>3, AppendElsewhere
<1>8. Old(0) \in Nat BY <1>2, LenProperties DEF Known, Old
<1>9. c = [Target EXCEPT !.ptr = Moved] BY <1>0, AppendLevel
<1>10. c.ptr = Moved /\ c.key = Target.key /\ c.kind = Target.kind /\ c.data = Target.data
  BY <1>5, <1>9 DEF Entry
<1>11. Line(c) = Line(Level(stack, root, d)) BY <1>3, <1>10 DEF Line
<1>12. PICK es : es = ElemsIn(heap, Level(stack, root, d).ptr) OBVIOUS
<1>13. PICK x : x = Level(stack, root, d + 1) OBVIOUS
<1>14. es \in Seq(Entry) /\ x \in Entry /\ ElemsIn(g, c.ptr) = Append(es, x)
  <2>1. es = Elems(Target.ptr) BY <1>3, <1>12 DEF Elems, ElemsIn
  <2>2. x = Head(stack)
    <3>1. d + 1 # 0 BY <1>3
    <3> QED BY <1>3, <1>13, <3>1 DEF Level
  <2> QED BY <1>5, <1>10, <2>1, <2>2 DEF ElemsIn, Filled
<1>15. PICK K : Holding(P, K, d, i, g, t, q)
  <2>1. c.ptr # NULL /\ c.ptr \in DOMAIN g BY <1>5, <1>10
  <2>2. c = Level(t, q, d) BY <1>0
  <2>3. d \in Nat BY <1>3
  <2>4. Holding(P, L, d + 1, i, heap, stack, root) BY <1>6
  <2>5. \A b \in Openings(i) : b # P[d] /\ L[b].ptr # NULL =>
          L[b].ptr \in DOMAIN g /\ g[L[b].ptr] = heap[L[b].ptr]
    BY <1>7
  <2>6. tokens \in Seq(Token) /\ i \in Nat \ {0} BY <1>2
  <2>7. es \in Seq(Entry) BY <1>14
  <2>8. x \in Entry BY <1>14
  <2>9. ElemsIn(g, c.ptr) = Append(es, x) BY <1>14
  <2>10. Storing(P, L, d, i, heap, stack, root, g, t, q, c, es, x)
    BY <1>4, <1>8, <1>11, <1>12, <1>13, <2>1, <2>2, <2>3, <2>4, <2>5, <2>6, <2>7, <2>8, <2>9 DEF Storing
  <2> QED BY <2>6, <2>10, AppendPlaces
<1>16. Placing(pc', i, g, t, q)
  <2>1. Depth(pc', t) = d /\ Begun(pc', t) = d BY <1>1, <1>3 DEF Depth, InValue, Begun
  <2> QED BY <1>6, <1>15, <2>1 DEF Placing
<1>17. Keyed(pc', i, t, key) BY <1>0, <1>1, <1>2, KeyedOther
<1>18. Placing(pc', i', heap', stack', root') /\ Keyed(pc', i', stack', key') BY <1>0, <1>1, <1>16, <1>17
<1>19. UNCHANGED <<tokens, was>> /\ pc' \in Parsing BY <1>1 DEF Parsing
<1> QED BY <1>2, <1>18, <1>19, PlacesOn

\* scan returned NULL: nothing has been read.
LEMMA ScanDonePlaces ==
  ASSUME MemoryInv, GrammarInv, MeaningInv, ScanDone, was' = was PROVE PlaceInv'
<1>1. /\ pc = "scan" /\ pc' = "pair" /\ UNCHANGED <<tokens, i, key, stack, root, heap>>
      /\ heap = was.heap /\ root = was.root
      /\ i = 1 /\ stack = <<>> /\ Len(<<>>) = 0 /\ tokens \in Seq(Token)
  BY DEF ScanDone, tree, MeaningInv, GrammarInv, MemoryInv, Shape, TypeOK, Control
<1>2. 1 .. 1 - 1 = {} /\ 1 .. 0 = {} /\ 0 .. 0 = {0} OBVIOUS
<1>3. Known BY <1>1, ContainerElems DEF Known, Container, Elems, ElemsIn
<1>4. PICK P : P = [k \in {0} |-> 0] OBVIOUS
<1>5. PICK L : L = [k \in {0} |-> root] OBVIOUS
<1>6. P[0] = 0 /\ L[0] = root BY <1>4, <1>5
<1>7. \A m \in Values : m \in Nat \ {0}
  <2>1. Values \subseteq 1 .. Len(tokens) /\ Len(tokens) \in Nat BY <1>1, TokenNumbers
  <2> QED BY <2>1
<1>8. \A m \in Values : ~(m < 1) BY <1>7
<1>9. Openings(1) = {0} BY <1>8 DEF Openings
<1>10. Opened(P, 0, 1)
  <2>1. OpenAt(1) = {} BY <1>2 DEF OpenAt
  <2>2. OpenTo(P, 0) = {} BY <1>2 DEF OpenTo
  <2> QED BY <1>2, <2>1, <2>2 DEF Opened
<1>11. Leveled(P, L, 0, 1, stack, root)
  <2>1. Rising(P, 0)
    <3>1. \A j, k \in 0 .. 0 : P[j] \in Nat /\ (j < k => P[j] < P[k]) BY <1>2, <1>6
    <3> QED BY <1>6, <3>1 DEF Rising
  <2>2. L[P[0]] = Level(stack, root, 0) BY <1>6 DEF Level
  <2> QED BY <1>2, <2>1, <2>2 DEF Leveled
<1>12. Lodged(P, L, 0, 1, heap)
  <2>1. L[0].ptr # NULL => L[0].ptr \in DOMAIN heap BY <1>6, HeldBlocks, OneOwner, OwnedBlock DEF MemoryInv
  <2> QED BY <1>1, <1>6, <1>8, <1>9, <2>1 DEF Lodged
<1>13. Counted(P, L, 0, 1, heap)
  <2>1. NumberIn(0, 1) = 0 BY <1>1, NumberNone
  <2>2. Len(ElemsIn(heap, L[0].ptr)) = Old(0) /\ Old(0) \in Nat
    BY <1>1, <1>3, <1>6, LenProperties DEF Old, Known
  <2>3. Len(ElemsIn(heap, L[0].ptr)) = Old(0) + NumberIn(0, 1) BY <2>1, <2>2
  <2> QED BY <1>2, <1>9, <2>3 DEF Counted
<1>14. Placing("pair", 1, heap, stack, root)
  <2>1. Depth("pair", stack) = 0 /\ Begun("pair", stack) = 0 BY <1>1 DEF Depth, InValue, Begun
  <2> QED BY <1>10, <1>11, <1>12, <1>13, <2>1 DEF Placing, Holding
<1>15. Keyed("pair", 1, stack, key) BY <1>2, <1>8 DEF Keyed
<1>16. Placing(pc', i', heap', stack', root') /\ Keyed(pc', i', stack', key') BY <1>1, <1>14, <1>15
<1> QED BY <1>1, <1>3, <1>16, PlacesOn DEF Parsing

\* parse returned NULL: every token has been read.
LEMMA DonePlaces ==
  ASSUME MemoryInv, MeaningInv, PlaceInv, Done, was' = was PROVE PlaceInv'
<1>1. /\ pc = "pair" /\ pc \in Parsing /\ pc' = "done" /\ stack = <<>> /\ NoneLeft
      /\ UNCHANGED <<tokens, i, heap, root, key>>
  BY DEF Done, tree, Parsing
<1>2. Known /\ Placing("pair", i, heap, <<>>, root) /\ Keyed("pair", i, <<>>, key) BY <1>1 DEF PlaceInv
<1>3. i = Len(tokens) + 1
  <2>1. tokens \in Seq(Token) /\ i \in Nat /\ i <= Len(tokens) + 1 BY <1>1, PlacesNow
  <2> QED BY <1>1, <2>1, TokenNumbers DEF NoneLeft
<1>4. pc' \notin Parsing BY <1>1 DEF Parsing
<1> QED BY <1>1, <1>2, <1>3, <1>4, PlacesStay

\* The steps of scan, and those after parse: the places.
LEMMA OtherPlaces ==
  ASSUME MemoryInv, MeaningInv, PlaceInv,
         \/ Emit \/ ScanFailed \/ KevsParseAgain
         \/ (KevsReturn \/ Release) /\ was' = was
  PROVE  PlaceInv'
<1>1. CASE Emit BY <1>1 DEF Emit, tree, PlaceInv, Parsing
<1>2. CASE ScanFailed BY <1>2 DEF ScanFailed, PlaceInv, Parsing
<1>3. CASE KevsParseAgain BY <1>3 DEF KevsParseAgain, PlaceInv, Parsing
<1>4. CASE KevsReturn /\ was' = was
  <2>1. pc' = "returned" /\ pc \in {"done", "failed"} /\ UNCHANGED <<tokens, was, i, heap, root, key, error>>
    BY <1>4 DEF KevsReturn, tree
  <2> QED BY <2>1, PlacesStay DEF PlaceInv, Parsing
<1>5. CASE Failed BY <1>5 DEF Failed, Kept, PlaceInv, Parsing
<1>6. CASE Unwind BY <1>6 DEF Unwind, PlaceInv, Parsing
<1>7. CASE KevsFree BY <1>7 DEF KevsFree, PlaceInv, Parsing
<1>8. CASE KevsFreed BY <1>8 DEF KevsFreed, PlaceInv, Parsing
<1>9. CASE FreeString \/ FreeElements \/ FreeArray \/ FreeNothing
  <2>1. pc \in {"unwind", "freeing"} /\ UNCHANGED <<pc, error>>
    BY <1>9, NextCall DEF FreeString, FreeElements, FreeArray, FreeNothing
  <2> QED BY <2>1 DEF PlaceInv, Parsing
<1> QED BY <1>1, <1>2, <1>3, <1>4, <1>5, <1>6, <1>7, <1>8, <1>9 DEF Release

\* In the beginning nothing has been read.
LEMMA PlaceInit == ASSUME Init PROVE PlaceInv
BY DEF Init, ParserInit, PlaceInv, Parsing

\* Every step keeps the values where the tokens say.
LEMMA PlaceStep ==
  ASSUME MemoryInv, GrammarInv, GrammarInv', MeaningInv, PlaceInv, [Next]_allvars PROVE PlaceInv'
<1>1. CASE Emit \/ ScanFailed \/ KevsParseAgain BY <1>1, OtherPlaces
<1>2. CASE ScanDone BY <1>2, ScanDonePlaces DEF ScanDone
<1>3. CASE KevsReturn BY <1>3, OtherPlaces DEF KevsReturn
<1>4. CASE Release /\ was' = was BY <1>4, OtherPlaces
<1>5. CASE Parse /\ was' = was
  <2>1. CASE Done BY <1>5, <2>1, DonePlaces
  <2>2. CASE ParseKey BY <1>5, <2>2, ParseKeyPlaces
  <2>3. CASE ParseSeparator BY <1>5, <2>3, ParseSeparatorPlaces
  <2>4. CASE ParseList \/ ParseTable \/ ParseString \/ ParseScalar BY <1>5, <2>4, ValuePlaced
  <2>5. CASE ParseBadValue BY <2>5, ParseBadValuePlaces
  <2>6. CASE ParseValueEnd BY <1>5, <2>6, ParseValueEndPlaces
  <2>7. CASE ParseLoop BY <1>5, <2>7, ParseLoopPlaces
  <2>8. CASE AppendValue BY <1>5, <2>8, AppendValuePlaces
  <2>9. CASE ParseAfter BY <1>5, <2>9, ParseAfterPlaces
  <2> QED BY <1>5, <2>1, <2>2, <2>3, <2>4, <2>5, <2>6, <2>7, <2>8, <2>9 DEF Parse
<1>6. CASE UNCHANGED allvars
  <2>1. UNCHANGED <<tokens, i, key, stack, root, heap, pc, error, was>> BY <1>6 DEF allvars, vars
  <2>2. CASE pc \in Parsing BY <2>1, <2>2, PlacesOn DEF PlaceInv
  <2>3. CASE pc \notin Parsing BY <2>1, <2>3, PlacesStay DEF PlaceInv
  <2> QED BY <2>2, <2>3
<1> QED BY <1>1, <1>2, <1>3, <1>4, <1>5, <1>6 DEF Next

-----------------------------------------------------------------------------
(* What the lookups find when all tokens are read.                         *)

\* When all tokens are read, every value has its entry in the list or table around it.
Settled(L) ==
  /\ L[0] = root
  /\ \A b \in Openings(Len(tokens) + 1) :
       /\ ElemsIn(heap, L[b].ptr) \in Seq(Entry)
       /\ UniqueIn(ElemsIn(heap, L[b].ptr))
       /\ Len(ElemsIn(heap, L[b].ptr)) = Old(b) + NumberIn(b, Len(tokens) + 1)
  /\ \A m \in Values : Line(L[m]) = LineAt(m) /\ Placed(heap, L, m)
  /\ \A c \in 1 .. Old(0) : ElemsIn(heap, root.ptr)[c] = ElemsIn(was.heap, was.root.ptr)[c]

LEMMA AcceptedSettled ==
  ASSUME MemoryInv, KeysInv, PlaceInv, pc = "returned", error = "none"
  PROVE  \E L : Settled(L)
<1> DEFINE N == Len(tokens) + 1
<1>1. tokens \in Seq(Token) /\ \A b \in DOMAIN heap : heap[b] \in Block BY DEF MemoryInv, Shape, TypeOK
<1>2. /\ Placing("pair", N, heap, <<>>, root)
      /\ Depth("pair", <<>>) = 0 /\ Begun("pair", <<>>) = 0
  BY DEF PlaceInv, Depth, InValue, Begun
<1>3. PICK P, L : Opened(P, 0, N) /\ Holding(P, L, 0, N, heap, <<>>, root) BY <1>2 DEF Placing
<1>4. Leveled(P, L, 0, N, <<>>, root) /\ Lodged(P, L, 0, N, heap) /\ Counted(P, L, 0, N, heap)
  BY <1>3 DEF Holding
<1>5. 0 .. 0 = {0} /\ 1 .. 0 = {} OBVIOUS
<1>6. P[0] = 0 /\ L[0] = root BY <1>4, <1>5 DEF Leveled, Rising, Level
<1>7. OpenTo(P, 0) = {} BY <1>5 DEF OpenTo
<1>8. \A m \in Values : m < N
  <2>1. Values \subseteq 1 .. Len(tokens) /\ Len(tokens) \in Nat BY <1>1, TokenNumbers
  <2> QED BY <2>1
<1>9. \A m \in Values : Line(L[m]) = LineAt(m) /\ Placed(heap, L, m)
  BY <1>4, <1>7, <1>8 DEF Lodged
<1>10. ASSUME NEW b \in Openings(N)
       PROVE  /\ ElemsIn(heap, L[b].ptr) \in Seq(Entry) /\ UniqueIn(ElemsIn(heap, L[b].ptr))
              /\ Len(ElemsIn(heap, L[b].ptr)) = Old(b) + NumberIn(b, N)
  <2>1. Len(ElemsIn(heap, L[b].ptr)) = Old(b) + NumberIn(b, N) BY <1>4, <1>5 DEF Counted
  <2>2. CASE L[b].ptr = NULL
    <3>1. ElemsIn(heap, L[b].ptr) = <<>> BY <2>2 DEF ElemsIn
    <3>2. <<>> \in Seq(Entry) /\ UniqueIn(<<>>) BY DEF UniqueIn
    <3> QED BY <2>1, <3>1, <3>2
  <2>3. CASE L[b].ptr # NULL
    <3>1. L[b].ptr \in DOMAIN heap BY <1>4, <2>3 DEF Lodged
    <3>2. heap[L[b].ptr].elems \in Seq(Entry) BY <1>1, <3>1 DEF Block
    <3>3. UniqueIn(heap[L[b].ptr].elems) BY <3>1 DEF KeysInv
    <3>4. ElemsIn(heap, L[b].ptr) = heap[L[b].ptr].elems BY <2>3 DEF ElemsIn
    <3> QED BY <2>1, <3>2, <3>3, <3>4
  <2> QED BY <2>2, <2>3
<1>11. \A c \in 1 .. Old(0) : ElemsIn(heap, root.ptr)[c] = ElemsIn(was.heap, was.root.ptr)[c]
  BY <1>4, <1>6 DEF Lodged
<1>12. Settled(L) BY <1>6, <1>9, <1>10, <1>11 DEF Settled
<1> QED BY <1>12

\* A key that stands once in a table leads to its pair.
LEMMA TableGetFirst ==
  ASSUME NEW t, NEW es, es = Elems(t.ptr), es \in Seq(Entry), UniqueIn(es),
         NEW c \in 1 .. Len(es), NEW k, k = es[c].key, k # NoKey
  PROVE  TableGet(t, k) = Found(es[c])
<1>1. DOMAIN es = 1 .. Len(es) BY LenProperties
<1>2. {n \in DOMAIN es : es[n].key = k} = {c} BY <1>1 DEF UniqueIn
<1>3. Min({c}) = c BY DEF Min
<1>4. TableHas(t, k) BY <1>1 DEF TableHas
<1> QED BY <1>2, <1>3, <1>4 DEF TableGet

\* A place that a list has leads to its element, and no other place to any.
LEMMA ListGetAt ==
  ASSUME NEW t, NEW es, es = Elems(t.ptr), es \in Seq(Entry), NEW n \in Nat
  PROVE  /\ n < Len(es) => ListGet(t, n) = Found(es[n + 1])
         /\ ListGet(t, n).error = "none" <=> n < Len(es)
<1>1. Len(es) \in Nat BY LenProperties
<1>2. CASE n < Len(es)
  <2>1. ~(n >= Len(es)) BY <1>1, <1>2
  <2> QED BY <1>2, <2>1 DEF ListGet, Found
<1>3. CASE ~(n < Len(es))
  <2>1. n >= Len(es) BY <1>1, <1>3
  <2> QED BY <1>3, <2>1 DEF ListGet, Missing
<1> QED BY <1>2, <1>3

\* A value that is in a table has a key.
LEMMA KeyOfValue ==
  ASSUME tokens \in Seq(Token), NEW s, NEW x, Keyed("pair", Len(tokens) + 1, s, x),
         NEW m \in Values, ~InList(m)
  PROVE  /\ m - 2 \in DOMAIN tokens /\ tokens[m - 2].kind = "key" /\ Around(m - 2) = Around(m)
         /\ KeyAt(m) = tokens[m - 2].sym /\ KeyAt(m) \in Keys /\ KeyAt(m) # NoKey
<1>1. m < Len(tokens) + 1
  <2>1. Values \subseteq 1 .. Len(tokens) /\ Len(tokens) \in Nat BY TokenNumbers
  <2> QED BY <2>1
<1>2. KeyAhead(m) BY <1>1 DEF Keyed
<1>3. m - 2 \in DOMAIN tokens /\ tokens[m - 2].kind = "key" /\ OpenAt(m - 2) = OpenAt(m)
  BY <1>2 DEF KeyAhead
<1>4. tokens[m - 2] \in Token BY <1>3
<1>5. tokens[m - 2].sym \in Keys BY <1>3, <1>4 DEF Token
<1> QED BY <1>3, <1>5, ParserAssumption DEF KeyAt, Around

\* The value at m is found in the list or table around it.
LEMMA LookupFinds ==
  ASSUME tokens \in Seq(Token), NEW s, NEW x, Keyed("pair", Len(tokens) + 1, s, x),
         Known, NEW L, Settled(L), NEW m \in Values, NEW kind
  PROVE  Lookup(L[Around(m)], m, kind) = OfKind(Found(L[m]), kind)
<1> DEFINE b  == Around(m)
           es == ElemsIn(heap, L[b].ptr)
<1>1. b \in Openings(m) /\ b \in Nat /\ m \in 1 .. Len(tokens) /\ Len(tokens) \in Nat
  BY AroundBegun, LenProperties
<1>2. b \in Openings(Len(tokens) + 1) BY <1>1 DEF Openings
<1>3. es \in Seq(Entry) /\ UniqueIn(es) BY <1>2 DEF Settled
<1>4. es = Elems(L[b].ptr) BY DEF Elems, ElemsIn
<1> DEFINE c == Old(b) + NumberIn(b, m) + 1
<1>5. c \in 1 .. Len(es) /\ L[m] = es[c] /\ L[m].key = KeyAt(m)
  BY DEF Settled, Placed, Line, LineAt
<1>6. NumberIn(b, m) \in Nat
  <2>1. m \in Nat BY <1>1
  <2> QED BY <2>1, NumberNext
<1>7. CASE InList(m)
  <2>1. b # 0 BY <1>7 DEF InList
  <2>2. c = NumberIn(b, m) + 1 BY <1>6, <2>1 DEF Old
  <2>3. NumberIn(b, m) < Len(es)
    <3>1. Len(es) \in Nat BY <1>3, LenProperties
    <3> HIDE DEF es, b
    <3> QED BY <1>5, <1>6, <2>2, <3>1
  <2>4. ListGet(L[b], NumberIn(b, m)) = Found(L[m])
    <3> HIDE DEF es, b
    <3> QED BY <1>3, <1>4, <1>5, <1>6, <2>2, <2>3, ListGetAt
  <2> QED BY <1>7, <2>4 DEF Lookup, ListLookup
<1>8. CASE ~InList(m)
  <2>1. KeyAt(m) # NoKey BY <1>8, KeyOfValue
  <2>2. TableGet(L[b], KeyAt(m)) = Found(L[m])
    <3> HIDE DEF es, b, c
    <3>1. PICK t, k, f : t = L[b] /\ k = KeyAt(m) /\ f = L[m] OBVIOUS
    <3>2. es = Elems(t.ptr) /\ k = es[c].key /\ f = es[c] /\ k # NoKey BY <1>4, <1>5, <2>1, <3>1
    <3>3. TableGet(t, k) = Found(es[c]) BY <1>3, <1>5, <3>2, TableGetFirst
    <3> QED BY <3>1, <3>2, <3>3
  <2> QED BY <1>8, <2>2 DEF Lookup, TableLookup
<1> QED BY <1>7, <1>8

\* What a caller finds along the way to a value is its entry.
LEMMA LookedUpIs ==
  ASSUME tokens \in Seq(Token), NEW s, NEW x, Keyed("pair", Len(tokens) + 1, s, x),
         Known, NEW L, Settled(L)
  PROVE  \A n \in {0} \cup Values : LookedUp[n] = L[n]
<1> DEFINE S == {0} \cup Values
           F(found) == [n \in S |-> IF n = 0 THEN root ELSE Lookup(found[Around(n)], n, KindAt(n)).out]
<1>1. LookedUp = CHOOSE found : found = F(found) BY DEF LookedUp
<1>2. ASSUME NEW n \in Values
      PROVE  /\ n # 0 /\ n \in Nat /\ Around(n) \in S /\ Around(n) < n /\ Around(n) \in Nat
             /\ Lookup(L[Around(n)], n, KindAt(n)).out = L[n]
  <2>1. /\ Around(n) \in Openings(n) /\ Around(n) < n /\ Around(n) \in Nat /\ n \in Nat \ {0}
    BY AroundBegun
  <2>2. Lookup(L[Around(n)], n, KindAt(n)) = OfKind(Found(L[n]), KindAt(n)) BY LookupFinds
  <2>3. L[n].kind = KindAt(n) BY DEF Settled, Line, LineAt
  <2>4. OfKind(Found(L[n]), KindAt(n)) = Found(L[n]) BY <2>3 DEF OfKind, Found
  <2>5. Found(L[n]).out = L[n] BY DEF Found
  <2> QED BY <2>1, <2>2, <2>4, <2>5 DEF Openings
<1>3. PICK W : W = [n \in S |-> L[n]] OBVIOUS
<1>4. W = F(W)
  <2>1. ASSUME NEW n \in S
        PROVE  L[n] = IF n = 0 THEN root ELSE Lookup(W[Around(n)], n, KindAt(n)).out
    <3>1. CASE n = 0 BY <3>1 DEF Settled
    <3>2. CASE n # 0
      <4>1. n \in Values BY <3>2
      <4>2. W[Around(n)] = L[Around(n)] BY <1>2, <1>3, <4>1
      <4> QED BY <1>2, <3>2, <4>1, <4>2
    <3> QED BY <3>1, <3>2
  <2> QED BY <1>3, <2>1
<1>5. PICK f : f = LookedUp /\ f = F(f)
  <2> HIDE DEF F
  <2> QED BY <1>1, <1>4
<1>6. \A n \in S : f[n] = IF n = 0 THEN root ELSE Lookup(f[Around(n)], n, KindAt(n)).out BY <1>5
<1> DEFINE Bad == {n \in S : f[n] # L[n]}
<1>7. SUFFICES ASSUME Bad # {} PROVE FALSE BY <1>5
<1>8. Bad \subseteq Nat BY <1>2
<1>9. PICK n \in Bad : \A m \in Bad : ~(m < n)
  <2> HIDE DEF Bad
  <2> QED BY <1>7, <1>8, LeastOf
<1>10. n # 0 BY <1>6, <1>9 DEF Settled
<1>11. n \in Values BY <1>9, <1>10
<1>12. Around(n) \notin Bad BY <1>2, <1>9, <1>11
<1>13. f[Around(n)] = L[Around(n)] BY <1>2, <1>11, <1>12
<1>14. f[n] = L[n] BY <1>2, <1>6, <1>10, <1>11, <1>13
<1> QED BY <1>9, <1>14

\* A table has the keys that it has in the document, and, if it is the caller's, those it
\* had before.
LEMMA TableHasKeys ==
  ASSUME tokens \in Seq(Token), NEW s, NEW x, Keyed("pair", Len(tokens) + 1, s, x),
         Known, NEW L, Settled(L),
         NEW b \in Openings(Len(tokens) + 1), b # 0 => tokens[b].sym # kListBegin, NEW k
  PROVE  TableHas(L[b], k) <=> (b = 0 /\ k \in OldKeys) \/ k \in KeysIn(b)
<1>0. PICK N : N = Len(tokens) + 1 OBVIOUS
<1>1. PICK es : es = ElemsIn(heap, L[b].ptr) OBVIOUS
<1>2. PICK old : old = ElemsIn(was.heap, was.root.ptr) OBVIOUS
<1>3. es \in Seq(Entry) /\ Len(es) = Old(b) + NumberIn(b, N) BY <1>0, <1>1 DEF Settled
<1>4. old \in Seq(Entry) /\ Old(b) = (IF b = 0 THEN Len(old) ELSE 0) BY <1>2 DEF Known, Old
<1>5. /\ DOMAIN es = 1 .. Len(es) /\ DOMAIN old = 1 .. Len(old)
      /\ Len(es) \in Nat /\ Len(old) \in Nat /\ Old(b) \in Nat
  BY <1>3, <1>4, LenProperties
<1>6. /\ N \in Nat \ {0} /\ Len(tokens) \in Nat /\ DOMAIN tokens = 1 .. Len(tokens)
      /\ \A m \in Values : m < N /\ m \in Nat
  <2>1. /\ Values \subseteq 1 .. Len(tokens) /\ Len(tokens) \in Nat /\ DOMAIN tokens = 1 .. Len(tokens)
    BY TokenNumbers
  <2> QED BY <1>0, <2>1
<1>7. NumberIn(b, N) \in Nat BY <1>6, NumberNext
<1>8. Elems(L[b].ptr) = es BY <1>1 DEF Elems, ElemsIn
<1>9. TableHas(L[b], k) <=> \E c \in 1 .. Len(es) : es[c].key = k BY <1>5, <1>8 DEF TableHas
<1>10. OldKeys = {old[c].key : c \in 1 .. Len(old)} BY <1>2, <1>5 DEF OldKeys
<1>11. b = 0 => \A c \in 1 .. Len(old) : es[c] = old[c] BY <1>1, <1>2, <1>4 DEF Settled
<1>12. \A m \in Values : Around(m) = b => ~InList(m) BY DEF InList
<1>13. ASSUME NEW m \in Values, Around(m) = b
       PROVE  /\ Old(b) + NumberIn(b, m) + 1 \in 1 .. Len(es)
              /\ es[Old(b) + NumberIn(b, m) + 1].key = KeyAt(m)
  BY <1>1, <1>13 DEF Settled, Placed, Line, LineAt
<1>14. ASSUME NEW c \in 1 .. Len(es), es[c].key = k
       PROVE  (b = 0 /\ k \in OldKeys) \/ k \in KeysIn(b)
  <2>1. CASE c <= Old(b)
    <3>1. b = 0 /\ c \in 1 .. Len(old) BY <1>4, <1>5, <2>1
    <3> QED BY <1>10, <1>11, <1>14, <3>1
  <2>2. CASE ~(c <= Old(b))
    <3>1. PICK l \in Nat : c = Old(b) + l + 1 /\ l < NumberIn(b, N)
      <4>1. c - Old(b) - 1 \in Nat /\ c = Old(b) + (c - Old(b) - 1) + 1 /\ c - Old(b) - 1 < NumberIn(b, N)
        BY <1>3, <1>5, <1>7, <2>2, SMTT(30)
      <4> QED BY <4>1
    <3>2. b \in Nat
      <4>1. Openings(N) \subseteq 0 .. N - 1 BY <1>6, OpeningsNext
      <4> QED BY <1>0, <1>6, <4>1
    <3>3. PICK m \in Values : Around(m) = b /\ NumberIn(b, m) = l BY <1>6, <3>1, <3>2, NumberOf
    <3>4. k = KeyAt(m) BY <1>13, <1>14, <3>1, <3>3
    <3>5. /\ m - 2 \in DOMAIN tokens /\ tokens[m - 2].kind = "key" /\ Around(m - 2) = Around(m)
          /\ KeyAt(m) = tokens[m - 2].sym
      BY <1>12, <3>3, KeyOfValue
    <3> QED BY <3>3, <3>4, <3>5 DEF KeysIn
  <2> QED BY <2>1, <2>2
<1>15. ASSUME b = 0, k \in OldKeys PROVE \E c \in 1 .. Len(es) : es[c].key = k
  <2>1. PICK c \in 1 .. Len(old) : old[c].key = k BY <1>10, <1>15
  <2>2. c \in 1 .. Len(es) BY <1>3, <1>4, <1>5, <1>7, <1>15, SMTT(30)
  <2> QED BY <1>11, <1>15, <2>1, <2>2
<1>16. ASSUME k \in KeysIn(b) PROVE \E c \in 1 .. Len(es) : es[c].key = k
  <2>1. PICK l \in DOMAIN tokens : tokens[l].kind = "key" /\ Around(l) = b /\ tokens[l].sym = k
    BY <1>16 DEF KeysIn
  <2>2. l \in 1 .. N - 1 BY <1>0, <1>6
  <2>3. l + 2 \in Values /\ OpenAt(l + 2) = OpenAt(l) BY <1>0, <2>1, <2>2 DEF Keyed
  <2>4. Around(l + 2) = b BY <2>1, <2>3 DEF Around
  <2>5. KeyAt(l + 2) = tokens[(l + 2) - 2].sym BY <1>12, <2>3, <2>4 DEF KeyAt
  <2>6. (l + 2) - 2 = l BY <2>2
  <2> QED BY <1>13, <2>1, <2>3, <2>4, <2>5, <2>6
<1> QED BY <1>9, <1>14, <1>15, <1>16

\* The kind that a list or table has in the document is that of its bracket.
LEMMA KindOf ==
  ASSUME tokens \in Seq(Token), NEW n \in Values
  PROVE  /\ KindAt(n) = "table" => n \in Openings(Len(tokens) + 1) /\ tokens[n].sym # kListBegin
         /\ KindAt(n) = "list" => n \in Openings(Len(tokens) + 1)
         /\ n # 0
<1>1. /\ n \in DOMAIN tokens /\ n \in 1 .. Len(tokens) /\ Len(tokens) \in Nat
      /\ (tokens[n].kind = "value" \/ IsBracket(Openers, n))
  BY TokenNumbers
<1>2. tokens[n] \in Token BY <1>1
<1>3. tokens[n].kind = "value" => Class[tokens[n].sym] \in Classes
  BY <1>2, ParserAssumption DEF Token
<1>4. tokens[n].kind = "value" => KindAt(n) \notin {"list", "table"}
  BY <1>3 DEF KindAt, Classes
<1>5. IsBracket(Openers, n) => n \in Openings(Len(tokens) + 1) BY <1>1 DEF Openings
<1>6. tokens[n].kind # "value" /\ KindAt(n) = "table" => tokens[n].sym # kListBegin BY DEF KindAt
<1>7. n # 0 BY <1>1
<1> QED BY <1>1, <1>4, <1>5, <1>6, <1>7

LEMMA AcceptedLookups ==
  ASSUME MemoryInv, KeysInv, PlaceInv PROVE LookupsAnswer
<1> SUFFICES ASSUME pc = "returned", error = "none"
             PROVE  /\ \A n \in Values : \A kind \in Kinds :
                         LET r == Lookup(LookedUp[Around(n)], n, kind)
                         IN  IF kind # KindAt(n) THEN r.error = "value_is_not_" \o kind
                             ELSE /\ r.error = "none" /\ r.out = LookedUp[n]
                                  /\ tokens[n].kind = "value" => r.out.data = tokens[n].sym
                    /\ \A k \in Keys : TableHas(root, k) <=> k \in OldKeys \cup KeysIn(0)
                    /\ \A n \in Values :
                         /\ KindAt(n) = "table" =>
                              \A k \in Keys : TableHas(LookedUp[n], k) <=> k \in KeysIn(n)
                         /\ KindAt(n) = "list" => \A m \in 0 .. Len(tokens) :
                              ListGet(LookedUp[n], m).error = "none" <=> m < NumberIn(n, Len(tokens) + 1)
  BY DEF LookupsAnswer
<1>1. /\ tokens \in Seq(Token) /\ Known /\ Keyed("pair", Len(tokens) + 1, <<>>, key)
  BY DEF MemoryInv, Shape, TypeOK, PlaceInv
<1>2. PICK L : Settled(L) BY AcceptedSettled
<1>3. \A n \in {0} \cup Values : LookedUp[n] = L[n] BY <1>1, <1>2, LookedUpIs
<1>4. ASSUME NEW n \in Values, NEW kind \in Kinds
      PROVE  LET r == Lookup(LookedUp[Around(n)], n, kind)
             IN  IF kind # KindAt(n) THEN r.error = "value_is_not_" \o kind
                 ELSE /\ r.error = "none" /\ r.out = LookedUp[n]
                      /\ tokens[n].kind = "value" => r.out.data = tokens[n].sym
  <2>1. Around(n) \in {0} \cup Values
    <3>1. Around(n) \in Openings(n) BY <1>1, AroundBegun
    <3> QED BY <3>1 DEF Openings
  <2>2. Lookup(LookedUp[Around(n)], n, kind) = OfKind(Found(L[n]), kind) BY <1>1, <1>2, <1>3, <2>1, LookupFinds
  <2>3. L[n].kind = KindAt(n) /\ (tokens[n].kind = "value" => L[n].data = tokens[n].sym)
    BY <1>2 DEF Settled, Line, LineAt
  <2>4. CASE kind # KindAt(n)
    <3>1. OfKind(Found(L[n]), kind) = Missing("value_is_not_" \o kind) BY <2>3, <2>4 DEF OfKind, Found
    <3>2. Missing("value_is_not_" \o kind).error = "value_is_not_" \o kind BY DEF Missing
    <3> QED BY <2>2, <2>4, <3>1, <3>2
  <2>5. CASE kind = KindAt(n)
    <3>1. OfKind(Found(L[n]), kind) = Found(L[n]) BY <2>3, <2>5 DEF OfKind, Found
    <3>2. Found(L[n]).error = "none" /\ Found(L[n]).out = L[n] BY DEF Found
    <3> QED BY <1>3, <2>2, <2>3, <2>5, <3>1, <3>2
  <2> QED BY <2>4, <2>5
<1>5. ASSUME NEW k \in Keys PROVE TableHas(root, k) <=> k \in OldKeys \cup KeysIn(0)
  <2>1. 0 \in Openings(Len(tokens) + 1) /\ L[0] = root BY <1>2 DEF Openings, Settled
  <2> QED BY <1>1, <1>2, <2>1, TableHasKeys
<1>6. ASSUME NEW n \in Values, KindAt(n) = "table", NEW k \in Keys
      PROVE  TableHas(LookedUp[n], k) <=> k \in KeysIn(n)
  <2>1. n \in Openings(Len(tokens) + 1) /\ tokens[n].sym # kListBegin /\ n # 0 BY <1>1, <1>6, KindOf
  <2> QED BY <1>1, <1>2, <1>3, <2>1, TableHasKeys
<1>7. ASSUME NEW n \in Values, KindAt(n) = "list", NEW m \in 0 .. Len(tokens)
      PROVE  ListGet(LookedUp[n], m).error = "none" <=> m < NumberIn(n, Len(tokens) + 1)
  <2>1. n \in Openings(Len(tokens) + 1) /\ n # 0 BY <1>1, <1>7, KindOf
  <2>2. PICK es : es = Elems(L[n].ptr) OBVIOUS
  <2>3. es = ElemsIn(heap, L[n].ptr) BY <2>2 DEF Elems, ElemsIn
  <2>4. es \in Seq(Entry) /\ Len(es) = Old(n) + NumberIn(n, Len(tokens) + 1) BY <1>2, <2>1, <2>3 DEF Settled
  <2>5. NumberIn(n, Len(tokens) + 1) \in Nat
    <3>1. Len(tokens) + 1 \in Nat BY <1>1, LenProperties
    <3> QED BY <1>1, <3>1, NumberNext
  <2>6. Len(es) = NumberIn(n, Len(tokens) + 1) BY <2>1, <2>4, <2>5 DEF Old
  <2>7. m \in Nat OBVIOUS
  <2>8. es \in Seq(Entry) BY <2>4
  <2>9. ListGet(L[n], m).error = "none" <=> m < Len(es) BY <2>2, <2>7, <2>8, ListGetAt
  <2>10. LookedUp[n] = L[n] BY <1>3
  <2> QED BY <2>6, <2>9, <2>10
<1> QED BY <1>4, <1>5, <1>6, <1>7

-----------------------------------------------------------------------------
(* The lines of arrays.                                                    *)

AnyLine ==
  (Keys \cup {NoKey}) \X {"undefined", "string", "integer", "boolean", "list", "table"}
    \X (Literals \cup {NoData})

\* What the lines of the arrays have to be, for one array, and for all of them.
ObeysAt(h, lines, b) ==
  /\ lines[<<b, 0>>] = <<>>
  /\ \A n \in 1 .. Len(h[b].elems) :
       lines[<<b, n>>] = lines[<<b, n - 1>>] \o ItemLines(h, lines, h[b].elems[n])

Obeys(h, lines) == \A b \in DOMAIN h : ObeysAt(h, lines, b)

LinesAt(h, lines, b) == \A n \in 0 .. Len(h[b].elems) : lines[<<b, n>>] \in Seq(AnyLine)

\* The length of an array.
LEMMA SoundLen ==
  ASSUME NEW h, Sound(h), NEW b \in DOMAIN h
  PROVE  /\ Len(h[b].elems) \in Nat /\ h[b].elems \in Seq(Entry)
         /\ \A n \in 1 .. Len(h[b].elems) : h[b].elems[n] \in Entry
<1>1. h[b] \in Block BY DEF Sound
<1>2. h[b].elems \in Seq(Entry) BY <1>1 DEF Block
<1> QED BY <1>2, LenProperties

\* Sequences are put behind each other.
Behind(S, N, x, w) ==
  w \in [0 .. N -> Seq(S)] /\ w[0] = <<>> /\ \A k \in 1 .. N : w[k] = w[k - 1] \o x[k]

LEMMA Concat ==
  ASSUME NEW S, NEW N \in Nat, NEW x, \A k \in 1 .. N : x[k] \in Seq(S)
  PROVE  \E w : Behind(S, N, x, w)
<1> DEFINE Good(n) ==
      \E w \in [0 .. n -> Seq(S)] : w[0] = <<>> /\ \A k \in 1 .. n : w[k] = w[k - 1] \o x[k]
           Bad == {n \in 0 .. N : ~Good(n)}
<1>1. SUFFICES ASSUME Bad # {} PROVE FALSE
  <2>1. N \in 0 .. N OBVIOUS
  <2>2. Good(N) BY <2>1
  <2> QED BY <2>2 DEF Behind
<1>2. Bad \subseteq Nat
  <2> HIDE DEF Good
  <2> QED OBVIOUS
<1>3. PICK n \in Bad : \A m \in Bad : ~(m < n)
  <2> HIDE DEF Bad
  <2> QED BY <1>1, <1>2, LeastOf
<1>4. n \in 0 .. N /\ ~Good(n) BY <1>3
<1>5. Good(0)
  <2>1. PICK w : w = [k \in 0 .. 0 |-> <<>>] OBVIOUS
  <2>2. 0 .. 0 = {0} /\ 1 .. 0 = {} /\ <<>> \in Seq(S) OBVIOUS
  <2>3. w \in [0 .. 0 -> Seq(S)] /\ w[0] = <<>> BY <2>1, <2>2
  <2> QED BY <2>2, <2>3
<1>6. n # 0 BY <1>4, <1>5
<1>7. n - 1 \in 0 .. N /\ n - 1 < n /\ n \in 1 .. N BY <1>4, <1>6
<1>8. Good(n - 1) BY <1>3, <1>7
<1>9. PICK w \in [0 .. n - 1 -> Seq(S)] :
        w[0] = <<>> /\ \A k \in 1 .. n - 1 : w[k] = w[k - 1] \o x[k]
  BY <1>8
<1>10. PICK v : v = [k \in 0 .. n |-> IF k = n THEN w[n - 1] \o x[n] ELSE w[k]] OBVIOUS
<1>11. w[n - 1] \in Seq(S) /\ x[n] \in Seq(S) BY <1>7
<1>12. w[n - 1] \o x[n] \in Seq(S) BY <1>11
<1>13. v \in [0 .. n -> Seq(S)]
  <2>1. \A k \in 0 .. n : k # n => k \in 0 .. n - 1 BY <1>7
  <2> QED BY <1>10, <1>12, <2>1
<1>14. v[0] = <<>> BY <1>7, <1>9, <1>10
<1>15. ASSUME NEW k \in 1 .. n PROVE v[k] = v[k - 1] \o x[k]
  <2>1. k \in 0 .. n /\ k - 1 \in 0 .. n /\ k - 1 # n /\ (k # n => k \in 1 .. n - 1) BY <1>7
  <2>2. v[k - 1] = w[k - 1] BY <1>10, <2>1
  <2> QED BY <1>9, <1>10, <2>1, <2>2
<1>16. Good(n) BY <1>13, <1>14, <1>15
<1> QED BY <1>4, <1>16

\* The lines of an element are lines, when those of its array are.
LEMMA ItemTyped ==
  ASSUME NEW h, Sound(h), NEW T, NEW e \in Entry,
         e.ptr # NULL => e.ptr \in DOMAIN h /\ LinesAt(h, T, e.ptr)
  PROVE  ItemLines(h, T, e) \in Seq(AnyLine)
<1>1. Line(e) \in AnyLine BY DEF Line, AnyLine, Entry
<1>2. <<Line(e)>> \in Seq(AnyLine) BY <1>1
<1>3. CASE HasLines(e) /\ e.ptr # NULL
  <2>1. PICK n : n = Len(h[e.ptr].elems) OBVIOUS
  <2>2. n \in Nat BY <1>3, <2>1, SoundLen
  <2>3. n \in 0 .. n BY <2>2
  <2>4. T[<<e.ptr, n>>] \in Seq(AnyLine) BY <1>3, <2>1, <2>3 DEF LinesAt
  <2>5. ItemLines(h, T, e) = <<Line(e)>> \o T[<<e.ptr, n>>] BY <1>3, <2>1 DEF ItemLines
  <2> HIDE DEF AnyLine
  <2> QED BY <1>2, <2>4, <2>5
<1>4. CASE ~(HasLines(e) /\ e.ptr # NULL)
  <2>1. ItemLines(h, T, e) = <<Line(e)>> \o <<>> BY <1>4 DEF ItemLines
  <2>2. <<>> \in Seq(AnyLine) OBVIOUS
  <2> QED BY <1>2, <2>1, <2>2
<1> QED BY <1>3, <1>4

\* A nested heap has lines.
LEMMA DumpsExist ==
  ASSUME NEW h, Nested(h), Sound(h)
  PROVE  \E T : Obeys(h, T) /\ \A b \in DOMAIN h : LinesAt(h, T, b)
<1>1. PICK N \in Nat : \E rank \in [DOMAIN h -> 0 .. N] :
        \A b \in DOMAIN h : \A n \in 1 .. Len(h[b].elems) :
          h[b].elems[n].ptr \in DOMAIN h => rank[h[b].elems[n].ptr] < rank[b]
  BY DEF Nested
<1>2. PICK rank \in [DOMAIN h -> 0 .. N] :
        \A b \in DOMAIN h : \A n \in 1 .. Len(h[b].elems) :
          h[b].elems[n].ptr \in DOMAIN h => rank[h[b].elems[n].ptr] < rank[b]
  BY <1>1
<1>3. \A b \in DOMAIN h : rank[b] \in 0 .. N OBVIOUS
<1> DEFINE Good(k) == \E T : \A b \in DOMAIN h : rank[b] < k => ObeysAt(h, T, b) /\ LinesAt(h, T, b)
           Bad == {k \in 0 .. N + 1 : ~Good(k)}
<1>4. SUFFICES ASSUME Bad # {} PROVE FALSE
  <2>1. N + 1 \in 0 .. N + 1 /\ \A b \in DOMAIN h : rank[b] < N + 1 BY <1>3
  <2>2. Good(N + 1) BY <2>1
  <2> QED BY <2>1, <2>2 DEF Obeys
<1>5. Bad \subseteq Nat OBVIOUS
<1>6. PICK k \in Bad : \A m \in Bad : ~(m < k)
  <2> HIDE DEF Bad
  <2> QED BY <1>4, <1>5, LeastOf
<1>7. k \in 0 .. N + 1 /\ ~Good(k) BY <1>6
<1>8. k # 0
  <2>1. \A b \in DOMAIN h : ~(rank[b] < 0) BY <1>3
  <2>2. Good(0) BY <2>1
  <2> QED BY <1>7, <2>2
<1>9. PICK j : j = k - 1 OBVIOUS
<1>10. j \in 0 .. N + 1 /\ j < k /\ j \in Nat BY <1>7, <1>8, <1>9
<1>11. Good(j) BY <1>6, <1>10
<1>12. PICK T : \A b \in DOMAIN h : rank[b] < j => ObeysAt(h, T, b) /\ LinesAt(h, T, b) BY <1>11
<1> HIDE DEF Good, Bad
<1> DEFINE Works(b, w) ==
      /\ w \in [0 .. Len(h[b].elems) -> Seq(AnyLine)] /\ w[0] = <<>>
      /\ \A n \in 1 .. Len(h[b].elems) : w[n] = w[n - 1] \o ItemLines(h, T, h[b].elems[n])
<1>13. ASSUME NEW b \in DOMAIN h, rank[b] = j PROVE \E w : Works(b, w)
  <2>1. PICK L : L = Len(h[b].elems) OBVIOUS
  <2>2. L \in Nat BY <2>1, SoundLen
  <2>3. PICK x : x = [n \in 1 .. L |-> ItemLines(h, T, h[b].elems[n])] OBVIOUS
  <2>4. ASSUME NEW n \in 1 .. L PROVE x[n] \in Seq(AnyLine)
    <3>1. PICK e : e = h[b].elems[n] OBVIOUS
    <3>2. e \in Entry BY <2>1, <3>1, SoundLen
    <3>3. ASSUME e.ptr # NULL PROVE e.ptr \in DOMAIN h /\ LinesAt(h, T, e.ptr)
      <4>1. e.ptr \in DOMAIN h BY <2>1, <3>1, <3>3 DEF Sound
      <4>2. rank[e.ptr] < j BY <1>2, <1>13, <2>1, <3>1, <4>1
      <4> QED BY <1>12, <4>1, <4>2
    <3>4. ItemLines(h, T, e) \in Seq(AnyLine) BY <3>2, <3>3, ItemTyped
    <3> QED BY <2>3, <3>1, <3>4
  <2>5. PICK w \in [0 .. L -> Seq(AnyLine)] : w[0] = <<>> /\ \A n \in 1 .. L : w[n] = w[n - 1] \o x[n]
    <3>1. \E w : Behind(AnyLine, L, x, w) BY <2>2, <2>4, Concat
    <3> QED BY <3>1 DEF Behind
  <2>6. Works(b, w) BY <2>1, <2>3, <2>5
  <2> HIDE DEF Works
  <2> QED BY <2>6
<1>14. PICK W : W = [b \in DOMAIN h |-> CHOOSE w : Works(b, w)] OBVIOUS
<1>15. ASSUME NEW b \in DOMAIN h, rank[b] = j PROVE Works(b, W[b])
  <2> HIDE DEF Works
  <2> QED BY <1>13, <1>14, <1>15
<1>16. PICK U : U = [x \in Parts(h) |-> IF rank[x[1]] = j THEN W[x[1]][x[2]] ELSE T[x]] OBVIOUS
<1>17. ASSUME NEW b \in DOMAIN h, NEW n \in 0 .. Len(h[b].elems)
       PROVE  U[<<b, n>>] = IF rank[b] = j THEN W[b][n] ELSE T[<<b, n>>]
  <2>1. <<b, n>> \in {b} \X (0 .. Len(h[b].elems)) OBVIOUS
  <2>2. <<b, n>> \in Parts(h) /\ <<b, n>>[1] = b /\ <<b, n>>[2] = n BY <2>1 DEF Parts
  <2> QED BY <1>16, <2>2
<1>18. ASSUME NEW b \in DOMAIN h, rank[b] < k, NEW n \in 1 .. Len(h[b].elems)
       PROVE  ItemLines(h, U, h[b].elems[n]) = ItemLines(h, T, h[b].elems[n])
  <2>1. PICK e : e = h[b].elems[n] OBVIOUS
  <2>2. ASSUME e.ptr # NULL
        PROVE  U[<<e.ptr, Len(h[e.ptr].elems)>>] = T[<<e.ptr, Len(h[e.ptr].elems)>>]
    <3>1. e.ptr \in DOMAIN h BY <2>1, <2>2 DEF Sound
    <3>2. rank[e.ptr] < rank[b] BY <1>2, <2>1, <3>1
    <3>3. rank[e.ptr] # j
      <4>1. rank[e.ptr] \in 0 .. N /\ rank[b] \in 0 .. N BY <1>3, <3>1
      <4> QED BY <1>7, <1>9, <1>18, <3>2, <4>1
    <3>4. Len(h[e.ptr].elems) \in Nat BY <3>1, SoundLen
    <3>5. Len(h[e.ptr].elems) \in 0 .. Len(h[e.ptr].elems) BY <3>4
    <3> QED BY <1>17, <3>1, <3>3, <3>5
  <2>3. e.ptr # NULL => Len(h[e.ptr].elems) = Len(h[e.ptr].elems)
          /\ U[<<e.ptr, Len(h[e.ptr].elems)>>] = T[<<e.ptr, Len(h[e.ptr].elems)>>]
    BY <2>2
  <2>4. ItemLines(h, U, e) = ItemLines(h, T, e) BY <2>2 DEF ItemLines
  <2> QED BY <2>1, <2>4
<1>19. ASSUME NEW b \in DOMAIN h, rank[b] < k PROVE ObeysAt(h, U, b) /\ LinesAt(h, U, b)
  <2>1. PICK L : L = Len(h[b].elems) OBVIOUS
  <2>2. L \in Nat BY <2>1, SoundLen
  <2>3. (\A n \in 1 .. L : n \in 0 .. L /\ n - 1 \in 0 .. L) /\ 0 \in 0 .. L BY <2>2
  <2>4. CASE rank[b] = j
    <3>1. /\ W[b] \in [0 .. L -> Seq(AnyLine)] /\ W[b][0] = <<>>
          /\ \A n \in 1 .. L : W[b][n] = W[b][n - 1] \o ItemLines(h, T, h[b].elems[n])
      BY <1>15, <2>1, <2>4
    <3>2. \A n \in 0 .. L : U[<<b, n>>] = W[b][n] BY <1>17, <2>1, <2>4
    <3>3. U[<<b, 0>>] = <<>> BY <2>3, <3>1, <3>2
    <3>4. ASSUME NEW n \in 1 .. L PROVE U[<<b, n>>] = U[<<b, n - 1>>] \o ItemLines(h, U, h[b].elems[n])
      <4>1. U[<<b, n>>] = W[b][n] /\ U[<<b, n - 1>>] = W[b][n - 1] BY <2>3, <3>2
      <4>2. ItemLines(h, U, h[b].elems[n]) = ItemLines(h, T, h[b].elems[n]) BY <1>18, <1>19, <2>1
      <4> QED BY <3>1, <4>1, <4>2
    <3>5. \A n \in 0 .. L : U[<<b, n>>] \in Seq(AnyLine) BY <3>1, <3>2
    <3> QED BY <2>1, <3>3, <3>4, <3>5 DEF ObeysAt, LinesAt
  <2>5. CASE rank[b] # j
    <3>1. rank[b] < j
      <4>1. rank[b] \in 0 .. N BY <1>3
      <4> QED BY <1>7, <1>9, <1>19, <2>5, <4>1
    <3>2. ObeysAt(h, T, b) /\ LinesAt(h, T, b) BY <1>12, <3>1
    <3>3. \A n \in 0 .. L : U[<<b, n>>] = T[<<b, n>>] BY <1>17, <2>1, <2>5
    <3>4. U[<<b, 0>>] = <<>> BY <2>3, <3>2, <3>3 DEF ObeysAt
    <3>5. ASSUME NEW n \in 1 .. L PROVE U[<<b, n>>] = U[<<b, n - 1>>] \o ItemLines(h, U, h[b].elems[n])
      <4>1. U[<<b, n>>] = T[<<b, n>>] /\ U[<<b, n - 1>>] = T[<<b, n - 1>>] BY <2>3, <3>3
      <4>2. ItemLines(h, U, h[b].elems[n]) = ItemLines(h, T, h[b].elems[n]) BY <1>18, <1>19, <2>1
      <4> QED BY <2>1, <3>2, <4>1, <4>2 DEF ObeysAt
    <3>6. \A n \in 0 .. L : U[<<b, n>>] \in Seq(AnyLine) BY <2>1, <3>2, <3>3 DEF LinesAt
    <3> QED BY <2>1, <3>4, <3>5, <3>6 DEF ObeysAt, LinesAt
  <2> QED BY <2>4, <2>5
<1>20. Good(k) BY <1>19 DEF Good
<1> QED BY <1>7, <1>20

\* Arrays the elements of which have the same lines have the same lines.
LEMMA DumpsAgreeAt ==
  ASSUME NEW h, Sound(h), NEW T, Obeys(h, T), NEW U, Obeys(h, U), NEW b \in DOMAIN h,
         \A n \in 1 .. Len(h[b].elems) :
           h[b].elems[n].ptr # NULL => Agree(h, T, U, h[b].elems[n].ptr)
  PROVE  Agree(h, T, U, b)
<1>0. ObeysAt(h, T, b) /\ ObeysAt(h, U, b) BY DEF Obeys
<1>1. PICK L : L = Len(h[b].elems) OBVIOUS
<1>2. L \in Nat BY <1>1, SoundLen
<1> DEFINE Bad == {n \in 0 .. L : T[<<b, n>>] # U[<<b, n>>]}
<1> SUFFICES ASSUME Bad # {} PROVE FALSE BY <1>1 DEF Agree
<1>3. Bad \subseteq Nat BY <1>2
<1> HIDE DEF Bad
<1>4. PICK n \in Bad : \A m \in Bad : ~(m < n) BY <1>3, LeastOf
<1>5. n \in 0 .. L /\ T[<<b, n>>] # U[<<b, n>>] BY <1>4 DEF Bad
<1>6. n # 0 BY <1>0, <1>5 DEF ObeysAt
<1>7. n \in 1 .. L /\ n - 1 \in 0 .. L /\ n - 1 < n BY <1>2, <1>5, <1>6
<1>8. T[<<b, n - 1>>] = U[<<b, n - 1>>] BY <1>4, <1>7 DEF Bad
<1>9. PICK e : e = h[b].elems[n] OBVIOUS
<1>10. ASSUME e.ptr # NULL
       PROVE  U[<<e.ptr, Len(h[e.ptr].elems)>>] = T[<<e.ptr, Len(h[e.ptr].elems)>>]
  <2>1. e.ptr \in DOMAIN h /\ Agree(h, T, U, e.ptr) BY <1>1, <1>7, <1>9, <1>10 DEF Sound
  <2>2. Len(h[e.ptr].elems) \in Nat BY <2>1, SoundLen
  <2>3. Len(h[e.ptr].elems) \in 0 .. Len(h[e.ptr].elems) BY <2>2
  <2> QED BY <2>1, <2>3 DEF Agree
<1>11. ItemLines(h, U, e) = ItemLines(h, T, e) BY <1>10 DEF ItemLines
<1>12. T[<<b, n>>] = T[<<b, n - 1>>] \o ItemLines(h, T, e) BY <1>0, <1>1, <1>7, <1>9 DEF ObeysAt
<1>13. U[<<b, n>>] = U[<<b, n - 1>>] \o ItemLines(h, U, e) BY <1>0, <1>1, <1>7, <1>9 DEF ObeysAt
<1> QED BY <1>5, <1>8, <1>11, <1>12, <1>13

\* A nested heap has its lines only.
LEMMA DumpsAgree ==
  ASSUME NEW h, Nested(h), Sound(h), NEW T, Obeys(h, T), NEW U, Obeys(h, U)
  PROVE  \A b \in DOMAIN h : Agree(h, T, U, b)
<1>1. PICK N \in Nat : \E rank \in [DOMAIN h -> 0 .. N] :
        \A b \in DOMAIN h : \A n \in 1 .. Len(h[b].elems) :
          h[b].elems[n].ptr \in DOMAIN h => rank[h[b].elems[n].ptr] < rank[b]
  BY DEF Nested
<1>2. PICK rank \in [DOMAIN h -> 0 .. N] :
        \A b \in DOMAIN h : \A n \in 1 .. Len(h[b].elems) :
          h[b].elems[n].ptr \in DOMAIN h => rank[h[b].elems[n].ptr] < rank[b]
  BY <1>1
<1> DEFINE Bad == {k \in 0 .. N : \E b \in DOMAIN h : k = rank[b] /\ ~Agree(h, T, U, b)}
<1>3. SUFFICES ASSUME Bad # {} PROVE FALSE
  <2>1. \A b \in DOMAIN h : rank[b] \in 0 .. N OBVIOUS
  <2> QED BY <2>1
<1>4. Bad \subseteq Nat OBVIOUS
<1>5. PICK k \in Bad : \A m \in Bad : ~(m < k)
  <2> HIDE DEF Bad
  <2> QED BY <1>3, <1>4, LeastOf
<1>6. PICK b \in DOMAIN h : k = rank[b] /\ ~Agree(h, T, U, b) OBVIOUS
<1>7. ASSUME NEW n \in 1 .. Len(h[b].elems), h[b].elems[n].ptr # NULL
      PROVE  Agree(h, T, U, h[b].elems[n].ptr)
  <2> DEFINE c == h[b].elems[n].ptr
  <2>1. c \in DOMAIN h BY <1>7 DEF Sound
  <2>2. rank[c] < k /\ rank[c] \in 0 .. N BY <1>2, <1>6, <2>1
  <2> HIDE DEF c
  <2>3. rank[c] \notin Bad BY <1>5, <2>2
  <2>4. Agree(h, T, U, c) BY <2>1, <2>2, <2>3
  <2> QED BY <2>4 DEF c
<1>8. Agree(h, T, U, b) BY <1>7, DumpsAgreeAt
<1> QED BY <1>6, <1>8

\* Dumps gives these lines.
LEMMA DumpsObey ==
  ASSUME NEW h, Nested(h), Sound(h)
  PROVE  Obeys(h, Dumps(h)) /\ \A b \in DOMAIN h : LinesAt(h, Dumps(h), b)
<1>0. PICK T : Obeys(h, T) /\ \A b \in DOMAIN h : LinesAt(h, T, b) BY DumpsExist
<1> DEFINE F(lines) ==
      [x \in Parts(h) |-> IF x[2] = 0 THEN <<>>
                          ELSE lines[<<x[1], x[2] - 1>>] \o ItemLines(h, lines, h[x[1]].elems[x[2]])]
<1>1. Dumps(h) = CHOOSE lines : lines = F(lines) BY DEF Dumps
<1>2. ASSUME NEW b \in DOMAIN h, NEW n \in 0 .. Len(h[b].elems)
      PROVE  <<b, n>> \in Parts(h) /\ <<b, n>>[1] = b /\ <<b, n>>[2] = n
  <2>1. <<b, n>> \in {b} \X (0 .. Len(h[b].elems)) OBVIOUS
  <2> QED BY <2>1 DEF Parts
<1>3. PICK W : W = [x \in Parts(h) |-> T[x]] OBVIOUS
<1>4. ASSUME NEW b \in DOMAIN h, NEW n \in 0 .. Len(h[b].elems) PROVE W[<<b, n>>] = T[<<b, n>>]
  BY <1>2, <1>3
<1>5. ASSUME NEW b \in DOMAIN h, NEW n \in 1 .. Len(h[b].elems)
      PROVE  ItemLines(h, W, h[b].elems[n]) = ItemLines(h, T, h[b].elems[n])
  <2>1. PICK e : e = h[b].elems[n] OBVIOUS
  <2>2. ASSUME e.ptr # NULL
        PROVE  W[<<e.ptr, Len(h[e.ptr].elems)>>] = T[<<e.ptr, Len(h[e.ptr].elems)>>]
    <3>1. e.ptr \in DOMAIN h BY <2>1, <2>2 DEF Sound
    <3>2. Len(h[e.ptr].elems) \in Nat BY <3>1, SoundLen
    <3>3. Len(h[e.ptr].elems) \in 0 .. Len(h[e.ptr].elems) BY <3>2
    <3> QED BY <1>4, <3>1, <3>3
  <2> QED BY <2>1, <2>2, ZenonT(60) DEF ItemLines
<1>6. ASSUME NEW x \in Parts(h)
      PROVE  W[x] = IF x[2] = 0 THEN <<>>
                    ELSE W[<<x[1], x[2] - 1>>] \o ItemLines(h, W, h[x[1]].elems[x[2]])
  <2>1. PICK b \in DOMAIN h : x \in {b} \X (0 .. Len(h[b].elems)) BY DEF Parts
  <2>2. PICK n \in 0 .. Len(h[b].elems) : x = <<b, n>> BY <2>1
  <2>3. x[1] = b /\ x[2] = n BY <2>2
  <2>4. CASE n = 0
    <3>1. W[x] = <<>> BY <1>0, <1>4, <2>2, <2>4 DEF Obeys, ObeysAt
    <3> QED BY <2>3, <2>4, <3>1
  <2>5. CASE n # 0
    <3>0. Len(h[b].elems) \in Nat BY SoundLen
    <3>1. n \in 1 .. Len(h[b].elems) /\ n - 1 \in 0 .. Len(h[b].elems) BY <2>5, <3>0
    <3>2. T[<<b, n>>] = T[<<b, n - 1>>] \o ItemLines(h, T, h[b].elems[n])
      BY <1>0, <3>1 DEF Obeys, ObeysAt
    <3>3. W[x] = W[<<b, n - 1>>] \o ItemLines(h, W, h[b].elems[n])
      BY <1>4, <1>5, <2>2, <3>1, <3>2
    <3> QED BY <2>3, <2>5, <3>3
  <2> QED BY <2>4, <2>5
<1>7. W = F(W)
  <2>1. W = [x \in Parts(h) |-> W[x]] BY <1>3
  <2>2. [x \in Parts(h) |-> W[x]] = F(W) BY <1>6
  <2> QED BY <2>1, <2>2
<1>8. PICK f : f = Dumps(h) /\ f = F(f)
  <2> HIDE DEF F
  <2> QED BY <1>1, <1>7
<1>9. ASSUME NEW b \in DOMAIN h PROVE ObeysAt(h, f, b)
  <2>0. Len(h[b].elems) \in Nat BY SoundLen
  <2>1. \A x \in Parts(h) : f[x] = IF x[2] = 0 THEN <<>>
                                   ELSE f[<<x[1], x[2] - 1>>] \o ItemLines(h, f, h[x[1]].elems[x[2]])
    BY <1>8, ZenonT(60)
  <2>2. 0 \in 0 .. Len(h[b].elems) BY <2>0
  <2>3. f[<<b, 0>>] = <<>> BY <1>2, <2>1, <2>2
  <2>4. ASSUME NEW n \in 1 .. Len(h[b].elems)
        PROVE  f[<<b, n>>] = f[<<b, n - 1>>] \o ItemLines(h, f, h[b].elems[n])
    <3>1. n \in 0 .. Len(h[b].elems) /\ n # 0 BY <2>0
    <3>2. <<b, n>> \in Parts(h) /\ <<b, n>>[1] = b /\ <<b, n>>[2] = n BY <1>2, <3>1
    <3> HIDE DEF F
    <3> QED BY <2>1, <3>1, <3>2
  <2> QED BY <2>3, <2>4 DEF ObeysAt
<1>10. Obeys(h, Dumps(h)) BY <1>8, <1>9 DEF Obeys
<1>11. \A b \in DOMAIN h : Agree(h, T, Dumps(h), b) BY <1>0, <1>10, DumpsAgree
<1> QED BY <1>0, <1>10, <1>11 DEF Agree, LinesAt

\* Blocks that stay keep their lines.
LEMMA DumpsStay ==
  ASSUME NEW h, Nested(h), Sound(h), NEW g, Nested(g), NEW q, Grows(h, g, q)
  PROVE  /\ Sound(g)
         /\ \A b \in DOMAIN g \ {q} : Agree(g, Dumps(g), Dumps(h), b)
<1>1. Sound(g) BY DEF Grows, Sound
<1>2. PICK k : k = [b \in DOMAIN g \ {q} |-> g[b]] OBVIOUS
<1>3. /\ DOMAIN k = DOMAIN g \ {q} /\ \A b \in DOMAIN k : b \in DOMAIN h /\ k[b] = h[b] /\ k[b] = g[b]
  BY <1>2 DEF Grows
<1>4. Nested(k) BY <1>3, NestedLess
<1>5. Sound(k) BY <1>3 DEF Sound, Grows
<1>6. ASSUME NEW f, Obeys(f, Dumps(f)), \A b \in DOMAIN k : b \in DOMAIN f /\ k[b] = f[b]
      PROVE  Obeys(k, Dumps(f))
  <2> SUFFICES ASSUME NEW b \in DOMAIN k PROVE ObeysAt(k, Dumps(f), b) BY DEF Obeys
  <2>1. ObeysAt(f, Dumps(f), b) /\ k[b] = f[b] BY <1>6 DEF Obeys
  <2>2. ASSUME NEW n \in 1 .. Len(k[b].elems)
        PROVE  ItemLines(k, Dumps(f), k[b].elems[n]) = ItemLines(f, Dumps(f), k[b].elems[n])
    <3>1. k[b].elems[n].ptr # NULL => k[k[b].elems[n].ptr] = f[k[b].elems[n].ptr]
      BY <1>5, <1>6 DEF Sound
    <3> QED BY <3>1, ZenonT(60) DEF ItemLines
  <2> QED BY <2>1, <2>2 DEF ObeysAt
<1>7. Obeys(k, Dumps(h)) BY <1>3, <1>6, DumpsObey
<1>8. Obeys(k, Dumps(g)) BY <1>1, <1>3, <1>6, DumpsObey
<1>9. \A b \in DOMAIN k : Agree(k, Dumps(g), Dumps(h), b) BY <1>4, <1>5, <1>7, <1>8, DumpsAgree
<1> QED BY <1>1, <1>3, <1>9 DEF Agree

\* The lines of one element, with those of what is in it.
ItemOf(h, e) == ItemLines(h, Dumps(h), e)

\* An element that is no list or table, or an empty one, has one line.
LEMMA LineOnly ==
  ASSUME NEW h, NEW e, ~HasLines(e) \/ e.ptr = NULL
  PROVE  ItemOf(h, e) = <<Line(e)>>
<1>1. ItemOf(h, e) = <<Line(e)>> \o <<>> BY DEF ItemOf, ItemLines
<1>2. PICK x : x = Line(e) OBVIOUS
<1>3. <<x>> \in Seq({x}) OBVIOUS
<1> QED BY <1>1, <1>2, <1>3

\* What the lines of an element and of an array are.
LEMMA LinesTypes ==
  ASSUME NEW h, Nested(h), Sound(h), NEW e \in Entry, e.ptr # NULL => e.ptr \in DOMAIN h
  PROVE  /\ Lines(h, e) \in Seq(AnyLine) /\ ItemOf(h, e) \in Seq(AnyLine)
         /\ HasLines(e) => ItemOf(h, e) = <<Line(e)>> \o Lines(h, e)
<1>1. e.ptr # NULL => LinesAt(h, Dumps(h), e.ptr) BY DumpsObey
<1>2. ItemOf(h, e) \in Seq(AnyLine) BY <1>1, ItemTyped DEF ItemOf
<1>3. Lines(h, e) \in Seq(AnyLine)
  <2>1. CASE e.ptr = NULL BY <2>1 DEF Lines
  <2>2. CASE e.ptr # NULL
    <3>1. Len(h[e.ptr].elems) \in Nat BY <2>2, SoundLen
    <3>2. Len(h[e.ptr].elems) \in 0 .. Len(h[e.ptr].elems) BY <3>1
    <3>3. Dumps(h)[<<e.ptr, Len(h[e.ptr].elems)>>] \in Seq(AnyLine) BY <1>1, <2>2, <3>2 DEF LinesAt
    <3> QED BY <2>2, <3>3 DEF Lines
  <2> QED BY <2>1, <2>2
<1>4. HasLines(e) => ItemOf(h, e) = <<Line(e)>> \o Lines(h, e) BY DEF ItemOf, ItemLines, Lines
<1> QED BY <1>2, <1>3, <1>4

\* Elements the array of which stays keep their lines.
LEMMA LinesStay ==
  ASSUME NEW h, Nested(h), Sound(h), NEW g, Nested(g), NEW q, Grows(h, g, q),
         NEW e, e.ptr # NULL => e.ptr \in DOMAIN g \ {q}
  PROVE  Lines(g, e) = Lines(h, e) /\ ItemOf(g, e) = ItemOf(h, e)
<1>1. CASE e.ptr = NULL BY <1>1 DEF Lines, ItemOf, ItemLines
<1>2. CASE e.ptr # NULL
  <2>1. Sound(g) /\ Agree(g, Dumps(g), Dumps(h), e.ptr) BY <1>2, DumpsStay
  <2>2. g[e.ptr] = h[e.ptr] BY <1>2 DEF Grows
  <2>3. Len(g[e.ptr].elems) \in Nat BY <1>2, <2>1, SoundLen
  <2>4. Len(g[e.ptr].elems) \in 0 .. Len(g[e.ptr].elems) BY <2>3
  <2>5. Dumps(g)[<<e.ptr, Len(g[e.ptr].elems)>>] = Dumps(h)[<<e.ptr, Len(g[e.ptr].elems)>>]
    BY <2>1, <2>4 DEF Agree
  <2> QED BY <1>2, <2>2, <2>5 DEF Lines, ItemOf, ItemLines
<1> QED BY <1>1, <1>2

\* From h to g the element x is added to those of e, in the array q that c points to.
Appending(h, g, q, e, x, c) ==
  /\ Nested(h) /\ Sound(h) /\ Nested(g) /\ Grows(h, g, q) /\ q # NULL /\ x \in Entry
  /\ e.ptr # NULL => e.ptr \in DOMAIN h
  /\ g[q].elems = Append(ElemsIn(h, e.ptr), x) /\ c.ptr = q

\* An element that is stored adds its lines.
LEMMA LinesAppend ==
  ASSUME NEW h, NEW g, NEW q, NEW e, NEW x, NEW c, Appending(h, g, q, e, x, c)
  PROVE  Lines(g, c) = Lines(h, e) \o ItemOf(h, x)
<1> Nested(h) /\ Sound(h) /\ Nested(g) BY DEF Appending
<1> Grows(h, g, q) /\ q # NULL BY DEF Appending
<1> (e.ptr # NULL => e.ptr \in DOMAIN h) /\ x \in Entry BY DEF Appending
<1> g[q].elems = Append(ElemsIn(h, e.ptr), x) /\ c.ptr = q BY DEF Appending
<1>1. PICK es : es = ElemsIn(h, e.ptr) OBVIOUS
<1>2. PICK L : L = Len(es) OBVIOUS
<1>3. PICK p : p = e.ptr OBVIOUS
<1>4. es \in Seq(Entry)
  <2>1. CASE p = NULL BY <1>1, <1>3, <2>1 DEF ElemsIn
  <2>2. CASE p # NULL BY <1>1, <1>3, <2>2, SoundLen DEF ElemsIn
  <2> QED BY <2>1, <2>2
<1>5. /\ L \in Nat /\ Len(g[q].elems) = L + 1 /\ g[q].elems[L + 1] = x
      /\ \A n \in 1 .. L : g[q].elems[n] = es[n]
  <2>1. g[q].elems = Append(es, x) BY <1>1
  <2> QED BY <1>2, <1>4, <2>1, LenProperties
<1>6. Sound(g) /\ q \in DOMAIN g BY DumpsStay DEF Grows
<1>7. Obeys(g, Dumps(g)) /\ Obeys(h, Dumps(h)) BY <1>6, DumpsObey
<1>8. PICK U : U = Dumps(g) OBVIOUS
<1>9. PICK T : T = Dumps(h) OBVIOUS
<1>10. /\ U[<<q, 0>>] = <<>>
       /\ \A n \in 1 .. L + 1 : U[<<q, n>>] = U[<<q, n - 1>>] \o ItemOf(g, g[q].elems[n])
  BY <1>5, <1>6, <1>7, <1>8 DEF Obeys, ObeysAt, ItemOf
<1>11. p # NULL => /\ T[<<p, 0>>] = <<>>
                   /\ \A n \in 1 .. L : T[<<p, n>>] = T[<<p, n - 1>>] \o ItemOf(h, es[n])
  BY <1>1, <1>2, <1>3, <1>7, <1>9 DEF Obeys, ObeysAt, ItemOf, ElemsIn
<1>12. ASSUME NEW n \in 1 .. L + 1
       PROVE  ItemOf(g, g[q].elems[n]) = ItemOf(h, g[q].elems[n])
  <2>1. PICK y : y = g[q].elems[n] OBVIOUS
  <2>2. y.ptr # NULL => y.ptr \in DOMAIN g \ {q} BY <1>5, <1>6, <2>1 DEF Grows
  <2>3. ItemOf(g, y) = ItemOf(h, y) BY <2>2, LinesStay
  <2> QED BY <2>1, <2>3
<1>13. U[<<q, L>>] = Lines(h, e)
  <2>1. CASE p = NULL
    <3>1. L = 0 BY <1>1, <1>2, <1>3, <2>1 DEF ElemsIn
    <3> QED BY <1>3, <1>10, <2>1, <3>1 DEF Lines
  <2>2. CASE p # NULL
    <3> DEFINE Bad == {n \in 0 .. L : U[<<q, n>>] # T[<<p, n>>]}
    <3>1. L \in 0 .. L /\ 0 \in 0 .. L BY <1>5
    <3>2. Lines(h, e) = T[<<p, L>>] BY <1>1, <1>2, <1>3, <1>9, <2>2 DEF Lines, ElemsIn
    <3>3. SUFFICES ASSUME Bad # {} PROVE FALSE BY <3>1, <3>2
    <3>4. Bad \subseteq Nat BY <1>5
    <3>5. PICK n \in Bad : \A m \in Bad : ~(m < n)
      <4> HIDE DEF Bad
      <4> QED BY <3>3, <3>4, LeastOf
    <3>6. n \in 0 .. L /\ U[<<q, n>>] # T[<<p, n>>] BY <3>5
    <3>7. n # 0 BY <1>10, <1>11, <2>2, <3>6
    <3>8. n \in 1 .. L /\ n \in 1 .. L + 1 /\ n - 1 \in 0 .. L /\ n - 1 < n BY <1>5, <3>6, <3>7
    <3>9. U[<<q, n - 1>>] = T[<<p, n - 1>>] BY <3>5, <3>8
    <3>10. ItemOf(g, g[q].elems[n]) = ItemOf(h, es[n]) BY <1>5, <1>12, <3>8
    <3>11. U[<<q, n>>] = U[<<q, n - 1>>] \o ItemOf(g, g[q].elems[n]) BY <1>10, <3>8
    <3>12. T[<<p, n>>] = T[<<p, n - 1>>] \o ItemOf(h, es[n]) BY <1>11, <2>2, <3>8
    <3> QED BY <3>6, <3>9, <3>10, <3>11, <3>12
  <2> QED BY <2>1, <2>2
<1>14. L + 1 \in 1 .. L + 1 /\ (L + 1) - 1 = L BY <1>5
<1>15. U[<<q, L + 1>>] = U[<<q, L>>] \o ItemOf(h, x) BY <1>5, <1>10, <1>12, <1>14
<1>16. Lines(g, c) = U[<<q, L + 1>>] BY <1>5, <1>8 DEF Lines
<1> QED BY <1>13, <1>15, <1>16

\* The lines that the tokens ask for, one token after the other.
Asked == {LineAt(m) : m \in 1 .. Len(tokens)}

LEMMA LinesToNext ==
  ASSUME tokens \in Seq(Token)
  PROVE  /\ LinesTo[0] = <<>> /\ \A n \in 0 .. Len(tokens) : LinesTo[n] \in Seq(Asked)
         /\ \A n \in 1 .. Len(tokens) :
              LinesTo[n] = LinesTo[n - 1] \o (IF n \in Values THEN <<LineAt(n)>> ELSE <<>>)
<1>0. PICK N : N = Len(tokens) OBVIOUS
<1>1. N \in Nat BY <1>0, TokenNumbers
<1> DEFINE F(lines) ==
      [n \in 0 .. Len(tokens) |->
         IF n = 0 THEN <<>> ELSE lines[n - 1] \o (IF n \in Values THEN <<LineAt(n)>> ELSE <<>>)]
<1>2. LinesTo = CHOOSE lines : lines = F(lines) BY DEF LinesTo
<1>3. PICK x : x = [n \in 1 .. N |-> IF n \in Values THEN <<LineAt(n)>> ELSE <<>>] OBVIOUS
<1>4. ASSUME NEW n \in 1 .. N PROVE x[n] \in Seq(Asked)
  <2>1. LineAt(n) \in Asked BY <1>0 DEF Asked
  <2>2. <<LineAt(n)>> \in Seq(Asked) /\ <<>> \in Seq(Asked)
    <3> HIDE DEF Asked
    <3> QED BY <2>1
  <2> QED BY <1>3, <2>2
<1>5. PICK w : Behind(Asked, N, x, w) BY <1>1, <1>4, Concat
<1>6. /\ w \in [0 .. N -> Seq(Asked)] /\ w[0] = <<>> /\ \A n \in 1 .. N : w[n] = w[n - 1] \o x[n]
  BY <1>5 DEF Behind
<1>7. ASSUME NEW f, f = F(f)
      PROVE  /\ f[0] = <<>>
             /\ \A n \in 1 .. N : f[n] = f[n - 1] \o x[n]
  <2>1. \A n \in 0 .. N :
          f[n] = IF n = 0 THEN <<>> ELSE f[n - 1] \o (IF n \in Values THEN <<LineAt(n)>> ELSE <<>>)
    BY <1>0, <1>7
  <2>2. 0 \in 0 .. N /\ \A n \in 1 .. N : n \in 0 .. N /\ n # 0 BY <1>1
  <2> HIDE DEF F
  <2> QED BY <1>3, <2>1, <2>2
<1>8. w = F(w)
  <2>1. w = [n \in 0 .. N |-> w[n]] BY <1>6
  <2>2. ASSUME NEW n \in 0 .. N
        PROVE  w[n] = IF n = 0 THEN <<>>
                      ELSE w[n - 1] \o (IF n \in Values THEN <<LineAt(n)>> ELSE <<>>)
    <3>1. n # 0 => n \in 1 .. N BY <1>1
    <3> QED BY <1>3, <1>6, <3>1
  <2> QED BY <1>0, <2>1, <2>2
<1>9. LinesTo = F(LinesTo)
  <2>1. \E f : f = F(f) BY <1>8
  <2> HIDE DEF F
  <2> QED BY <1>2, <2>1
<1>10. LinesTo[0] = <<>> /\ \A n \in 1 .. N : LinesTo[n] = LinesTo[n - 1] \o x[n]
  <2> HIDE DEF F
  <2> QED BY <1>7, <1>9
<1>11. ASSUME NEW n \in 0 .. N PROVE LinesTo[n] \in Seq(Asked)
  <2> DEFINE Bad == {m \in 0 .. N : LinesTo[m] \notin Seq(Asked)}
  <2>1. SUFFICES ASSUME Bad # {} PROVE FALSE OBVIOUS
  <2>2. Bad \subseteq Nat BY <1>1
  <2>3. PICK k \in Bad : \A m \in Bad : ~(m < k)
    <3> HIDE DEF Bad
    <3> QED BY <2>1, <2>2, LeastOf
  <2>4. k \in 0 .. N /\ LinesTo[k] \notin Seq(Asked) BY <2>3
  <2>5. k # 0
    <3>1. <<>> \in Seq(Asked) OBVIOUS
    <3>2. LinesTo[0] = <<>> BY <1>10
    <3> QED BY <2>4, <3>1, <3>2
  <2>6. k \in 1 .. N /\ k - 1 \in 0 .. N /\ k - 1 < k BY <1>1, <2>4, <2>5
  <2>7. LinesTo[k - 1] \in Seq(Asked) BY <2>3, <2>6
  <2>8. LinesTo[k] = LinesTo[k - 1] \o x[k] /\ x[k] \in Seq(Asked) BY <1>4, <1>10, <2>6
  <2>9. LinesTo[k] \in Seq(Asked)
    <3> HIDE DEF Asked
    <3> QED BY <2>7, <2>8
  <2> QED BY <2>4, <2>9
<1> QED BY <1>0, <1>3, <1>10, <1>11

-----------------------------------------------------------------------------
(* The lines of the values under construction.                             *)

\* The lines of the caller's table before this call.
LinesBefore == Lines(was.heap, was.root)

\* F gives the lines up to the values under construction, with each of them what is in it.
Dumped(F, e, n, h, s, r) ==
  /\ F[0] = Lines(h, r)
  /\ \A k \in 0 .. e : F[k] \in Seq(AnyLine)
  /\ \A k \in 1 .. e : F[k] = F[k - 1] \o ItemOf(h, Level(s, r, k))
  /\ F[e] = LinesBefore \o LinesTo[n - 1]

Dumping(p, n, h, s, r) == \E F : Dumped(F, Begun(p, s), n, h, s, r)

DumpInv ==
  /\ pc \in Parsing => LinesBefore \in Seq(AnyLine) /\ Dumping(pc, i, heap, stack, root)
  /\ pc \in {"done", "returned"} /\ error = "none" =>
       Lines(heap, root) = LinesBefore \o LinesTo[Len(tokens)]

\* A step that reads no value.
LEMMA DumpQuiet ==
  ASSUME tokens \in Seq(Token), NEW e \in Nat, NEW n \in Nat \ {0}, NEW F, NEW h, NEW s, NEW r,
         Dumped(F, e, n, h, s, r), NEW t, \A k \in 1 .. e : Level(t, r, k) = Level(s, r, k),
         LinesBefore \in Seq(AnyLine)
  PROVE  /\ Dumped(F, e, n, h, t, r)
         /\ n \in 1 .. Len(tokens) /\ n \notin Values => Dumped(F, e, n + 1, h, t, r)
<1>1. Dumped(F, e, n, h, t, r) BY DEF Dumped
<1>2. ASSUME n \in 1 .. Len(tokens), n \notin Values PROVE Dumped(F, e, n + 1, h, t, r)
  <2>1. n - 1 \in 0 .. Len(tokens) /\ (n + 1) - 1 = n BY <1>2, TokenNumbers
  <2>2. LinesTo[n - 1] \in Seq(Asked) /\ LinesTo[n] = LinesTo[n - 1] \o <<>> BY <1>2, <2>1, LinesToNext
  <2>3. LinesTo[n] = LinesTo[n - 1]
    <3>1. PICK a : a = LinesTo[n - 1] OBVIOUS
    <3>2. PICK S : S = Asked OBVIOUS
    <3>3. a \in Seq(S) BY <2>2, <3>1, <3>2
    <3>4. a \o <<>> = a BY <3>3
    <3> QED BY <2>2, <3>1, <3>4
  <2> QED BY <1>1, <2>1, <2>3 DEF Dumped
<1> QED BY <1>1, <1>2

\* Between h, s, r and g, t, r the value at n begins at level e + 1, with the line l.
Beginning(e, n, h, s, r, g, t, l) ==
  /\ e \in Nat /\ n \in Values
  /\ \A k \in 1 .. e : Level(t, r, k) = Level(s, r, k)
                       /\ ItemOf(g, Level(s, r, k)) = ItemOf(h, Level(s, r, k))
  /\ Lines(g, r) = Lines(h, r)
  /\ l \in AnyLine /\ l = LineAt(n) /\ ItemOf(g, Level(t, r, e + 1)) = <<l>>

\* A step that reads a value.
LEMMA DumpValue ==
  ASSUME tokens \in Seq(Token), LinesBefore \in Seq(AnyLine),
         NEW e, NEW n, NEW F, NEW h, NEW s, NEW r, NEW t, NEW g, NEW l,
         Beginning(e, n, h, s, r, g, t, l), Dumped(F, e, n, h, s, r)
  PROVE  \E H : Dumped(H, e + 1, n + 1, g, t, r)
<1> e \in Nat /\ n \in Values BY DEF Beginning
<1> \A k \in 1 .. e : Level(t, r, k) = Level(s, r, k) BY DEF Beginning
<1> \A k \in 1 .. e : ItemOf(g, Level(s, r, k)) = ItemOf(h, Level(s, r, k)) BY DEF Beginning
<1> Lines(g, r) = Lines(h, r) BY DEF Beginning
<1> l \in AnyLine /\ l = LineAt(n) /\ ItemOf(g, Level(t, r, e + 1)) = <<l>> BY DEF Beginning
<1>1. n \in 1 .. Len(tokens) /\ Len(tokens) \in Nat BY TokenNumbers
<1>2. n - 1 \in 0 .. Len(tokens) /\ (n + 1) - 1 = n BY <1>1
<1>3. LinesTo[n - 1] \in Seq(Asked) /\ LinesTo[n] = LinesTo[n - 1] \o <<l>>
  BY <1>1, <1>2, LinesToNext
<1>4. <<l>> \in Seq(AnyLine)
  <2> HIDE DEF AnyLine
  <2> QED OBVIOUS
<1>5. e \in 0 .. e /\ e + 1 \in 0 .. e + 1 /\ (e + 1) - 1 = e OBVIOUS
<1>6. F[e] \in Seq(AnyLine) /\ F[e] = LinesBefore \o LinesTo[n - 1] BY <1>5 DEF Dumped
<1>7. (LinesBefore \o LinesTo[n - 1]) \o <<l>> = LinesBefore \o LinesTo[n]
  <2>1. (LinesBefore \o LinesTo[n - 1]) \o <<l>> = LinesBefore \o (LinesTo[n - 1] \o <<l>>)
    <3>1. PICK a : a = LinesBefore OBVIOUS
    <3>2. PICK b : b = LinesTo[n - 1] OBVIOUS
    <3>3. PICK c : c = <<l>> OBVIOUS
    <3>4. PICK S : S = AnyLine \cup Asked OBVIOUS
    <3>5. a \in Seq(S) /\ b \in Seq(S) /\ c \in Seq(S) BY <1>3, <1>4, <3>1, <3>2, <3>3, <3>4
    <3>6. (a \o b) \o c = a \o (b \o c) BY <3>5, SMTT(30)
    <3> QED BY <3>1, <3>2, <3>3, <3>6
  <2> QED BY <1>3, <2>1
<1>8. PICK a : a = F[e] \o <<l>> OBVIOUS
<1>9. a \in Seq(AnyLine) /\ a = LinesBefore \o LinesTo[n]
  <2>1. a \in Seq(AnyLine)
    <3> HIDE DEF AnyLine
    <3> QED BY <1>4, <1>6, <1>8
  <2> QED BY <1>6, <1>7, <1>8, <2>1
<1>10. PICK H : H = [k \in 0 .. e + 1 |-> IF k = e + 1 THEN a ELSE F[k]] OBVIOUS
<1>11. H[e + 1] = a /\ \A k \in 0 .. e : H[k] = F[k]
  <2>1. \A k \in 0 .. e : k \in 0 .. e + 1 /\ k # e + 1 OBVIOUS
  <2> QED BY <1>5, <1>10, <2>1
<1>12. H[0] = Lines(g, r)
  <2>1. 0 \in 0 .. e OBVIOUS
  <2> QED BY <1>11, <2>1 DEF Dumped
<1>13. ASSUME NEW k \in 0 .. e + 1 PROVE H[k] \in Seq(AnyLine)
  <2>1. k \in 0 .. e \/ k = e + 1 OBVIOUS
  <2> QED BY <1>9, <1>11, <2>1 DEF Dumped
<1>14. ASSUME NEW k \in 1 .. e + 1 PROVE H[k] = H[k - 1] \o ItemOf(g, Level(t, r, k))
  <2>1. CASE k = e + 1 BY <1>5, <1>8, <1>11, <2>1
  <2>2. CASE k # e + 1
    <3>1. k \in 1 .. e /\ k \in 0 .. e /\ k - 1 \in 0 .. e BY <2>2
    <3>2. F[k] = F[k - 1] \o ItemOf(h, Level(s, r, k)) BY <3>1 DEF Dumped
    <3>3. ItemOf(g, Level(t, r, k)) = ItemOf(h, Level(s, r, k)) BY <3>1
    <3> QED BY <1>11, <3>1, <3>2, <3>3
  <2> QED BY <2>1, <2>2
<1>15. H[e + 1] = LinesBefore \o LinesTo[(n + 1) - 1] BY <1>2, <1>9, <1>11
<1>16. Dumped(H, e + 1, n + 1, g, t, r) BY <1>12, <1>13, <1>14, <1>15 DEF Dumped
<1> QED BY <1>16

\* Between h, s, r and g, t, q the lines of the value x at level d + 1 become lines of the
\* list or table at level d, which is b before and c from then on; the others stay.
Adding(d, h, s, r, g, t, q, b, c, x) ==
  /\ d \in Nat /\ b = Level(s, r, d) /\ c = Level(t, q, d) /\ x = Level(s, r, d + 1)
  /\ \A k \in 1 .. d - 1 : Level(t, q, k) = Level(s, r, k)
                           /\ ItemOf(g, Level(s, r, k)) = ItemOf(h, Level(s, r, k))
  /\ d # 0 => /\ Lines(g, q) = Lines(h, r) /\ Line(c) = Line(b)
              /\ ItemOf(g, c) = <<Line(c)>> \o Lines(g, c) /\ ItemOf(h, b) = <<Line(b)>> \o Lines(h, b)
  /\ Lines(g, c) = Lines(h, b) \o ItemOf(h, x)
  /\ Lines(h, b) \in Seq(AnyLine) /\ ItemOf(h, x) \in Seq(AnyLine)

\* A value is stored.
LEMMA DumpStore ==
  ASSUME NEW F, NEW d, NEW n, NEW h, NEW s, NEW r, NEW g, NEW t, NEW q, NEW b, NEW c, NEW x,
         Adding(d, h, s, r, g, t, q, b, c, x), Dumped(F, d + 1, n, h, s, r)
  PROVE  \E H : Dumped(H, d, n, g, t, q)
<1>1. d \in Nat /\ b = Level(s, r, d) /\ c = Level(t, q, d) /\ x = Level(s, r, d + 1) BY DEF Adding
<1>2. /\ \A k \in 1 .. d - 1 : Level(t, q, k) = Level(s, r, k)
                               /\ ItemOf(g, Level(s, r, k)) = ItemOf(h, Level(s, r, k))
      /\ d # 0 => Lines(g, q) = Lines(h, r)
  BY DEF Adding
<1>3. Lines(g, c) = Lines(h, b) \o ItemOf(h, x) BY DEF Adding
<1>4. /\ d + 1 \in 0 .. d + 1 /\ d + 1 \in 1 .. d + 1 /\ (d + 1) - 1 = d /\ d \in 0 .. d + 1
      /\ \A k \in 0 .. d : k \in 0 .. d + 1
  BY <1>1
<1>5. /\ F[0] = Lines(h, r) /\ \A k \in 0 .. d + 1 : F[k] \in Seq(AnyLine)
      /\ \A k \in 1 .. d + 1 : F[k] = F[k - 1] \o ItemOf(h, Level(s, r, k))
      /\ F[d + 1] = LinesBefore \o LinesTo[n - 1]
  BY DEF Dumped
<1>6. F[d + 1] = F[d] \o ItemOf(h, x) BY <1>1, <1>4, <1>5
<1>7. PICK H : H = [k \in 0 .. d |-> IF k = d THEN F[d + 1] ELSE F[k]] OBVIOUS
<1>8. H[d] = F[d + 1] /\ \A k \in 0 .. d : k # d => H[k] = F[k] BY <1>1, <1>7
<1>9. \A k \in 0 .. d : H[k] \in Seq(AnyLine) BY <1>4, <1>5, <1>8
<1>10. H[0] = Lines(g, q)
  <2>1. 0 \in 0 .. d BY <1>1
  <2>2. CASE d = 0
    <3>1. c = q /\ b = r BY <1>1, <2>2 DEF Level
    <3>2. H[0] = F[0] \o ItemOf(h, x) BY <1>6, <1>8, <2>2
    <3> QED BY <1>3, <1>5, <3>1, <3>2
  <2>3. CASE d # 0 BY <1>2, <1>5, <1>8, <2>1, <2>3
  <2> QED BY <2>2, <2>3
<1>11. ASSUME NEW k \in 1 .. d PROVE H[k] = H[k - 1] \o ItemOf(g, Level(t, q, k))
  <2>1. k \in 0 .. d /\ k - 1 \in 0 .. d /\ k - 1 # d /\ k \in 1 .. d + 1 BY <1>1
  <2>2. F[k] = F[k - 1] \o ItemOf(h, Level(s, r, k)) BY <1>5, <2>1
  <2>3. CASE k # d
    <3>1. k \in 1 .. d - 1 BY <1>1, <2>3
    <3> QED BY <1>2, <1>8, <2>1, <2>2, <2>3, <3>1
  <2>4. CASE k = d
    <3>1. d # 0 BY <1>1, <2>4
    <3>2. /\ Line(c) = Line(b) /\ ItemOf(g, c) = <<Line(c)>> \o Lines(g, c)
          /\ ItemOf(h, b) = <<Line(b)>> \o Lines(h, b)
          /\ Lines(h, b) \in Seq(AnyLine) /\ ItemOf(h, x) \in Seq(AnyLine)
      BY <3>1 DEF Adding
    <3>3. <<Line(b)>> \in Seq({Line(b)})
      <4>1. PICK y : y = Line(b) OBVIOUS
      <4>2. <<y>> \in Seq({y}) OBVIOUS
      <4> QED BY <4>1, <4>2
    <3>4. (<<Line(b)>> \o Lines(h, b)) \o ItemOf(h, x) = <<Line(b)>> \o (Lines(h, b) \o ItemOf(h, x))
      <4>1. PICK y : y = <<Line(b)>> OBVIOUS
      <4>2. PICK S : S = {Line(b)} \cup AnyLine OBVIOUS
      <4>3. PICK u : u = Lines(h, b) OBVIOUS
      <4>4. PICK v : v = ItemOf(h, x) OBVIOUS
      <4>5. y \in Seq(S) /\ u \in Seq(S) /\ v \in Seq(S) BY <3>2, <3>3, <4>1, <4>2, <4>3, <4>4
      <4>6. (y \o u) \o v = y \o (u \o v) BY <4>5, SMTT(30)
      <4> QED BY <4>1, <4>3, <4>4, <4>6
    <3>5. ItemOf(g, c) = ItemOf(h, b) \o ItemOf(h, x) BY <1>3, <3>2, <3>4
    <3>6. F[d] = F[d - 1] \o ItemOf(h, b) BY <1>1, <2>2, <2>4
    <3>7. F[d - 1] \in Seq(AnyLine) BY <1>4, <1>5, <2>1, <2>4
    <3>8. ItemOf(h, b) \in Seq({Line(b)} \cup AnyLine)
      <4>1. PICK y : y = Line(b) OBVIOUS
      <4>2. PICK S : S = {y} \cup AnyLine OBVIOUS
      <4>3. <<y>> \in Seq(S) BY <4>2
      <4>4. Lines(h, b) \in Seq(S) BY <3>2, <4>2
      <4>5. <<y>> \o Lines(h, b) \in Seq(S) BY <4>3, <4>4
      <4> QED BY <3>2, <4>1, <4>2, <4>5
    <3>9. (F[d - 1] \o ItemOf(h, b)) \o ItemOf(h, x) = F[d - 1] \o (ItemOf(h, b) \o ItemOf(h, x))
      <4>1. PICK y : y = F[d - 1] OBVIOUS
      <4>2. PICK S : S = {Line(b)} \cup AnyLine OBVIOUS
      <4>3. PICK u : u = ItemOf(h, b) OBVIOUS
      <4>4. PICK v : v = ItemOf(h, x) OBVIOUS
      <4>5. y \in Seq(S) /\ u \in Seq(S) /\ v \in Seq(S) BY <3>2, <3>7, <3>8, <4>1, <4>2, <4>3, <4>4
      <4>6. (y \o u) \o v = y \o (u \o v) BY <4>5
      <4> QED BY <4>1, <4>3, <4>4, <4>6
    <3>10. H[d] = F[d - 1] \o ItemOf(g, c) BY <1>6, <1>8, <3>5, <3>6, <3>9
    <3>11. H[d - 1] = F[d - 1] BY <1>8, <2>1, <2>4
    <3> QED BY <1>1, <2>4, <3>10, <3>11
  <2> QED BY <2>3, <2>4
<1>12. Dumped(H, d, n, g, t, q) BY <1>5, <1>8, <1>9, <1>10, <1>11 DEF Dumped
<1> QED BY <1>12

-----------------------------------------------------------------------------
(* The steps of parse.                                                     *)

\* The heap while parse is at work.
LEMMA HeapSound == ASSUME MemoryInv, work = <<>> PROVE Sound(heap)
<1>1. \A b \in DOMAIN heap : heap[b] \in Block BY DEF MemoryInv, Shape, TypeOK
<1>2. ASSUME NEW b \in DOMAIN heap, NEW n \in 1 .. Len(heap[b].elems), heap[b].elems[n].ptr # NULL
      PROVE  heap[b].elems[n].ptr \in DOMAIN heap
  BY <1>2, ElementsLive
<1> QED BY <1>1, <1>2 DEF Sound

\* What parse has read when it is at work, and what it knows of the levels.
LEMMA DumpNow ==
  ASSUME MemoryInv, MeaningInv, EndInv, PlaceInv, DumpInv, pc \in Parsing
  PROVE  /\ tokens \in Seq(Token) /\ i \in Nat \ {0} /\ work = <<>> /\ stack \in Seq(Entry)
         /\ Len(stack) \in Nat /\ root \in Entry /\ (stack # <<>> => Len(stack) # 0)
         /\ Nested(heap) /\ Sound(heap) /\ LinesBefore \in Seq(AnyLine)
         /\ \E F : Dumped(F, Begun(pc, stack), i, heap, stack, root)
         /\ \A k \in 0 .. Len(stack) : /\ Level(stack, root, k) \in Entry
                                       /\ Level(stack, root, k).ptr # NULL =>
                                            Level(stack, root, k).ptr \in DOMAIN heap
<1>1. /\ tokens \in Seq(Token) /\ i \in Nat \ {0} /\ work = <<>> /\ stack \in Seq(Entry)
      /\ Len(stack) \in Nat /\ (stack # <<>> => Len(stack) # 0)
  BY PlacesNow
<1>2. Nested(heap) /\ Sound(heap) BY <1>1, HeapSound DEF EndInv
<1>3. LinesBefore \in Seq(AnyLine) /\ \E F : Dumped(F, Begun(pc, stack), i, heap, stack, root)
  BY DEF DumpInv, Dumping
<1>4. root \in Entry BY DEF MemoryInv, Shape, TypeOK
<1>5. ASSUME NEW k \in 0 .. Len(stack)
      PROVE  /\ Level(stack, root, k) \in Entry
             /\ Level(stack, root, k).ptr # NULL => Level(stack, root, k).ptr \in DOMAIN heap
  <2>1. Level(stack, root, k) \in Entry
    <3>1. CASE k = 0 BY <1>4, <3>1 DEF Level
    <3>2. CASE k # 0
      <4>1. Len(stack) + 1 - k \in 1 .. Len(stack) BY <1>1, <3>2
      <4>2. stack[Len(stack) + 1 - k] \in Entry BY <1>1, <4>1
      <4> QED BY <3>2, <4>2 DEF Level, Nth
    <3> QED BY <3>1, <3>2
  <2> QED BY <2>1, LevelOwned
<1> QED BY <1>1, <1>2, <1>3, <1>4, <1>5

\* Steps of parse that read on.
LEMMA DumpsOn ==
  ASSUME UNCHANGED <<tokens, was>>, pc' \in Parsing, LinesBefore \in Seq(AnyLine),
         Dumping(pc', i', heap', stack', root')
  PROVE  DumpInv'
<1>1. LinesBefore' = LinesBefore BY DEF LinesBefore
<1>2. LinesTo' = LinesTo BY SamePlaces
<1>3. Dumping(pc, i, heap, stack, root)' BY <1>1, <1>2 DEF Dumping, Dumped
<1>4. pc' \notin {"done", "returned"} BY DEF Parsing
<1>5. LinesBefore' \in Seq(AnyLine) BY <1>1
<1> QED BY <1>3, <1>4, <1>5 DEF DumpInv

\* A function that returns an error.
LEMMA FailDumps == ASSUME pc' = "unwind" PROVE DumpInv'
BY DEF DumpInv, Parsing

\* The steps that read no value.
Quiet ==
  /\ pc \in Parsing /\ pc' \in Parsing /\ UNCHANGED <<tokens, root, heap>>
  /\ Begun(pc', stack') = Begun(pc, stack) /\ Begun(pc, stack) \in Nat
  /\ \A k \in 1 .. Begun(pc, stack) : Nth(stack', k) = Nth(stack, k)
  /\ i' = i \/ (i' = i + 1 /\ i \in 1 .. Len(tokens) /\ i \notin Values)

LEMMA QuietSteps ==
  ASSUME MemoryInv, MeaningInv, PlaceInv, pc' # "unwind",
         ParseKey \/ ParseSeparator \/ ParseValueEnd \/ ParseLoop \/ ParseAfter
  PROVE  Quiet
<1>1. /\ pc \in {"pair", "sep", "end", "loop", "after"} /\ pc \in Parsing /\ UNCHANGED <<tokens, root, heap>>
      /\ pc' \in Parsing
  BY DEF ParseKey, ParseSeparator, ParseValueEnd, ParseLoop, ParseAfter, PopDelim, Fail, AtPair, tree,
    Parsing
<1>2. /\ tokens \in Seq(Token) /\ i \in Nat \ {0} /\ stack \in Seq(Entry) /\ Len(stack) \in Nat
  BY <1>1, PlacesNow
<1>3. ASSUME ~NoneLeft, tokens[i].kind # "value", ~IsBracket(Openers, i)
      PROVE  i \in 1 .. Len(tokens) /\ i \notin Values
  <2>1. i \in 1 .. Len(tokens) BY <1>3, AtToken
  <2> QED BY <1>2, <1>3, <2>1, TokenNumbers
<1>4. ASSUME NEW c \in {kKeyValSep, kKeyValEnd, kListEnd, kTableEnd}, ExpectDelim(c)
      PROVE  i \in 1 .. Len(tokens) /\ i \notin Values
  <2>1. ~NoneLeft /\ tokens[i].kind # "value" /\ ~IsBracket(Openers, i)
    BY <1>4 DEF ExpectDelim, Expect, IsBracket, Openers, kKeyValSep, kKeyValEnd, kListBegin, kTableBegin,
      kListEnd, kTableEnd
  <2> QED BY <1>3, <2>1
<1>5. Closer \in {kKeyValSep, kKeyValEnd, kListEnd, kTableEnd} BY DEF Closer
<1>6. Begun(pc, stack) = Len(stack) BY <1>1 DEF Begun
<1>7. ASSUME stack' = stack, pc' # "value",
             i' = i \/ (i' = i + 1 /\ i \in 1 .. Len(tokens) /\ i \notin Values)
      PROVE  Quiet
  BY <1>1, <1>2, <1>6, <1>7 DEF Quiet, Begun
<1>8. ASSUME NEW e \in Entry, stack' = <<e>> \o stack, pc' = "value",
             i' = i \/ (i' = i + 1 /\ i \in 1 .. Len(tokens) /\ i \notin Values)
      PROVE  Quiet
  <2>1. PICK t : t = stack' OBVIOUS
  <2>2. t \in Seq(Entry) /\ t # <<>> /\ Tail(t) = stack BY <1>2, <1>8, <2>1, Pushed
  <2>3. Len(t) = Len(stack) + 1 /\ \A k \in 1 .. Len(stack) : Nth(t, k) = Nth(stack, k)
    BY <1>2, <2>2, NthPush
  <2>4. Begun("value", t) = Len(stack) BY <1>2, <2>3 DEF Begun
  <2> QED BY <1>1, <1>2, <1>6, <1>8, <2>1, <2>3, <2>4 DEF Quiet
<1>9. CASE ParseKey
  <2>1. Expect("key") /\ stack' = stack /\ i' = i + 1 /\ pc' = "sep"
    BY <1>9 DEF ParseKey, Fail, Pop
  <2>2. ~NoneLeft /\ tokens[i].kind # "value" /\ ~IsBracket(Openers, i)
    BY <2>1 DEF Expect, IsBracket
  <2> QED BY <1>3, <1>7, <2>1, <2>2
<1>10. CASE ParseSeparator
  <2>1. ExpectDelim(kKeyValSep) /\ stack' = <<Undefined(key)>> \o stack /\ i' = i + 1 /\ pc' = "value"
    BY <1>10 DEF ParseSeparator, Fail, Pop
  <2>2. Undefined(key) \in Entry
    <3>1. key \in Keys \cup {NoKey} BY DEF MemoryInv, Shape, TypeOK
    <3> QED BY <3>1 DEF Undefined, Entry, NULL
  <2> QED BY <1>4, <1>8, <2>1, <2>2
<1>11. CASE ParseValueEnd
  <2>1. ExpectDelim(kKeyValEnd) /\ stack' = stack /\ i' = i + 1 /\ pc' = "append"
    BY <1>11 DEF ParseValueEnd, PopDelim, Fail, Pop, tree
  <2> QED BY <1>4, <1>7, <2>1
<1>12. CASE ParseLoop
  <2>1. CASE ExpectDelim(Closer)
    <3>1. i' = i + 1 /\ pc' = "end" /\ stack' = stack BY <1>12, <2>1 DEF ParseLoop, Pop
    <3> QED BY <1>4, <1>5, <1>7, <2>1, <3>1
  <2>2. CASE ~ExpectDelim(Closer) /\ Head(stack).kind # "list"
    <3>1. stack' = stack /\ pc' = "pair" /\ i' = i BY <1>12, <2>2 DEF ParseLoop
    <3> QED BY <1>7, <3>1
  <2>3. CASE ~ExpectDelim(Closer) /\ Head(stack).kind = "list"
    <3>1. stack' = <<Undefined(NoKey)>> \o stack /\ pc' = "value" /\ i' = i BY <1>12, <2>3 DEF ParseLoop
    <3>2. Undefined(NoKey) \in Entry BY DEF Undefined, Entry, NULL
    <3> QED BY <1>8, <3>1, <3>2
  <2> QED BY <2>1, <2>2, <2>3
<1>13. CASE ParseAfter
  <2>1. stack' = stack /\ pc' # "value" /\ (i' = i \/ (i' = i + 1 /\ ExpectDelim(Closer)))
    BY <1>13 DEF ParseAfter, Pop, tree
  <2> QED BY <1>4, <1>5, <1>7, <2>1
<1> QED BY <1>9, <1>10, <1>11, <1>12, <1>13

\* The steps that read no value: the lines.
LEMMA QuietDumps ==
  ASSUME MemoryInv, MeaningInv, EndInv, PlaceInv, DumpInv, Quiet, was' = was PROVE DumpInv'
<1>1. PICK e : e = Begun(pc, stack) OBVIOUS
<1>2. PICK t : t = stack' OBVIOUS
<1>3. /\ pc \in Parsing /\ pc' \in Parsing /\ UNCHANGED <<tokens, root, heap>> /\ e \in Nat
      /\ Begun(pc', t) = e /\ \A k \in 1 .. e : Nth(t, k) = Nth(stack, k)
      /\ i' = i \/ (i' = i + 1 /\ i \in 1 .. Len(tokens) /\ i \notin Values)
  BY <1>1, <1>2 DEF Quiet
<1>4. tokens \in Seq(Token) /\ i \in Nat \ {0} /\ LinesBefore \in Seq(AnyLine) BY <1>3, DumpNow
<1>5. PICK F : Dumped(F, e, i, heap, stack, root) BY <1>1, <1>3, DumpNow
<1>6. \A k \in 1 .. e : Level(t, root, k) = Level(stack, root, k) BY <1>3 DEF Level
<1>7. /\ Dumped(F, e, i, heap, t, root)
      /\ i \in 1 .. Len(tokens) /\ i \notin Values => Dumped(F, e, i + 1, heap, t, root)
  BY <1>3, <1>4, <1>5, <1>6, DumpQuiet
<1>8. Dumped(F, e, i', heap, t, root) BY <1>3, <1>7
<1>9. Dumping(pc', i', heap', stack', root') BY <1>2, <1>3, <1>8 DEF Dumping
<1> QED BY <1>3, <1>4, <1>9, DumpsOn

\* parse_list_value, parse_table_value and parse_simple_value: the lines.
LEMMA ValueDumps ==
  ASSUME MemoryInv, MeaningInv, EndInv, PlaceInv, DumpInv, was' = was,
         ParseList \/ ParseTable \/ ParseString \/ ParseScalar
  PROVE  DumpInv'
<1>1. PICK kind, data, p, q : ReadsValue(kind, data, p, q) BY ValueSteps
<1>2. PICK t : t = stack' OBVIOUS
<1>3. PICK g : g = heap' OBVIOUS
<1>4. PICK e : e = Len(stack) - 1 OBVIOUS
<1>5. /\ pc = "value" /\ pc \in Parsing /\ pc' = q /\ q \in {"loop", "end"} /\ pc' \in Parsing
      /\ ~NoneLeft /\ Out(kind, data, p) /\ Begins(kind, data, p, q)
      /\ kind \in {"string", "integer", "boolean", "list", "table"}
      /\ data \in Literals \cup {NoData} /\ p \in Nat
      /\ i' = i + 1 /\ UNCHANGED <<tokens, root>>
      /\ \A b \in DOMAIN heap : b \in DOMAIN g /\ g[b] = heap[b]
  BY <1>1, <1>3 DEF ReadsValue, Parsing
<1>6. stack # <<>> BY <1>5 DEF MemoryInv, Shape, Control
<1>7. /\ tokens \in Seq(Token) /\ i \in Nat \ {0} /\ stack \in Seq(Entry) /\ root \in Entry
      /\ Len(stack) \in Nat /\ Len(stack) # 0
      /\ Nested(heap) /\ Sound(heap) /\ LinesBefore \in Seq(AnyLine)
      /\ \A k \in 0 .. Len(stack) : Level(stack, root, k).ptr # NULL =>
           Level(stack, root, k).ptr \in DOMAIN heap
  BY <1>5, <1>6, DumpNow
<1>8. e \in Nat /\ Len(stack) = e + 1 BY <1>4, <1>7
<1>9. PICK F : Dumped(F, e, i, heap, stack, root)
  <2>1. Begun("value", stack) = e BY <1>4 DEF Begun
  <2> QED BY <1>5, <2>1, DumpNow
<1>10. /\ t \in Seq(Entry) /\ t # <<>> /\ Tail(t) = Tail(stack) /\ Head(t).ptr = p
       /\ Head(t).kind = kind /\ Head(t) \in Entry
  BY <1>2, <1>5, <1>6, <1>7, OutStep
<1>11. /\ Len(t) = e + 1 /\ \A k \in 1 .. e : Nth(t, k) = Nth(stack, k)
       /\ Nth(t, e + 1) = Head(t)
  BY <1>4, <1>6, <1>7, <1>8, <1>10, NthTop
<1>12. /\ \A k \in 1 .. e : Level(t, root, k) = Level(stack, root, k)
       /\ Level(t, root, e + 1) = Head(t)
  <2>1. e + 1 # 0 /\ \A k \in 1 .. e : k # 0 BY <1>8
  <2> QED BY <1>11, <2>1 DEF Level
<1>13. i \in Values /\ Line(Head(t)) = LineAt(i) BY <1>2, <1>3, <1>5, ValueRead
<1>14. ~HasLines(Head(t)) \/ Head(t).ptr = NULL
  <2>1. CASE IsBracket(Openers, i)
    <3>1. p = NULL BY <1>5, <2>1 DEF Begins, IsBracket
    <3> QED BY <1>10, <3>1
  <2>2. CASE ~IsBracket(Openers, i)
    <3>1. tokens[i].kind = "value" /\ kind = IF Class[tokens[i].sym] = "raw" THEN "string" ELSE Class[tokens[i].sym]
      BY <1>5, <2>2 DEF Begins
    <3>2. tokens[i].sym \in Literals BY <1>5, <3>1, CurrentToken
    <3>3. kind \notin {"list", "table"} BY <3>1, <3>2, ParserAssumption DEF Classes
    <3> QED BY <1>10, <3>3 DEF HasLines
  <2> QED BY <2>1, <2>2
<1>15. ItemOf(g, Head(t)) = <<Line(Head(t))>> BY <1>14, LineOnly
<1>16. PICK l : l = Line(Head(t)) OBVIOUS
<1>17. l \in AnyLine BY <1>10, <1>16 DEF Line, AnyLine, Entry
<1>18. /\ Lines(g, root) = Lines(heap, root)
       /\ \A k \in 1 .. e : ItemOf(g, Level(stack, root, k)) = ItemOf(heap, Level(stack, root, k))
  <2>1. CASE heap' = heap BY <1>3, <2>1
  <2>2. CASE ParseString /\ fresh \notin DOMAIN heap
    <3>1. Grows(heap, g, fresh) /\ Nested(g) BY <1>3, <2>2, StringGrows, ParseStringNested
    <3>2. ASSUME NEW k \in 0 .. e
          PROVE  /\ Lines(g, Level(stack, root, k)) = Lines(heap, Level(stack, root, k))
                 /\ ItemOf(g, Level(stack, root, k)) = ItemOf(heap, Level(stack, root, k))
      <4>1. PICK c : c = Level(stack, root, k) OBVIOUS
      <4>2. k \in 0 .. Len(stack) BY <1>8
      <4>3. c.ptr # NULL => c.ptr \in DOMAIN g \ {fresh} BY <1>5, <1>7, <2>2, <4>1, <4>2
      <4>4. Lines(g, c) = Lines(heap, c) /\ ItemOf(g, c) = ItemOf(heap, c)
        BY <1>7, <3>1, <4>3, LinesStay
      <4> QED BY <4>1, <4>4
    <3>3. Level(stack, root, 0) = root /\ 0 \in 0 .. e /\ \A k \in 1 .. e : k \in 0 .. e
      BY <1>8 DEF Level
    <3> QED BY <3>2, <3>3
  <2> QED BY <1>1, <2>1, <2>2 DEF ReadsValue
<1>19. PICK H : Dumped(H, e + 1, i + 1, g, t, root)
  <2>1. l = LineAt(i) /\ ItemOf(g, Level(t, root, e + 1)) = <<l>> BY <1>12, <1>13, <1>15, <1>16
  <2>2. Beginning(e, i, heap, stack, root, g, t, l)
    BY <1>8, <1>12, <1>13, <1>17, <1>18, <2>1 DEF Beginning
  <2> QED BY <1>7, <1>9, <2>2, DumpValue
<1>20. Begun(q, t) = e + 1 BY <1>5, <1>11 DEF Begun
<1>21. Dumping(pc', i', heap', stack', root') BY <1>2, <1>3, <1>5, <1>19, <1>20 DEF Dumping
<1> QED BY <1>5, <1>7, <1>21, DumpsOn

\* list_append and table_append: the lines.
LEMMA AppendDumps ==
  ASSUME MemoryInv, MeaningInv, EndInv, PlaceInv, DumpInv, AppendValue, was' = was PROVE DumpInv'
<1>0. SUFFICES ASSUME NEW d, d = Len(stack) - 1, NEW t, t = stack', NEW q, q = root',
                      NEW g, g = heap', NEW c, c = Level(t, q, d)
               PROVE  DumpInv'
  OBVIOUS
<1>1. /\ pc = "append" /\ pc \in Parsing /\ UNCHANGED <<tokens, i>>
      /\ pc' \in {"pair", "after"} /\ pc' \in Parsing
  BY DEF AppendValue, Parsing
<1>2. /\ tokens \in Seq(Token) /\ i \in Nat \ {0} /\ stack \in Seq(Entry) /\ root \in Entry
      /\ Nested(heap) /\ Sound(heap) /\ LinesBefore \in Seq(AnyLine)
      /\ \A k \in 0 .. Len(stack) : /\ Level(stack, root, k) \in Entry
                                    /\ Level(stack, root, k).ptr # NULL =>
                                         Level(stack, root, k).ptr \in DOMAIN heap
  BY <1>1, DumpNow
<1>3. /\ d \in Nat /\ Len(t) = d /\ Len(stack) = d + 1
      /\ Level(stack, root, d) = Target /\ Nth(stack, d + 1) = Head(stack)
  BY <1>0, AppendLevels, AppendTarget
<1>4. \A k \in 0 .. d : k < d => Level(t, q, k) = Level(stack, root, k)
  BY <1>0, AppendLevels
<1>5. /\ g[Moved] = Filled /\ Moved \in DOMAIN g /\ Moved # NULL /\ Target \in Entry
      /\ Elems(Target.ptr) \in Seq(Entry) /\ Head(stack) \in Entry
      /\ Target.ptr # NULL => Target.ptr \in DOMAIN heap
  BY <1>0, AppendFacts DEF NULL
<1>6. c = [Target EXCEPT !.ptr = Moved] BY <1>0, AppendLevel
<1>7. c.ptr = Moved /\ c.key = Target.key /\ c.kind = Target.kind /\ c.data = Target.data /\ c \in Entry
  <2>1. Moved \in Nat BY AppendFacts
  <2> QED BY <1>5, <1>6, <2>1 DEF Entry
<1>8. Grows(heap, g, Moved) /\ Nested(g) BY <1>0, AppendGrows, AppendValueNested
<1>9. Sound(g) BY <1>2, <1>8, DumpsStay
<1>10. PICK x : x = Head(stack) OBVIOUS
<1>11. PICK b : b = Target OBVIOUS
<1>12. b = Level(stack, root, d) /\ x = Level(stack, root, d + 1) /\ b \in Entry /\ x \in Entry
  <2>1. d + 1 # 0 BY <1>3
  <2> QED BY <1>3, <1>5, <1>10, <1>11, <2>1 DEF Level
<1>13. Lines(g, c) = Lines(heap, b) \o ItemOf(heap, x)
  <2>1. g[Moved].elems = Append(ElemsIn(heap, b.ptr), x)
    BY <1>5, <1>10, <1>11 DEF Filled, Elems, ElemsIn
  <2>2. b.ptr # NULL => b.ptr \in DOMAIN heap BY <1>5, <1>11
  <2>3. PICK m : m = Moved OBVIOUS
  <2>4. g[m].elems = Append(ElemsIn(heap, b.ptr), x) /\ c.ptr = m /\ m # NULL BY <1>5, <1>7, <2>1, <2>3
  <2>5. Grows(heap, g, m) BY <1>8, <2>3
  <2>6. Appending(heap, g, m, b, x, c) BY <1>2, <1>8, <1>12, <2>2, <2>4, <2>5 DEF Appending
  <2> QED BY <2>6, LinesAppend
<1>14. Lines(heap, b) \in Seq(AnyLine) /\ ItemOf(heap, x) \in Seq(AnyLine)
       /\ (HasLines(b) => ItemOf(heap, b) = <<Line(b)>> \o Lines(heap, b))
  <2>1. d \in 0 .. Len(stack) /\ d + 1 \in 0 .. Len(stack) BY <1>3
  <2>2. (b.ptr # NULL => b.ptr \in DOMAIN heap) /\ (x.ptr # NULL => x.ptr \in DOMAIN heap)
    BY <1>2, <1>12, <2>1
  <2> QED BY <1>2, <1>12, <2>2, LinesTypes
<1>15. ASSUME NEW k \in 0 .. d, k < d
       PROVE  /\ Lines(g, Level(stack, root, k)) = Lines(heap, Level(stack, root, k))
              /\ ItemOf(g, Level(stack, root, k)) = ItemOf(heap, Level(stack, root, k))
  <2>1. PICK y : y = Level(stack, root, k) OBVIOUS
  <2>2. PICK place : place = <<0, k>> OBVIOUS
  <2>3. k \in 0 .. Len(stack) BY <1>3
  <2>4. Own(place, y) \subseteq Owners BY <2>1, <2>2, <2>3, LevelOwned
  <2>5. place # IF Len(stack) = 1 THEN <<0, 0>> ELSE <<0, Len(stack) - 1>>
    <3>1. Len(stack) # 1 /\ k # Len(stack) - 1 BY <1>3, <1>15
    <3> QED BY <2>2, <3>1
  <2>6. y.ptr # NULL => y.ptr \in DOMAIN g \ {Moved} BY <1>0, <2>4, <2>5, AppendElsewhere
  <2>7. Lines(g, y) = Lines(heap, y) /\ ItemOf(g, y) = ItemOf(heap, y) BY <1>2, <1>8, <2>6, LinesStay
  <2> QED BY <2>1, <2>7
<1>16. Line(c) = Line(b) BY <1>7, <1>11 DEF Line
<1>17. ASSUME d # 0 PROVE HasLines(b)
  <2>1. Arrays(Tail(stack)) /\ stack # <<>> BY <1>1 DEF MemoryInv, Shape, Control
  <2>2. Len(stack) > 1 /\ Nth(stack, d) = stack[2] BY <1>3, <1>17 DEF Nth
  <2>3. 1 \in DOMAIN Tail(stack) /\ Tail(stack)[1] = stack[2] BY <1>2, <2>1, <2>2, LenProperties
  <2>4. stack[2].kind \in {"list", "table"} BY <2>1, <2>3 DEF Arrays
  <2>5. b = stack[2] BY <1>12, <1>17, <2>2 DEF Level
  <2> QED BY <2>4, <2>5 DEF HasLines
<1>18. d # 0 => /\ Lines(g, q) = Lines(heap, root)
                /\ ItemOf(g, c) = <<Line(c)>> \o Lines(g, c)
                /\ ItemOf(heap, b) = <<Line(b)>> \o Lines(heap, b)
  <2> SUFFICES ASSUME d # 0 PROVE /\ Lines(g, q) = Lines(heap, root)
                                  /\ ItemOf(g, c) = <<Line(c)>> \o Lines(g, c)
                                  /\ ItemOf(heap, b) = <<Line(b)>> \o Lines(heap, b)
    OBVIOUS
  <2>1. 0 \in 0 .. d /\ 0 < d BY <1>3
  <2>2. Level(t, q, 0) = q /\ Level(stack, root, 0) = root BY DEF Level
  <2>3. q = root BY <1>4, <2>1, <2>2
  <2>4. Lines(g, q) = Lines(heap, root) BY <1>15, <2>1, <2>2, <2>3
  <2>5. HasLines(b) /\ HasLines(c) BY <1>7, <1>11, <1>17 DEF HasLines
  <2>6. c.ptr # NULL => c.ptr \in DOMAIN g BY <1>5, <1>7
  <2>7. ItemOf(g, c) = <<Line(c)>> \o Lines(g, c) BY <1>7, <1>8, <1>9, <2>5, <2>6, LinesTypes
  <2> QED BY <1>14, <2>4, <2>5, <2>7
<1>19. Adding(d, heap, stack, root, g, t, q, b, c, x)
  <2>1. ASSUME NEW k \in 1 .. d - 1
        PROVE  /\ Level(t, q, k) = Level(stack, root, k)
               /\ ItemOf(g, Level(stack, root, k)) = ItemOf(heap, Level(stack, root, k))
    <3>1. k \in 0 .. d /\ k < d BY <1>3
    <3> QED BY <1>4, <1>15, <3>1
  <2> QED BY <1>0, <1>3, <1>12, <1>13, <1>14, <1>16, <1>18, <2>1 DEF Adding
<1>20. PICK F : Dumped(F, d + 1, i, heap, stack, root)
  <2>1. Begun("append", stack) = d + 1 BY <1>3 DEF Begun
  <2> QED BY <1>1, <2>1, DumpNow
<1>21. PICK H : Dumped(H, d, i, g, t, q) BY <1>19, <1>20, DumpStore
<1>22. Begun(pc', t) = d BY <1>1, <1>3 DEF Begun
<1>23. Dumping(pc', i', heap', stack', root') BY <1>0, <1>1, <1>21, <1>22 DEF Dumping
<1> QED BY <1>1, <1>2, <1>23, DumpsOn

-----------------------------------------------------------------------------
(* The first and the last step, and the others.                            *)

\* When parse is at no value, the lines are those of the caller's table.
LEMMA DumpNone ==
  ASSUME NEW F, NEW n, NEW h, NEW s, NEW r, Dumped(F, 0, n, h, s, r)
  PROVE  Lines(h, r) = LinesBefore \o LinesTo[n - 1]
BY DEF Dumped

\* Steps outside of parse.
LEMMA DumpsEnd ==
  ASSUME UNCHANGED <<tokens, was, root, heap>>, pc' \notin Parsing,
         pc' \in {"done", "returned"} /\ error' = "none" =>
           Lines(heap, root) = LinesBefore \o LinesTo[Len(tokens)]
  PROVE  DumpInv'
<1>1. LinesBefore' = LinesBefore BY DEF LinesBefore
<1>2. LinesTo' = LinesTo BY SamePlaces
<1> QED BY <1>1, <1>2 DEF DumpInv

\* scan returned NULL: nothing has been read.
LEMMA ScanDoneDumps ==
  ASSUME MemoryInv, GrammarInv, MeaningInv, EndInv, ScanDone, was' = was PROVE DumpInv'
<1>1. /\ pc = "scan" /\ pc' = "pair" /\ UNCHANGED <<tokens, i, stack, root, heap>>
      /\ heap = was.heap /\ root = was.root
      /\ i = 1 /\ stack = <<>> /\ Len(<<>>) = 0 /\ tokens \in Seq(Token) /\ work = <<>>
  BY DEF ScanDone, tree, MeaningInv, GrammarInv, MemoryInv, Shape, TypeOK, Control
<1>2. LinesBefore \in Seq(AnyLine)
  <2>1. Nested(heap) /\ Sound(heap) BY <1>1, HeapSound DEF EndInv
  <2>2. root \in Entry BY DEF MemoryInv, Shape, TypeOK
  <2>3. root.ptr # NULL => root.ptr \in DOMAIN heap BY <2>2, HeldBlocks, HeldElems
  <2>4. PICK r : r = root OBVIOUS
  <2>5. Lines(heap, r) \in Seq(AnyLine) BY <2>1, <2>2, <2>3, <2>4, LinesTypes
  <2> QED BY <1>1, <2>4, <2>5 DEF LinesBefore
<1>3. LinesTo[0] = <<>> BY <1>1, LinesToNext
<1>4. LinesBefore \o <<>> = LinesBefore
  <2>1. PICK a : a = LinesBefore OBVIOUS
  <2>2. PICK S : S = AnyLine OBVIOUS
  <2>3. a \in Seq(S) BY <1>2, <2>1, <2>2
  <2>4. a \o <<>> = a BY <2>3
  <2> QED BY <2>1, <2>4
<1>5. PICK F : F = [k \in {0} |-> LinesBefore] OBVIOUS
<1>6. F[0] = LinesBefore BY <1>5
<1>7. 0 .. 0 = {0} /\ 1 .. 0 = {} /\ 1 - 1 = 0 OBVIOUS
<1>8. Lines(heap, root) = LinesBefore BY <1>1 DEF LinesBefore
<1>9. Dumped(F, 0, 1, heap, stack, root) BY <1>2, <1>3, <1>4, <1>6, <1>7, <1>8 DEF Dumped
<1>10. Begun("pair", stack) = 0 BY <1>1 DEF Begun
<1>11. Dumping(pc', i', heap', stack', root') BY <1>1, <1>9, <1>10 DEF Dumping
<1> QED BY <1>1, <1>2, <1>11, DumpsOn DEF Parsing

\* parse returned NULL: every token has been read.
LEMMA DoneDumps ==
  ASSUME MemoryInv, MeaningInv, PlaceInv, DumpInv, Done, was' = was PROVE DumpInv'
<1>1. /\ pc = "pair" /\ pc \in Parsing /\ pc' = "done" /\ stack = <<>> /\ Len(<<>>) = 0 /\ NoneLeft
      /\ UNCHANGED <<tokens, i, heap, root>>
  BY DEF Done, tree, Parsing
<1>2. i = Len(tokens) + 1 /\ Len(tokens) \in Nat
  <2>1. tokens \in Seq(Token) /\ i \in Nat /\ i <= Len(tokens) + 1 BY <1>1, PlacesNow
  <2> QED BY <1>1, <2>1, TokenNumbers DEF NoneLeft
<1>3. i - 1 = Len(tokens) BY <1>2
<1>4. Begun("pair", stack) = 0 BY <1>1 DEF Begun
<1>5. PICK F : Dumped(F, 0, i, heap, stack, root) BY <1>1, <1>4 DEF DumpInv, Dumping
<1>6. Lines(heap, root) = LinesBefore \o LinesTo[i - 1] BY <1>5, DumpNone
<1>7. Lines(heap, root) = LinesBefore \o LinesTo[Len(tokens)] BY <1>3, <1>6
<1>8. pc' \notin Parsing BY <1>1 DEF Parsing
<1> QED BY <1>1, <1>7, <1>8, DumpsEnd

\* The steps of scan, and those after parse: the lines.
LEMMA OtherDumps ==
  ASSUME MemoryInv, MeaningInv, PlaceInv, DumpInv,
         \/ Emit \/ ScanFailed \/ KevsParseAgain
         \/ (KevsReturn \/ Release) /\ was' = was
  PROVE  DumpInv'
<1>1. CASE Emit BY <1>1 DEF Emit, tree, DumpInv, Parsing
<1>2. CASE ScanFailed BY <1>2 DEF ScanFailed, DumpInv, Parsing
<1>3. CASE KevsParseAgain BY <1>3 DEF KevsParseAgain, DumpInv, Parsing
<1>4. CASE KevsReturn /\ was' = was
  <2>1. /\ pc' = "returned" /\ pc \in {"done", "failed"} /\ UNCHANGED <<tokens, was, heap, root, error>>
        /\ pc' \notin Parsing
    BY <1>4 DEF KevsReturn, tree, Parsing
  <2>2. CASE pc = "done" BY <2>1, <2>2, DumpsEnd DEF DumpInv
  <2>3. CASE pc = "failed"
    <3>1. error # "none" BY <2>3 DEF PlaceInv
    <3> QED BY <2>1, <3>1, DumpsEnd
  <2> QED BY <2>1, <2>2, <2>3
<1>5. CASE Failed BY <1>5 DEF Failed, Kept, DumpInv, Parsing
<1>6. CASE Unwind BY <1>6 DEF Unwind, DumpInv, Parsing
<1>7. CASE KevsFree BY <1>7 DEF KevsFree, DumpInv, Parsing
<1>8. CASE KevsFreed BY <1>8 DEF KevsFreed, DumpInv, Parsing
<1>9. CASE FreeString \/ FreeElements \/ FreeArray \/ FreeNothing
  <2>1. pc \in {"unwind", "freeing"} /\ UNCHANGED <<pc, error>>
    BY <1>9, NextCall DEF FreeString, FreeElements, FreeArray, FreeNothing
  <2> QED BY <2>1 DEF DumpInv, Parsing
<1> QED BY <1>1, <1>2, <1>3, <1>4, <1>5, <1>6, <1>7, <1>8, <1>9 DEF Release

\* In the beginning nothing has been read.
LEMMA DumpInit == ASSUME Init PROVE DumpInv
BY DEF Init, ParserInit, DumpInv, Parsing

\* Every step keeps the lines in the order of the tokens.
LEMMA DumpStep ==
  ASSUME MemoryInv, GrammarInv, MeaningInv, EndInv, PlaceInv, DumpInv, [Next]_allvars
  PROVE  DumpInv'
<1>1. CASE Emit \/ ScanFailed \/ KevsParseAgain BY <1>1, OtherDumps
<1>2. CASE ScanDone BY <1>2, ScanDoneDumps DEF ScanDone
<1>3. CASE KevsReturn BY <1>3, OtherDumps DEF KevsReturn
<1>4. CASE Release /\ was' = was BY <1>4, OtherDumps
<1>5. CASE Parse /\ was' = was
  <2>1. CASE Done BY <1>5, <2>1, DoneDumps
  <2>2. CASE ParseKey \/ ParseSeparator \/ ParseValueEnd \/ ParseLoop \/ ParseAfter
    <3>1. CASE pc' = "unwind" BY <3>1, FailDumps
    <3>2. CASE pc' # "unwind"
      <4>1. Quiet BY <2>2, <3>2, QuietSteps
      <4> QED BY <1>5, <4>1, QuietDumps
    <3> QED BY <3>1, <3>2
  <2>3. CASE ParseList \/ ParseTable \/ ParseString \/ ParseScalar BY <1>5, <2>3, ValueDumps
  <2>4. CASE ParseBadValue BY <2>4, FailDumps DEF ParseBadValue, Fail
  <2>5. CASE AppendValue BY <1>5, <2>5, AppendDumps
  <2> QED BY <1>5, <2>1, <2>2, <2>3, <2>4, <2>5 DEF Parse
<1>6. CASE UNCHANGED allvars
  <2>1. UNCHANGED <<tokens, i, stack, root, heap, pc, error, was>> BY <1>6 DEF allvars, vars
  <2>2. CASE pc \in Parsing BY <2>1, <2>2, DumpsOn DEF DumpInv
  <2>3. CASE pc \notin Parsing BY <2>1, <2>3, DumpsEnd DEF DumpInv
  <2> QED BY <2>2, <2>3
<1> QED BY <1>1, <1>2, <1>3, <1>4, <1>5, <1>6 DEF Next

-----------------------------------------------------------------------------
(* The arrays as kevs.py has them.                                         *)

\* What the list made of an array has to be, and those of all of them.
BuiltAt(h, T, b) == T[b] = [n \in DOMAIN h[b].elems |-> PyEntry(T, h[b].elems[n])]

Built(h, T) == \A b \in DOMAIN h : BuiltAt(h, T, b)

\* An element is the same when the list it points to is.
LEMMA EntrySame ==
  ASSUME NEW T, NEW U, NEW e, e.ptr # NULL => T[e.ptr] = U[e.ptr]
  PROVE  PyEntry(T, e) = PyEntry(U, e)
BY DEF PyEntry

\* The elements of an array have a domain.
LEMMA SoundDomain ==
  ASSUME NEW h, Sound(h), NEW b \in DOMAIN h
  PROVE  DOMAIN h[b].elems = 1 .. Len(h[b].elems)
BY SoundLen

\* A nested heap can be built.
LEMMA TreesExist ==
  ASSUME NEW h, Nested(h), Sound(h)
  PROVE  \E T : Built(h, T)
<1>1. PICK N \in Nat : \E rank \in [DOMAIN h -> 0 .. N] :
        \A b \in DOMAIN h : \A n \in 1 .. Len(h[b].elems) :
          h[b].elems[n].ptr \in DOMAIN h => rank[h[b].elems[n].ptr] < rank[b]
  BY DEF Nested
<1>2. PICK rank \in [DOMAIN h -> 0 .. N] :
        \A b \in DOMAIN h : \A n \in 1 .. Len(h[b].elems) :
          h[b].elems[n].ptr \in DOMAIN h => rank[h[b].elems[n].ptr] < rank[b]
  BY <1>1
<1>3. \A b \in DOMAIN h : rank[b] \in 0 .. N OBVIOUS
<1> DEFINE Good(k) == \E T : \A b \in DOMAIN h : rank[b] < k => BuiltAt(h, T, b)
           Bad == {k \in 0 .. N + 1 : ~Good(k)}
<1>4. SUFFICES ASSUME Bad # {} PROVE FALSE
  <2>1. N + 1 \in 0 .. N + 1 /\ \A b \in DOMAIN h : rank[b] < N + 1 BY <1>3
  <2>2. Good(N + 1) BY <2>1
  <2> QED BY <2>1, <2>2 DEF Built
<1>5. Bad \subseteq Nat OBVIOUS
<1>6. PICK k \in Bad : \A m \in Bad : ~(m < k)
  <2> HIDE DEF Bad
  <2> QED BY <1>4, <1>5, LeastOf
<1>7. k \in 0 .. N + 1 /\ ~Good(k) BY <1>6
<1>8. k # 0
  <2>1. \A b \in DOMAIN h : ~(rank[b] < 0) BY <1>3
  <2>2. Good(0) BY <2>1
  <2> QED BY <1>7, <2>2
<1>9. PICK j : j = k - 1 OBVIOUS
<1>10. j \in 0 .. N + 1 /\ j < k /\ j \in Nat BY <1>7, <1>8, <1>9
<1>11. Good(j) BY <1>6, <1>10
<1>12. PICK T : \A b \in DOMAIN h : rank[b] < j => BuiltAt(h, T, b) BY <1>11
<1> HIDE DEF Good, Bad
<1>13. PICK U : U = [b \in DOMAIN h |->
                       IF rank[b] = j THEN [n \in DOMAIN h[b].elems |-> PyEntry(T, h[b].elems[n])]
                       ELSE T[b]]
  OBVIOUS
<1>14. ASSUME NEW b \in DOMAIN h, rank[b] < k, NEW n \in DOMAIN h[b].elems
       PROVE  PyEntry(U, h[b].elems[n]) = PyEntry(T, h[b].elems[n])
  <2>1. PICK e : e = h[b].elems[n] OBVIOUS
  <2>2. n \in 1 .. Len(h[b].elems) BY SoundDomain
  <2>3. ASSUME e.ptr # NULL PROVE U[e.ptr] = T[e.ptr]
    <3>1. e.ptr \in DOMAIN h BY <2>1, <2>2, <2>3 DEF Sound
    <3>2. rank[e.ptr] < rank[b] BY <1>2, <2>1, <2>2, <3>1
    <3>3. rank[e.ptr] # j
      <4>1. rank[e.ptr] \in 0 .. N /\ rank[b] \in 0 .. N BY <1>3, <3>1
      <4> QED BY <1>7, <1>9, <1>14, <3>2, <4>1
    <3> QED BY <1>13, <3>1, <3>3
  <2>4. PyEntry(U, e) = PyEntry(T, e) BY <2>3, EntrySame
  <2> QED BY <2>1, <2>4
<1>15. ASSUME NEW b \in DOMAIN h, rank[b] < k PROVE BuiltAt(h, U, b)
  <2>1. U[b] = [n \in DOMAIN h[b].elems |-> PyEntry(T, h[b].elems[n])]
    <3>1. CASE rank[b] = j BY <1>13, <3>1
    <3>2. CASE rank[b] # j
      <4>1. rank[b] < j
        <5>1. rank[b] \in 0 .. N BY <1>3
        <5> QED BY <1>7, <1>9, <1>15, <3>2, <5>1
      <4>2. BuiltAt(h, T, b) BY <1>12, <4>1
      <4> QED BY <1>13, <3>2, <4>2 DEF BuiltAt
    <3> QED BY <3>1, <3>2
  <2>2. [n \in DOMAIN h[b].elems |-> PyEntry(T, h[b].elems[n])]
          = [n \in DOMAIN h[b].elems |-> PyEntry(U, h[b].elems[n])]
    BY <1>14, <1>15
  <2> QED BY <2>1, <2>2 DEF BuiltAt
<1>16. Good(k) BY <1>15 DEF Good
<1> QED BY <1>7, <1>16

\* A nested heap can be built in one way.
LEMMA TreesAgree ==
  ASSUME NEW h, Nested(h), Sound(h), NEW T, Built(h, T), NEW U, Built(h, U)
  PROVE  \A b \in DOMAIN h : T[b] = U[b]
<1>1. PICK N \in Nat : \E rank \in [DOMAIN h -> 0 .. N] :
        \A b \in DOMAIN h : \A n \in 1 .. Len(h[b].elems) :
          h[b].elems[n].ptr \in DOMAIN h => rank[h[b].elems[n].ptr] < rank[b]
  BY DEF Nested
<1>2. PICK rank \in [DOMAIN h -> 0 .. N] :
        \A b \in DOMAIN h : \A n \in 1 .. Len(h[b].elems) :
          h[b].elems[n].ptr \in DOMAIN h => rank[h[b].elems[n].ptr] < rank[b]
  BY <1>1
<1> DEFINE Bad == {k \in 0 .. N : \E b \in DOMAIN h : k = rank[b] /\ T[b] # U[b]}
<1>3. SUFFICES ASSUME Bad # {} PROVE FALSE
  <2>1. \A b \in DOMAIN h : rank[b] \in 0 .. N OBVIOUS
  <2> QED BY <2>1
<1>4. Bad \subseteq Nat OBVIOUS
<1>5. PICK k \in Bad : \A m \in Bad : ~(m < k)
  <2> HIDE DEF Bad
  <2> QED BY <1>3, <1>4, LeastOf
<1>6. PICK b \in DOMAIN h : k = rank[b] /\ T[b] # U[b] OBVIOUS
<1>7. ASSUME NEW n \in DOMAIN h[b].elems
      PROVE  PyEntry(T, h[b].elems[n]) = PyEntry(U, h[b].elems[n])
  <2>1. PICK e : e = h[b].elems[n] OBVIOUS
  <2>2. n \in 1 .. Len(h[b].elems) BY SoundDomain
  <2>3. ASSUME e.ptr # NULL PROVE T[e.ptr] = U[e.ptr]
    <3>1. e.ptr \in DOMAIN h BY <2>1, <2>2, <2>3 DEF Sound
    <3>2. PICK r : r = rank[e.ptr] OBVIOUS
    <3>3. r < k /\ r \in 0 .. N BY <1>2, <1>6, <2>1, <2>2, <3>1, <3>2
    <3>4. r \notin Bad
      <4> HIDE DEF Bad
      <4> QED BY <1>5, <3>3
    <3> QED BY <3>1, <3>2, <3>3, <3>4
  <2>4. PyEntry(T, e) = PyEntry(U, e) BY <2>3, EntrySame
  <2> QED BY <2>1, <2>4
<1>8. [n \in DOMAIN h[b].elems |-> PyEntry(T, h[b].elems[n])]
        = [n \in DOMAIN h[b].elems |-> PyEntry(U, h[b].elems[n])]
  BY <1>7
<1>9. T[b] = U[b] BY <1>8 DEF Built, BuiltAt
<1> QED BY <1>6, <1>9

\* Trees builds it.
LEMMA TreesBuilt ==
  ASSUME NEW h, Nested(h), Sound(h)
  PROVE  Built(h, Trees(h))
<1>0. PICK T : Built(h, T) BY TreesExist
<1> DEFINE F(lists) == [b \in DOMAIN h |-> [n \in DOMAIN h[b].elems |-> PyEntry(lists, h[b].elems[n])]]
<1>1. Trees(h) = CHOOSE lists : lists = F(lists) BY DEF Trees
<1>2. PICK W : W = [b \in DOMAIN h |-> T[b]] OBVIOUS
<1>3. ASSUME NEW b \in DOMAIN h, NEW n \in DOMAIN h[b].elems
      PROVE  PyEntry(W, h[b].elems[n]) = PyEntry(T, h[b].elems[n])
  <2>1. PICK e : e = h[b].elems[n] OBVIOUS
  <2>2. n \in 1 .. Len(h[b].elems) BY SoundDomain
  <2>3. e.ptr # NULL => e.ptr \in DOMAIN h BY <2>1, <2>2 DEF Sound
  <2>4. PyEntry(W, e) = PyEntry(T, e) BY <1>2, <2>3, EntrySame
  <2> QED BY <2>1, <2>4
<1>4. ASSUME NEW b \in DOMAIN h
      PROVE  W[b] = [n \in DOMAIN h[b].elems |-> PyEntry(W, h[b].elems[n])]
  <2>1. W[b] = [n \in DOMAIN h[b].elems |-> PyEntry(T, h[b].elems[n])]
    BY <1>0, <1>2 DEF Built, BuiltAt
  <2>2. [n \in DOMAIN h[b].elems |-> PyEntry(T, h[b].elems[n])]
          = [n \in DOMAIN h[b].elems |-> PyEntry(W, h[b].elems[n])]
    BY <1>3
  <2> QED BY <2>1, <2>2
<1>5. W = F(W)
  <2>1. W = [b \in DOMAIN h |-> W[b]] BY <1>2
  <2>2. [b \in DOMAIN h |-> W[b]] = F(W) BY <1>4
  <2> QED BY <2>1, <2>2
<1>6. PICK f : f = Trees(h) /\ f = F(f)
  <2> HIDE DEF F
  <2> QED BY <1>1, <1>5
<1>7. \A b \in DOMAIN h : f[b] = [n \in DOMAIN h[b].elems |-> PyEntry(f, h[b].elems[n])] BY <1>6
<1> QED BY <1>6, <1>7 DEF Built, BuiltAt

\* Blocks that stay are built as before.
LEMMA TreesStay ==
  ASSUME NEW h, Nested(h), Sound(h), NEW g, Nested(g), NEW q, Grows(h, g, q)
  PROVE  Sound(g) /\ \A b \in DOMAIN g \ {q} : Trees(g)[b] = Trees(h)[b]
<1>1. Sound(g) BY DEF Grows, Sound
<1>2. PICK k : k = [b \in DOMAIN g \ {q} |-> g[b]] OBVIOUS
<1>3. /\ DOMAIN k = DOMAIN g \ {q} /\ \A b \in DOMAIN k : b \in DOMAIN h /\ k[b] = h[b] /\ k[b] = g[b]
  BY <1>2 DEF Grows
<1>4. Nested(k) BY <1>3, NestedLess
<1>5. Sound(k) BY <1>3 DEF Sound, Grows
<1>6. Built(k, Trees(h)) BY <1>3, TreesBuilt DEF Built, BuiltAt
<1>7. Built(k, Trees(g)) BY <1>1, <1>3, TreesBuilt DEF Built, BuiltAt
<1>8. \A b \in DOMAIN k : Trees(g)[b] = Trees(h)[b] BY <1>4, <1>5, <1>6, <1>7, TreesAgree
<1> QED BY <1>1, <1>3, <1>8

\* An element as kevs.py has it.
EntryOf(h, e) == PyEntry(Trees(h), e)

\* What the list of an array is.
LEMMA TreeOf ==
  ASSUME NEW h, Nested(h), Sound(h), NEW p, p # NULL => p \in DOMAIN h
  PROVE  /\ ElemsIn(h, p) \in Seq(Entry) /\ DOMAIN Tree(h, p) = DOMAIN ElemsIn(h, p)
         /\ Tree(h, p) = [n \in 1 .. Len(ElemsIn(h, p)) |-> EntryOf(h, ElemsIn(h, p)[n])]
<1>1. CASE p = NULL
  <2>1. ElemsIn(h, p) = <<>> /\ Tree(h, p) = <<>> BY <1>1 DEF ElemsIn, Tree
  <2> QED BY <2>1
<1>2. CASE p # NULL
  <2>1. ElemsIn(h, p) = h[p].elems /\ Tree(h, p) = Trees(h)[p] BY <1>2 DEF ElemsIn, Tree
  <2>2. Trees(h)[p] = [n \in DOMAIN h[p].elems |-> EntryOf(h, h[p].elems[n])]
    BY <1>2, TreesBuilt DEF Built, BuiltAt, EntryOf
  <2>3. h[p].elems \in Seq(Entry) /\ DOMAIN h[p].elems = 1 .. Len(h[p].elems)
    BY <1>2, SoundLen, SoundDomain
  <2> QED BY <2>1, <2>2, <2>3
<1> QED BY <1>1, <1>2

\* The fields of an element.
LEMMA EntryFields ==
  ASSUME NEW h, NEW e
  PROVE  /\ EntryOf(h, e) = [key |-> e.key, kind |-> e.kind, data |-> PyData(e.data),
                             elems |-> EntryOf(h, e).elems]
         /\ EntryOf(h, e).key = e.key /\ EntryOf(h, e).kind = e.kind
         /\ EntryOf(h, e).data = PyData(e.data)
         /\ EntryOf(h, e).elems = IF e.kind \in {"list", "table"} THEN Tree(h, e.ptr) ELSE <<>>
BY DEF EntryOf, PyEntry, Tree

\* Elements the array of which stays are the same, and so is the array.
LEMMA EntryStays ==
  ASSUME NEW h, Nested(h), Sound(h), NEW g, Nested(g), NEW q, Grows(h, g, q),
         NEW e, e.ptr # NULL => e.ptr \in DOMAIN g \ {q}
  PROVE  EntryOf(g, e) = EntryOf(h, e) /\ Tree(g, e.ptr) = Tree(h, e.ptr)
<1>1. e.ptr # NULL => Trees(g)[e.ptr] = Trees(h)[e.ptr] BY TreesStay
<1> QED BY <1>1, EntrySame DEF EntryOf, Tree

\* An element that is stored is the last one.
LEMMA TreeAppend ==
  ASSUME NEW h, NEW g, NEW q, NEW e, NEW x, NEW c, Appending(h, g, q, e, x, c)
  PROVE  Tree(g, q) = Append(Tree(h, e.ptr), EntryOf(h, x))
<1> Nested(h) /\ Sound(h) /\ Nested(g) BY DEF Appending
<1> Grows(h, g, q) /\ q # NULL BY DEF Appending
<1> (e.ptr # NULL => e.ptr \in DOMAIN h) /\ x \in Entry BY DEF Appending
<1> g[q].elems = Append(ElemsIn(h, e.ptr), x) BY DEF Appending
<1>1. PICK es : es = ElemsIn(h, e.ptr) OBVIOUS
<1>2. PICK L : L = Len(es) OBVIOUS
<1>3. es \in Seq(Entry) /\ Tree(h, e.ptr) = [n \in 1 .. L |-> EntryOf(h, es[n])]
  BY <1>1, <1>2, TreeOf
<1>4. PICK fs : fs = g[q].elems OBVIOUS
<1>5. /\ L \in Nat /\ Len(fs) = L + 1 /\ fs[L + 1] = x
      /\ \A n \in 1 .. L : fs[n] = es[n]
  <2>1. fs = Append(es, x) BY <1>1, <1>4
  <2> QED BY <1>2, <1>3, <2>1, LenProperties
<1>6. Sound(g) /\ q \in DOMAIN g BY TreesStay DEF Grows
<1>7. Tree(g, q) = [n \in 1 .. L + 1 |-> EntryOf(g, fs[n])]
  <2>1. ElemsIn(g, q) = fs BY <1>4 DEF ElemsIn
  <2> QED BY <1>5, <1>6, <2>1, TreeOf
<1>8. ASSUME NEW n \in 1 .. L + 1 PROVE EntryOf(g, fs[n]) = EntryOf(h, fs[n])
  <2>1. PICK y : y = fs[n] OBVIOUS
  <2>2. y.ptr # NULL => y.ptr \in DOMAIN g \ {q} BY <1>4, <1>5, <1>6, <2>1 DEF Grows
  <2>3. EntryOf(g, y) = EntryOf(h, y) BY <2>2, EntryStays
  <2> QED BY <2>1, <2>3
<1>9. PICK w : w = [n \in 1 .. L |-> EntryOf(h, es[n])] OBVIOUS
<1>10. PICK v : v = EntryOf(h, x) OBVIOUS
<1>11. PICK S : w \in Seq(S) /\ v \in S /\ Len(w) = L
  <2>1. PICK S : S = {w[n] : n \in 1 .. L} \cup {v} OBVIOUS
  <2>2. w \in [1 .. L -> S] /\ v \in S BY <1>9, <2>1
  <2>3. w \in Seq(S) BY <1>5, <2>2
  <2>4. Len(w) = L BY <1>5, <1>9, <2>3, LenProperties
  <2> QED BY <2>2, <2>3, <2>4
<1>12. Append(w, v) = [n \in 1 .. L + 1 |-> IF n = L + 1 THEN v ELSE w[n]]
  <2>1. PICK a : a = Append(w, v) OBVIOUS
  <2>2. /\ a \in Seq(S) /\ Len(a) = L + 1 /\ a[L + 1] = v
        /\ \A n \in 1 .. L : a[n] = w[n]
    BY <1>5, <1>11, <2>1, AppendProperties
  <2>3. a = [n \in 1 .. L + 1 |-> a[n]] BY <2>2, LenProperties
  <2>4. ASSUME NEW n \in 1 .. L + 1 PROVE a[n] = IF n = L + 1 THEN v ELSE w[n]
    <3>1. n # L + 1 => n \in 1 .. L BY <1>5
    <3> QED BY <2>2, <3>1
  <2> QED BY <2>1, <2>3, <2>4
<1>13. [n \in 1 .. L + 1 |-> EntryOf(g, fs[n])] = [n \in 1 .. L + 1 |-> IF n = L + 1 THEN v ELSE w[n]]
  <2>1. ASSUME NEW n \in 1 .. L + 1
        PROVE  EntryOf(g, fs[n]) = IF n = L + 1 THEN v ELSE w[n]
    <3>1. CASE n = L + 1 BY <1>5, <1>8, <1>10, <3>1
    <3>2. CASE n # L + 1
      <4>1. n \in 1 .. L BY <1>5, <3>2
      <4> QED BY <1>5, <1>8, <1>9, <3>2, <4>1
    <3> QED BY <3>1, <3>2
  <2> QED BY <2>1
<1> QED BY <1>3, <1>7, <1>9, <1>10, <1>12, <1>13

-----------------------------------------------------------------------------
(* The steps of kevs.py.                                                   *)

LEMMA PyRunIs ==
  ASSUME tokens \in Seq(Token)
  PROVE  /\ PySteps \in Nat /\ PyRun[0] = PyStart
         /\ \A n \in 1 .. PySteps : PyRun[n] = PyNext(PyRun[n - 1])
<1>0. PICK N : N = PySteps OBVIOUS
<1>1. N \in Nat
  <2>1. Len(tokens) \in Nat BY TokenNumbers
  <2> QED BY <1>0, <2>1 DEF PySteps
<1> DEFINE F(run) == [n \in 0 .. PySteps |-> IF n = 0 THEN PyStart ELSE PyNext(run[n - 1])]
           Steps(w, n) == /\ w = [k \in 0 .. n |-> w[k]] /\ w[0] = PyStart
                          /\ \A k \in 1 .. n : w[k] = PyNext(w[k - 1])
           Bad == {n \in 0 .. N : ~\E w : Steps(w, n)}
<1>2. PyRun = CHOOSE run : run = F(run) BY DEF PyRun
<1>3. ASSUME Bad # {} PROVE FALSE
  <2>1. Bad \subseteq Nat BY <1>1
  <2>2. PICK n \in Bad : \A m \in Bad : ~(m < n)
    <3> HIDE DEF Bad
    <3> QED BY <1>3, <2>1, LeastOf
  <2>3. n \in 0 .. N /\ ~\E w : Steps(w, n) BY <2>2
  <2>4. n # 0
    <3>1. PICK w : w = [k \in 0 .. 0 |-> PyStart] OBVIOUS
    <3>2. 0 .. 0 = {0} /\ 1 .. 0 = {} OBVIOUS
    <3>3. w[0] = PyStart /\ w = [k \in 0 .. 0 |-> w[k]] BY <3>1, <3>2
    <3>4. Steps(w, 0) BY <3>2, <3>3
    <3> QED BY <2>3, <3>4
  <2>5. n - 1 \in 0 .. N /\ n - 1 < n /\ n \in 1 .. N BY <1>1, <2>3, <2>4
  <2>6. \E w : Steps(w, n - 1) BY <2>2, <2>5
  <2>7. PICK w : w[0] = PyStart /\ \A k \in 1 .. n - 1 : w[k] = PyNext(w[k - 1]) BY <2>6
  <2>8. PICK v : v = [k \in 0 .. n |-> IF k = n THEN PyNext(w[n - 1]) ELSE w[k]] OBVIOUS
  <2>9. v = [k \in 0 .. n |-> v[k]] /\ v[0] = PyStart BY <2>5, <2>7, <2>8
  <2>10. ASSUME NEW k \in 1 .. n PROVE v[k] = PyNext(v[k - 1])
    <3>1. k \in 0 .. n /\ k - 1 \in 0 .. n /\ k - 1 # n /\ (k # n => k \in 1 .. n - 1) BY <2>5
    <3>2. v[k - 1] = w[k - 1] BY <2>8, <3>1
    <3> QED BY <2>7, <2>8, <3>1, <3>2
  <2>11. Steps(v, n) BY <2>9, <2>10
  <2> HIDE DEF Steps
  <2> QED BY <2>3, <2>11
<1>4. PICK w : Steps(w, N)
  <2>1. N \in 0 .. N BY <1>1
  <2> QED BY <1>3, <2>1
<1>5. w = F(w)
  <2>1. w = [n \in 0 .. N |-> w[n]] BY <1>4
  <2>2. ASSUME NEW n \in 0 .. N PROVE w[n] = IF n = 0 THEN PyStart ELSE PyNext(w[n - 1])
    <3>1. n # 0 => n \in 1 .. N BY <1>1
    <3> QED BY <1>4, <3>1
  <2> QED BY <1>0, <2>1, <2>2
<1>6. PICK f : f = PyRun /\ f = F(f)
  <2>1. \E g : g = F(g) BY <1>5
  <2> HIDE DEF F
  <2> QED BY <1>2, <2>1
<1>7. \A n \in 0 .. N : f[n] = IF n = 0 THEN PyStart ELSE PyNext(f[n - 1]) BY <1>0, <1>6
<1>8. f[0] = PyStart /\ \A n \in 1 .. N : f[n] = PyNext(f[n - 1])
  <2>1. 0 \in 0 .. N /\ \A n \in 1 .. N : n \in 0 .. N /\ n # 0 BY <1>1
  <2> HIDE DEF F
  <2> QED BY <1>7, <2>1
<1> QED BY <1>0, <1>1, <1>6, <1>8

\* A parser that has ended stays as it is.
LEMMA PyStays ==
  ASSUME tokens \in Seq(Token), NEW n \in 0 .. PySteps, PyRun[n].pc \in {"done", "failed"}
  PROVE  PyParse = PyRun[n]
<1>1. PICK N : N = PySteps OBVIOUS
<1>2. PICK f : f = PyRun OBVIOUS
<1>3. N \in Nat /\ \A m \in 1 .. N : f[m] = PyNext(f[m - 1]) BY <1>1, <1>2, PyRunIs
<1> DEFINE Bad == {m \in n .. N : f[m] # f[n]}
<1>4. SUFFICES ASSUME Bad # {} PROVE FALSE
  <2>1. N \in n .. N BY <1>1, <1>3
  <2> QED BY <1>1, <1>2, <2>1 DEF PyParse
<1>5. n \in 0 .. N /\ f[n].pc \in {"done", "failed"} BY <1>1, <1>2
<1>6. Bad \subseteq Nat BY <1>3, <1>5
<1>7. PICK m \in Bad : \A k \in Bad : ~(k < m)
  <2> HIDE DEF Bad
  <2> QED BY <1>4, <1>6, LeastOf
<1>8. m \in n .. N /\ f[m] # f[n] BY <1>7
<1>9. m # n BY <1>8
<1>10. m \in 1 .. N /\ m - 1 \in n .. N /\ m - 1 < m BY <1>3, <1>5, <1>8, <1>9
<1>11. f[m - 1] = f[n] BY <1>7, <1>10
<1>12. f[m] = PyNext(f[n]) BY <1>3, <1>10, <1>11
<1>13. PICK s : s = f[n] OBVIOUS
<1>14. PyNext(s) = s BY <1>5, <1>13 DEF PyNext
<1> QED BY <1>8, <1>12, <1>13, <1>14

\* The steps are those of the tokens alone.
LEMMA SameRun ==
  ASSUME tokens' = tokens
  PROVE  PyRun' = PyRun /\ PySteps' = PySteps /\ PyParse' = PyParse
<1>1. \A s, kind : PyExpect(s, kind)' = PyExpect(s, kind) BY DEF PyExpect
<1>2. \A s, c : PyExpectDelim(s, c)' = PyExpectDelim(s, c) BY <1>1 DEF PyExpectDelim
<1>3. \A s, m : Errorf(s, m)' = Errorf(s, m) BY DEF Errorf
<1>4. \A s, c, x, m : PyDelim(s, c, x, m)' = PyDelim(s, c, x, m) BY <1>2, <1>3 DEF PyDelim
<1>5. \A s : PyKey(s)' = PyKey(s) BY <1>1, <1>3 DEF PyKey, PyIsUnique, PyParent
<1>6. \A s : PySeparator(s)' = PySeparator(s) BY <1>4 DEF PySeparator, PyPush, PyUndefined
<1>7. \A s, k, d, x : PyIs(s, k, d, x)' = PyIs(s, k, d, x) BY DEF PyIs
<1>8. \A s : PySimple(s)' = PySimple(s) BY <1>1, <1>3, <1>7 DEF PySimple
<1>9. \A s : PyValue(s)' = PyValue(s) BY <1>2, <1>7, <1>8 DEF PyValue
<1>10. \A s : PyAtEnd(s)' = PyAtEnd(s) BY <1>2 DEF PyAtEnd, InPyList
<1>11. \A s : PyLoop(s)' = PyLoop(s) BY <1>10 DEF PyLoop, InPyList, PyClose, PyPush, PyUndefined
<1>12. \A s : PyAfter(s)' = PyAfter(s) BY <1>10 DEF PyAfter, PyClose
<1>13. \A s : PyEnd(s)' = PyEnd(s) BY <1>4 DEF PyEnd
<1>14. \A s : PyAppend(s)' = PyAppend(s) BY DEF PyAppend
<1>15. \A s : PyNext(s)' = PyNext(s)
  BY <1>5, <1>6, <1>9, <1>11, <1>12, <1>13, <1>14 DEF PyNext
<1>16. PySteps' = PySteps BY DEF PySteps
<1>17. PyStart' = PyStart BY DEF PyStart
<1>18. PyRun' = PyRun BY <1>15, <1>16, <1>17 DEF PyRun
<1>19. PyParse' = PyParse BY <1>16, <1>18 DEF PyParse
<1> QED BY <1>16, <1>18, <1>19

-----------------------------------------------------------------------------
(* A state of kevs.c as kevs.py has it.                                    *)

\* The values under construction.
PyStack(h, s) == [m \in 1 .. Len(s) |-> EntryOf(h, s[m])]

\* The values there can be.
PyElems(h) == {EntryOf(h, e) : e \in Entry}

PyAt(p, n, k, st, tb) ==
  [pc |-> p, i |-> n, key |-> k, stack |-> st, table |-> tb, error |-> "none", at |-> 0]

PyNow == PyAt(pc, i, key, PyStack(heap, stack), Tree(heap, root.ptr))

\* The token that kevs.c stops at when it returns e, with i = n.
StopAt(e, n) == IF e = "value_is_not_an_integer" THEN n - 1 ELSE n

\* What kevs.py leaves behind when kevs.c returns e, with i = n and tb in
\* the table.
PyAnswers(s, e, n, tb) ==
  /\ s.pc = IF e = "none" THEN "done" ELSE "failed"
  /\ s.error = e
  /\ e = "none" => s.table = tb
  /\ e # "none" => s.at = StopAt(e, n)

\* It has got past the token n, and fails behind it if it fails.
Past(s, n) ==
  /\ DOMAIN s = {"pc", "i", "key", "stack", "table", "error", "at"}
  /\ s.i \in Nat /\ n < s.i /\ (s.pc = "failed" => n < s.at)

\* The same, for the token that kevs.c stops at if only kevs.py accepts it.
PyOutcome(s, e, n, tb) ==
  IF e # "none" /\ StopAt(e, n) \in OnlyPyAccepts THEN Past(s, StopAt(e, n))
  ELSE PyAnswers(s, e, n, tb)

\* The values under construction are as many, in the same order.
LEMMA PyStackParts ==
  ASSUME NEW h, NEW s \in Seq(Entry)
  PROVE  /\ PyStack(h, s) \in Seq(PyElems(h)) /\ Len(PyStack(h, s)) = Len(s)
         /\ PyStack(h, s) = <<>> <=> s = <<>>
         /\ s # <<>> => /\ Head(PyStack(h, s)) = EntryOf(h, Head(s))
                        /\ Tail(PyStack(h, s)) = PyStack(h, Tail(s))
<1>1. PICK L : L = Len(s) OBVIOUS
<1>2. PICK S : S = PyElems(h) OBVIOUS
<1>3. PICK t : t = PyStack(h, s) OBVIOUS
<1>4. L \in Nat /\ \A m \in 1 .. L : s[m] \in Entry BY <1>1, LenProperties
<1>5. t = [m \in 1 .. L |-> EntryOf(h, s[m])] BY <1>1, <1>3 DEF PyStack
<1>6. t \in [1 .. L -> S] BY <1>2, <1>4, <1>5 DEF PyElems
<1>7. t \in Seq(S) BY <1>4, <1>6
<1>8. Len(t) = L BY <1>4, <1>5, <1>7, LenProperties
<1>9. t = <<>> <=> s = <<>> BY <1>1, <1>4, <1>7, <1>8, EmptySeq
<1>10. ASSUME s # <<>> PROVE Head(t) = EntryOf(h, Head(s)) /\ Tail(t) = PyStack(h, Tail(s))
  <2>1. L # 0 BY <1>1, <1>10, EmptySeq
  <2>2. 1 \in 1 .. L BY <1>4, <2>1
  <2>3. Head(t) = EntryOf(h, Head(s)) BY <1>5, <1>9, <1>10, <2>2
  <2>4. /\ Tail(s) \in Seq(Entry) /\ Len(Tail(s)) = L - 1
        /\ \A m \in 1 .. L - 1 : Tail(s)[m] = s[m + 1]
    BY <1>1, <1>10, HeadTailProperties
  <2>5. /\ Tail(t) \in Seq(S) /\ Len(Tail(t)) = L - 1
        /\ \A m \in 1 .. L - 1 : Tail(t)[m] = t[m + 1]
    BY <1>7, <1>8, <1>9, <1>10, HeadTailProperties
  <2>6. PICK u : u = Tail(t) OBVIOUS
  <2>7. u = [m \in 1 .. L - 1 |-> u[m]] BY <2>5, <2>6, LenProperties
  <2>8. ASSUME NEW m \in 1 .. L - 1 PROVE u[m] = EntryOf(h, Tail(s)[m])
    <3>1. m + 1 \in 1 .. L BY <1>4
    <3> QED BY <1>5, <2>4, <2>5, <2>6, <3>1
  <2>9. u = [m \in 1 .. L - 1 |-> EntryOf(h, Tail(s)[m])] BY <2>7, <2>8
  <2> QED BY <2>3, <2>4, <2>6, <2>9 DEF PyStack
<1> QED BY <1>1, <1>2, <1>3, <1>7, <1>8, <1>9, <1>10

\* A value is pushed.
LEMMA PyStackPush ==
  ASSUME NEW h, NEW s \in Seq(Entry), NEW e \in Entry
  PROVE  PyStack(h, <<e>> \o s) = <<EntryOf(h, e)>> \o PyStack(h, s)
<1>1. PICK u : u = <<e>> \o s OBVIOUS
<1>2. PICK S : S = PyElems(h) OBVIOUS
<1>3. u \in Seq(Entry) /\ u # <<>> /\ Tail(u) = s /\ Head(u) = e BY <1>1, Pushed, StackPush
<1>4. PICK v : v = PyStack(h, u) OBVIOUS
<1>5. v \in Seq(S) /\ v # <<>> /\ Head(v) = EntryOf(h, e) /\ Tail(v) = PyStack(h, s)
  BY <1>2, <1>3, <1>4, PyStackParts
<1>6. v = <<Head(v)>> \o Tail(v) BY <1>5, HeadTailProperties
<1> QED BY <1>1, <1>4, <1>5, <1>6, ZenonT(60)

\* Values that are the same in another heap.
LEMMA PyStackSame ==
  ASSUME NEW h, NEW g, NEW s \in Seq(Entry),
         \A m \in 1 .. Len(s) : EntryOf(g, s[m]) = EntryOf(h, s[m])
  PROVE  PyStack(g, s) = PyStack(h, s)
BY DEF PyStack

\* PyNext runs the method that s.pc names.
LEMMA PyNextIs ==
  ASSUME NEW s
  PROVE  /\ s.pc = "pair"   => PyNext(s) = PyKey(s)
         /\ s.pc = "sep"    => PyNext(s) = PySeparator(s)
         /\ s.pc = "value"  => PyNext(s) = PyValue(s)
         /\ s.pc = "loop"   => PyNext(s) = PyLoop(s)
         /\ s.pc = "after"  => PyNext(s) = PyAfter(s)
         /\ s.pc = "end"    => PyNext(s) = PyEnd(s)
         /\ s.pc = "append" => PyNext(s) = PyAppend(s)
BY DEF PyNext

\* The fields of such a state.
IsPy(t) ==
  /\ DOMAIN t = {"pc", "i", "key", "stack", "table", "error", "at"} /\ t = [x \in DOMAIN t |-> t[x]]
  /\ t.error = "none" /\ t.at = 0

LEMMA PyAtFields ==
  ASSUME NEW p, NEW n, NEW k, NEW st, NEW tb, NEW s, s = PyAt(p, n, k, st, tb)
  PROVE  IsPy(s) /\ s.pc = p /\ s.i = n /\ s.key = k /\ s.stack = st /\ s.table = tb
<1>1. s.pc = p /\ s.i = n /\ s.key = k /\ s.stack = st /\ s.table = tb /\ s.error = "none" /\ s.at = 0
  BY DEF PyAt
<1>2. DOMAIN s = {"pc", "i", "key", "stack", "table", "error", "at"} BY DEF PyAt
<1>3. s = [x \in DOMAIN s |-> s[x]] BY DEF PyAt
<1> QED BY <1>1, <1>2, <1>3 DEF IsPy

LEMMA PyNowFields ==
  ASSUME NEW st, st = PyStack(heap, stack), NEW tb, tb = Tree(heap, root.ptr), NEW s, s = PyNow
  PROVE  /\ IsPy(s) /\ s.pc = pc /\ s.i = i /\ s.key = key /\ s.stack = st /\ s.table = tb
BY PyAtFields DEF PyNow

\* Its fields make the state.
LEMMA PyRecord ==
  ASSUME NEW t, IsPy(t), NEW p, NEW n, NEW k, NEW st, NEW tb,
         t.pc = p, t.i = n, t.key = k, t.stack = st, t.table = tb
  PROVE  t = PyAt(p, n, k, st, tb)
<1>1. PICK r : r = PyAt(p, n, k, st, tb) OBVIOUS
<1>2. IsPy(r) /\ r.pc = p /\ r.i = n /\ r.key = k /\ r.stack = st /\ r.table = tb BY <1>1, PyAtFields
<1>3. \A x \in DOMAIN r : r[x] = t[x] BY <1>2 DEF IsPy
<1> QED BY <1>1, <1>2, <1>3 DEF IsPy

\* A step changes the fields it names.
LEMMA PyChanged ==
  ASSUME NEW s, IsPy(s), NEW t, DOMAIN t = DOMAIN s, t = [x \in DOMAIN t |-> t[x]],
         t.error = s.error, t.at = s.at
  PROVE  IsPy(t)
BY DEF IsPy

\* What parse knows when it is at work.
LEMMA PyFacts ==
  ASSUME MemoryInv, EndInv, pc \in Parsing
  PROVE  /\ tokens \in Seq(Token) /\ Len(tokens) \in Nat /\ i \in 1 .. Len(tokens) + 1
         /\ stack \in Seq(Entry) /\ root \in Entry /\ work = <<>> /\ key \in Keys \cup {NoKey}
         /\ (stack # <<>> => Head(stack) \in Entry /\ Tail(stack) \in Seq(Entry))
         /\ Nested(heap) /\ Sound(heap)
         /\ \A kind : PyExpect(PyNow, kind) <=> Expect(kind)
         /\ \A c : PyExpectDelim(PyNow, c) <=> ExpectDelim(c)
<1>1. /\ tokens \in Seq(Token) /\ Len(tokens) \in Nat /\ i \in 1 .. Len(tokens) + 1
      /\ stack \in Seq(Entry) /\ root \in Entry /\ work = <<>> /\ key \in Keys \cup {NoKey}
  BY LenProperties DEF MemoryInv, Shape, TypeOK, Control, Parsing
<1>2. Nested(heap) /\ Sound(heap) BY <1>1, HeapSound DEF EndInv
<1>3. stack # <<>> => Head(stack) \in Entry /\ Tail(stack) \in Seq(Entry) BY <1>1, HeadTailProperties
<1>4. PyNow.i = i BY PyNowFields
<1>5. \A kind : PyExpect(PyNow, kind) <=> Expect(kind) BY <1>1, <1>4 DEF PyExpect, Expect, NoneLeft
<1>6. \A c : PyExpectDelim(PyNow, c) <=> ExpectDelim(c) BY <1>4, <1>5 DEF PyExpectDelim, ExpectDelim
<1> QED BY <1>1, <1>2, <1>3, <1>5, <1>6

\* errorf.
LEMMA PyFailed ==
  ASSUME MemoryInv, EndInv, pc \in Parsing, ~NoneLeft, NEW m, m # "none", NEW tb, NEW n,
         n = IF m = "value_is_not_an_integer" THEN i + 1 ELSE i
  PROVE  PyAnswers(Errorf(PyNow, m), m, n, tb)
<1>1. PyNow.i = i BY PyNowFields
<1>2. i \in Nat /\ ~(i > Len(tokens)) BY PyFacts DEF NoneLeft
<1>3. (i + 1) - 1 = i BY <1>2
<1>4. Errorf(PyNow, m) = [PyNow EXCEPT !.pc = "failed", !.at = i, !.error = m] BY <1>1, <1>2 DEF Errorf
<1>5. /\ Errorf(PyNow, m).pc = "failed" /\ Errorf(PyNow, m).at = i /\ Errorf(PyNow, m).error = m
  BY <1>4 DEF PyNow, PyAt
<1> QED BY <1>3, <1>5 DEF PyAnswers, StopAt

\* The elements of the innermost list or table, and the keys in it.
LEMMA PyParentIs ==
  ASSUME MemoryInv, EndInv, pc \in Parsing, Arrays(stack)
  PROVE  /\ PyParent(PyNow) = Tree(heap, Container.ptr)
         /\ \A k : PyIsUnique(k, PyParent(PyNow)) <=> IsUnique(k)
<1>1. PICK st : st = PyStack(heap, stack) OBVIOUS
<1>2. PyNow.stack = st /\ PyNow.table = Tree(heap, root.ptr) BY <1>1, PyNowFields
<1>3. /\ (st = <<>> <=> stack = <<>>) /\ (stack # <<>> => Head(st) = EntryOf(heap, Head(stack)))
  BY <1>1, PyFacts, PyStackParts
<1>4. stack # <<>> => Head(stack).kind \in {"list", "table"}
  <2>1. stack # <<>> => 1 \in DOMAIN stack /\ Head(stack) = stack[1] BY PyFacts, EmptySeq, LenProperties
  <2> QED BY <2>1 DEF Arrays
<1>5. PyParent(PyNow) = Tree(heap, Container.ptr)
  BY <1>2, <1>3, <1>4, EntryFields DEF PyParent, Container
<1>6. PICK p : p = Container.ptr OBVIOUS
<1>7. p # NULL => p \in DOMAIN heap
  <2>1. /\ Own(<<0, 0>>, root) \subseteq Owners
        /\ stack # <<>> => Own(<<0, Len(stack)>>, Head(stack)) \subseteq Owners
    BY HeldBlocks
  <2> QED BY <1>6, <2>1, PyFacts, HeldElems DEF Container
<1>8. PICK es : es = ElemsIn(heap, p) OBVIOUS
<1>9. /\ DOMAIN Tree(heap, p) = DOMAIN es /\ es \in Seq(Entry)
      /\ Tree(heap, p) = [n \in 1 .. Len(es) |-> EntryOf(heap, es[n])]
  BY <1>7, <1>8, PyFacts, TreeOf
<1>10. ASSUME NEW n \in DOMAIN es PROVE Tree(heap, p)[n].key = es[n].key
  <2>1. n \in 1 .. Len(es) BY <1>9
  <2> QED BY <1>9, <2>1, EntryFields
<1>11. Elems(p) = es BY <1>8 DEF Elems, ElemsIn
<1> QED BY <1>5, <1>6, <1>9, <1>10, <1>11 DEF PyIsUnique, IsUnique

-----------------------------------------------------------------------------
(* The keys of kevs.c.                                                     *)

GoodKeys == ValidKeys \cup {NoKey}

GoodIn(es) == \A n \in 1 .. Len(es) : es[n].key \in GoodKeys

\* Every key that is stored, or about to be, is an identifier for kevs.c.
GoodInv ==
  /\ \A b \in DOMAIN heap : GoodIn(heap[b].elems)
  /\ GoodIn(stack)
  /\ key \in GoodKeys

\* The first of some entries, and the others.
LEMMA GoodParts ==
  ASSUME NEW s \in Seq(Entry), s # <<>>
  PROVE  GoodIn(s) <=> Head(s).key \in GoodKeys /\ GoodIn(Tail(s))
<1>1. /\ Head(s) = s[1] /\ Len(s) \in Nat \ {0} /\ Len(Tail(s)) = Len(s) - 1
      /\ \A n \in 1 .. Len(s) - 1 : Tail(s)[n] = s[n + 1]
  BY HeadTailProperties, LenProperties, EmptySeq
<1>2. PICK t, L : t = Tail(s) /\ L = Len(s) OBVIOUS
<1>3. ASSUME GoodIn(s) PROVE Head(s).key \in GoodKeys /\ GoodIn(t)
  <2>1. 1 \in 1 .. L /\ \A n \in 1 .. L - 1 : n + 1 \in 1 .. L BY <1>1, <1>2
  <2> QED BY <1>1, <1>2, <1>3, <2>1 DEF GoodIn
<1>4. ASSUME Head(s).key \in GoodKeys, GoodIn(t), NEW n \in 1 .. L PROVE s[n].key \in GoodKeys
  <2>1. CASE n = 1 BY <1>1, <1>4, <2>1
  <2>2. CASE n # 1
    <3>1. n - 1 \in 1 .. L - 1 /\ (n - 1) + 1 = n BY <1>1, <1>2, <2>2
    <3>2. t[n - 1] = s[n] /\ Len(t) = L - 1 BY <1>1, <1>2, <3>1
    <3> QED BY <1>4, <3>1, <3>2 DEF GoodIn
  <2> QED BY <2>1, <2>2
<1> QED BY <1>2, <1>3, <1>4 DEF GoodIn

\* An entry is pushed.
LEMMA GoodPush ==
  ASSUME NEW s \in Seq(Entry), NEW e \in Entry, GoodIn(s), e.key \in GoodKeys
  PROVE  GoodIn(<<e>> \o s)
<1>1. PICK t : t = <<e>> \o s OBVIOUS
<1>2. t \in Seq(Entry) /\ t # <<>> /\ Tail(t) = s /\ Head(t) = e BY <1>1, Pushed
<1> QED BY <1>1, <1>2, GoodParts

\* A value is read.
LEMMA GoodOut ==
  ASSUME stack \in Seq(Entry), stack # <<>>, GoodIn(stack),
         NEW kind \in {"string", "integer", "boolean", "list", "table"},
         NEW data \in Literals \cup {NoData}, NEW p \in Nat, Out(kind, data, p)
  PROVE  GoodIn(stack')
<1>1. PICK s, t : s = stack /\ t = stack' OBVIOUS
<1>2. t \in Seq(Entry) /\ t # <<>> /\ Tail(t) = Tail(s) BY <1>1, OutStep
<1>3. Head(t).key = Head(s).key BY <1>1, OutKey
<1>4. Head(s).key \in GoodKeys /\ GoodIn(Tail(s)) BY <1>1, GoodParts
<1> QED BY <1>1, <1>2, <1>3, <1>4, GoodParts

\* list_append and table_append: the keys they store.
LEMMA AppendGood == ASSUME MemoryInv, GoodInv, AppendValue PROVE GoodInv'
<1>1. key' = key BY DEF AppendValue
<1>2. ASSUME NEW b \in DOMAIN heap' PROVE GoodIn(heap'[b].elems)
  <2>1. CASE b # Moved BY <2>1, AppendFacts DEF GoodInv
  <2>2. CASE b = Moved
    <3>1. PICK es, e, L : es = Elems(Target.ptr) /\ e = Head(stack) /\ L = Len(es) OBVIOUS
    <3>2. es \in Seq(Entry) /\ e \in Entry /\ heap'[b].elems = Append(es, e)
      BY <2>2, <3>1, AppendFacts DEF Filled
    <3>3. GoodIn(es)
      <4>1. GoodIn(<<>>) BY DEF GoodIn
      <4>2. Target.ptr # NULL => Target.ptr \in DOMAIN heap BY AppendFacts
      <4> QED BY <3>1, <4>1, <4>2 DEF GoodInv, Elems
    <3>4. e.key \in GoodKeys
      <4>1. stack \in Seq(Entry) /\ stack # <<>>
        BY AppendFacts DEF MemoryInv, Shape, TypeOK, Control
      <4> QED BY <3>1, <4>1, GoodParts DEF GoodInv
    <3>5. PICK t : t = Append(es, e) OBVIOUS
    <3>6. Len(t) = L + 1 /\ L \in Nat /\ t[L + 1] = e /\ \A k \in 1 .. L : t[k] = es[k]
      BY <3>1, <3>2, <3>5, AppendProperties, LenProperties
    <3>7. \A n \in 1 .. L + 1 : n \in 1 .. L \/ n = L + 1 BY <3>6
    <3>8. GoodIn(t) BY <3>1, <3>3, <3>4, <3>6, <3>7 DEF GoodIn
    <3> QED BY <3>2, <3>5, <3>8
  <2> QED BY <2>1, <2>2
<1>3. ASSUME NEW n \in 1 .. Len(stack') PROVE stack'[n].key \in GoodKeys
  <2>1. n + 1 \in 1 .. Len(stack) /\ stack'[n].key = stack[n + 1].key BY AppendStack
  <2> QED BY <2>1 DEF GoodInv, GoodIn
<1>4. GoodIn(stack') BY <1>3 DEF GoodIn
<1> QED BY <1>1, <1>2, <1>4 DEF GoodInv

\* In the beginning there are no keys.
LEMMA GoodInit == ASSUME Init PROVE GoodInv
BY DEF Init, ParserInit, GoodInv, GoodIn, GoodKeys

\* Every step keeps to them.
LEMMA GoodStep == ASSUME MemoryInv, GoodInv, [Next]_allvars PROVE GoodInv'
<1>1. /\ stack \in Seq(Entry) /\ fresh \in Nat /\ GoodIn(stack) /\ key \in GoodKeys
      /\ \A b \in DOMAIN heap : GoodIn(heap[b].elems)
  BY DEF MemoryInv, Shape, TypeOK, GoodInv
<1>2. GoodIn(<<>>) BY DEF GoodIn
<1>3. CASE ParseKey
  <2>1. UNCHANGED <<stack, heap>> /\ (key' = key \/ key' \in ValidKeys) BY <1>3 DEF ParseKey
  <2> QED BY <1>1, <2>1 DEF GoodInv, GoodKeys
<1>4. ASSUME NEW k \in GoodKeys, stack' = <<Undefined(k)>> \o stack, UNCHANGED <<heap, key>>
      PROVE  GoodInv'
  <2>1. k \in Keys \cup {NoKey} BY ParserAssumption DEF GoodKeys
  <2>2. Undefined(k) \in Entry /\ Undefined(k).key = k BY <2>1 DEF Undefined, Entry, NULL
  <2>3. GoodIn(stack') BY <1>1, <1>4, <2>2, GoodPush
  <2> QED BY <1>1, <1>4, <2>3 DEF GoodInv
<1>5. CASE ParseSeparator
  <2>1. UNCHANGED <<heap, key>> /\ (stack' = stack \/ stack' = <<Undefined(key)>> \o stack)
    BY <1>5 DEF ParseSeparator
  <2> QED BY <1>1, <1>4, <2>1 DEF GoodInv
<1>6. CASE ParseLoop
  <2>1. UNCHANGED <<heap, key>> /\ (stack' = stack \/ stack' = <<Undefined(NoKey)>> \o stack)
    BY <1>6 DEF ParseLoop
  <2>2. NoKey \in GoodKeys BY DEF GoodKeys
  <2> QED BY <1>1, <1>4, <2>1, <2>2 DEF GoodInv
<1>7. CASE ParseList \/ ParseTable \/ ParseString \/ ParseScalar
  <2>1. pc = "value" /\ stack # <<>>
    BY <1>7 DEF ParseList, ParseTable, ParseOpen, ParseString, ParseScalar, MemoryInv, Shape, Control
  <2>2. GoodIn(stack')
    <3>1. CASE ParseList BY <1>1, <2>1, <3>1, GoodOut DEF ParseList, ParseOpen, NULL
    <3>2. CASE ParseTable BY <1>1, <2>1, <3>2, GoodOut DEF ParseTable, ParseOpen, NULL
    <3>3. CASE ParseString
      <4>1. tokens[i].sym \in Literals /\ Out("string", tokens[i].sym, fresh)
        BY <3>3, CurrentToken DEF ParseString, Expect
      <4> QED BY <1>1, <2>1, <4>1, GoodOut
    <3>4. CASE ParseScalar
      <4>1. /\ tokens[i].sym \in Literals /\ Class[tokens[i].sym] \in {"boolean", "integer"}
            /\ Out(Class[tokens[i].sym], tokens[i].sym, NULL)
        BY <3>4, CurrentToken DEF ParseScalar, Expect
      <4> QED BY <1>1, <2>1, <4>1, GoodOut DEF NULL
    <3> QED BY <1>7, <3>1, <3>2, <3>3, <3>4
  <2>3. /\ key' = key
        /\ heap' = heap \/ heap' = [b \in DOMAIN heap \cup {fresh} |->
                             IF b = fresh THEN [cap |-> 0, elems |-> <<>>] ELSE heap[b]]
    BY <1>7 DEF ParseList, ParseTable, ParseOpen, ParseString, ParseScalar
  <2>4. \A b \in DOMAIN heap' : GoodIn(heap'[b].elems) BY <1>1, <1>2, <2>3
  <2> QED BY <1>1, <2>2, <2>3, <2>4 DEF GoodInv
<1>8. CASE AppendValue BY <1>8, AppendGood
<1>9. CASE Done \/ ParseBadValue \/ ParseValueEnd \/ ParseAfter \/ Failed \/ KevsFree \/ KevsFreed
             \/ Emit \/ ScanDone \/ ScanFailed \/ KevsReturn \/ UNCHANGED allvars
  <2>1. UNCHANGED <<stack, heap, key>>
    BY <1>9 DEF Done, ParseBadValue, ParseValueEnd, ParseAfter, Failed, Kept, KevsFree, KevsFreed,
      Emit, ScanDone, ScanFailed, KevsReturn, tree, allvars, vars
  <2> QED BY <1>1, <2>1 DEF GoodInv
<1>10. CASE KevsParseAgain
  <2>1. UNCHANGED <<stack, heap>> /\ key' = NoKey BY <1>10 DEF KevsParseAgain
  <2> QED BY <1>1, <2>1 DEF GoodInv, GoodKeys
<1>11. CASE Unwind
  <2>1. stack # <<>> /\ stack' = Tail(stack) /\ UNCHANGED <<heap, key>> BY <1>11 DEF Unwind
  <2>2. GoodIn(stack') BY <1>1, <2>1, GoodParts
  <2> QED BY <1>1, <2>1, <2>2 DEF GoodInv
<1>12. CASE FreeString \/ FreeArray
  <2>1. UNCHANGED <<stack, key>> /\ Free(Head(work).of.ptr) BY <1>12 DEF FreeString, FreeArray
  <2>2. \A b \in DOMAIN heap' : b \in DOMAIN heap /\ heap'[b] = heap[b] BY <2>1, FreeKept
  <2> QED BY <1>1, <2>1, <2>2 DEF GoodInv
<1>13. CASE FreeElements \/ FreeNothing
  <2>1. UNCHANGED <<stack, heap, key>> BY <1>13 DEF FreeElements, FreeNothing, tree
  <2> QED BY <1>1, <2>1 DEF GoodInv
<1> QED
  BY <1>3, <1>5, <1>6, <1>7, <1>8, <1>9, <1>10, <1>11, <1>12, <1>13 DEF Next, Parse, Release

\* The keys that parse_key compares with.
LEMMA GoodContainer ==
  ASSUME MemoryInv, GoodInv, pc \in Parsing
  PROVE  \A n \in DOMAIN Elems(Container.ptr) : Elems(Container.ptr)[n].key \in GoodKeys
<1>1. stack \in Seq(Entry) /\ work = <<>> /\ root \in Entry
  BY DEF MemoryInv, Shape, TypeOK, Control, Parsing
<1>2. PICK p : p = Container.ptr OBVIOUS
<1>3. (p # NULL => p \in DOMAIN heap) /\ Elems(p) \in Seq(Entry)
  <2>1. /\ Own(<<0, 0>>, root) \subseteq Owners
        /\ stack # <<>> => Own(<<0, Len(stack)>>, Head(stack)) \subseteq Owners
    BY HeldBlocks
  <2>2. stack # <<>> => Head(stack) \in Entry BY <1>1, HeadTailProperties
  <2> QED BY <1>1, <1>2, <2>1, <2>2, HeldElems DEF Container
<1>4. GoodIn(Elems(p))
  <2>1. GoodIn(<<>>) BY DEF GoodIn
  <2> QED BY <1>3, <2>1 DEF GoodInv, Elems
<1>5. DOMAIN Elems(p) = 1 .. Len(Elems(p)) BY <1>3, LenProperties
<1> QED BY <1>2, <1>4, <1>5 DEF GoodIn

-----------------------------------------------------------------------------
(* kevs.py goes on behind a token that only it accepts.                    *)

\* A step that leaves self.i or adds to it, and does not fail at an earlier token.
LEMMA PastOn ==
  ASSUME NEW k \in Int, NEW s, Past(s, k), NEW t, DOMAIN t = DOMAIN s, t.i = s.i \/ t.i = s.i + 1,
         t.pc = "failed" => k < t.at
  PROVE  Past(t, k)
<1>1. t.i \in Nat /\ k < t.i BY DEF Past
<1> QED BY <1>1 DEF Past

\* errorf.
LEMMA PastErrorf ==
  ASSUME NEW k \in Int, NEW s, Past(s, k), NEW m
  PROVE  Past(Errorf(s, m), k)
<1>1. PICK t : t = Errorf(s, m) OBVIOUS
<1>2. PICK e : e = IF s.i > Len(tokens) THEN "IndexError" ELSE m OBVIOUS
<1>3. t = [s EXCEPT !.pc = "failed", !.at = s.i, !.error = e] BY <1>1, <1>2 DEF Errorf
<1>4. DOMAIN t = DOMAIN s /\ t.i = s.i /\ t.at = s.i BY <1>3 DEF Past
<1>5. k < t.at BY <1>4 DEF Past
<1> QED BY <1>1, <1>4, <1>5, PastOn

\* A value is pushed.
LEMMA PastPush ==
  ASSUME NEW k \in Int, NEW s, Past(s, k), NEW u
  PROVE  Past(PyPush(s, u), k)
<1>1. PICK t, v : t = PyPush(s, u) /\ t = [s EXCEPT !.stack = v] BY DEF PyPush
<1>2. DOMAIN t = DOMAIN s /\ t.i = s.i /\ t.pc = s.pc /\ t.at = s.at BY <1>1 DEF Past
<1>3. t.pc = "failed" => k < t.at BY <1>2 DEF Past
<1> QED BY <1>1, <1>2, <1>3, PastOn

\* parse_delim.
LEMMA PastDelim ==
  ASSUME NEW k \in Int, NEW s, Past(s, k), NEW c, NEW q, q # "failed", NEW m
  PROVE  Past(PyDelim(s, c, q, m), k)
<1>1. CASE PyExpectDelim(s, c)
  <2>1. PICK t : t = PyDelim(s, c, q, m) /\ t = [s EXCEPT !.i = s.i + 1, !.pc = q]
    BY <1>1 DEF PyDelim
  <2>2. DOMAIN t = DOMAIN s /\ t.i = s.i + 1 /\ t.pc = q BY <2>1 DEF Past
  <2> QED BY <2>1, <2>2, PastOn
<1>2. CASE ~PyExpectDelim(s, c) BY <1>2, PastErrorf DEF PyDelim
<1> QED BY <1>1, <1>2

\* The token becomes the value.
LEMMA PastIs ==
  ASSUME NEW k \in Int, NEW s, Past(s, k), NEW d, NEW e, NEW q, q # "failed"
  PROVE  Past(PyIs(s, d, e, q), k)
<1>1. PICK v : v = <<[Head(s.stack) EXCEPT !.kind = d, !.data = e]>> \o Tail(s.stack) OBVIOUS
<1>2. PICK t : t = PyIs(s, d, e, q) OBVIOUS
<1>3. t = [s EXCEPT !.i = s.i + 1, !.pc = q, !.stack = v] BY <1>1, <1>2 DEF PyIs
<1>4. DOMAIN t = DOMAIN s /\ t.i = s.i + 1 /\ t.pc = q BY <1>3 DEF Past
<1> QED BY <1>2, <1>4, PastOn

\* Every step.
LEMMA PastNext ==
  ASSUME NEW k \in Int, NEW s, Past(s, k)
  PROVE  Past(PyNext(s), k)
<1>1. ASSUME NEW q, q # "failed" PROVE Past([s EXCEPT !.pc = q], k)
  <2>1. PICK t : t = [s EXCEPT !.pc = q] OBVIOUS
  <2>2. DOMAIN t = DOMAIN s /\ t.i = s.i /\ t.pc = q BY <2>1 DEF Past
  <2> QED BY <1>1, <2>1, <2>2, PastOn
<1>2. Past(PyKey(s), k)
  <2>1. PICK e, v : e = PyKey(s) /\ v = tokens[s.i].sym OBVIOUS
  <2>2. \/ e = [s EXCEPT !.pc = "done"]
        \/ e = Errorf(s, "expected_key_token")
        \/ e = Errorf(s, "key_is_not_a_valid_identifier")
        \/ e = Errorf(s, "key_is_not_unique_for_current_table")
        \/ e = [s EXCEPT !.i = s.i + 1, !.pc = "sep", !.key = v]
    BY <2>1 DEF PyKey
  <2>3. CASE e = [s EXCEPT !.pc = "done"]
    <3>1. Past([s EXCEPT !.pc = "done"], k) BY <1>1
    <3> QED BY <2>1, <2>3, <3>1
  <2>4. CASE e = [s EXCEPT !.i = s.i + 1, !.pc = "sep", !.key = v]
    <3>1. DOMAIN e = DOMAIN s /\ e.i = s.i + 1 /\ e.pc = "sep" BY <2>4 DEF Past
    <3> QED BY <2>1, <3>1, PastOn
  <2>5. ASSUME NEW m, e = Errorf(s, m) PROVE Past(e, k) BY <2>5, PastErrorf
  <2> QED BY <2>1, <2>2, <2>3, <2>4, <2>5
<1>3. Past(PySeparator(s), k)
  <2>1. PICK t : t = PyPush(s, s.key) OBVIOUS
  <2>2. Past(t, k) BY <2>1, PastPush
  <2>3. PySeparator(s) = PyDelim(t, kKeyValSep, "value", "missing_key_value_separator")
    BY <2>1 DEF PySeparator
  <2> QED BY <2>2, <2>3, PastDelim
<1>4. Past(PyValue(s), k)
  <2>1. \/ \E m : PyValue(s) = Errorf(s, m)
        \/ \E d, e : PyValue(s) = PyIs(s, d, e, "loop")
        \/ \E d, e : PyValue(s) = PyIs(s, d, e, "end")
    BY DEF PyValue, PySimple
  <2> QED BY <2>1, PastErrorf, PastIs
<1>5. Past(PyClose(s), k)
  <2>1. PICK t : t = PyClose(s) /\ t = [s EXCEPT !.i = s.i + 1, !.pc = "end"] BY DEF PyClose
  <2>2. DOMAIN t = DOMAIN s /\ t.i = s.i + 1 /\ t.pc = "end" BY <2>1 DEF Past
  <2> QED BY <2>1, <2>2, PastOn
<1>6. Past(PyLoop(s), k)
  <2>1. PICK t : t = PyPush(s, NoKey) OBVIOUS
  <2>2. Past(t, k) BY <2>1, PastPush
  <2>3. PICK u : u = [t EXCEPT !.pc = "value"] OBVIOUS
  <2>4. DOMAIN u = DOMAIN t /\ u.i = t.i /\ u.pc = "value" BY <2>2, <2>3 DEF Past
  <2>5. Past(u, k) BY <2>2, <2>4, PastOn
  <2>6. PyLoop(s) = PyClose(s) \/ PyLoop(s) = u \/ PyLoop(s) = [s EXCEPT !.pc = "pair"]
    BY <2>1, <2>3 DEF PyLoop
  <2> QED BY <1>1, <1>5, <2>5, <2>6
<1>7. Past(PyAfter(s), k) BY <1>1, <1>5 DEF PyAfter
<1>8. Past(PyEnd(s), k) BY PastDelim DEF PyEnd
<1>9. Past(PyAppend(s), k)
  <2>1. PICK t : t = PyAppend(s) OBVIOUS
  <2>2. PICK v, u : v = Head(s.stack) /\ u = Tail(s.stack) OBVIOUS
  <2>3. PICK w, x : /\ w = Append(s.table, v)
                    /\ x = <<[Head(u) EXCEPT !.elems = Append(Head(u).elems, v)]>> \o Tail(u)
    OBVIOUS
  <2>4. \/ t = [s EXCEPT !.pc = "pair", !.stack = u, !.table = w]
        \/ t = [s EXCEPT !.pc = "after", !.stack = x]
    BY <2>1, <2>2, <2>3 DEF PyAppend
  <2>5. DOMAIN t = DOMAIN s /\ t.i = s.i /\ t.pc \in {"pair", "after"} BY <2>4 DEF Past
  <2> QED BY <2>1, <2>5, PastOn
<1> QED BY <1>2, <1>3, <1>4, <1>6, <1>7, <1>8, <1>9 DEF PyNext

\* It stays behind the token, to the end.
LEMMA PastStays ==
  ASSUME tokens \in Seq(Token), NEW n \in 0 .. PySteps, NEW k \in Int, Past(PyRun[n], k)
  PROVE  Past(PyParse, k)
<1>1. PICK N : N = PySteps OBVIOUS
<1>2. PICK f : f = PyRun OBVIOUS
<1>3. N \in Nat /\ \A m \in 1 .. N : f[m] = PyNext(f[m - 1]) BY <1>1, <1>2, PyRunIs
<1> DEFINE Bad == {m \in n .. N : ~Past(f[m], k)}
<1>4. SUFFICES ASSUME Bad # {} PROVE FALSE
  <2>1. N \in n .. N BY <1>1, <1>3
  <2> QED BY <1>1, <1>2, <2>1 DEF PyParse
<1>5. n \in 0 .. N /\ Past(f[n], k) BY <1>1, <1>2
<1>6. Bad \subseteq Nat BY <1>3, <1>5
<1>7. PICK m \in Bad : \A j \in Bad : ~(j < m)
  <2> HIDE DEF Bad
  <2> QED BY <1>4, <1>6, LeastOf
<1>8. m \in n .. N /\ ~Past(f[m], k) BY <1>7
<1>9. m # n BY <1>5, <1>8
<1>10. m \in 1 .. N /\ m - 1 \in n .. N /\ m - 1 < m BY <1>3, <1>5, <1>8, <1>9
<1>11. Past(f[m - 1], k) BY <1>7, <1>10
<1>12. f[m] = PyNext(f[m - 1]) BY <1>3, <1>10
<1>13. PICK s : s = f[m - 1] OBVIOUS
<1> QED BY <1>8, <1>11, <1>12, <1>13, PastNext

-----------------------------------------------------------------------------
(* The steps of kevs.c are steps of kevs.py.                               *)

\* kevs.py makes the step that kevs.c makes.
PyGoes ==
  IF pc' \in Parsing THEN PyNext(PyNow) = PyNow'
  ELSE PyOutcome(PyNext(PyNow), error', i', Tree(heap', root'.ptr))

\* Both refuse the token.
LEMMA PyFailGoes ==
  ASSUME MemoryInv, EndInv, pc \in Parsing, ~NoneLeft, NEW m, m # "none",
         PyNext(PyNow) = Errorf(PyNow, m), Fail(m), i \notin OnlyPyAccepts,
         i' = IF m = "value_is_not_an_integer" THEN i + 1 ELSE i
  PROVE  PyGoes
<1>1. pc' = "unwind" /\ error' = m BY DEF Fail
<1>2. pc' \notin Parsing BY <1>1 DEF Parsing
<1>3. \A tb : PyAnswers(Errorf(PyNow, m), m, i', tb) BY PyFailed
<1>4. StopAt(m, i') = i
  <2>1. i \in Nat /\ (i + 1) - 1 = i BY PyFacts
  <2> QED BY <2>1 DEF StopAt
<1> QED BY <1>1, <1>2, <1>3, <1>4 DEF PyGoes, PyOutcome

\* kevs.py accepts the token that kevs.c refuses.
LEMMA PyPastGoes ==
  ASSUME MemoryInv, EndInv, pc \in Parsing, NEW m, m # "none", Fail(m), i \in OnlyPyAccepts,
         i' = IF m = "value_is_not_an_integer" THEN i + 1 ELSE i,
         NEW r, r = PyNext(PyNow), DOMAIN r = DOMAIN PyNow, r.i = i + 1, r.pc # "failed"
  PROVE  PyGoes
<1>1. pc' = "unwind" /\ error' = m BY DEF Fail
<1>2. pc' \notin Parsing BY <1>1 DEF Parsing
<1>3. i \in Nat /\ (i + 1) - 1 = i BY PyFacts
<1>4. StopAt(m, i') = i BY <1>3 DEF StopAt
<1>5. DOMAIN PyNow = {"pc", "i", "key", "stack", "table", "error", "at"} BY PyNowFields DEF IsPy
<1>6. Past(r, i) BY <1>3, <1>5 DEF Past
<1> QED BY <1>1, <1>2, <1>4, <1>6 DEF PyGoes, PyOutcome

\* A token that only kevs.py accepts.
LEMMA OnlyPyIs ==
  ASSUME MemoryInv, ~NoneLeft, NEW t, t = tokens[i].sym
  PROVE  /\ i \in OnlyPyAccepts <=>
              \/ Expect("key") /\ t \in PyValidKeys /\ t \notin ValidKeys
              \/ Expect("value") /\ PyClass[t] # Class[t]
         /\ Expect("value") => /\ t \in Literals /\ t # NoData
                               /\ \/ PyClass[t] = Class[t]
                                  \/ Class[t] = "badString" /\ PyClass[t] = "string"
                                  \/ Class[t] = "badInteger" /\ PyClass[t] = "integer"
<1>1. tokens \in Seq(Token) /\ Len(tokens) \in Nat /\ i \in 1 .. Len(tokens) + 1
  BY LenProperties DEF MemoryInv, Shape, TypeOK
<1>2. i \in DOMAIN tokens BY <1>1 DEF NoneLeft
<1>3. Expect("value") => t \in Literals BY CurrentToken DEF Expect
<1> QED BY <1>2, <1>3, PyParserAssumption DEF OnlyPyAccepts, Expect

\* A function goes on.
LEMMA PyStepGoes ==
  ASSUME NEW t, t = PyNext(PyNow), IsPy(t), pc' \in Parsing, t.pc = pc', t.i = i', t.key = key',
         t.stack = PyStack(heap', stack'), t.table = Tree(heap', root'.ptr)
  PROVE  PyGoes
<1>1. t = PyAt(pc', i', key', PyStack(heap', stack'), Tree(heap', root'.ptr)) BY PyRecord
<1> QED BY <1>1 DEF PyGoes, PyNow

\* There is a token when a function looks for one.
LEMMA PyLooks ==
  ASSUME Looked, GrammarInv' PROVE ~NoneLeft
BY DEF Looked, GrammarInv, Suffices

\* parse_key.
LEMMA ParseKeyGoes == ASSUME MemoryInv, EndInv, GrammarInv', GoodInv, ParseKey PROVE PyGoes
<1>1. /\ pc = "pair" /\ pc \in Parsing /\ ~NoneLeft /\ Arrays(stack)
      /\ UNCHANGED <<tokens, stack, root, heap>>
  BY PyLooks DEF ParseKey, AtPair, Parsing, MemoryInv, Shape, Control
<1>2. PICK s, st, tb : s = PyNow /\ st = PyStack(heap, stack) /\ tb = Tree(heap, root.ptr) OBVIOUS
<1>3. IsPy(s) /\ s.pc = "pair" /\ s.i = i /\ s.stack = st /\ s.table = tb BY <1>1, <1>2, PyNowFields
<1>4. ~(s.i > Len(tokens)) BY <1>1, <1>3 DEF NoneLeft
<1>5. PICK t : t = tokens[i].sym OBVIOUS
<1>6. PICK u : u = PyIsUnique(t, PyParent(s)) OBVIOUS
<1>7. PyNext(s) = IF ~PyExpect(s, "key") THEN Errorf(s, "expected_key_token")
                  ELSE IF t \notin PyValidKeys THEN Errorf(s, "key_is_not_a_valid_identifier")
                  ELSE IF ~u THEN Errorf(s, "key_is_not_unique_for_current_table")
                  ELSE [s EXCEPT !.i = i + 1, !.pc = "sep", !.key = t]
  <2>1. PyNext(s) = PyKey(s) BY <1>3, PyNextIs
  <2> QED BY <1>3, <1>4, <1>5, <1>6, <2>1 DEF PyKey
<1>8. (PyExpect(s, "key") <=> Expect("key")) /\ (u <=> IsUnique(t))
  BY <1>1, <1>2, <1>6, PyFacts, PyParentIs
<1>9. ASSUME NEW m \in {"key_is_not_a_valid_identifier", "key_is_not_unique_for_current_table"},
             PyNext(s) = Errorf(s, m), Fail(m), i' = i, i \notin OnlyPyAccepts
      PROVE  PyGoes
  BY <1>1, <1>2, <1>9, PyFailGoes
<1>10. CASE ~Expect("key")
  <2>1. error' = "expected_key_token" BY <1>10 DEF ParseKey, Fail
  <2> QED BY <2>1 DEF GrammarInv, Suffices
<1>11. CASE Expect("key") /\ t \notin ValidKeys
  <2>1. Fail("key_is_not_a_valid_identifier") /\ i' = i BY <1>5, <1>11 DEF ParseKey
  <2>2. i \in OnlyPyAccepts <=> t \in PyValidKeys
    BY <1>1, <1>5, <1>11, OnlyPyIs DEF Expect
  <2>3. CASE t \notin PyValidKeys BY <1>7, <1>8, <1>9, <1>11, <2>1, <2>2, <2>3
  <2>4. CASE t \in PyValidKeys
    <3>1. t # NoKey
      <4>1. t \in Keys BY <1>1, <1>5, <1>11, CurrentToken DEF Expect
      <4> QED BY <4>1, ParserAssumption
    <3>2. IsUnique(t)
      <4>1. \A n \in DOMAIN Elems(Container.ptr) : Elems(Container.ptr)[n].key \in GoodKeys
        BY <1>1, GoodContainer
      <4> QED BY <1>11, <3>1, <4>1 DEF IsUnique, GoodKeys
    <3>3. PICK r : r = PyNext(s) OBVIOUS
    <3>4. r = [s EXCEPT !.i = i + 1, !.pc = "sep", !.key = t]
      BY <1>7, <1>8, <1>11, <2>4, <3>2, <3>3
    <3>5. DOMAIN r = DOMAIN s /\ r.i = i + 1 /\ r.pc # "failed" BY <1>3, <3>4 DEF IsPy
    <3> QED BY <1>1, <1>2, <2>1, <2>2, <2>4, <3>3, <3>5, PyPastGoes
  <2> QED BY <2>3, <2>4
<1>12. CASE Expect("key") /\ t \in ValidKeys /\ ~IsUnique(t)
  <2>1. t \in PyValidKeys /\ i \notin OnlyPyAccepts
    BY <1>1, <1>5, <1>12, OnlyPyIs, PyParserAssumption DEF Expect
  <2>2. Fail("key_is_not_unique_for_current_table") /\ i' = i BY <1>5, <1>12 DEF ParseKey
  <2> QED BY <1>7, <1>8, <1>9, <1>12, <2>1, <2>2
<1>13. CASE Expect("key") /\ t \in ValidKeys /\ IsUnique(t)
  <2>0. t \in PyValidKeys BY <1>13, PyParserAssumption
  <2>1. pc' = "sep" /\ i' = i + 1 /\ key' = t BY <1>5, <1>13 DEF ParseKey, Pop
  <2>2. PICK r : r = PyNext(s) OBVIOUS
  <2>3. r = [s EXCEPT !.i = i + 1, !.pc = "sep", !.key = t] BY <1>7, <1>8, <1>13, <2>0, <2>2
  <2>4. /\ r.pc = "sep" /\ r.i = i + 1 /\ r.key = t /\ r.stack = s.stack /\ r.table = s.table
        /\ r.error = s.error /\ r.at = s.at
    BY <1>3, <2>3 DEF IsPy
  <2>5. DOMAIN r = DOMAIN s /\ r = [x \in DOMAIN r |-> r[x]] BY <2>3
  <2>6. IsPy(r) BY <1>3, <2>4, <2>5, PyChanged
  <2>7. pc' \in Parsing BY <2>1 DEF Parsing
  <2> QED BY <1>1, <1>2, <1>3, <2>1, <2>2, <2>4, <2>6, <2>7, PyStepGoes
<1> QED BY <1>10, <1>11, <1>12, <1>13

\* A value that parse_value has not read yet.
LEMMA UndefinedIs ==
  ASSUME NEW h, NEW k \in Keys \cup {NoKey}
  PROVE  Undefined(k) \in Entry /\ EntryOf(h, Undefined(k)) = PyUndefined(k)
<1>1. Undefined(k) \in Entry BY DEF Undefined, Entry, NULL
<1>2. PICK e : e = Undefined(k) OBVIOUS
<1>3. e.key = k /\ e.kind = "undefined" /\ e.data = NoData BY <1>2 DEF Undefined
<1>4. EntryOf(h, e) = [key |-> k, kind |-> "undefined", data |-> NoData, elems |-> <<>>]
  BY <1>3 DEF EntryOf, PyEntry, PyData
<1> QED BY <1>1, <1>2, <1>4 DEF PyUndefined

\* The separator.
LEMMA ParseSeparatorGoes == ASSUME MemoryInv, EndInv, GrammarInv', ParseSeparator PROVE PyGoes
<1>1. /\ pc = "sep" /\ pc \in Parsing /\ ~NoneLeft /\ UNCHANGED <<tokens, key, root, heap>>
  BY PyLooks DEF ParseSeparator, Parsing
<1>2. PICK s, st, tb : s = PyNow /\ st = PyStack(heap, stack) /\ tb = Tree(heap, root.ptr) OBVIOUS
<1>3. IsPy(s) /\ s.pc = "sep" /\ s.i = i /\ s.key = key /\ s.stack = st /\ s.table = tb
  BY <1>1, <1>2, PyNowFields
<1>4. PICK u : u = <<PyUndefined(key)>> \o st OBVIOUS
<1>5. PICK r : r = [s EXCEPT !.stack = u] OBVIOUS
<1>6. PyNext(s) = PyDelim(r, kKeyValSep, "value", "missing_key_value_separator")
  BY <1>3, <1>4, <1>5, PyNextIs DEF PySeparator, PyPush
<1>7. /\ r.pc = s.pc /\ r.i = i /\ r.key = key /\ r.stack = u /\ r.table = tb
      /\ r.error = s.error /\ r.at = s.at
  BY <1>3, <1>5 DEF IsPy
<1>8. DOMAIN r = DOMAIN s /\ r = [x \in DOMAIN r |-> r[x]] BY <1>5
<1>9. IsPy(r) BY <1>3, <1>7, <1>8, PyChanged
<1>10. PyExpectDelim(r, kKeyValSep) <=> ExpectDelim(kKeyValSep)
  <2>1. PyExpectDelim(r, kKeyValSep) <=> PyExpectDelim(s, kKeyValSep)
    BY <1>3, <1>7 DEF PyExpectDelim, PyExpect
  <2> QED BY <1>1, <1>2, <2>1, PyFacts
<1>11. CASE ExpectDelim(kKeyValSep)
  <2>1. pc' = "value" /\ i' = i + 1 /\ stack' = <<Undefined(key)>> \o stack
    BY <1>11 DEF ParseSeparator, Pop
  <2>2. PICK t : t = PyNext(s) OBVIOUS
  <2>3. t = [r EXCEPT !.i = i + 1, !.pc = "value"] BY <1>6, <1>7, <1>10, <1>11, <2>2 DEF PyDelim
  <2>4. /\ t.pc = "value" /\ t.i = i + 1 /\ t.key = key /\ t.stack = u /\ t.table = tb
        /\ t.error = r.error /\ t.at = r.at
    BY <1>7, <1>9, <2>3 DEF IsPy
  <2>5. DOMAIN t = DOMAIN r /\ t = [x \in DOMAIN t |-> t[x]] BY <2>3
  <2>6. IsPy(t) BY <1>9, <2>4, <2>5, PyChanged
  <2>7. PyStack(heap', stack') = u
    <3>1. key \in Keys \cup {NoKey} /\ stack \in Seq(Entry) BY <1>1, PyFacts
    <3>2. PICK e : e = Undefined(key) OBVIOUS
    <3>3. e \in Entry /\ EntryOf(heap, e) = PyUndefined(key) BY <3>1, <3>2, UndefinedIs
    <3> QED BY <1>1, <1>2, <1>4, <2>1, <3>1, <3>2, <3>3, PyStackPush
  <2>8. pc' \in Parsing BY <2>1 DEF Parsing
  <2> QED BY <1>1, <1>2, <2>1, <2>2, <2>4, <2>6, <2>7, <2>8, PyStepGoes
<1>12. CASE ~ExpectDelim(kKeyValSep)
  <2>1. error' = "missing_key_value_separator" BY <1>12 DEF ParseSeparator, Fail
  <2> QED BY <2>1 DEF GrammarInv, Suffices
<1> QED BY <1>11, <1>12

\* A value that begins is a value of kevs.py that begins.
LEMMA ValueIsPy ==
  ASSUME MemoryInv, EndInv, NEW kind, NEW data, NEW p, NEW q, ReadsValue(kind, data, p, q)
  PROVE  PyNext(PyNow) = PyIs(PyNow, kind, PyData(data), q)
<1>1. /\ pc = "value" /\ pc \in Parsing /\ ~NoneLeft /\ Begins(kind, data, p, q)
      /\ kind \in {"string", "integer", "boolean", "list", "table"}
  BY DEF ReadsValue, Parsing
<1>2. PICK s : s = PyNow OBVIOUS
<1>3. s.pc = "value" /\ s.i = i BY <1>1, <1>2, PyNowFields
<1>4. PyNext(s) = PyValue(s) BY <1>3, PyNextIs
<1>5. /\ (PyExpect(s, "value") <=> Expect("value"))
      /\ \A c : PyExpectDelim(s, c) <=> ExpectDelim(c)
  BY <1>1, <1>2, PyFacts
<1>6. CASE IsBracket(Openers, i) /\ data = NoData /\ q = "loop"
           /\ kind = IF tokens[i].sym = kListBegin THEN "list" ELSE "table"
  <2>1. /\ tokens[i].kind = "delim" /\ tokens[i].sym \in {kListBegin, kTableBegin}
        /\ PyData(data) = NoData
    BY <1>6 DEF IsBracket, Openers, PyData
  <2>2. CASE tokens[i].sym = kListBegin
    <3>1. PyExpectDelim(s, kListBegin) BY <1>1, <1>5, <2>1, <2>2 DEF ExpectDelim, Expect
    <3> QED BY <1>2, <1>4, <1>6, <2>1, <2>2, <3>1 DEF PyValue
  <2>3. CASE tokens[i].sym # kListBegin
    <3>1. ~PyExpectDelim(s, kListBegin) /\ PyExpectDelim(s, kTableBegin)
      BY <1>1, <1>5, <2>1, <2>3 DEF ExpectDelim, Expect
    <3> QED BY <1>2, <1>4, <1>6, <2>1, <2>3, <3>1 DEF PyValue
  <2> QED BY <2>2, <2>3
<1>7. CASE tokens[i].kind = "value" /\ data = tokens[i].sym /\ q = "end"
           /\ kind = IF Class[tokens[i].sym] = "raw" THEN "string" ELSE Class[tokens[i].sym]
  <2>1. ~PyExpectDelim(s, kListBegin) /\ ~PyExpectDelim(s, kTableBegin) /\ PyExpect(s, "value")
    BY <1>1, <1>5, <1>7 DEF ExpectDelim, Expect
  <2>2. PyNext(s) = PySimple(s) BY <1>4, <2>1 DEF PyValue
  <2>3. PICK w : w = tokens[i].sym OBVIOUS
  <2>4. PICK class : class = PyClass[w] OBVIOUS
  <2>5. /\ class # "badString" /\ class # "badInteger" /\ PyData(data) = PyDatum[w]
        /\ kind = IF class = "raw" THEN "string" ELSE class
    <3>1. Class[w] # "badString" /\ Class[w] # "badInteger" BY <1>1, <1>7, <2>3
    <3>2. class = Class[w] /\ w # NoData
      BY <1>1, <1>7, <2>3, <2>4, <3>1, OnlyPyIs DEF Expect
    <3> QED BY <1>7, <2>3, <3>1, <3>2 DEF PyData
  <2>6. PySimple(s) = IF class = "badString" THEN Errorf(s, "could_not_normalize_string")
                      ELSE IF class = "badInteger" THEN Errorf(s, "value_is_not_an_integer")
                      ELSE PyIs(s, IF class = "raw" THEN "string" ELSE class, PyDatum[w], "end")
    BY <1>3, <2>1, <2>3, <2>4 DEF PySimple
  <2> QED BY <1>2, <1>7, <2>2, <2>5, <2>6
<1> QED BY <1>1, <1>6, <1>7 DEF Begins

\* The fields of an element as kevs.py has it.
LEMMA EntryDomain ==
  ASSUME NEW h, NEW e, NEW r, r = EntryOf(h, e)
  PROVE  DOMAIN r = {"key", "kind", "data", "elems"} /\ r = [x \in DOMAIN r |-> r[x]]
<1>1. r = [key |-> e.key, kind |-> e.kind, data |-> PyData(e.data), elems |-> r.elems]
  BY EntryFields
<1> QED BY <1>1

\* The entry that a value becomes.
LEMMA EntryTurns ==
  ASSUME NEW h, NEW d, d.ptr = NULL, NEW r, r = EntryOf(h, d),
         NEW v, DOMAIN v = DOMAIN r, v = [x \in DOMAIN v |-> v[x]],
         v.key = r.key, v.elems = r.elems,
         NEW g, NEW e, e.key = d.key, e.kind = v.kind, PyData(e.data) = v.data,
         e.kind \in {"list", "table"} => e.ptr = NULL
  PROVE  EntryOf(g, e) = v
<1>1. EntryOf(h, d).elems = <<>> BY EntryFields DEF Tree
<1>2. EntryOf(g, e).elems = <<>> BY EntryFields DEF Tree
<1>3. PICK u : u = EntryOf(g, e) OBVIOUS
<1>4. DOMAIN u = {"key", "kind", "data", "elems"} /\ u = [x \in DOMAIN u |-> u[x]] BY <1>3, EntryDomain
<1>5. DOMAIN v = {"key", "kind", "data", "elems"} BY EntryDomain
<1>6. u.key = v.key /\ u.kind = v.kind /\ u.data = v.data /\ u.elems = v.elems
  BY <1>1, <1>2, <1>3, EntryFields
<1>7. \A x \in DOMAIN v : v[x] = u[x] BY <1>5, <1>6
<1>8. u = v BY <1>4, <1>5, <1>7
<1> QED BY <1>3, <1>8

\* What is below the top of the stack stays when a string is copied.
LEMMA BelowStays ==
  ASSUME MemoryInv, EndInv, NEW kind, NEW data, NEW p, NEW q, ReadsValue(kind, data, p, q),
         NEW b \in Seq(Entry), b = Tail(stack), stack # <<>>
  PROVE  PyStack(heap', b) = PyStack(heap, b) /\ Tree(heap', root.ptr) = Tree(heap, root.ptr)
<1>1. PICK g : g = heap' OBVIOUS
<1>2. pc \in Parsing BY DEF ReadsValue, Parsing
<1>3. stack \in Seq(Entry) /\ root \in Entry /\ Nested(heap) /\ Sound(heap) BY <1>2, PyFacts
<1>4. CASE heap' = heap BY <1>4
<1>5. CASE ParseString /\ fresh \notin DOMAIN heap /\ DOMAIN heap' = DOMAIN heap \cup {fresh}
  <2>1. PICK f : f = fresh OBVIOUS
  <2>2. Grows(heap, g, f) /\ Nested(g) /\ f \notin DOMAIN heap /\ DOMAIN g = DOMAIN heap \cup {f}
    BY <1>1, <1>5, <2>1, StringGrows, ParseStringNested
  <2>3. ASSUME NEW e, e.ptr # NULL => e.ptr \in DOMAIN heap
        PROVE  EntryOf(g, e) = EntryOf(heap, e) /\ Tree(g, e.ptr) = Tree(heap, e.ptr)
    <3>1. e.ptr # NULL => e.ptr \in DOMAIN g \ {f} BY <2>2, <2>3
    <3> QED BY <1>3, <2>2, <3>1, EntryStays
  <2>4. root.ptr # NULL => root.ptr \in DOMAIN heap BY <1>3, HeldBlocks, HeldElems
  <2>5. ASSUME NEW m \in 1 .. Len(b) PROVE EntryOf(g, b[m]) = EntryOf(heap, b[m])
    <3>1. Len(b) = Len(stack) - 1 /\ Len(stack) \in Nat /\ b[m] = stack[m + 1]
      BY <1>3, HeadTailProperties, LenProperties
    <3>2. m + 1 \in 1 .. Len(stack) BY <3>1
    <3>3. PICK e, o : e = stack[m + 1] /\ o = <<0, Len(stack) + 1 - (m + 1)>> OBVIOUS
    <3>4. Own(o, e) \subseteq Owners BY <3>2, <3>3, OwnersAt
    <3>5. e \in Entry BY <1>3, <3>2, <3>3
    <3>6. e.ptr # NULL => e.ptr \in DOMAIN heap BY <3>4, <3>5, HeldElems
    <3>7. EntryOf(g, e) = EntryOf(heap, e) BY <2>3, <3>6
    <3> QED BY <3>1, <3>3, <3>7
  <2>6. PyStack(g, b) = PyStack(heap, b) BY <2>5, PyStackSame
  <2>7. Tree(g, root.ptr) = Tree(heap, root.ptr) BY <2>3, <2>4
  <2> QED BY <1>1, <2>6, <2>7
<1> QED BY <1>4, <1>5 DEF ReadsValue

\* parse_list_value, parse_table_value and parse_simple_value.
LEMMA ValueGoes ==
  ASSUME MemoryInv, EndInv, ParseList \/ ParseTable \/ ParseString \/ ParseScalar
  PROVE  PyGoes
<1>1. PICK kind, data, p, q : ReadsValue(kind, data, p, q) BY ValueSteps
<1>2. /\ pc = "value" /\ pc \in Parsing /\ pc' = q /\ pc' \in Parsing /\ i' = i + 1
      /\ UNCHANGED <<key, root>>
      /\ kind \in {"string", "integer", "boolean", "list", "table"} /\ data \in Literals \cup {NoData}
      /\ p \in Nat
      /\ kind \in {"list", "table"} => p = NULL
  <2>1. /\ pc = "value" /\ pc \in Parsing /\ pc' = q /\ pc' \in Parsing /\ i' = i + 1
        /\ UNCHANGED <<key, root>> /\ Begins(kind, data, p, q) /\ ~NoneLeft
        /\ kind \in {"string", "integer", "boolean", "list", "table"} /\ data \in Literals \cup {NoData}
        /\ p \in Nat
    BY <1>1 DEF ReadsValue, Parsing
  <2>2. ASSUME tokens[i].kind = "value",
               kind = IF Class[tokens[i].sym] = "raw" THEN "string" ELSE Class[tokens[i].sym]
        PROVE  kind \notin {"list", "table"}
    <3>1. tokens[i].sym \in Literals BY <2>1, <2>2, CurrentToken
    <3> QED BY <2>2, <3>1, ParserAssumption DEF Classes
  <2> QED BY <2>1, <2>2 DEF Begins
<1>3. stack # <<>> /\ Head(stack).ptr = NULL BY <1>2 DEF MemoryInv, Shape, Control
<1>4. PICK s, st, tb : s = PyNow /\ st = PyStack(heap, stack) /\ tb = Tree(heap, root.ptr) OBVIOUS
<1>5. IsPy(s) /\ s.pc = "value" /\ s.i = i /\ s.key = key /\ s.stack = st /\ s.table = tb
  BY <1>2, <1>4, PyNowFields
<1>6. PICK b, d : b = Tail(stack) /\ d = Head(stack) OBVIOUS
<1>7. stack \in Seq(Entry) /\ b \in Seq(Entry) /\ d \in Entry BY <1>2, <1>3, <1>6, PyFacts
<1>8. PICK e : e = [d EXCEPT !.kind = kind, !.data = data, !.ptr = p] OBVIOUS
<1>9. stack' = <<e>> \o b BY <1>1, <1>6, <1>8 DEF ReadsValue, Out
<1>10. e \in Entry /\ e.key = d.key /\ e.kind = kind /\ e.data = data /\ e.ptr = p
  BY <1>2, <1>7, <1>8 DEF Entry
<1>11. PICK pd, v : /\ pd = PyData(data)
                    /\ v = [EntryOf(heap, d) EXCEPT !.kind = kind, !.data = PyData(data)]
  OBVIOUS
<1>12. PICK w : w = PyStack(heap, b) OBVIOUS
<1>13. PyStack(heap', stack') = <<v>> \o w /\ Tree(heap', root'.ptr) = tb
  <2>1. PICK g : g = heap' OBVIOUS
  <2>2. EntryOf(g, e) = v
    <3>1. d.ptr = NULL /\ (e.kind \in {"list", "table"} => e.ptr = NULL) BY <1>2, <1>3, <1>6, <1>10
    <3>2. PICK h, y : h = heap /\ y = EntryOf(h, d) OBVIOUS
    <3>3. DOMAIN y = {"key", "kind", "data", "elems"} BY <3>2, EntryDomain
    <3>4. v = [y EXCEPT !.kind = kind, !.data = pd] BY <1>11, <3>2
    <3>5. /\ DOMAIN v = DOMAIN y /\ v = [x \in DOMAIN v |-> v[x]]
          /\ v.key = y.key /\ v.elems = y.elems /\ v.kind = kind /\ v.data = pd
      BY <3>3, <3>4
    <3>6. e.key = d.key /\ e.kind = v.kind /\ PyData(e.data) = v.data BY <1>10, <1>11, <3>5
    <3> QED BY <3>1, <3>2, <3>5, <3>6, EntryTurns
  <2>3. PyStack(g, b) = w /\ Tree(g, root.ptr) = tb
    BY <1>1, <1>3, <1>4, <1>6, <1>7, <1>12, <2>1, BelowStays
  <2>4. PyStack(g, <<e>> \o b) = <<EntryOf(g, e)>> \o PyStack(g, b) BY <1>7, <1>10, PyStackPush
  <2> QED BY <1>2, <1>9, <2>1, <2>2, <2>3, <2>4
<1>14. Head(st) = EntryOf(heap, d) /\ Tail(st) = w BY <1>3, <1>4, <1>6, <1>7, <1>12, PyStackParts
<1>15. PICK r : r = PyNext(s) OBVIOUS
<1>16. PICK u : u = <<v>> \o w OBVIOUS
<1>17. r = [s EXCEPT !.i = i + 1, !.pc = q, !.stack = u]
  <2>1. r = PyIs(s, kind, pd, q) BY <1>1, <1>4, <1>11, <1>15, ValueIsPy
  <2>2. <<[Head(st) EXCEPT !.kind = kind, !.data = pd]>> \o Tail(st) = u
    BY <1>11, <1>14, <1>16
  <2> QED BY <1>5, <2>1, <2>2 DEF PyIs
<1>18. /\ r.pc = q /\ r.i = i + 1 /\ r.key = key /\ r.stack = u /\ r.table = tb
       /\ r.error = s.error /\ r.at = s.at
  BY <1>5, <1>17 DEF IsPy
<1>19. DOMAIN r = DOMAIN s /\ r = [x \in DOMAIN r |-> r[x]] BY <1>17
<1>20. IsPy(r) BY <1>5, <1>18, <1>19, PyChanged
<1> QED BY <1>2, <1>4, <1>13, <1>15, <1>16, <1>18, <1>20, PyStepGoes

\* parse_simple_value, of anything else.
LEMMA ParseBadValueGoes == ASSUME MemoryInv, EndInv, GrammarInv', ParseBadValue PROVE PyGoes
<1>1. /\ pc = "value" /\ pc \in Parsing /\ ~NoneLeft
      /\ ~ExpectDelim(kListBegin) /\ ~ExpectDelim(kTableBegin)
  BY PyLooks DEF ParseBadValue, Parsing
<1>2. PICK s : s = PyNow OBVIOUS
<1>3. s.pc = "value" /\ s.i = i BY <1>1, <1>2, PyNowFields
<1>4. PyNext(s) = PySimple(s)
  <2>1. ~PyExpectDelim(s, kListBegin) /\ ~PyExpectDelim(s, kTableBegin) BY <1>1, <1>2, PyFacts
  <2>2. PyNext(s) = PyValue(s) BY <1>3, PyNextIs
  <2> QED BY <2>1, <2>2 DEF PyValue
<1>5. PyExpect(s, "value") <=> Expect("value") BY <1>1, <1>2, PyFacts
<1>6. PICK t : t = tokens[i].sym OBVIOUS
<1>7. CASE ~Expect("value")
  <2>1. error' = "expected_value_token" BY <1>7 DEF ParseBadValue, Fail
  <2> QED BY <2>1 DEF GrammarInv, Suffices
<1>8. CASE Expect("value")
  <2>1. PICK m : /\ m \in {"could_not_normalize_string", "value_is_not_an_integer"}
                 /\ Fail(m) /\ i' = IF m = "value_is_not_an_integer" THEN i + 1 ELSE i
                 /\ Class[t] = IF m = "value_is_not_an_integer" THEN "badInteger" ELSE "badString"
    BY <1>6, <1>8 DEF ParseBadValue, Pop
  <2>2. /\ i \in OnlyPyAccepts <=> PyClass[t] # Class[t]
        /\ \/ PyClass[t] = Class[t]
           \/ Class[t] = "badString" /\ PyClass[t] = "string"
           \/ Class[t] = "badInteger" /\ PyClass[t] = "integer"
    BY <1>1, <1>6, <1>8, OnlyPyIs DEF Expect
  <2>3. PICK c : c = PyClass[t] OBVIOUS
  <2>4. PySimple(s) = IF c = "badString" THEN Errorf(s, "could_not_normalize_string")
                      ELSE IF c = "badInteger" THEN Errorf(s, "value_is_not_an_integer")
                      ELSE PyIs(s, IF c = "raw" THEN "string" ELSE c, PyDatum[t], "end")
    BY <1>3, <1>5, <1>6, <1>8, <2>3 DEF PySimple
  <2>5. CASE c = Class[t]
    <3>1. PyNext(s) = Errorf(s, m) BY <1>4, <2>1, <2>4, <2>5
    <3> QED BY <1>1, <1>2, <2>1, <2>2, <2>3, <2>5, <3>1, PyFailGoes
  <2>6. CASE c # Class[t]
    <3>1. PICK k, y : k = (IF c = "raw" THEN "string" ELSE c) /\ y = PyDatum[t] OBVIOUS
    <3>2. PICK u : u = <<[Head(s.stack) EXCEPT !.kind = k, !.data = y]>> \o Tail(s.stack) OBVIOUS
    <3>3. PICK r : r = PyNext(s) OBVIOUS
    <3>4. c \in {"string", "integer"} BY <2>2, <2>3, <2>6
    <3>5. r = PyIs(s, k, y, "end") BY <1>4, <2>4, <3>1, <3>3, <3>4
    <3>6. r = [s EXCEPT !.i = i + 1, !.pc = "end", !.stack = u] BY <1>3, <3>2, <3>5 DEF PyIs
    <3>7. DOMAIN s = {"pc", "i", "key", "stack", "table", "error", "at"}
      BY <1>2, PyNowFields DEF IsPy
    <3>8. DOMAIN r = DOMAIN s /\ r.i = i + 1 /\ r.pc # "failed" BY <3>6, <3>7
    <3> QED BY <1>1, <1>2, <2>1, <2>2, <2>3, <2>6, <3>3, <3>8, PyPastGoes
  <2> QED BY <2>5, <2>6
<1> QED BY <1>7, <1>8

\* kevs.py changes pc and i only.
PyReads(s, r) ==
  /\ DOMAIN r = DOMAIN s /\ r = [x \in DOMAIN r |-> r[x]]
  /\ r.key = s.key /\ r.stack = s.stack /\ r.table = s.table /\ r.error = s.error /\ r.at = s.at

LEMMA PyReadGoes ==
  ASSUME pc' \in Parsing, UNCHANGED <<key, stack, root, heap>>,
         NEW s, s = PyNow, NEW r, r = PyNext(s), PyReads(s, r), r.pc = pc', r.i = i'
  PROVE  PyGoes
<1>1. PICK st, tb : st = PyStack(heap, stack) /\ tb = Tree(heap, root.ptr) OBVIOUS
<1>2. IsPy(s) /\ s.key = key /\ s.stack = st /\ s.table = tb BY <1>1, PyNowFields
<1>3. IsPy(r) BY <1>2, PyChanged DEF PyReads
<1>4. st = PyStack(heap', stack') /\ tb = Tree(heap', root'.ptr) BY <1>1
<1> QED BY <1>2, <1>3, <1>4, PyStepGoes DEF PyReads

\* It goes on with the method q, at the token n or at the same one.
PyTo(s, n, q) == [s EXCEPT !.i = n, !.pc = q]
PyAs(s, q)    == [s EXCEPT !.pc = q]

LEMMA PyPops ==
  ASSUME NEW s, IsPy(s), NEW q, NEW n, NEW r,
         r = PyTo(s, n, q) \/ (r = PyAs(s, q) /\ n = s.i)
  PROVE  PyReads(s, r) /\ r.pc = q /\ r.i = n
<1>1. CASE r = PyTo(s, n, q)
  <2>1. DOMAIN r = DOMAIN s /\ r = [x \in DOMAIN r |-> r[x]] BY <1>1 DEF PyTo
  <2>2. /\ r.pc = q /\ r.i = n /\ r.key = s.key /\ r.stack = s.stack /\ r.table = s.table
        /\ r.error = s.error /\ r.at = s.at
    BY <1>1 DEF IsPy, PyTo
  <2> QED BY <2>1, <2>2 DEF PyReads
<1>2. CASE r = PyAs(s, q) /\ n = s.i
  <2>1. DOMAIN r = DOMAIN s /\ r = [x \in DOMAIN r |-> r[x]] BY <1>2 DEF PyAs
  <2>2. /\ r.pc = q /\ r.i = n /\ r.key = s.key /\ r.stack = s.stack /\ r.table = s.table
        /\ r.error = s.error /\ r.at = s.at
    BY <1>2 DEF IsPy, PyAs
  <2> QED BY <2>1, <2>2 DEF PyReads
<1> QED BY <1>1, <1>2

\* The end of parse_value.
LEMMA ParseValueEndGoes == ASSUME MemoryInv, EndInv, GrammarInv', ParseValueEnd PROVE PyGoes
<1>1. /\ pc = "end" /\ pc \in Parsing /\ ~NoneLeft /\ UNCHANGED <<key, stack, root, heap>>
  BY PyLooks DEF ParseValueEnd, Parsing, tree
<1>2. PICK s : s = PyNow OBVIOUS
<1>3. IsPy(s) /\ s.pc = "end" /\ s.i = i BY <1>1, <1>2, PyNowFields
<1>4. PICK r : r = PyNext(s) OBVIOUS
<1>5. r = IF ExpectDelim(kKeyValEnd) THEN [s EXCEPT !.i = i + 1, !.pc = "append"]
          ELSE Errorf(s, "missing_key_value_end")
  <2>1. r = PyDelim(s, kKeyValEnd, "append", "missing_key_value_end")
    BY <1>3, <1>4, PyNextIs DEF PyEnd
  <2>2. PyExpectDelim(s, kKeyValEnd) <=> ExpectDelim(kKeyValEnd) BY <1>1, <1>2, PyFacts
  <2> QED BY <1>3, <2>1, <2>2 DEF PyDelim
<1>6. CASE ExpectDelim(kKeyValEnd)
  <2>1. pc' = "append" /\ pc' \in Parsing /\ i' = i + 1
    BY <1>6 DEF ParseValueEnd, PopDelim, Pop, Parsing
  <2>2. r = PyTo(s, i + 1, "append") BY <1>5, <1>6 DEF PyTo
  <2>3. PyReads(s, r) /\ r.pc = "append" /\ r.i = i + 1 BY <1>3, <2>2, PyPops
  <2> QED BY <1>1, <1>2, <1>4, <2>1, <2>3, PyReadGoes
<1>7. CASE ~ExpectDelim(kKeyValEnd)
  <2>1. error' = "missing_key_value_end" BY <1>7 DEF ParseValueEnd, Fail
  <2> QED BY <2>1 DEF GrammarInv, Suffices
<1> QED BY <1>6, <1>7

\* The closing bracket, and the kind of what it closes.
LEMMA PyCloser ==
  ASSUME MemoryInv, EndInv, pc \in {"loop", "after"}, NEW s, s = PyNow
  PROVE  /\ PyAtEnd(s) <=> ExpectDelim(Closer)
         /\ InPyList(s) <=> Head(stack).kind = "list"
<1>1. PICK st : st = PyStack(heap, stack) OBVIOUS
<1>2. s.stack = st BY <1>1, PyNowFields
<1>3. stack # <<>> /\ pc \in Parsing BY DEF MemoryInv, Shape, Control, Parsing
<1>4. Head(st) = EntryOf(heap, Head(stack)) BY <1>1, <1>3, PyFacts, PyStackParts
<1>5. Head(st).kind = Head(stack).kind BY <1>4, EntryFields
<1>6. InPyList(s) <=> Head(stack).kind = "list" BY <1>2, <1>5 DEF InPyList
<1>7. PyAtEnd(s) <=> PyExpectDelim(s, Closer) BY <1>6 DEF PyAtEnd, Closer
<1> QED BY <1>3, <1>6, <1>7, PyFacts

\* The head of the loops of parse_list_value and parse_table_value.
LEMMA ParseLoopGoes == ASSUME MemoryInv, EndInv, ParseLoop PROVE PyGoes
<1>1. pc = "loop" /\ pc \in Parsing /\ UNCHANGED <<key, root, heap>> BY DEF ParseLoop, Parsing
<1>2. PICK s, st, tb : s = PyNow /\ st = PyStack(heap, stack) /\ tb = Tree(heap, root.ptr) OBVIOUS
<1>3. IsPy(s) /\ s.pc = "loop" /\ s.i = i /\ s.key = key /\ s.stack = st /\ s.table = tb
  BY <1>1, <1>2, PyNowFields
<1>4. (PyAtEnd(s) <=> ExpectDelim(Closer)) /\ (InPyList(s) <=> Head(stack).kind = "list")
  BY <1>1, <1>2, PyCloser
<1>5. PICK r : r = PyNext(s) OBVIOUS
<1>6. r = PyLoop(s) BY <1>3, <1>5, PyNextIs
<1>7. CASE ExpectDelim(Closer)
  <2>1. pc' = "end" /\ pc' \in Parsing /\ i' = i + 1 /\ stack' = stack
    BY <1>7 DEF ParseLoop, Pop, Parsing
  <2>2. r = PyTo(s, i + 1, "end") BY <1>3, <1>4, <1>6, <1>7 DEF PyLoop, PyClose, PyTo
  <2>3. PyReads(s, r) /\ r.pc = "end" /\ r.i = i + 1 BY <1>3, <2>2, PyPops
  <2> QED BY <1>1, <1>2, <1>5, <2>1, <2>3, PyReadGoes
<1>8. CASE ~ExpectDelim(Closer) /\ Head(stack).kind # "list"
  <2>1. pc' = "pair" /\ pc' \in Parsing /\ i' = i /\ stack' = stack
    BY <1>8 DEF ParseLoop, Parsing
  <2>2. r = PyAs(s, "pair") BY <1>4, <1>6, <1>8 DEF PyLoop, PyAs
  <2>3. PyReads(s, r) /\ r.pc = "pair" /\ r.i = i BY <1>3, <2>2, PyPops
  <2> QED BY <1>1, <1>2, <1>5, <2>1, <2>3, PyReadGoes
<1>9. CASE ~ExpectDelim(Closer) /\ Head(stack).kind = "list"
  <2>1. pc' = "value" /\ pc' \in Parsing /\ i' = i /\ stack' = <<Undefined(NoKey)>> \o stack
    BY <1>9 DEF ParseLoop, Parsing
  <2>2. PICK u : u = <<PyUndefined(NoKey)>> \o st OBVIOUS
  <2>3. PICK v : v = [s EXCEPT !.stack = u] OBVIOUS
  <2>4. r = PyAs(v, "value") BY <1>3, <1>4, <1>6, <1>9, <2>2, <2>3 DEF PyLoop, PyPush, PyAs
  <2>5. DOMAIN v = DOMAIN s /\ v = [x \in DOMAIN v |-> v[x]] BY <2>3
  <2>6. /\ v.i = i /\ v.key = key /\ v.stack = u /\ v.table = tb /\ v.error = s.error /\ v.at = s.at
    BY <1>3, <2>3 DEF IsPy
  <2>7. IsPy(v) BY <1>3, <2>5, <2>6, PyChanged
  <2>8. PyReads(v, r) /\ r.pc = "value" /\ r.i = i BY <2>4, <2>6, <2>7, PyPops
  <2>9. IsPy(r) BY <2>7, <2>8, PyChanged DEF PyReads
  <2>10. PyStack(heap', stack') = u
    <3>1. PICK e : e = Undefined(NoKey) OBVIOUS
    <3>2. e \in Entry /\ EntryOf(heap, e) = PyUndefined(NoKey) BY <3>1, UndefinedIs
    <3>3. stack \in Seq(Entry) BY <1>1, PyFacts
    <3> QED BY <1>1, <1>2, <2>1, <2>2, <3>1, <3>2, <3>3, PyStackPush
  <2>11. r.key = key' /\ r.stack = u /\ r.table = Tree(heap', root'.ptr)
    BY <1>1, <1>2, <2>6, <2>8 DEF PyReads
  <2> QED BY <1>2, <1>5, <2>1, <2>8, <2>9, <2>10, <2>11, PyStepGoes
<1> QED BY <1>7, <1>8, <1>9

\* The test after an element.
LEMMA ParseAfterGoes == ASSUME MemoryInv, EndInv, ParseAfter PROVE PyGoes
<1>1. pc = "after" /\ pc \in Parsing /\ UNCHANGED <<key, stack, root, heap>>
  BY DEF ParseAfter, Parsing, tree
<1>2. PICK s : s = PyNow OBVIOUS
<1>3. IsPy(s) /\ s.pc = "after" /\ s.i = i BY <1>1, <1>2, PyNowFields
<1>4. PyAtEnd(s) <=> ExpectDelim(Closer) BY <1>1, <1>2, PyCloser
<1>5. PICK r : r = PyNext(s) OBVIOUS
<1>6. r = PyAfter(s) BY <1>3, <1>5, PyNextIs
<1>7. CASE ExpectDelim(Closer)
  <2>1. pc' = "end" /\ pc' \in Parsing /\ i' = i + 1 BY <1>7 DEF ParseAfter, Pop, Parsing
  <2>2. r = PyTo(s, i + 1, "end") BY <1>3, <1>4, <1>6, <1>7 DEF PyAfter, PyClose, PyTo
  <2>3. PyReads(s, r) /\ r.pc = "end" /\ r.i = i + 1 BY <1>3, <2>2, PyPops
  <2> QED BY <1>1, <1>2, <1>5, <2>1, <2>3, PyReadGoes
<1>8. CASE ~ExpectDelim(Closer)
  <2>1. pc' = "loop" /\ pc' \in Parsing /\ i' = i BY <1>8 DEF ParseAfter, Parsing
  <2>2. r = PyAs(s, "loop") BY <1>4, <1>6, <1>8 DEF PyAfter, PyAs
  <2>3. PyReads(s, r) /\ r.pc = "loop" /\ r.i = i BY <1>3, <2>2, PyPops
  <2> QED BY <1>1, <1>2, <1>5, <2>1, <2>3, PyReadGoes
<1> QED BY <1>7, <1>8

\* parse returns.
LEMMA DoneGoes == ASSUME MemoryInv, EndInv, Done, error = "none" PROVE PyGoes
<1>1. /\ pc = "pair" /\ pc \in Parsing /\ stack = <<>> /\ NoneLeft /\ pc' = "done"
      /\ UNCHANGED <<root, heap, error>>
  BY DEF Done, tree, Parsing
<1>2. PICK s, st, tb : s = PyNow /\ st = PyStack(heap, stack) /\ tb = Tree(heap, root.ptr) OBVIOUS
<1>3. IsPy(s) /\ s.pc = "pair" /\ s.i = i /\ s.stack = st /\ s.table = tb BY <1>1, <1>2, PyNowFields
<1>4. st = <<>> BY <1>1, <1>2, PyFacts, PyStackParts
<1>5. PICK r : r = PyNext(s) OBVIOUS
<1>6. r = PyKey(s) /\ s.i > Len(tokens) BY <1>1, <1>3, <1>5, PyNextIs DEF NoneLeft
<1>7. r = PyAs(s, "done") BY <1>3, <1>4, <1>6 DEF PyKey, PyAs
<1>8. PyReads(s, r) /\ r.pc = "done" BY <1>3, <1>7, PyPops
<1>9. r.error = "none" /\ r.table = tb BY <1>3, <1>8 DEF PyReads, IsPy
<1>10. pc' \notin Parsing BY <1>1 DEF Parsing
<1> QED BY <1>1, <1>2, <1>5, <1>8, <1>9, <1>10 DEF PyGoes, PyOutcome, PyAnswers

\* The array that list_append and table_append store a value in.
LEMMA AppendedTree ==
  ASSUME MemoryInv, EndInv, AppendValue, NEW g, g = heap', NEW m, m = Moved
  PROVE  /\ Grows(heap, g, m) /\ Nested(g) /\ m # NULL
         /\ Tree(g, m) = Append(Tree(heap, Target.ptr), EntryOf(heap, Head(stack)))
<1>1. pc \in Parsing BY DEF AppendValue, Parsing
<1>2. Nested(heap) /\ Sound(heap) BY <1>1, PyFacts
<1>3. /\ g[m] = Filled /\ m # NULL /\ Head(stack) \in Entry /\ m \in Nat /\ Target \in Entry
      /\ Target.ptr # NULL => Target.ptr \in DOMAIN heap
  BY AppendFacts DEF NULL
<1>4. Grows(heap, g, m) /\ Nested(g) BY AppendGrows, AppendValueNested
<1>5. PICK b, x : b = Target /\ x = Head(stack) OBVIOUS
<1>6. PICK c : c = [b EXCEPT !.ptr = m] OBVIOUS
<1>7. c.ptr = m BY <1>3, <1>5, <1>6 DEF Entry
<1>8. g[m].elems = Append(ElemsIn(heap, b.ptr), x) BY <1>3, <1>5 DEF Filled, Elems, ElemsIn
<1>9. Appending(heap, g, m, b, x, c) BY <1>2, <1>3, <1>4, <1>5, <1>7, <1>8 DEF Appending
<1>10. Tree(g, m) = Append(Tree(heap, b.ptr), EntryOf(heap, x)) BY <1>9, TreeAppend
<1> QED BY <1>3, <1>4, <1>5, <1>10

\* What is in the other arrays stays.
LEMMA AppendStays ==
  ASSUME MemoryInv, EndInv, AppendValue, NEW g, g = heap', NEW o, NEW e, Own(o, e) \subseteq Owners,
         o # IF Len(stack) = 1 THEN <<0, 0>> ELSE <<0, Len(stack) - 1>>
  PROVE  EntryOf(g, e) = EntryOf(heap, e) /\ Tree(g, e.ptr) = Tree(heap, e.ptr)
<1>1. pc \in Parsing BY DEF AppendValue, Parsing
<1>2. Nested(heap) /\ Sound(heap) BY <1>1, PyFacts
<1>3. PICK m : m = Moved OBVIOUS
<1>4. Grows(heap, g, m) /\ Nested(g) BY <1>3, AppendedTree
<1>5. e.ptr # NULL => e.ptr \in DOMAIN g \ {m} BY <1>3, AppendElsewhere
<1> QED BY <1>2, <1>4, <1>5, EntryStays

\* table_append on the table of the caller.
LEMMA AppendFirst ==
  ASSUME MemoryInv, EndInv, AppendValue, Len(stack) = 1
  PROVE  PyGoes
<1>1. pc = "append" /\ pc \in Parsing /\ pc' = "pair" /\ pc' \in Parsing /\ UNCHANGED <<i, key>>
  BY DEF AppendValue, Parsing
<1>2. PICK s, st, tb : s = PyNow /\ st = PyStack(heap, stack) /\ tb = Tree(heap, root.ptr) OBVIOUS
<1>3. IsPy(s) /\ s.pc = "append" /\ s.i = i /\ s.key = key /\ s.stack = st /\ s.table = tb
  BY <1>1, <1>2, PyNowFields
<1>4. PICK x, b : x = Head(stack) /\ b = Tail(stack) OBVIOUS
<1>5. stack \in Seq(Entry) /\ stack # <<>> /\ b = <<>>
  <2>1. stack \in Seq(Entry) /\ stack # <<>> BY <1>1, PyFacts DEF MemoryInv, Shape, Control
  <2>2. b \in Seq(Entry) /\ Len(b) = Len(stack) - 1 BY <1>4, <2>1, HeadTailProperties
  <2> QED BY <2>1, <2>2, EmptySeq
<1>6. Head(st) = EntryOf(heap, x) /\ Tail(st) = <<>>
  <2>1. Head(st) = EntryOf(heap, x) /\ Tail(st) = PyStack(heap, b) BY <1>2, <1>4, <1>5, PyStackParts
  <2>2. b \in Seq(Entry) BY <1>5
  <2> QED BY <1>5, <2>1, <2>2, PyStackParts
<1>7. PICK u : u = Append(tb, EntryOf(heap, x)) OBVIOUS
<1>8. PICK r : r = PyNext(s) OBVIOUS
<1>9. r = [s EXCEPT !.pc = "pair", !.stack = <<>>, !.table = u]
  <2>1. r = PyAppend(s) BY <1>3, <1>8, PyNextIs
  <2> QED BY <1>3, <1>6, <1>7, <2>1 DEF PyAppend
<1>10. /\ r.pc = "pair" /\ r.i = i /\ r.key = key /\ r.stack = <<>> /\ r.table = u
       /\ r.error = s.error /\ r.at = s.at
  BY <1>3, <1>9 DEF IsPy
<1>11. DOMAIN r = DOMAIN s /\ r = [y \in DOMAIN r |-> r[y]] BY <1>9
<1>12. IsPy(r) BY <1>3, <1>10, <1>11, PyChanged
<1>13. PyStack(heap', stack') = <<>> /\ Tree(heap', root'.ptr) = u
  <2>1. PICK g, m : g = heap' /\ m = Moved OBVIOUS
  <2>2. stack' = <<>> /\ root' = [root EXCEPT !.ptr = m] /\ root \in Entry
    BY <1>1, <2>1, AppendFacts, PyFacts
  <2>3. root'.ptr = m BY <2>2 DEF Entry
  <2>4. Target = root BY DEF Target
  <2>5. Tree(g, m) = u BY <1>2, <1>4, <1>7, <2>1, <2>4, AppendedTree
  <2>6. <<>> \in Seq(Entry) OBVIOUS
  <2>7. PyStack(g, <<>>) = <<>> BY <2>6, PyStackParts
  <2> QED BY <2>1, <2>2, <2>3, <2>5, <2>7
<1> QED BY <1>1, <1>2, <1>8, <1>10, <1>12, <1>13, PyStepGoes

\* list_append and table_append on a value.
LEMMA AppendInner ==
  ASSUME MemoryInv, EndInv, AppendValue, Len(stack) # 1
  PROVE  PyGoes
<1>1. pc = "append" /\ pc \in Parsing /\ pc' = "after" /\ pc' \in Parsing /\ UNCHANGED <<i, key>>
  BY DEF AppendValue, Parsing
<1>2. PICK s, st, tb : s = PyNow /\ st = PyStack(heap, stack) /\ tb = Tree(heap, root.ptr) OBVIOUS
<1>3. IsPy(s) /\ s.pc = "append" /\ s.i = i /\ s.key = key /\ s.stack = st /\ s.table = tb
  BY <1>1, <1>2, PyNowFields
<1>4. PICK x, b : x = Head(stack) /\ b = Tail(stack) OBVIOUS
<1>5. PICK c, o : c = stack[2] /\ o = Tail(b) OBVIOUS
<1>6. /\ stack \in Seq(Entry) /\ stack # <<>> /\ b \in Seq(Entry) /\ b # <<>> /\ o \in Seq(Entry)
      /\ c = Head(b) /\ c = Target /\ c \in Entry /\ c.kind \in {"list", "table"}
      /\ Len(stack) \in Nat \ {0}
  <2>1. stack \in Seq(Entry) /\ stack # <<>> BY <1>1, PyFacts DEF MemoryInv, Shape, Control
  <2> QED BY <1>1, <1>4, <1>5, <2>1, AppendContainer DEF Target
<1>7. PICK v, z, w : v = EntryOf(heap, x) /\ z = EntryOf(heap, c) /\ w = PyStack(heap, o) OBVIOUS
<1>8. Head(st) = v /\ Tail(st) # <<>> /\ Head(Tail(st)) = z /\ Tail(Tail(st)) = w
  <2>1. Head(st) = v /\ Tail(st) = PyStack(heap, b) BY <1>2, <1>4, <1>6, <1>7, PyStackParts
  <2>2. PyStack(heap, b) # <<>> /\ Head(PyStack(heap, b)) = z /\ Tail(PyStack(heap, b)) = w
    BY <1>5, <1>6, <1>7, PyStackParts
  <2> QED BY <2>1, <2>2
<1>9. PICK y : y = [z EXCEPT !.elems = Append(z.elems, v)] OBVIOUS
<1>10. PICK u : u = <<y>> \o w OBVIOUS
<1>11. PICK r : r = PyNext(s) OBVIOUS
<1>12. r = [s EXCEPT !.pc = "after", !.stack = u]
  <2>1. r = PyAppend(s) BY <1>3, <1>11, PyNextIs
  <2> QED BY <1>3, <1>8, <1>9, <1>10, <2>1 DEF PyAppend
<1>13. /\ r.pc = "after" /\ r.i = i /\ r.key = key /\ r.stack = u /\ r.table = tb
       /\ r.error = s.error /\ r.at = s.at
  BY <1>3, <1>12 DEF IsPy
<1>14. DOMAIN r = DOMAIN s /\ r = [n \in DOMAIN r |-> r[n]] BY <1>12
<1>15. IsPy(r) BY <1>3, <1>13, <1>14, PyChanged
<1>16. PICK g, m : g = heap' /\ m = Moved OBVIOUS
<1>17. PICK e : e = [c EXCEPT !.ptr = m] OBVIOUS
<1>18. stack' = <<e>> \o o /\ root' = root BY <1>4, <1>5, <1>16, <1>17, AppendFacts
<1>19. /\ e \in Entry /\ e.key = c.key /\ e.kind = c.kind /\ e.data = c.data /\ e.ptr = m
  <2>1. m \in Nat BY <1>16, AppendFacts
  <2> QED BY <1>6, <1>17, <2>1 DEF Entry
<1>20. EntryOf(g, e) = y
  <2>1. Tree(g, m) = Append(Tree(heap, c.ptr), v) BY <1>4, <1>6, <1>7, <1>16, AppendedTree
  <2>2. z.key = c.key /\ z.kind = c.kind /\ z.data = PyData(c.data) /\ z.elems = Tree(heap, c.ptr)
    BY <1>6, <1>7, EntryFields
  <2>3. DOMAIN z = {"key", "kind", "data", "elems"} BY <1>7, EntryDomain
  <2>4. DOMAIN y = {"key", "kind", "data", "elems"} /\ y = [n \in DOMAIN y |-> y[n]] BY <1>9, <2>3
  <2>5. y.key = z.key /\ y.kind = z.kind /\ y.data = z.data /\ y.elems = Append(z.elems, v)
    BY <1>9, <2>3
  <2>6. PICK f : f = EntryOf(g, e) OBVIOUS
  <2>7. DOMAIN f = {"key", "kind", "data", "elems"} /\ f = [n \in DOMAIN f |-> f[n]]
    BY <2>6, EntryDomain
  <2>8. f.key = e.key /\ f.kind = e.kind /\ f.data = PyData(e.data) /\ f.elems = Tree(g, m)
    BY <1>6, <1>19, <2>6, EntryFields
  <2>9. f.elems = y.elems BY <2>1, <2>2, <2>5, <2>8
  <2>10. \A n \in DOMAIN y : y[n] = f[n] BY <1>19, <2>2, <2>4, <2>5, <2>8, <2>9
  <2>11. f = y BY <2>4, <2>7, <2>10
  <2> QED BY <2>6, <2>11
<1>21. PyStack(g, o) = w
  <2>1. ASSUME NEW n \in 1 .. Len(o) PROVE EntryOf(g, o[n]) = EntryOf(heap, o[n])
    <3>1. Len(b) = Len(stack) - 1 /\ Len(o) = Len(b) - 1 /\ o[n] = b[n + 1]
      BY <1>4, <1>5, <1>6, HeadTailProperties
    <3>2. n + 1 \in 1 .. Len(b) /\ (n + 1) + 1 = n + 2 BY <1>6, <3>1
    <3>3. b[n + 1] = stack[n + 2] BY <1>4, <1>6, <3>1, <3>2, HeadTailProperties
    <3>4. n + 2 \in 1 .. Len(stack) BY <1>6, <3>1
    <3>5. PICK f, p : f = stack[n + 2] /\ p = <<0, Len(stack) + 1 - (n + 2)>> OBVIOUS
    <3>6. Own(p, f) \subseteq Owners BY <3>4, <3>5, OwnersAt
    <3>7. p # IF Len(stack) = 1 THEN <<0, 0>> ELSE <<0, Len(stack) - 1>>
      <4>1. Len(stack) + 1 - (n + 2) # Len(stack) - 1 BY <1>6, <3>1
      <4> QED BY <3>5, <4>1
    <3>8. EntryOf(g, f) = EntryOf(heap, f) BY <1>16, <3>6, <3>7, AppendStays
    <3> QED BY <3>1, <3>3, <3>5, <3>8
  <2> QED BY <1>6, <1>7, <2>1, PyStackSame
<1>22. Tree(g, root.ptr) = tb
  <2>1. Own(<<0, 0>>, root) \subseteq Owners BY OwnersAt
  <2>2. PICK p : p = <<0, 0>> OBVIOUS
  <2>3. p # IF Len(stack) = 1 THEN <<0, 0>> ELSE <<0, Len(stack) - 1>>
    <3>1. Len(stack) - 1 # 0 BY <1>6
    <3> QED BY <2>2, <3>1
  <2>4. Own(p, root) \subseteq Owners BY <2>1, <2>2
  <2> QED BY <1>2, <1>16, <2>3, <2>4, AppendStays
<1>23. PyStack(heap', stack') = u /\ Tree(heap', root'.ptr) = tb
  <2>1. PyStack(g, <<e>> \o o) = <<EntryOf(g, e)>> \o PyStack(g, o) BY <1>6, <1>19, PyStackPush
  <2> QED BY <1>10, <1>16, <1>18, <1>20, <1>21, <1>22, <2>1
<1> QED BY <1>1, <1>2, <1>11, <1>13, <1>15, <1>23, PyStepGoes

\* list_append and table_append.
LEMMA AppendValueGoes == ASSUME MemoryInv, EndInv, AppendValue PROVE PyGoes
BY AppendFirst, AppendInner

\* Every step of parse.
LEMMA ParseGoes ==
  ASSUME MemoryInv, EndInv, GrammarInv', GoodInv, Parse, error = "none" PROVE PyGoes
BY DoneGoes, ParseKeyGoes, ParseSeparatorGoes, ValueGoes, ParseBadValueGoes, ParseValueEndGoes,
   ParseLoopGoes, ParseAfterGoes, AppendValueGoes DEF Parse

-----------------------------------------------------------------------------
(* The run of kevs.py.                                                     *)

\* How many steps kevs.py makes at most before the method p pops a token.
Ahead(p) == CASE p \in {"append", "sep", "end"} -> 0
              [] p = "after" -> 1
              [] p = "loop"  -> 2
              [] OTHER       -> 3

PyLatest(p, n) == 4 * (n - 1) + Ahead(p)

LEMMA PySooner ==
  ASSUME MemoryInv, Parse
  PROVE  /\ pc \in Parsing /\ UNCHANGED tokens /\ PyLatest(pc, i) \in Nat /\ PyLatest(pc, i) < PySteps
         /\ pc' \in Parsing => PyLatest(pc, i) + 1 <= PyLatest(pc', i')
         /\ pc' \notin Parsing => pc' \in {"unwind", "done"}
<1>1. /\ i \in Nat /\ Len(tokens) \in Nat /\ 1 <= i /\ i <= Len(tokens) + 1
      /\ \A p : Ahead(p) \in 0 .. 3
  <2>1. Len(tokens) \in Nat /\ i \in 1 .. Len(tokens) + 1 BY LenProperties DEF MemoryInv, Shape, TypeOK
  <2> QED BY <2>1 DEF Ahead
<1>2. pc \in Parsing /\ UNCHANGED tokens
  BY DEF Parse, Done, ParseKey, AtPair, ParseSeparator, ParseList, ParseTable, ParseOpen, ParseString,
    ParseScalar, ParseBadValue, ParseValueEnd, ParseLoop, AppendValue, ParseAfter, Parsing, tree
<1>3. PICK a : a = Ahead(pc) OBVIOUS
<1>4. a \in 0 .. 3 BY <1>1, <1>3
<1>5. PyLatest(pc, i) = 4 * (i - 1) + a BY <1>3 DEF PyLatest
<1>6. PyLatest(pc, i) \in Nat /\ PyLatest(pc, i) < PySteps BY <1>1, <1>4, <1>5 DEF PySteps
<1>7. ASSUME i' = i + 1, pc = "pair" => pc' = "sep", pc = "value" => pc' \in {"loop", "end"}
      PROVE  PyLatest(pc, i) + 1 <= PyLatest(pc', i')
  <2>1. PICK b : b = Ahead(pc') OBVIOUS
  <2>2. b \in 0 .. 3 BY <1>1, <2>1
  <2>3. PyLatest(pc', i') = 4 * i + b BY <1>1, <1>7, <2>1 DEF PyLatest
  <2> QED BY <1>1, <1>4, <1>5, <2>2, <2>3
<1>8. ASSUME i' = i,
             \/ pc = "loop" /\ pc' \in {"value", "pair"}
             \/ pc = "after" /\ pc' = "loop"
             \/ pc = "append" /\ pc' \in {"pair", "after"}
      PROVE  PyLatest(pc, i) + 1 <= PyLatest(pc', i')
  <2>1. Ahead(pc) + 1 <= Ahead(pc') BY <1>8 DEF Ahead
  <2>2. PICK b : b = Ahead(pc') OBVIOUS
  <2>3. b \in 0 .. 3 /\ a + 1 <= b BY <1>1, <1>3, <2>1, <2>2
  <2>4. PyLatest(pc', i') = 4 * (i - 1) + b BY <1>8, <2>2 DEF PyLatest
  <2> QED BY <1>1, <1>4, <1>5, <2>3, <2>4
<1>9. CASE Done BY <1>2, <1>6, <1>9 DEF Done, Parsing
<1>10. CASE pc' = "unwind" BY <1>2, <1>6, <1>10 DEF Parsing
<1>11. CASE pc' # "unwind" /\ (ParseKey \/ ParseSeparator \/ ParseValueEnd)
  <2>1. i' = i + 1 /\ pc' \in Parsing /\ (pc = "pair" => pc' = "sep") /\ pc # "value"
    BY <1>11 DEF ParseKey, AtPair, ParseSeparator, ParseValueEnd, PopDelim, Pop, Fail, Parsing
  <2> QED BY <1>2, <1>6, <1>7, <2>1
<1>12. CASE ParseList \/ ParseTable \/ ParseString \/ ParseScalar
  <2>1. i' = i + 1 /\ pc' \in Parsing /\ pc = "value" /\ pc' \in {"loop", "end"}
    BY <1>12 DEF ParseList, ParseTable, ParseOpen, ParseString, ParseScalar, Pop, Parsing
  <2> QED BY <1>2, <1>6, <1>7, <2>1
<1>13. CASE ParseBadValue
  <2>1. pc' = "unwind" BY <1>13 DEF ParseBadValue, Fail
  <2> QED BY <1>10, <2>1
<1>14. CASE ParseLoop \/ ParseAfter
  <2>1. /\ pc' \in Parsing /\ pc \in {"loop", "after"}
        /\ \/ i' = i + 1
           \/ i' = i /\ pc = "loop" /\ pc' \in {"value", "pair"}
           \/ i' = i /\ pc = "after" /\ pc' = "loop"
    BY <1>14 DEF ParseLoop, ParseAfter, Pop, Parsing
  <2> QED BY <1>2, <1>6, <1>7, <1>8, <2>1
<1>15. CASE AppendValue
  <2>1. i' = i /\ pc = "append" /\ pc' \in {"pair", "after"} /\ pc' \in Parsing
    BY <1>15 DEF AppendValue, Parsing
  <2> QED BY <1>2, <1>6, <1>8, <2>1
<1> QED BY <1>9, <1>10, <1>11, <1>12, <1>13, <1>14, <1>15 DEF Parse

\* parse of kevs.py gets to where parse of kevs.c is, and ends as it ends, for a table
\* that was empty.
PyReaches ==
  pc \in Parsing => \E n \in 0 .. PyLatest(pc, i) : PyRun[n] = PyNow

PyEnds ==
  pc \in {"unwind", "done", "failed", "returned"} /\ error # "scan_error" =>
    \E n \in 0 .. PySteps : PyOutcome(PyRun[n], error, i, Tree(heap, root.ptr))

PyInv ==
  /\ pc = "scan" => key = NoKey
  /\ was.root = EmptyTable => PyReaches /\ PyEnds

\* The steps of parse.
LEMMA ParseRuns ==
  ASSUME MemoryInv, MemoryInv', EndInv, GrammarInv', MeaningInv, GoodInv, PyInv, Parse, was' = was
  PROVE  PyInv'
<1>1. /\ pc \in Parsing /\ UNCHANGED tokens /\ PyLatest(pc, i) \in Nat /\ PyLatest(pc, i) < PySteps
      /\ pc' \in Parsing => PyLatest(pc, i) + 1 <= PyLatest(pc', i')
      /\ pc' \notin Parsing => pc' \in {"unwind", "done"}
  BY PySooner
<1>2. error = "none" /\ tokens \in Seq(Token) /\ PySteps \in Nat
  <2>1. error = "none" /\ tokens \in Seq(Token) BY <1>1 DEF MeaningInv, MemoryInv, Shape, TypeOK
  <2> QED BY <2>1, PyRunIs
<1>3. PyGoes BY <1>2, ParseGoes
<1>4. PyRun' = PyRun /\ PySteps' = PySteps /\ OnlyPyAccepts' = OnlyPyAccepts
  BY <1>1, SameRun DEF OnlyPyAccepts
<1>5. pc' # "scan" BY <1>1 DEF Parsing
<1>6. ASSUME was.root = EmptyTable PROVE PyReaches' /\ PyEnds'
  <2>1. PICK n \in 0 .. PyLatest(pc, i) : PyRun[n] = PyNow BY <1>1, <1>6 DEF PyInv, PyReaches
  <2>2. PICK m, l, f : m = n + 1 /\ l = PyLatest(pc, i) /\ f = PyRun OBVIOUS
  <2>3. n \in Nat /\ n <= l /\ l \in Nat BY <1>1, <2>1, <2>2
  <2>4. m \in 1 .. PySteps /\ m \in Nat /\ m <= l + 1 BY <1>1, <1>2, <2>2, <2>3
  <2>5. f[m] = PyNext(PyNow)
    <3>1. m - 1 = n BY <2>2, <2>3
    <3> QED BY <1>2, <2>1, <2>2, <2>4, <3>1, PyRunIs
  <2>6. CASE pc' \in Parsing
    <3>1. f[m] = PyNow' BY <1>3, <2>5, <2>6 DEF PyGoes
    <3>2. PICK k : k = PyLatest(pc', i') OBVIOUS
    <3>3. k \in Int
      <4>1. i' \in Nat /\ Ahead(pc') \in 0 .. 3
        <5>1. i' \in 1 .. Len(tokens') + 1 BY DEF MemoryInv, Shape, TypeOK
        <5>2. Len(tokens') \in Nat BY <1>1, <1>2, LenProperties
        <5> QED BY <5>1, <5>2 DEF Ahead
      <4> QED BY <3>2, <4>1 DEF PyLatest
    <3>4. m \in 0 .. k BY <1>1, <2>2, <2>4, <2>6, <3>2, <3>3
    <3>5. PyReaches' BY <1>4, <2>2, <3>1, <3>2, <3>4 DEF PyReaches
    <3>6. PyEnds' BY <2>6 DEF PyEnds, Parsing
    <3> QED BY <3>5, <3>6
  <2>7. CASE pc' \notin Parsing
    <3>1. PyOutcome(f[m], error', i', Tree(heap', root'.ptr)) BY <1>3, <2>5, <2>7 DEF PyGoes
    <3>2. m \in 0 .. PySteps' BY <1>2, <1>4, <2>4
    <3>3. PyEnds' BY <1>4, <2>2, <3>1, <3>2 DEF PyEnds, PyOutcome
    <3>4. PyReaches' BY <2>7 DEF PyReaches
    <3> QED BY <3>3, <3>4
  <2> QED BY <2>6, <2>7
<1> QED BY <1>5, <1>6 DEF PyInv

\* scan returned NULL: both start.
LEMMA ScanDoneRuns ==
  ASSUME MemoryInv, GrammarInv, MeaningInv, PyInv, ScanDone PROVE PyInv'
<1>1. /\ pc = "scan" /\ pc' = "pair" /\ UNCHANGED <<tokens, i, key, stack, root, heap, was>>
      /\ root = was.root /\ i = 1 /\ stack = <<>> /\ tokens \in Seq(Token) /\ key = NoKey
  BY DEF ScanDone, tree, MeaningInv, GrammarInv, MemoryInv, Shape, TypeOK, Control, PyInv
<1>2. PyRun' = PyRun /\ PyRun[0] = PyStart BY <1>1, SameRun, PyRunIs
<1>3. ASSUME was.root = EmptyTable PROVE PyNow' = PyStart
  <2>1. Tree(heap', root'.ptr) = <<>> BY <1>1, <1>3 DEF EmptyTable, Tree
  <2>2. <<>> \in Seq(Entry) OBVIOUS
  <2>3. PyStack(heap', stack') = <<>> BY <1>1, <2>2, PyStackParts
  <2>4. PyNow' = PyAt("pair", 1, NoKey, <<>>, <<>>) BY <1>1, <2>1, <2>3 DEF PyNow
  <2> QED BY <2>4 DEF PyAt, PyStart
<1>4. 0 \in 0 .. PyLatest("pair", 1) BY DEF PyLatest, Ahead
<1>5. was.root = EmptyTable => PyReaches' BY <1>1, <1>2, <1>3, <1>4 DEF PyReaches
<1>6. PyEnds' BY <1>1 DEF PyEnds
<1> QED BY <1>1, <1>5, <1>6 DEF PyInv

\* Steps outside of parse that keep the answer.
LEMMA RunsEnd ==
  ASSUME UNCHANGED <<tokens, was, i, error>>, pc' \notin Parsing, pc' # "scan", PyInv,
         pc' \in {"unwind", "done", "failed", "returned"} =>
           /\ pc \in {"unwind", "done", "failed", "returned"}
           /\ error = "none" => UNCHANGED <<root, heap>>
  PROVE  PyInv'
<1>1. PyRun' = PyRun /\ PySteps' = PySteps /\ OnlyPyAccepts' = OnlyPyAccepts
  BY SameRun DEF OnlyPyAccepts
<1>2. ASSUME was.root = EmptyTable, pc' \in {"unwind", "done", "failed", "returned"},
             error # "scan_error"
      PROVE  PyEnds'
  <2>1. PICK n \in 0 .. PySteps : PyOutcome(PyRun[n], error, i, Tree(heap, root.ptr))
    BY <1>2 DEF PyInv, PyEnds
  <2>2. PyOutcome(PyRun[n], error, i, Tree(heap', root'.ptr))
    <3>1. CASE error = "none" BY <1>2, <2>1, <3>1
    <3>2. CASE error # "none"
      <4>1. PICK s, tb, ub : s = PyRun[n] /\ tb = Tree(heap, root.ptr) /\ ub = Tree(heap', root'.ptr)
        OBVIOUS
      <4>2. PyOutcome(s, error, i, tb) BY <2>1, <4>1
      <4>3. PyOutcome(s, error, i, ub) BY <3>2, <4>2 DEF PyOutcome, PyAnswers
      <4> QED BY <4>1, <4>3
    <3> QED BY <3>1, <3>2
  <2>3. PICK f : f = PyRun OBVIOUS
  <2>4. PyOutcome(f[n], error', i', Tree(heap', root'.ptr)) BY <2>2, <2>3
  <2> QED BY <1>1, <2>3, <2>4 DEF PyEnds, PyOutcome
<1>3. was.root = EmptyTable => PyEnds' BY <1>2 DEF PyEnds
<1>4. PyReaches' BY DEF PyReaches
<1> QED BY <1>3, <1>4 DEF PyInv

\* The steps of scan, and those after parse.
LEMMA OtherRuns ==
  ASSUME MemoryInv, PlaceInv, PyInv,
         \/ Emit \/ ScanFailed \/ KevsParseAgain
         \/ (KevsReturn \/ Release) /\ was' = was
  PROVE  PyInv'
<1>1. CASE Emit
  <2>1. pc = "scan" /\ pc' = "scan" /\ key' = key BY <1>1 DEF Emit, tree
  <2> QED BY <2>1 DEF PyInv, PyReaches, PyEnds, Parsing
<1>2. CASE ScanFailed
  <2>1. pc' = "failed" /\ error' = "scan_error" BY <1>2 DEF ScanFailed
  <2> QED BY <2>1 DEF PyInv, PyReaches, PyEnds, Parsing
<1>3. CASE KevsParseAgain
  <2>1. pc' = "scan" /\ key' = NoKey BY <1>3 DEF KevsParseAgain
  <2> QED BY <2>1 DEF PyInv, PyReaches, PyEnds, Parsing
<1>4. CASE KevsReturn /\ was' = was
  <2>1. /\ pc \in {"done", "failed"} /\ pc' = "returned"
        /\ UNCHANGED <<tokens, was, i, error, root, heap>>
    BY <1>4 DEF KevsReturn, tree
  <2>2. pc' \notin Parsing BY <2>1 DEF Parsing
  <2> QED BY <2>1, <2>2, RunsEnd
<1>5. CASE Failed /\ was' = was
  <2>1. pc = "unwind" /\ pc' = "failed" /\ UNCHANGED <<tokens, was, i, error, root, heap>>
    BY <1>5 DEF Failed, Kept
  <2>2. pc' \notin Parsing BY <2>1 DEF Parsing
  <2> QED BY <2>1, <2>2, RunsEnd
<1>6. CASE Unwind /\ was' = was
  <2>1. pc = "unwind" /\ pc' = "unwind" /\ UNCHANGED <<tokens, was, i, error, root, heap>>
    BY <1>6 DEF Unwind
  <2>2. pc' \notin Parsing BY <2>1 DEF Parsing
  <2> QED BY <2>1, <2>2, RunsEnd
<1>7. CASE (KevsFree \/ KevsFreed) /\ was' = was
  <2>1. pc' \in {"freeing", "freed"} /\ UNCHANGED <<tokens, was, i, error>>
    BY <1>7 DEF KevsFree, KevsFreed, tree
  <2>2. pc' \notin Parsing BY <2>1 DEF Parsing
  <2> QED BY <2>1, <2>2, RunsEnd
<1>8. CASE (FreeString \/ FreeElements \/ FreeArray \/ FreeNothing) /\ was' = was
  <2>1. pc \in {"unwind", "freeing"} /\ UNCHANGED <<pc, error, tokens, was, i>>
    BY <1>8, NextCall DEF FreeString, FreeElements, FreeArray, FreeNothing, tree
  <2>2. pc = "unwind" => error # "none" BY DEF PlaceInv
  <2>3. pc' \notin Parsing BY <2>1 DEF Parsing
  <2> QED BY <2>1, <2>2, <2>3, RunsEnd
<1> QED BY <1>1, <1>2, <1>3, <1>4, <1>5, <1>6, <1>7, <1>8 DEF Release

\* In the beginning no key was read.
LEMMA PyInit == ASSUME Init PROVE PyInv
BY DEF Init, ParserInit, PyInv, PyReaches, PyEnds, Parsing

\* Every step keeps the two together.
LEMMA PyStep ==
  ASSUME MemoryInv, MemoryInv', GrammarInv, GrammarInv', MeaningInv, EndInv, PlaceInv, GoodInv,
         PyInv, [Next]_allvars
  PROVE  PyInv'
<1>1. CASE Emit \/ ScanFailed \/ KevsParseAgain BY <1>1, OtherRuns
<1>2. CASE ScanDone BY <1>2, ScanDoneRuns
<1>3. CASE KevsReturn BY <1>3, OtherRuns DEF KevsReturn
<1>4. CASE Release /\ was' = was BY <1>4, OtherRuns
<1>5. CASE Parse /\ was' = was BY <1>5, ParseRuns
<1>6. CASE UNCHANGED allvars
  <2>1. UNCHANGED <<tokens, i, key, stack, root, heap, pc, error, was>> BY <1>6 DEF allvars, vars
  <2>2. PyRun' = PyRun /\ PySteps' = PySteps /\ OnlyPyAccepts' = OnlyPyAccepts
    BY <2>1, SameRun DEF OnlyPyAccepts
  <2>3. PyReaches' = PyReaches /\ PyEnds' = PyEnds
    BY <2>1, <2>2 DEF PyReaches, PyEnds, PyNow, PyOutcome
  <2> QED BY <2>1, <2>3 DEF PyInv
<1> QED BY <1>1, <1>2, <1>3, <1>4, <1>5, <1>6 DEF Next

\* When kevs_parse returned, kevs.py stopped as it did, or got past the token.
LEMMA SameAnswer == ASSUME MemoryInv, PyInv PROVE SameParser
<1>1. SUFFICES ASSUME pc = "returned", error # "scan_error", was.root = EmptyTable
               PROVE  IF error # "none" /\ Stopped \in OnlyPyAccepts
                      THEN PyParse.pc = "failed" => Stopped < PyParse.at
                      ELSE PyAnswers(PyParse, error, i, Tree(heap, root.ptr))
  <2>1. StopAt(error, i) = Stopped BY DEF StopAt, Stopped
  <2>2. ASSUME PyParse.pc = "failed" => Stopped < PyParse.at
        PROVE  PyParse.pc = "failed" => PyParse.at > Stopped
    BY <2>2
  <2> QED BY <2>1, <2>2 DEF SameParser, PyAnswers
<1>2. PICK n \in 0 .. PySteps : PyOutcome(PyRun[n], error, i, Tree(heap, root.ptr))
  BY <1>1 DEF PyInv, PyEnds
<1>3. tokens \in Seq(Token) /\ StopAt(error, i) = Stopped /\ Stopped \in Int
  BY LenProperties DEF MemoryInv, Shape, TypeOK, StopAt, Stopped
<1>4. CASE error # "none" /\ Stopped \in OnlyPyAccepts
  <2>1. Past(PyRun[n], Stopped) BY <1>2, <1>3, <1>4 DEF PyOutcome
  <2>2. Past(PyParse, Stopped) BY <1>3, <2>1, PastStays
  <2> QED BY <1>4, <2>2 DEF Past
<1>5. CASE ~(error # "none" /\ Stopped \in OnlyPyAccepts)
  <2>1. PyAnswers(PyRun[n], error, i, Tree(heap, root.ptr)) BY <1>2, <1>3, <1>5 DEF PyOutcome
  <2>2. PyRun[n].pc \in {"done", "failed"} BY <2>1 DEF PyAnswers
  <2>3. PyParse = PyRun[n] BY <1>3, <2>2, PyStays
  <2> QED BY <1>5, <2>1, <2>3
<1> QED BY <1>4, <1>5

-----------------------------------------------------------------------------
(* The theorems.                                                           *)

\* The lookups find every value of an accepted document where the document has it,
\* as what it is there, and nothing else: kevs_table_* and kevs_list_* on what
\* kevs_parse stored.
THEOREM LookupsFindAll == Spec => []LookupsAnswer
<1>1. Init => GrammarInv /\ MeaningInv /\ KeysInv /\ PlaceInv
  BY GrammarInit, MeaningInit, KeysInit, PlaceInit
<1>2. MemoryInv /\ GrammarInv /\ [Next]_allvars => GrammarInv' BY GrammarStep
<1>3. MemoryInv /\ GrammarInv /\ GrammarInv' /\ MeaningInv /\ [Next]_allvars => MeaningInv'
  BY MeaningStep
<1>4. MemoryInv /\ KeysInv /\ [Next]_allvars => KeysInv' BY KeysStep
<1>5. MemoryInv /\ GrammarInv /\ GrammarInv' /\ MeaningInv /\ PlaceInv /\ [Next]_allvars => PlaceInv'
  BY PlaceStep
<1>6. MemoryInv /\ KeysInv /\ PlaceInv => LookupsAnswer BY AcceptedLookups
<1> QED BY <1>1, <1>2, <1>3, <1>4, <1>5, <1>6, MemoryInvariant, PTL DEF Spec

\* kevs -dump shows every value of an accepted document, in the order of the document,
\* behind what the table held before: table_dump and list_dump on what kevs_parse stored.
THEOREM DumpIsInOrder == Spec => []DumpInOrder
<1>1. Init => GrammarInv /\ MeaningInv /\ EndInv /\ PlaceInv /\ DumpInv
  BY GrammarInit, MeaningInit, EndInit, PlaceInit, DumpInit
<1>2. MemoryInv /\ GrammarInv /\ [Next]_allvars => GrammarInv' BY GrammarStep
<1>3. MemoryInv /\ GrammarInv /\ GrammarInv' /\ MeaningInv /\ [Next]_allvars => MeaningInv'
  BY MeaningStep
<1>4. MemoryInv /\ EndInv /\ [Next]_allvars => EndInv' BY EndStep
<1>5. MemoryInv /\ GrammarInv /\ GrammarInv' /\ MeaningInv /\ PlaceInv /\ [Next]_allvars => PlaceInv'
  BY PlaceStep
<1>6. MemoryInv /\ GrammarInv /\ MeaningInv /\ EndInv /\ PlaceInv /\ DumpInv /\ [Next]_allvars
        => DumpInv'
  BY DumpStep
<1>7. DumpInv => DumpInOrder BY DEF DumpInv, DumpInOrder, LinesBefore
<1> QED BY <1>1, <1>2, <1>3, <1>4, <1>5, <1>6, <1>7, MemoryInvariant, PTL DEF Spec

\* The two implementations differ in their conversions alone: on every document parse of
\* kevs.py makes the same table of the tokens as parse of kevs.c, but for what it reads in
\* the texts, or gives the same message about the same token, or gets past the token
\* that kevs.c refuses, which is then one that only kevs.py accepts.
THEOREM ParsersAgree == Spec => []SameParser
<1>1. Init => GrammarInv /\ MeaningInv /\ EndInv /\ PlaceInv /\ GoodInv /\ PyInv
  BY GrammarInit, MeaningInit, EndInit, PlaceInit, GoodInit, PyInit
<1>2. MemoryInv /\ GrammarInv /\ [Next]_allvars => GrammarInv' BY GrammarStep
<1>3. MemoryInv /\ GrammarInv /\ GrammarInv' /\ MeaningInv /\ [Next]_allvars => MeaningInv'
  BY MeaningStep
<1>4. MemoryInv /\ EndInv /\ [Next]_allvars => EndInv' BY EndStep
<1>5. MemoryInv /\ GrammarInv /\ GrammarInv' /\ MeaningInv /\ PlaceInv /\ [Next]_allvars => PlaceInv'
  BY PlaceStep
<1>6. MemoryInv /\ GoodInv /\ [Next]_allvars => GoodInv' BY GoodStep
<1>7. MemoryInv /\ MemoryInv' /\ GrammarInv /\ GrammarInv' /\ MeaningInv /\ EndInv /\ PlaceInv
        /\ GoodInv /\ PyInv /\ [Next]_allvars => PyInv'
  BY PyStep
<1>8. MemoryInv /\ PyInv => SameParser BY SameAnswer
<1> QED BY <1>1, <1>2, <1>3, <1>4, <1>5, <1>6, <1>7, <1>8, MemoryInvariant, PTL DEF Spec

=============================================================================
