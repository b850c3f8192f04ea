----------------------------- MODULE ParserProofs -----------------------------
(***************************************************************************)
(* The memory of the parser, for all documents and all sessions: every     *)
(* block has one owner, whatever fails and wherever.                       *)
(***************************************************************************)
EXTENDS KevsParse, FiniteSetTheorems, SequenceTheorems, TLAPS

-----------------------------------------------------------------------------
(* Owners.  An owner is a place and the block that the entry in it points  *)
(* to.  Places of the stack and of the calls still to be made are counted  *)
(* from the bottom, so that they stay what they are when others come and   *)
(* go on top.                                                              *)

\* The k-th of s, counted from its end.
Nth(s, k) == s[Len(s) + 1 - k]

\* What an entry makes of the block it points to.
Holds(e) ==
  IF e.kind = "string" THEN "string" ELSE IF e.kind \in {"list", "table"} THEN "array"
  ELSE "nothing"

Pointer(e) == <<e.ptr, Holds(e)>>

Own(place, e) == IF e.ptr = NULL THEN {} ELSE {<<place, Pointer(e)>>}

\* The blocks, and what they are.
What(block) == IF block.cap = 0 THEN "string" ELSE "array"

Live(h) == {<<b, What(h[b])>> : b \in DOMAIN h}

\* The owners among the entries of a stack, and of an array.
OwnStack(a, s) == UNION {Own(<<a, k>>, Nth(s, k)) : k \in 1 .. Len(s)}
OwnArray(b, s) == UNION {Own(<<b, k>>, s[k]) : k \in 1 .. Len(s)}
OwnHeap(h, D) == UNION {OwnArray(b, h[b].elems) : b \in DOMAIN h \ D}

\* Every block of H has exactly one owner in R, and R owns nothing else.
Once(R, H) ==
  /\ \A x \in R : x[2] \in H
  /\ \A b \in H : \E x \in R : x[2] = b
  /\ \A x, y \in R : x[2] = y[2] => x = y

Away(R, place) == \A x \in R : x[1] # place

\* What Once says of a pair.
LEMMA OncePair ==
  ASSUME NEW p, NEW b
  PROVE  <<p, b>>[1] = p /\ <<p, b>>[2] = b
OBVIOUS

\* A new block, with its owner.
LEMMA OnceNew ==
  ASSUME NEW R, NEW H, Once(R, H), NEW place, NEW b, b \notin H
  PROVE  Once(R \cup {<<place, b>>}, H \cup {b})
<1> DEFINE z == <<place, b>>
<1>1. z[2] = b OBVIOUS
<1> HIDE DEF z
<1>2. Once(R \cup {z}, H \cup {b})
  <2>1. \A x \in R \cup {z} : x[2] \in H \cup {b} BY <1>1 DEF Once
  <2>2. \A c \in H \cup {b} : \E x \in R \cup {z} : x[2] = c BY <1>1 DEF Once
  <2>3. \A x, y \in R \cup {z} : x[2] = y[2] => x = y BY <1>1 DEF Once
  <2> QED BY <2>1, <2>2, <2>3 DEF Once
<1> QED BY <1>2 DEF z

\* A block is gone, with its owner.
LEMMA OnceGone ==
  ASSUME NEW A, NEW H, NEW place, NEW b, Once(A \cup {<<place, b>>}, H), Away(A, place)
  PROVE  Once(A, H \ {b})
<1> DEFINE z == <<place, b>>
<1>1. z[1] = place /\ z[2] = b OBVIOUS
<1>0. Once(A \cup {z}, H) OBVIOUS
<1> HIDE DEF z
<1>2. z \notin A BY <1>1 DEF Away
<1>3. \A x \in A : x[2] \in H /\ x[2] # b BY <1>0, <1>1, <1>2 DEF Once
<1>4. \A c \in H \ {b} : \E x \in A : x[2] = c BY <1>0, <1>1 DEF Once
<1>5. \A x, y \in A : x[2] = y[2] => x = y BY <1>0 DEF Once
<1> QED BY <1>3, <1>4, <1>5 DEF Once

\* A block gets another owner.
LEMMA OnceMoved ==
  ASSUME NEW A, NEW H, NEW p, NEW q, NEW e, Once(A \cup Own(p, e), H), Away(A, p)
  PROVE  Once(A \cup Own(q, e), H)
<1>1. CASE e.ptr = NULL BY <1>1 DEF Own
<1>2. CASE e.ptr # NULL
  <2>1. Own(p, e) = {<<p, Pointer(e)>>} /\ Own(q, e) = {<<q, Pointer(e)>>} BY <1>2 DEF Own
  <2>2. Once(A, H \ {Pointer(e)}) BY <2>1, OnceGone
  <2>3. Once(A \cup {<<q, Pointer(e)>>}, (H \ {Pointer(e)}) \cup {Pointer(e)}) BY <2>2, OnceNew
  <2>4. Pointer(e) \in H
    <3> DEFINE z == <<p, Pointer(e)>>
    <3>1. z[2] = Pointer(e) BY OncePair
    <3> HIDE DEF z
    <3>2. Once(A \cup {z}, H) BY <2>1 DEF z
    <3> QED BY <3>1, <3>2 DEF Once
  <2>5. (H \ {Pointer(e)}) \cup {Pointer(e)} = H BY <2>4
  <2> QED BY <2>1, <2>3, <2>5
<1> QED BY <1>1, <1>2

\* The blocks of several entries, with the places f, get other owners, one for one.
OwnAll(N, f, s) == UNION {Own(f[k], s[k]) : k \in N}

\* Owners that change places, one for one, own what they owned.
LEMMA OnceRenamed ==
  ASSUME NEW A, NEW H, NEW N, NEW s, NEW f, NEW g,
         Once(A \cup OwnAll(N, f, s), H),
         \A k \in N : Away(A, f[k]),
         \A k, m \in N : f[k] = f[m] => k = m
  PROVE  Once(A \cup OwnAll(N, g, s), H)
<1> DEFINE B == UNION {Own(f[k], s[k]) : k \in N}
           C == UNION {Own(g[k], s[k]) : k \in N}
<1>1. Once(A \cup B, H) BY DEF OwnAll
<1>2. \A x \in C : \E k \in N : s[k].ptr # NULL /\ x = <<g[k], Pointer(s[k])>> /\ x[2] = Pointer(s[k])
  BY DEF Own
<1>3. \A k \in N : s[k].ptr # NULL =>
        /\ <<f[k], Pointer(s[k])>> \in B /\ <<f[k], Pointer(s[k])>>[2] = Pointer(s[k])
        /\ <<f[k], Pointer(s[k])>>[1] = f[k]
        /\ <<g[k], Pointer(s[k])>> \in C /\ <<g[k], Pointer(s[k])>>[2] = Pointer(s[k])
  BY DEF Own
<1>4. \A x \in B : \E k \in N : s[k].ptr # NULL /\ x = <<f[k], Pointer(s[k])>> /\ x[2] = Pointer(s[k])
  BY DEF Own
<1> HIDE DEF B, C
<1>5. \A x \in A \cup C : x[2] \in H
  <2>1. ASSUME NEW x \in C PROVE x[2] \in H
    <3>1. PICK k \in N : s[k].ptr # NULL /\ x[2] = Pointer(s[k]) BY <1>2
    <3>2. <<f[k], Pointer(s[k])>>[2] \in H BY <1>1, <1>3, <3>1 DEF Once
    <3> QED BY <1>3, <3>1, <3>2
  <2> QED BY <1>1, <2>1 DEF Once
<1>6. \A b \in H : \E x \in A \cup C : x[2] = b
  <2> SUFFICES ASSUME NEW b \in H PROVE \E x \in A \cup C : x[2] = b OBVIOUS
  <2>1. PICK x \in A \cup B : x[2] = b BY <1>1 DEF Once
  <2>2. CASE x \in A BY <2>1, <2>2
  <2>3. CASE x \in B
    <3>1. PICK k \in N : s[k].ptr # NULL /\ x[2] = Pointer(s[k]) BY <1>4, <2>3
    <3>2. <<g[k], Pointer(s[k])>> \in C /\ <<g[k], Pointer(s[k])>>[2] = b BY <1>3, <2>1, <3>1
    <3> QED BY <3>2
  <2> QED BY <2>1, <2>2, <2>3
<1>7. ASSUME NEW x \in A, NEW y \in C, x[2] = y[2] PROVE FALSE
  <2>1. PICK k \in N : s[k].ptr # NULL /\ y[2] = Pointer(s[k]) BY <1>2
  <2>2. x = <<f[k], Pointer(s[k])>>
    <3>1. <<f[k], Pointer(s[k])>> \in B /\ <<f[k], Pointer(s[k])>>[2] = x[2] BY <1>3, <1>7, <2>1
    <3> QED BY <1>1, <3>1 DEF Once
  <2>3. x[1] = f[k] BY <1>3, <2>1, <2>2
  <2> QED BY <2>3 DEF Away
<1>8. ASSUME NEW x \in C, NEW y \in C, x[2] = y[2] PROVE x = y
  <2>1. PICK k \in N : s[k].ptr # NULL /\ x = <<g[k], Pointer(s[k])>> /\ x[2] = Pointer(s[k]) BY <1>2
  <2>2. PICK m \in N : s[m].ptr # NULL /\ y = <<g[m], Pointer(s[m])>> /\ y[2] = Pointer(s[m]) BY <1>2
  <2>3. <<f[k], Pointer(s[k])>> = <<f[m], Pointer(s[m])>>
    <3>1. <<f[k], Pointer(s[k])>> \in B /\ <<f[m], Pointer(s[m])>> \in B
          /\ <<f[k], Pointer(s[k])>>[2] = <<f[m], Pointer(s[m])>>[2]
      BY <1>3, <1>8, <2>1, <2>2
    <3> QED BY <1>1, <3>1 DEF Once
  <2>4. k = m BY <1>3, <2>1, <2>2, <2>3
  <2> QED BY <2>1, <2>2, <2>4
<1>9. \A x, y \in A : x[2] = y[2] => x = y BY <1>1 DEF Once
<1>10. \A x, y \in A \cup C : x[2] = y[2] => x = y BY <1>7, <1>8, <1>9
<1>11. Once(A \cup C, H) BY <1>5, <1>6, <1>10 DEF Once
<1> QED BY <1>11 DEF C, OwnAll

\* The top of a stack apart from the rest.
LEMMA StackTop ==
  ASSUME NEW S, NEW s \in Seq(S), s # <<>>, NEW a
  PROVE  /\ OwnStack(a, s) = OwnStack(a, Tail(s)) \cup Own(<<a, Len(s)>>, Head(s))
         /\ Away(OwnStack(a, Tail(s)), <<a, Len(s)>>)
<1> DEFINE t == Tail(s)
           n == Len(s)
<1>1. /\ n \in Nat \ {0} /\ Len(t) = n - 1
      /\ \A k \in 1 .. n - 1 : t[k] = s[k + 1]
      /\ Head(s) = s[1] /\ t \in Seq(S)
  BY HeadTailProperties, EmptySeq, LenProperties
<1>2. \A k \in 1 .. n - 1 : Nth(t, k) = Nth(s, k)
  <2> SUFFICES ASSUME NEW k \in 1 .. n - 1 PROVE Nth(t, k) = Nth(s, k) OBVIOUS
  <2>1. n - 1 + 1 - k \in 1 .. n - 1 /\ (n - 1 + 1 - k) + 1 = n + 1 - k BY <1>1
  <2>2. t[n - 1 + 1 - k] = s[n + 1 - k] BY <1>1, <2>1
  <2> QED BY <1>1, <2>2 DEF Nth
<1>3. Nth(s, n) = Head(s) BY <1>1 DEF Nth
<1> HIDE DEF n, t
<1>4. 1 .. n = (1 .. n - 1) \cup {n} BY <1>1
<1>5. OwnStack(a, s) = UNION {Own(<<a, k>>, Nth(s, k)) : k \in 1 .. n} BY DEF OwnStack, n
<1>6. OwnStack(a, t) = UNION {Own(<<a, k>>, Nth(s, k)) : k \in 1 .. n - 1}
  BY <1>1, <1>2 DEF OwnStack
<1>7. OwnStack(a, s) = OwnStack(a, t) \cup Own(<<a, n>>, Head(s))
  BY <1>3, <1>4, <1>5, <1>6
<1>8. Away(OwnStack(a, t), <<a, n>>)
  <2> SUFFICES ASSUME NEW x \in OwnStack(a, t), x[1] = <<a, n>> PROVE FALSE BY DEF Away
  <2>1. PICK k \in 1 .. n - 1 : x \in Own(<<a, k>>, Nth(s, k)) BY <1>6
  <2>2. x[1] = <<a, k>> BY <2>1 DEF Own
  <2> QED BY <1>1, <2>2
<1> QED BY <1>7, <1>8 DEF t, n

\* An array and what is appended to it.
LEMMA ArrayTop ==
  ASSUME NEW S, NEW s \in Seq(S), NEW e \in S, NEW b
  PROVE  OwnArray(b, Append(s, e)) = OwnArray(b, s) \cup Own(<<b, Len(s) + 1>>, e)
<1>1. /\ Len(Append(s, e)) = Len(s) + 1 /\ Len(s) \in Nat
      /\ \A k \in 1 .. Len(s) : Append(s, e)[k] = s[k]
      /\ Append(s, e)[Len(s) + 1] = e
  BY AppendProperties, LenProperties
<1>2. 1 .. Len(s) + 1 = (1 .. Len(s)) \cup {Len(s) + 1} BY <1>1
<1> DEFINE t == Append(s, e)
           n == Len(s)
<1> HIDE DEF t, n
<1>3. OwnArray(b, t) = UNION {Own(<<b, k>>, t[k]) : k \in 1 .. n + 1} BY <1>1 DEF OwnArray, t, n
<1>4. OwnArray(b, s) = UNION {Own(<<b, k>>, t[k]) : k \in 1 .. n} BY <1>1 DEF OwnArray, t, n
<1>5. OwnArray(b, t) = OwnArray(b, s) \cup Own(<<b, n + 1>>, e)
  BY <1>1, <1>2, <1>3, <1>4, ZenonT(40) DEF t, n
<1> QED BY <1>5 DEF t, n

\* One array of the heap apart from the rest.
LEMMA HeapSplit ==
  ASSUME NEW h, NEW D, NEW b \in DOMAIN h \ D
  PROVE  /\ OwnHeap(h, D) = OwnHeap(h, D \cup {b}) \cup OwnArray(b, h[b].elems)
         /\ \A k : Away(OwnHeap(h, D \cup {b}), <<b, k>>)
<1>1. DOMAIN h \ D = (DOMAIN h \ (D \cup {b})) \cup {b} OBVIOUS
<1>2. OwnHeap(h, D) = OwnHeap(h, D \cup {b}) \cup OwnArray(b, h[b].elems)
  BY <1>1 DEF OwnHeap
<1>3. ASSUME NEW k, NEW x \in OwnHeap(h, D \cup {b}), x[1] = <<b, k>> PROVE FALSE
  <2>1. PICK c \in DOMAIN h \ (D \cup {b}) : x \in OwnArray(c, h[c].elems) BY <1>3 DEF OwnHeap
  <2>2. PICK m : x \in Own(<<c, m>>, h[c].elems[m]) BY <2>1 DEF OwnArray
  <2>3. x[1] = <<c, m>> BY <2>2 DEF Own
  <2> QED BY <1>3, <2>3
<1> QED BY <1>2, <1>3 DEF Away

\* The heap as far as its arrays are the same.
LEMMA HeapSame ==
  ASSUME NEW h, NEW D, NEW g, NEW E, DOMAIN g \ E = DOMAIN h \ D,
         \A b \in DOMAIN h \ D : g[b].elems = h[b].elems
  PROVE  OwnHeap(g, E) = OwnHeap(h, D)
BY DEF OwnHeap

\* Where the places are.
LEMMA StackAway ==
  ASSUME NEW a, NEW s, NEW c, NEW k, c # a \/ k \notin 1 .. Len(s)
  PROVE  Away(OwnStack(a, s), <<c, k>>)
<1> SUFFICES ASSUME NEW x \in OwnStack(a, s), x[1] = <<c, k>> PROVE FALSE BY DEF Away
<1>1. PICK m \in 1 .. Len(s) : x \in Own(<<a, m>>, Nth(s, m)) BY DEF OwnStack
<1>2. x[1] = <<a, m>> BY <1>1 DEF Own
<1> QED BY <1>2

\* The owners in the arrays are in no other place.
LEMMA HeapAway ==
  ASSUME NEW h, NEW D, NEW c, NEW k, c \notin DOMAIN h \ D
  PROVE  Away(OwnHeap(h, D), <<c, k>>)
<1> SUFFICES ASSUME NEW x \in OwnHeap(h, D), x[1] = <<c, k>> PROVE FALSE BY DEF Away
<1>1. PICK b \in DOMAIN h \ D : x \in OwnArray(b, h[b].elems) BY DEF OwnHeap
<1>2. PICK m : x \in Own(<<b, m>>, h[b].elems[m]) BY <1>1 DEF OwnArray
<1>3. x[1] = <<b, m>> BY <1>2 DEF Own
<1> QED BY <1>3

\* An owner is in its own place only.
LEMMA OneAway ==
  ASSUME NEW p, NEW e, NEW q, p # q
  PROVE  Away(Own(p, e), q)
BY DEF Away, Own

\* Two sets of owners that leave a place free.
LEMMA AwayUnion ==
  ASSUME NEW A, NEW B, NEW p, Away(A, p), Away(B, p)
  PROVE  Away(A \cup B, p)
BY DEF Away

\* The top of a stack that is pushed.
LEMMA StackPush ==
  ASSUME NEW S, NEW s \in Seq(S), NEW e \in S, NEW a
  PROVE  /\ OwnStack(a, <<e>> \o s) = OwnStack(a, s) \cup Own(<<a, Len(s) + 1>>, e)
         /\ <<e>> \o s \in Seq(S) /\ <<e>> \o s # <<>> /\ Len(<<e>> \o s) = Len(s) + 1
         /\ Head(<<e>> \o s) = e /\ Tail(<<e>> \o s) = s
<1> DEFINE t == <<e>> \o s
<1>1. t \in Seq(S) /\ Len(t) = Len(s) + 1 /\ t # <<>> /\ Head(t) = e /\ Tail(t) = s
  OBVIOUS
<1>2. OwnStack(a, t) = OwnStack(a, Tail(t)) \cup Own(<<a, Len(t)>>, Head(t))
  <2> HIDE DEF t
  <2> QED BY <1>1, StackTop
<1> QED BY <1>1, <1>2

\* A stack on top of another one.
LEMMA StackConcat ==
  ASSUME NEW S, NEW s \in Seq(S), NEW c \in Seq(S), NEW a
  PROVE  /\ OwnStack(a, c \o s) = OwnStack(a, s)
              \cup UNION {Own(<<a, Len(s) + Len(c) + 1 - k>>, c[k]) : k \in 1 .. Len(c)}
         /\ c \o s \in Seq(S) /\ Len(c \o s) = Len(c) + Len(s)
<1> DEFINE t == c \o s
           m == Len(c)
           n == Len(s)
           C == UNION {Own(<<a, n + m + 1 - k>>, c[k]) : k \in 1 .. m}
<1>1. /\ t \in Seq(S) /\ Len(t) = m + n /\ m \in Nat /\ n \in Nat
      /\ \A i1 \in 1 .. m + n : t[i1] = IF i1 <= m THEN c[i1] ELSE s[i1 - m]
  BY ConcatProperties, LenProperties
<1> HIDE DEF t, m, n
<1>2. OwnStack(a, t) = UNION {Own(<<a, k>>, t[m + n + 1 - k]) : k \in 1 .. m + n}
  BY <1>1 DEF OwnStack, Nth
<1>3. OwnStack(a, s) = UNION {Own(<<a, k>>, s[n + 1 - k]) : k \in 1 .. n}
  BY DEF OwnStack, Nth, n
<1>4. \A k \in 1 .. n : k \in 1 .. m + n /\ t[m + n + 1 - k] = s[n + 1 - k]
  <2> SUFFICES ASSUME NEW k \in 1 .. n
               PROVE  k \in 1 .. m + n /\ t[m + n + 1 - k] = s[n + 1 - k]
    OBVIOUS
  <2>1. /\ k \in 1 .. m + n /\ m + n + 1 - k \in 1 .. m + n
        /\ ~(m + n + 1 - k <= m) /\ (m + n + 1 - k) - m = n + 1 - k
    BY <1>1
  <2> QED BY <1>1, <2>1
<1>5. \A k \in 1 .. m : /\ n + m + 1 - k \in 1 .. m + n
                        /\ t[m + n + 1 - (n + m + 1 - k)] = c[k]
  <2> SUFFICES ASSUME NEW k \in 1 .. m
               PROVE  n + m + 1 - k \in 1 .. m + n /\ t[m + n + 1 - (n + m + 1 - k)] = c[k]
    OBVIOUS
  <2>1. /\ n + m + 1 - k \in 1 .. m + n /\ m + n + 1 - (n + m + 1 - k) = k
        /\ k \in 1 .. m + n /\ k <= m
    BY <1>1
  <2> QED BY <1>1, <2>1
<1>6. \A k \in 1 .. m + n : k \in 1 .. n \/ \E j \in 1 .. m : k = n + m + 1 - j
  <2> SUFFICES ASSUME NEW k \in 1 .. m + n, k \notin 1 .. n
               PROVE  \E j \in 1 .. m : k = n + m + 1 - j
    OBVIOUS
  <2>1. n + m + 1 - k \in 1 .. m /\ k = n + m + 1 - (n + m + 1 - k) BY <1>1
  <2> QED BY <2>1
<1>7. OwnStack(a, t) \subseteq OwnStack(a, s) \cup C
  <2> SUFFICES ASSUME NEW x \in OwnStack(a, t) PROVE x \in OwnStack(a, s) \cup C OBVIOUS
  <2>1. PICK k \in 1 .. m + n : x \in Own(<<a, k>>, t[m + n + 1 - k]) BY <1>2
  <2>2. CASE k \in 1 .. n BY <1>3, <1>4, <2>1, <2>2
  <2>3. CASE \E j \in 1 .. m : k = n + m + 1 - j BY <1>5, <2>1, <2>3
  <2> QED BY <1>6, <2>2, <2>3
<1>8. OwnStack(a, s) \subseteq OwnStack(a, t) BY <1>2, <1>3, <1>4
<1>9. C \subseteq OwnStack(a, t)
  <2> SUFFICES ASSUME NEW x \in C PROVE x \in OwnStack(a, t) OBVIOUS
  <2>1. PICK k \in 1 .. m : x \in Own(<<a, n + m + 1 - k>>, c[k]) OBVIOUS
  <2> QED BY <1>2, <1>5, <2>1
<1>10. OwnStack(a, t) = OwnStack(a, s) \cup C BY <1>7, <1>8, <1>9
<1> QED BY <1>1, <1>10 DEF t, m, n

-----------------------------------------------------------------------------
(* The invariant.                                                          *)

Pending == [n \in 1 .. Len(work) |-> work[n].of]

Owners ==
  Own(<<0, 0>>, root) \cup OwnStack(0, stack) \cup OwnStack(-1, Pending)
    \cup OwnHeap(heap, Dying)

Arrays(s) == \A n \in DOMAIN s : s[n].kind \in {"list", "table"}

\* What is on the stack and among the calls to be made, by what runs next.
Control ==
  /\ root.kind = "table"
  /\ stack # <<>> => Arrays(Tail(stack))
  /\ pc \in {"pair", "sep", "loop", "after"} => Arrays(stack)
  /\ pc \in {"value", "loop", "after", "end", "append"} => stack # <<>>
  /\ pc = "value" => Head(stack).ptr = NULL
  /\ pc \in {"scan", "done", "failed", "returned", "freeing", "freed"} => stack = <<>>
  /\ pc \notin {"unwind", "freeing"} => work = <<>>

Shape == TypeOK /\ Control /\ Capacity

MemoryInv == Shape /\ Once(Owners, Live(heap))

\* The second of a sequence.
LEMMA SecondOfSeq ==
  ASSUME NEW S, NEW s \in Seq(S), Len(s) > 1
  PROVE  /\ s # <<>> /\ Tail(s) \in Seq(S) /\ Tail(s) # <<>> /\ Len(Tail(s)) = Len(s) - 1
         /\ Head(Tail(s)) = s[2] /\ s[2] \in S /\ Head(s) = s[1] /\ s[1] \in S
<1>1. s # <<>> /\ Len(s) \in Nat BY EmptySeq, LenProperties
<1>2. /\ Tail(s) \in Seq(S) /\ Len(Tail(s)) = Len(s) - 1 /\ Head(s) = s[1]
      /\ \A n \in 1 .. Len(s) - 1 : Tail(s)[n] = s[n + 1]
  BY <1>1, HeadTailProperties
<1>3. Tail(s) # <<>> /\ Head(Tail(s)) = Tail(s)[1]
  <2> DEFINE t == Tail(s)
  <2>1. t \in Seq(S) /\ Len(t) > 0 BY <1>1, <1>2
  <2> HIDE DEF t
  <2>2. t # <<>> /\ Head(t) = t[1] BY <2>1, EmptySeq
  <2> QED BY <2>2 DEF t
<1>4. 1 \in 1 .. Len(s) /\ 2 \in 1 .. Len(s) /\ 1 \in 1 .. Len(s) - 1 /\ 1 + 1 = 2 BY <1>1
<1>5. s[1] \in S /\ s[2] \in S BY <1>4, ElementOfSeq
<1> QED BY <1>1, <1>2, <1>3, <1>4, <1>5

\* The entries of the calls still to be made.
LEMMA PendingSeq ==
  ASSUME work \in Seq(Call)
  PROVE  /\ Pending \in Seq(Entry) /\ Len(Pending) = Len(work)
         /\ \A n \in 1 .. Len(work) : Pending[n] = work[n].of
         /\ work # <<>> => Pending # <<>> /\ Head(Pending) = Head(work).of
<1>1. Len(work) \in Nat /\ \A n \in 1 .. Len(work) : work[n].of \in Entry
  <2>1. \A n \in 1 .. Len(work) : work[n] \in Call BY ElementOfSeq
  <2>2. \A c \in Call : c.of \in Entry BY DEF Call
  <2> QED BY <2>1, <2>2, LenProperties
<1>2. Pending \in Seq(Entry) BY <1>1, SeqDef DEF Pending
<1>3. Len(Pending) = Len(work) BY <1>1, <1>2, LenProperties DEF Pending
<1>4. \A n \in 1 .. Len(work) : Pending[n] = work[n].of BY DEF Pending
<1>5. ASSUME work # <<>> PROVE Pending # <<>> /\ Head(Pending) = Head(work).of
  <2>1. Len(work) # 0 BY <1>5, EmptySeq
  <2>2. Pending # <<>> BY <1>3, <2>1, EmptySeq
  <2>3. 1 \in 1 .. Len(work) BY <1>1, <2>1
  <2>4. Head(Pending) = Pending[1] BY <1>2, <2>2, HeadTailProperties
  <2>5. Head(work) = work[1] BY <1>5, HeadTailProperties
  <2> QED BY <1>4, <2>2, <2>3, <2>4, <2>5
<1> QED BY <1>2, <1>3, <1>4, <1>5

\* An owner in sight owns a live block, which is what its kind says.
LEMMA OwnedBlock ==
  ASSUME NEW R, NEW h, Once(R, Live(h)), NEW p, NEW e, Own(p, e) \subseteq R, e.ptr # NULL
  PROVE  e.ptr \in DOMAIN h /\ Holds(e) = What(h[e.ptr])
<1> DEFINE z == <<p, Pointer(e)>>
<1>1. z \in R /\ z[2] = Pointer(e) BY DEF Own
<1>2. Pointer(e) \in Live(h)
  <2> HIDE DEF z
  <2> QED BY <1>1 DEF Once
<1>3. PICK b \in DOMAIN h : Pointer(e) = <<b, What(h[b])>>
  BY <1>2 DEF Live
<1> QED BY <1>3 DEF Pointer

\* The same, of the caller's table, of the stack, and of the next call.
LEMMA HeldBlocks ==
  ASSUME MemoryInv
  PROVE  /\ Own(<<0, 0>>, root) \subseteq Owners
         /\ stack # <<>> => Own(<<0, Len(stack)>>, Head(stack)) \subseteq Owners
         /\ Len(stack) > 1 => Own(<<0, Len(stack) - 1>>, stack[2]) \subseteq Owners
         /\ work # <<>> => Own(<<-1, Len(work)>>, Head(work).of) \subseteq Owners
<1> USE DEF MemoryInv, Shape, TypeOK
<1>1. Own(<<0, 0>>, root) \subseteq Owners BY DEF Owners
<1>2. ASSUME stack # <<>> PROVE Own(<<0, Len(stack)>>, Head(stack)) \subseteq Owners
  BY <1>2, StackTop DEF Owners
<1>3. ASSUME Len(stack) > 1 PROVE Own(<<0, Len(stack) - 1>>, stack[2]) \subseteq Owners
  <2>1. /\ stack # <<>> /\ Tail(stack) \in Seq(Entry) /\ Tail(stack) # <<>>
        /\ Len(Tail(stack)) = Len(stack) - 1 /\ Head(Tail(stack)) = stack[2]
    BY <1>3, SecondOfSeq
  <2>2. OwnStack(0, Tail(stack)) \subseteq Owners BY <2>1, StackTop DEF Owners
  <2>3. Own(<<0, Len(Tail(stack))>>, Head(Tail(stack))) \subseteq OwnStack(0, Tail(stack))
    BY <2>1, StackTop
  <2> QED BY <2>1, <2>2, <2>3
<1>4. ASSUME work # <<>> PROVE Own(<<-1, Len(work)>>, Head(work).of) \subseteq Owners
  <2>1. /\ Pending \in Seq(Entry) /\ Pending # <<>> /\ Len(Pending) = Len(work)
        /\ Head(Pending) = Head(work).of
    BY <1>4, PendingSeq
  <2>2. Own(<<-1, Len(Pending)>>, Head(Pending)) \subseteq OwnStack(-1, Pending)
    BY <2>1, StackTop
  <2> QED BY <2>1, <2>2 DEF Owners
<1> QED BY <1>1, <1>2, <1>3, <1>4

\* The block a list or table in sight points to, if any.
LEMMA HeldElems ==
  ASSUME MemoryInv, NEW p, NEW e \in Entry, Own(p, e) \subseteq Owners
  PROVE  /\ e.ptr # NULL => e.ptr \in DOMAIN heap /\ heap[e.ptr] \in Block
         /\ Elems(e.ptr) \in Seq(Entry)
<1>1. ASSUME e.ptr # NULL PROVE e.ptr \in DOMAIN heap /\ heap[e.ptr] \in Block
  BY <1>1, OwnedBlock DEF MemoryInv, Shape, TypeOK
<1>2. Elems(e.ptr) \in Seq(Entry) BY <1>1 DEF Elems, Block
<1> QED BY <1>1, <1>2

-----------------------------------------------------------------------------
(* Types, control and capacity are kept by every step.                     *)

\* The token parser_get returns.
LEMMA CurrentToken ==
  ASSUME MemoryInv, ~NoneLeft
  PROVE  /\ i + 1 \in 1 .. Len(tokens) + 1
         /\ tokens[i].kind = "key" => tokens[i].sym \in Keys
         /\ tokens[i].kind = "value" => tokens[i].sym \in Literals
<1>1. tokens \in Seq(Token) /\ Len(tokens) \in Nat /\ i \in 1 .. Len(tokens) + 1
  BY LenProperties DEF MemoryInv, Shape, TypeOK
<1>2. i \in 1 .. Len(tokens) BY <1>1 DEF NoneLeft
<1>3. tokens[i] \in Token BY <1>1, <1>2, ElementOfSeq
<1> QED BY <1>1, <1>2, <1>3 DEF Token

\* A list or table on top of lists and tables.
LEMMA ArraysPush ==
  ASSUME NEW S, NEW s \in Seq(S), NEW e, Arrays(s), e.kind \in {"list", "table"}
  PROVE  Arrays(<<e>> \o s)
BY DEF Arrays

\* Without the top.
LEMMA ArraysTail ==
  ASSUME NEW S, NEW s \in Seq(S), s # <<>>, Arrays(s)
  PROVE  Arrays(Tail(s))
BY HeadTailProperties, LenProperties DEF Arrays

\* The value under construction gets its kind and its data.
LEMMA OutStep ==
  ASSUME stack \in Seq(Entry), stack # <<>>,
         NEW kind \in {"string", "integer", "boolean", "list", "table"},
         NEW data \in Literals \cup {NoData}, NEW p \in Nat, Out(kind, data, p)
  PROVE  /\ stack' \in Seq(Entry) /\ stack' # <<>> /\ Len(stack') = Len(stack)
         /\ Tail(stack') = Tail(stack)
         /\ Head(stack') \in Entry /\ Head(stack').kind = kind /\ Head(stack').ptr = p
         /\ (Arrays(Tail(stack)) /\ kind \in {"list", "table"}) => Arrays(stack')
<1> DEFINE e == [Head(stack) EXCEPT !.kind = kind, !.data = data, !.ptr = p]
<1>1. /\ Tail(stack) \in Seq(Entry) /\ Len(Tail(stack)) = Len(stack) - 1 /\ Len(stack) \in Nat
      /\ Head(stack) \in Entry
  BY HeadTailProperties, LenProperties
<1>2. e \in Entry /\ e.kind = kind /\ e.ptr = p
  <2> DEFINE h == Head(stack)
  <2>1. h \in Entry /\ e = [h EXCEPT !.kind = kind, !.data = data, !.ptr = p] BY <1>1
  <2> HIDE DEF h
  <2> QED BY <2>1 DEF Entry
<1>3. stack' = <<e>> \o Tail(stack) BY DEF Out
<1> HIDE DEF e
<1>4. (Arrays(Tail(stack)) /\ kind \in {"list", "table"}) => Arrays(stack')
  BY <1>1, <1>2, <1>3, ArraysPush
<1> QED BY <1>1, <1>2, <1>3, <1>4, StackPush

\* parse, at the end of the tokens: types, control and capacity.
LEMMA DoneKept == ASSUME MemoryInv, Done PROVE Shape'
BY DEF MemoryInv, Done, Shape, TypeOK, Control, Capacity, Arrays, tree

\* parse_key: types, control and capacity.
LEMMA ParseKeyKept == ASSUME MemoryInv, ParseKey PROVE Shape'
BY CurrentToken DEF MemoryInv, ParseKey, AtPair, Shape, TypeOK, Control, Capacity, Arrays, tree,
  Looked, Fail, Pop, Expect, Errors, NoneLeft

\* parse_delim, after a key: types, control and capacity.
LEMMA ParseSeparatorKept == ASSUME MemoryInv, ParseSeparator PROVE Shape'
<1> USE DEF MemoryInv, Shape, TypeOK, Control, Capacity, Arrays, ParseSeparator
<1>1. CASE ExpectDelim(kKeyValSep)
  <2>1. Undefined(key) \in Entry /\ Undefined(key).ptr = NULL BY DEF Undefined, Entry, NULL
  <2>2. stack' = <<Undefined(key)>> \o stack /\ i' = i + 1 /\ i + 1 \in 1 .. Len(tokens) + 1
    BY <1>1, CurrentToken DEF Pop, ExpectDelim, Expect
  <2>3. /\ stack' \in Seq(Entry) /\ stack' # <<>> /\ Head(stack') = Undefined(key)
        /\ Tail(stack') = stack
    BY <2>1, <2>2, StackPush
  <2> QED BY <1>1, <2>1, <2>2, <2>3 DEF Looked
<1>2. CASE ~ExpectDelim(kKeyValSep) BY <1>2 DEF Looked, Fail, Errors
<1> QED BY <1>1, <1>2

\* parse_value, of what is no value: types, control and capacity.
LEMMA ParseBadValueKept == ASSUME MemoryInv, ParseBadValue PROVE Shape'
BY CurrentToken DEF MemoryInv, ParseBadValue, Shape, TypeOK, Control, Capacity, Arrays, tree,
  Looked, Fail, Pop, Expect, ExpectDelim, Errors

\* parse_delim, after a value: types, control and capacity.
LEMMA ParseValueEndKept == ASSUME MemoryInv, ParseValueEnd PROVE Shape'
BY CurrentToken DEF MemoryInv, ParseValueEnd, Shape, TypeOK, Control, Capacity, Arrays, tree,
  Looked, Fail, Pop, PopDelim, Expect, ExpectDelim, Errors

\* parse_list_value and parse_table_value, on the way in: types, control and capacity.
LEMMA ParseOpenKept ==
  ASSUME MemoryInv, NEW bracket, NEW kind \in {"list", "table"}, ParseOpen(bracket, kind)
  PROVE  Shape'
<1>1. i' = i + 1 /\ i + 1 \in 1 .. Len(tokens) + 1
  BY CurrentToken DEF ParseOpen, Pop, ExpectDelim, Expect
<1>2. stack' \in Seq(Entry) /\ stack' # <<>> /\ Tail(stack') = Tail(stack) /\ Arrays(stack')
  <2>1. /\ stack \in Seq(Entry) /\ stack # <<>> /\ Out(kind, NoData, NULL) /\ NULL \in Nat
        /\ NoData \in Literals \cup {NoData}
        /\ kind \in {"string", "integer", "boolean", "list", "table"}
        /\ Arrays(Tail(stack))
    BY DEF MemoryInv, Shape, TypeOK, Control, ParseOpen, NULL
  <2> QED BY <2>1, OutStep
<1> QED BY <1>1, <1>2 DEF MemoryInv, Shape, TypeOK, Control, Capacity, Arrays, ParseOpen

\* parse_simple_value, of a string: types, control and capacity.
LEMMA ParseStringKept == ASSUME MemoryInv, ParseString PROVE Shape'
<1>1. /\ i' = i + 1 /\ i + 1 \in 1 .. Len(tokens) + 1 /\ tokens[i].sym \in Literals
  BY CurrentToken DEF ParseString, Pop, Expect
<1>2. stack' \in Seq(Entry) /\ stack' # <<>> /\ Tail(stack') = Tail(stack)
  BY <1>1, OutStep DEF MemoryInv, Shape, TypeOK, Control, ParseString
<1> USE DEF MemoryInv, Shape, TypeOK, Control, Capacity, Arrays, ParseString
<1>3. fresh' \in Nat \ {0} /\ DOMAIN heap' \subseteq 1 .. fresh' - 1 OBVIOUS
<1>4. \A b \in DOMAIN heap' : heap'[b] \in Block /\ Len(heap'[b].elems) <= heap'[b].cap
  BY DEF Block
<1> QED BY <1>1, <1>2, <1>3, <1>4

\* parse_simple_value, of an integer or a boolean: types, control and capacity.
LEMMA ParseScalarKept == ASSUME MemoryInv, ParseScalar PROVE Shape'
<1>1. i' = i + 1 /\ i + 1 \in 1 .. Len(tokens) + 1 /\ tokens[i].sym \in Literals
  BY CurrentToken DEF ParseScalar, Pop, Expect
<1>2. stack' \in Seq(Entry) /\ stack' # <<>> /\ Tail(stack') = Tail(stack)
  <2> DEFINE c == Class[tokens[i].sym]
  <2>1. /\ stack \in Seq(Entry) /\ stack # <<>> /\ Out(c, tokens[i].sym, NULL) /\ NULL \in Nat
        /\ c \in {"string", "integer", "boolean", "list", "table"}
    BY DEF MemoryInv, Shape, TypeOK, Control, ParseScalar, NULL
  <2> HIDE DEF c
  <2> QED BY <1>1, <2>1, OutStep
<1> QED BY <1>1, <1>2 DEF MemoryInv, Shape, TypeOK, Control, Capacity, Arrays, ParseScalar

\* The loops of parse, parse_list_value and parse_table_value: types, control and capacity.
LEMMA ParseLoopKept == ASSUME MemoryInv, ParseLoop PROVE Shape'
<1> USE DEF MemoryInv, Shape, TypeOK, Control, Capacity, Arrays, ParseLoop, Looked
<1>1. CASE ExpectDelim(Closer)
  <2>1. i' = i + 1 /\ i + 1 \in 1 .. Len(tokens) + 1
    BY <1>1, CurrentToken DEF Pop, ExpectDelim, Expect
  <2> QED BY <1>1, <2>1
<1>2. CASE ~ExpectDelim(Closer) /\ Head(stack).kind = "list"
  <2>1. Undefined(NoKey) \in Entry /\ Undefined(NoKey).ptr = NULL BY DEF Undefined, Entry, NULL
  <2>2. stack' = <<Undefined(NoKey)>> \o stack BY <1>2
  <2>3. /\ stack' \in Seq(Entry) /\ stack' # <<>> /\ Head(stack') = Undefined(NoKey)
        /\ Tail(stack') = stack
    BY <2>1, <2>2, StackPush
  <2> QED BY <1>2, <2>1, <2>3
<1>3. CASE ~ExpectDelim(Closer) /\ Head(stack).kind # "list" BY <1>3
<1> QED BY <1>1, <1>2, <1>3

\* parse_list_value and parse_table_value, after the last element: types, control and capacity.
LEMMA ParseAfterKept == ASSUME MemoryInv, ParseAfter PROVE Shape'
BY CurrentToken DEF MemoryInv, Shape, TypeOK, Control, Capacity, Arrays, tree, ParseAfter,
  Looked, Pop, ExpectDelim, Expect

-----------------------------------------------------------------------------
(* list_append and table_append.                                           *)

\* The list or table the value is appended to, its capacity, whether realloc moves
\* it, and to which block, and what is in the block then.
Target == IF Len(stack) = 1 THEN root ELSE stack[2]
Cap    == IF Target.ptr = NULL THEN 0 ELSE heap[Target.ptr].cap
Full   == Len(Elems(Target.ptr)) = Cap
Moved  == IF Full THEN fresh ELSE Target.ptr
Filled == [cap   |-> IF Full THEN Grown(Cap) ELSE Cap,
           elems |-> Append(Elems(Target.ptr), Head(stack))]

\* The array an element is appended to.
LEMMA AppendContainer ==
  ASSUME MemoryInv, pc = "append"
  PROVE  /\ Target \in Entry /\ Target.kind \in {"list", "table"}
         /\ Own(IF Len(stack) = 1 THEN <<0, 0>> ELSE <<0, Len(stack) - 1>>, Target) \subseteq Owners
         /\ (IF Len(stack) = 1 THEN root.ptr ELSE stack[2].ptr) = Target.ptr
         /\ Len(stack) \in Nat \ {0} /\ Head(stack) \in Entry
         /\ Len(stack) # 1 => /\ stack[2] = Head(Tail(stack)) /\ Tail(stack) \in Seq(Entry)
                              /\ Tail(stack) # <<>> /\ Tail(Tail(stack)) \in Seq(Entry)
<1>1. stack \in Seq(Entry) /\ stack # <<>> /\ Len(stack) \in Nat \ {0} /\ Head(stack) \in Entry
  BY EmptySeq, HeadTailProperties DEF MemoryInv, Shape, TypeOK, Control
<1>2. CASE Len(stack) = 1
  BY <1>1, <1>2, HeldBlocks DEF Target, MemoryInv, Shape, TypeOK, Control
<1>3. CASE Len(stack) > 1
  <2>1. /\ Tail(stack) \in Seq(Entry) /\ Tail(stack) # <<>> /\ Len(Tail(stack)) = Len(stack) - 1
        /\ Head(Tail(stack)) = stack[2] /\ stack[2] \in Entry
    BY <1>1, <1>3, SecondOfSeq
  <2>2. stack[2].kind \in {"list", "table"}
    <3>1. Arrays(Tail(stack)) BY <1>1 DEF MemoryInv, Shape, Control
    <3>2. 1 \in DOMAIN Tail(stack) /\ Tail(stack)[1] = stack[2]
      BY <2>1, EmptySeq, LenProperties
    <3> QED BY <3>1, <3>2 DEF Arrays
  <2>3. Tail(Tail(stack)) \in Seq(Entry) BY <2>1, HeadTailProperties
  <2>4. Len(stack) # 1 /\ Target = stack[2] BY <1>3 DEF Target
  <2>5. Own(<<0, Len(stack) - 1>>, stack[2]) \subseteq Owners BY <1>3, HeldBlocks
  <2> QED BY <1>1, <2>1, <2>2, <2>3, <2>4, <2>5
<1>4. Len(stack) = 1 \/ Len(stack) > 1
  <2>1. \A n \in Nat \ {0} : n = 1 \/ n > 1 OBVIOUS
  <2> QED BY <1>1, <2>1
<1> QED BY <1>2, <1>3, <1>4

\* What list_append and table_append do.
LEMMA AppendFacts ==
  ASSUME MemoryInv, AppendValue
  PROVE  /\ pc = "append" /\ work = <<>> /\ Target \in Entry /\ Head(stack) \in Entry
         /\ Elems(Target.ptr) \in Seq(Entry)
         /\ Target.ptr # NULL => Target.ptr \in DOMAIN heap
         /\ Moved \in 1 .. fresh' - 1 /\ Moved \in Nat \ {0}
         /\ fresh' \in Nat \ {0} /\ fresh <= fresh'
         /\ Filled \in Block /\ Len(Filled.elems) <= Filled.cap /\ Filled.cap # 0
         /\ \/ /\ Moved = fresh /\ fresh \notin DOMAIN heap
               /\ DOMAIN heap' = (DOMAIN heap \ {Target.ptr}) \cup {Moved}
            \/ /\ Moved = Target.ptr /\ Moved \in DOMAIN heap /\ heap[Moved].cap # 0
               /\ DOMAIN heap' = DOMAIN heap
         /\ heap'[Moved] = Filled
         /\ \A b \in DOMAIN heap' \ {Moved} : b \in DOMAIN heap /\ heap'[b] = heap[b]
         /\ Len(stack) = 1 => stack' = <<>> /\ root' = [root EXCEPT !.ptr = Moved]
         /\ Len(stack) # 1 => /\ stack' = <<[stack[2] EXCEPT !.ptr = Moved]>> \o Tail(Tail(stack))
                              /\ root' = root
<1> DEFINE p    == Target.ptr
           kept == DOMAIN heap \ (IF Full THEN {p} ELSE {})
<1>1. /\ pc = "append" /\ p \in Nat /\ Head(stack) \in Entry /\ Target \in Entry
      /\ Elems(p) \in Seq(Entry) /\ (p # NULL => p \in DOMAIN heap /\ heap[p] \in Block)
  BY AppendContainer, HeldElems DEF AppendValue, Entry
<1>2. /\ heap' = [b \in kept \cup {Moved} |-> IF b = Moved THEN Filled ELSE heap[b]]
      /\ fresh' = IF Full THEN fresh + 1 ELSE fresh
      /\ Len(stack) = 1 => stack' = <<>> /\ root' = [root EXCEPT !.ptr = Moved]
      /\ Len(stack) # 1 => /\ stack' = <<[stack[2] EXCEPT !.ptr = Moved]>> \o Tail(Tail(stack))
                           /\ root' = root
  BY <1>1, AppendContainer DEF AppendValue, AppendTo, Stored, Cap, Full, Moved, Filled
<1>3. /\ Cap \in Nat /\ Len(Elems(p)) \in Nat /\ Len(Elems(p)) <= Cap
      /\ Grown(Cap) \in Nat /\ Grown(Cap) >= Cap + 1
  BY <1>1 DEF MemoryInv, Shape, Capacity, Block, Elems, Grown, Cap
<1>4. Filled \in Block /\ Len(Filled.elems) <= Filled.cap /\ Filled.cap # 0
  BY <1>1, <1>3 DEF Block, Filled, Full
<1>5. fresh \in Nat \ {0} /\ DOMAIN heap \subseteq 1 .. fresh - 1
  BY DEF MemoryInv, Shape, TypeOK
<1>6. work = <<>> BY <1>1 DEF MemoryInv, Shape, Control
<1>7. DOMAIN heap' = kept \cup {Moved} /\ kept \subseteq DOMAIN heap
      /\ heap'[Moved] = Filled
  BY <1>2
<1>8. \A b \in DOMAIN heap' \ {Moved} : b \in DOMAIN heap /\ heap'[b] = heap[b] BY <1>2, <1>7
<1> HIDE DEF p, kept
<1>9. CASE Full
  <2>1. Moved = fresh /\ fresh \notin DOMAIN heap /\ fresh' = fresh + 1
    BY <1>2, <1>5, <1>9 DEF Moved
  <2>2. kept = DOMAIN heap \ {p} BY <1>9 DEF kept
  <2>3. Moved \in 1 .. fresh' - 1 /\ Moved \in Nat \ {0} /\ fresh' \in Nat \ {0} /\ fresh <= fresh'
    BY <1>5, <2>1
  <2>4. /\ Moved = fresh /\ fresh \notin DOMAIN heap
        /\ DOMAIN heap' = (DOMAIN heap \ {Target.ptr}) \cup {Moved}
    BY <1>7, <2>1, <2>2 DEF p
  <2> QED BY <1>1, <1>2, <1>4, <1>6, <1>7, <1>8, <2>3, <2>4 DEF p
<1>10. CASE ~Full
  <2>1. p # NULL /\ Cap # 0
    <3>1. Cap # 0 BY <1>3, <1>10 DEF Full, p
    <3> QED BY <3>1 DEF Cap, p
  <2>2. p \in DOMAIN heap /\ p \in 1 .. fresh - 1 BY <1>1, <1>5, <2>1
  <2>3. Moved = p /\ fresh' = fresh /\ kept = DOMAIN heap BY <1>2, <1>10 DEF Moved, p, kept
  <2>4. heap[p].cap # 0 BY <2>1 DEF Cap, p
  <2>5. Moved \in 1 .. fresh' - 1 /\ Moved \in Nat \ {0} /\ fresh' \in Nat \ {0} /\ fresh <= fresh'
    BY <1>5, <2>2, <2>3
  <2>6. /\ Moved = Target.ptr /\ Moved \in DOMAIN heap /\ heap[Moved].cap # 0
        /\ DOMAIN heap' = DOMAIN heap
    BY <1>7, <2>2, <2>3, <2>4 DEF p
  <2> QED BY <1>1, <1>2, <1>4, <1>6, <1>7, <1>8, <2>5, <2>6 DEF p
<1> QED BY <1>9, <1>10

\* list_append and table_append: types, control and capacity.
LEMMA AppendValueKept == ASSUME MemoryInv, AppendValue PROVE Shape'
<1>1. fresh \in Nat \ {0} /\ DOMAIN heap \subseteq 1 .. fresh - 1
      /\ \A b \in DOMAIN heap : heap[b] \in Block /\ Len(heap[b].elems) <= heap[b].cap
  BY DEF MemoryInv, Shape, TypeOK, Capacity
<1>2. DOMAIN heap' \subseteq 1 .. fresh' - 1 /\ fresh' \in Nat \ {0}
  BY <1>1, AppendFacts
<1>3. \A b \in DOMAIN heap' : heap'[b] \in Block /\ Len(heap'[b].elems) <= heap'[b].cap
  BY <1>1, AppendFacts
<1>4. /\ stack' \in Seq(Entry) /\ root' \in Entry /\ root'.kind = "table"
      /\ stack' # <<>> => Arrays(stack') /\ Arrays(Tail(stack'))
      /\ Len(stack) = 1 => stack' = <<>>
      /\ Len(stack) # 1 => stack' # <<>>
  <2>1. CASE Len(stack) = 1
    <3>1. stack' = <<>> /\ root' = [root EXCEPT !.ptr = Moved] /\ Moved \in Nat
      BY <2>1, AppendFacts
    <3>2. root \in Entry /\ root.kind = "table" BY DEF MemoryInv, Shape, TypeOK, Control
    <3>3. root' \in Entry /\ root'.kind = "table" BY <3>1, <3>2 DEF Entry
    <3> QED BY <2>1, <3>1, <3>3
  <2>2. CASE Len(stack) # 1
    <3> DEFINE c == [stack[2] EXCEPT !.ptr = Moved]
               t == Tail(Tail(stack))
    <3>1. stack[2] \in Entry /\ stack[2].kind \in {"list", "table"} /\ t \in Seq(Entry)
      BY <2>2, AppendContainer, AppendFacts DEF Target
    <3>2. c \in Entry /\ c.kind \in {"list", "table"} BY <3>1, AppendFacts DEF Entry
    <3>3. stack' = <<c>> \o t /\ root' = root BY <2>2, AppendFacts
    <3>4. Arrays(t)
      <4>1. Arrays(Tail(stack)) BY AppendFacts DEF MemoryInv, Shape, Control, AppendValue
      <4>2. Tail(stack) \in Seq(Entry) /\ Tail(stack) # <<>> BY <2>2, AppendContainer, AppendFacts
      <4> QED BY <4>1, <4>2, ArraysTail
    <3> HIDE DEF c, t
    <3>5. stack' \in Seq(Entry) /\ stack' # <<>> /\ Tail(stack') = t
      BY <3>1, <3>2, <3>3, StackPush
    <3>6. Arrays(stack') BY <3>1, <3>2, <3>3, <3>4, ArraysPush
    <3> QED BY <2>2, <3>3, <3>4, <3>5, <3>6 DEF MemoryInv, Shape, TypeOK, Control
  <2> QED BY <2>1, <2>2
<1>5. pc' = IF Len(stack) = 1 THEN "pair" ELSE "after" BY DEF AppendValue
<1>6. UNCHANGED <<tokens, i, key, work, error, overrun>> BY DEF AppendValue
<1>7. work = <<>> /\ Arrays(<<>>) BY AppendFacts DEF Arrays
<1> QED
  BY <1>2, <1>3, <1>4, <1>5, <1>6, <1>7 DEF MemoryInv, Shape, TypeOK, Control, Capacity

-----------------------------------------------------------------------------
(* Freeing, and the rest.                                                  *)

\* free leaves the other blocks as they are.
LEMMA FreeKept ==
  ASSUME MemoryInv, NEW p, Free(p)
  PROVE  DOMAIN heap' = DOMAIN heap \ {p} /\ \A b \in DOMAIN heap' : heap'[b] = heap[b]
BY DEF Free

\* The next call to be made.
LEMMA NextCall ==
  ASSUME MemoryInv, work # <<>>
  PROVE  /\ Head(work) \in Call /\ Head(work).of \in Entry /\ Tail(work) \in Seq(Call)
         /\ pc \in {"unwind", "freeing"}
         /\ Elems(Head(work).of.ptr) \in Seq(Entry)
<1>1. Head(work) \in Call /\ Tail(work) \in Seq(Call)
  BY HeadTailProperties DEF MemoryInv, Shape, TypeOK
<1>2. Head(work).of \in Entry BY <1>1 DEF Call
<1>3. Elems(Head(work).of.ptr) \in Seq(Entry) BY <1>2, HeldBlocks, HeldElems
<1>4. pc \in {"unwind", "freeing"} BY DEF MemoryInv, Shape, Control
<1> QED BY <1>1, <1>2, <1>3, <1>4

\* A function that returns its error: types, control and capacity.
LEMMA UnwindKept == ASSUME MemoryInv, Unwind PROVE Shape'
<1> USE DEF MemoryInv, Shape, TypeOK, Control, Capacity
<1>1. Head(stack) \in Entry /\ Tail(stack) \in Seq(Entry) /\ Arrays(Tail(stack))
  BY HeadTailProperties DEF Unwind
<1>2. work' \in Seq(Call)
  <2>1. ValueFree(Head(stack)) \in Call BY <1>1 DEF ValueFree, Call
  <2>2. work' = <<ValueFree(Head(stack))>> BY DEF Unwind, FreeOut
  <2> QED BY <2>1, <2>2
<1>3. stack' # <<>> => Arrays(Tail(stack')) BY <1>1, ArraysTail DEF Unwind
<1> QED BY <1>1, <1>2, <1>3 DEF Unwind, Arrays

\* parse, after an error: types, control and capacity.
LEMMA FailedKept == ASSUME MemoryInv, Failed PROVE Shape'
BY DEF MemoryInv, Shape, TypeOK, Control, Capacity, Failed, Kept, Arrays

\* kevs_free, called: types, control and capacity.
LEMMA KevsFreeKept == ASSUME MemoryInv, KevsFree PROVE Shape'
<1>1. EmptyTable \in Entry /\ EmptyTable.kind = "table" BY DEF EmptyTable, Entry, NULL
<1>2. work' \in Seq(Call)
  <2>1. ValueFree(root) \in Call BY DEF ValueFree, Call, MemoryInv, Shape, TypeOK
  <2>2. work' = <<ValueFree(root)>> BY DEF KevsFree
  <2> QED BY <2>1, <2>2
<1> QED BY <1>1, <1>2 DEF KevsFree, Arrays, MemoryInv, Shape, TypeOK, Control, Capacity

\* kevs_free, returned: types, control and capacity.
LEMMA KevsFreedKept == ASSUME MemoryInv, KevsFreed PROVE Shape'
BY DEF MemoryInv, Shape, TypeOK, Control, Capacity, KevsFreed, Arrays, tree

\* kevs_value_free, of a string: types, control and capacity.
LEMMA FreeStringKept == ASSUME MemoryInv, FreeString PROVE Shape'
BY FreeKept, NextCall DEF MemoryInv, Shape, TypeOK, Control, Capacity, FreeString, Arrays

\* free of an array, after its elements: types, control and capacity.
LEMMA FreeArrayKept == ASSUME MemoryInv, FreeArray PROVE Shape'
BY FreeKept, NextCall DEF MemoryInv, Shape, TypeOK, Control, Capacity, FreeArray, Arrays

\* free of NULL: types, control and capacity.
LEMMA FreeNothingKept == ASSUME MemoryInv, FreeNothing PROVE Shape'
BY NextCall DEF MemoryInv, Shape, TypeOK, Control, Capacity, FreeNothing, Arrays, tree

\* The calls for the elements of a list or table, and for its array.
LEMMA CallsSeq ==
  ASSUME NEW e \in Entry, Elems(e.ptr) \in Seq(Entry)
  PROVE  /\ FreeCalls(e) \in Seq(Call) /\ Len(FreeCalls(e)) = Len(Elems(e.ptr)) + 1
         /\ \A n \in 1 .. Len(Elems(e.ptr)) : FreeCalls(e)[n] = ValueFree(Elems(e.ptr)[n])
         /\ FreeCalls(e)[Len(Elems(e.ptr)) + 1] = ArrayFree(e)
<1> DEFINE es == Elems(e.ptr)
           cs == [n \in DOMAIN es |-> ValueFree(es[n])]
<1>1. DOMAIN es = 1 .. Len(es) /\ Len(es) \in Nat BY LenProperties
<1>2. \A n \in 1 .. Len(es) : ValueFree(es[n]) \in Call
  BY ElementOfSeq DEF ValueFree, Call
<1>3. ArrayFree(e) \in Call BY DEF ArrayFree, Call
<1> DEFINE a == ArrayFree(e)
<1> HIDE DEF es, a
<1>4. cs \in Seq(Call) BY <1>1, <1>2, SeqDef
<1>5. Len(cs) = Len(es) BY <1>1, <1>4, LenProperties
<1>6. \A n \in 1 .. Len(es) : cs[n] = ValueFree(es[n]) BY <1>1
<1>7. FreeCalls(e) = cs \o <<a>> BY DEF FreeCalls, es, a
<1> HIDE DEF cs
<1>8. /\ cs \o <<a>> \in Seq(Call) /\ Len(cs \o <<a>>) = Len(es) + 1
      /\ \A n \in 1 .. Len(es) : (cs \o <<a>>)[n] = cs[n]
      /\ (cs \o <<a>>)[Len(es) + 1] = a
  BY <1>1, <1>3, <1>4, <1>5 DEF a
<1> QED BY <1>6, <1>7, <1>8 DEF es, a

\* list_free and table_free, their loops: types, control and capacity.
LEMMA FreeElementsKept == ASSUME MemoryInv, FreeElements PROVE Shape'
<1>1. work' = FreeCalls(Head(work).of) \o Tail(work) BY DEF FreeElements
<1>2. FreeCalls(Head(work).of) \in Seq(Call) /\ Tail(work) \in Seq(Call)
      /\ pc \in {"unwind", "freeing"}
  BY NextCall, CallsSeq DEF FreeElements
<1>3. work' \in Seq(Call) BY <1>1, <1>2, ConcatProperties
<1> QED BY <1>2, <1>3 DEF MemoryInv, Shape, TypeOK, Control, Capacity, FreeElements, Arrays, tree

\* scan, one token: types, control and capacity.
LEMMA EmitKept == ASSUME MemoryInv, Emit PROVE Shape'
<1>1. PICK t \in Token : tokens' = Append(tokens, t) BY DEF Emit
<1>2. tokens' \in Seq(Token) /\ Len(tokens') = Len(tokens) + 1 /\ Len(tokens) \in Nat
  BY <1>1, AppendProperties, LenProperties DEF MemoryInv, Shape, TypeOK
<1> QED BY <1>2 DEF MemoryInv, Shape, TypeOK, Control, Capacity, Emit, Arrays, tree

\* scan, returned: types, control and capacity.
LEMMA ScanDoneKept == ASSUME MemoryInv, ScanDone PROVE Shape'
BY DEF MemoryInv, Shape, TypeOK, Control, Capacity, ScanDone, Arrays, tree

\* scan, with an error: types, control and capacity.
LEMMA ScanFailedKept == ASSUME MemoryInv, ScanFailed PROVE Shape'
BY DEF MemoryInv, Shape, TypeOK, Control, Capacity, ScanFailed, Arrays, tree

\* kevs_parse, returned: types, control and capacity.
LEMMA KevsReturnKept == ASSUME MemoryInv, KevsReturn PROVE Shape'
BY DEF MemoryInv, Shape, TypeOK, Control, Capacity, KevsReturn, Arrays, tree

\* kevs_parse, called again: types, control and capacity.
LEMMA KevsParseAgainKept == ASSUME MemoryInv, KevsParseAgain PROVE Shape'
BY DEF MemoryInv, Shape, TypeOK, Control, Capacity, KevsParseAgain, Arrays, Errors, Token

-----------------------------------------------------------------------------
(* Every step leaves every block with one owner.                           *)

\* Steps that change nothing an owner is in.
LEMMA SameOwners ==
  ASSUME MemoryInv, UNCHANGED <<stack, root, heap, work>>
  PROVE  Once(Owners, Live(heap))'
<1>1. Owners' = Owners BY DEF Owners, Pending, Dying
<1> QED BY <1>1 DEF MemoryInv

\* Steps that only give the innermost value another kind, or add a value, that
\* points to nothing.
LEMMA PushedNull ==
  ASSUME MemoryInv, UNCHANGED <<root, heap, work>>, NEW e \in Entry, e.ptr = NULL,
         stack' = <<e>> \o stack
  PROVE  Once(Owners, Live(heap))'
<1>0. stack \in Seq(Entry) /\ \A p : Own(p, e) = {} BY DEF MemoryInv, Shape, TypeOK, Own
<1>1. OwnStack(0, stack') = OwnStack(0, stack)
  <2>1. OwnStack(0, <<e>> \o stack) = OwnStack(0, stack) \cup Own(<<0, Len(stack) + 1>>, e)
    BY <1>0, StackPush
  <2> QED BY <1>0, <2>1
<1>2. Owners' = Owners BY <1>1 DEF Owners, Pending, Dying
<1> QED BY <1>2 DEF MemoryInv

\* A value on top that points to no block owns none, before and after.
LEMMA TurnedNull ==
  ASSUME MemoryInv, UNCHANGED <<root, heap, work>>, stack # <<>>, Head(stack).ptr = NULL,
         stack' \in Seq(Entry), stack' # <<>>, Tail(stack') = Tail(stack),
         Head(stack').ptr = NULL
  PROVE  Once(Owners, Live(heap))'
<1>0. /\ stack \in Seq(Entry)
      /\ \A p : Own(p, Head(stack)) = {} /\ Own(p, Head(stack')) = {}
  BY DEF MemoryInv, Shape, TypeOK, Own
<1>1. OwnStack(0, stack) = OwnStack(0, Tail(stack))
  <2>1. OwnStack(0, stack) = OwnStack(0, Tail(stack)) \cup Own(<<0, Len(stack)>>, Head(stack))
    BY <1>0, StackTop
  <2> QED BY <1>0, <2>1
<1>2. OwnStack(0, stack') = OwnStack(0, Tail(stack))
  <2>1. OwnStack(0, stack') = OwnStack(0, Tail(stack')) \cup Own(<<0, Len(stack')>>, Head(stack'))
    BY StackTop
  <2> QED BY <1>0, <2>1
<1>3. Owners' = Owners BY <1>1, <1>2 DEF Owners, Pending, Dying
<1> QED BY <1>3 DEF MemoryInv

\* parse_list_value and parse_table_value, on the way in: the owners.
LEMMA ParseOpenOwners ==
  ASSUME MemoryInv, NEW bracket, NEW kind \in {"list", "table"}, ParseOpen(bracket, kind)
  PROVE  Once(Owners, Live(heap))'
<1>1. /\ stack \in Seq(Entry) /\ stack # <<>> /\ Out(kind, NoData, NULL) /\ NULL \in Nat
      /\ NoData \in Literals \cup {NoData} /\ Head(stack).ptr = NULL
      /\ kind \in {"string", "integer", "boolean", "list", "table"}
      /\ UNCHANGED <<root, heap, work>>
  BY DEF MemoryInv, Shape, TypeOK, Control, ParseOpen, NULL
<1>2. /\ stack' \in Seq(Entry) /\ stack' # <<>> /\ Tail(stack') = Tail(stack)
      /\ Head(stack').ptr = NULL
  BY <1>1, OutStep
<1> QED BY <1>1, <1>2, TurnedNull

\* parse_simple_value, of an integer or a boolean: the owners.
LEMMA ParseScalarOwners == ASSUME MemoryInv, ParseScalar PROVE Once(Owners, Live(heap))'
<1> DEFINE c == Class[tokens[i].sym]
<1>1. /\ stack \in Seq(Entry) /\ stack # <<>> /\ Out(c, tokens[i].sym, NULL) /\ NULL \in Nat
      /\ c \in {"string", "integer", "boolean", "list", "table"}
      /\ UNCHANGED <<root, heap, work>> /\ Head(stack).ptr = NULL
  BY DEF MemoryInv, Shape, TypeOK, Control, ParseScalar, NULL
<1> HIDE DEF c
<1>2. tokens[i].sym \in Literals BY CurrentToken DEF ParseScalar, Expect
<1>3. /\ stack' \in Seq(Entry) /\ stack' # <<>> /\ Tail(stack') = Tail(stack)
      /\ Head(stack').ptr = NULL
  BY <1>1, <1>2, OutStep
<1> QED BY <1>1, <1>3, TurnedNull

\* parse_delim, after a key: the owners.
LEMMA ParseSeparatorOwners == ASSUME MemoryInv, ParseSeparator PROVE Once(Owners, Live(heap))'
<1>1. UNCHANGED <<root, heap, work>> /\ (stack' = stack \/ stack' = <<Undefined(key)>> \o stack)
  BY DEF ParseSeparator
<1>2. Undefined(key) \in Entry /\ Undefined(key).ptr = NULL
  BY DEF Undefined, Entry, NULL, MemoryInv, Shape, TypeOK
<1> QED BY <1>1, <1>2, SameOwners, PushedNull

\* The loops of parse, parse_list_value and parse_table_value: the owners.
LEMMA ParseLoopOwners == ASSUME MemoryInv, ParseLoop PROVE Once(Owners, Live(heap))'
<1>1. UNCHANGED <<root, heap, work>> /\ (stack' = stack \/ stack' = <<Undefined(NoKey)>> \o stack)
  BY DEF ParseLoop
<1>2. Undefined(NoKey) \in Entry /\ Undefined(NoKey).ptr = NULL
  BY DEF Undefined, Entry, NULL
<1> QED BY <1>1, <1>2, SameOwners, PushedNull

\* The rest of the owners, when the innermost value is left out.
OthersOfTop ==
  Own(<<0, 0>>, root) \cup OwnStack(0, Tail(stack)) \cup OwnStack(-1, Pending)
    \cup OwnHeap(heap, Dying)

\* The owner on top of the stack, and the others.
LEMMA TopApart ==
  ASSUME MemoryInv, stack # <<>>
  PROVE  /\ Owners = OthersOfTop \cup Own(<<0, Len(stack)>>, Head(stack))
         /\ Away(OthersOfTop, <<0, Len(stack)>>)
<1>1. stack \in Seq(Entry) /\ Len(stack) \in Nat \ {0} /\ Tail(stack) \in Seq(Entry)
  BY EmptySeq, HeadTailProperties DEF MemoryInv, Shape, TypeOK
<1>2. /\ OwnStack(0, stack) = OwnStack(0, Tail(stack)) \cup Own(<<0, Len(stack)>>, Head(stack))
      /\ Away(OwnStack(0, Tail(stack)), <<0, Len(stack)>>)
  BY <1>1, StackTop
<1>3. Owners = OthersOfTop \cup Own(<<0, Len(stack)>>, Head(stack))
  BY <1>2 DEF Owners, OthersOfTop
<1>4. Away(Own(<<0, 0>>, root), <<0, Len(stack)>>)
  <2>1. <<0, 0>> # <<0, Len(stack)>> BY <1>1
  <2> QED BY <2>1, OneAway
<1>5. Away(OwnStack(-1, Pending), <<0, Len(stack)>>) BY StackAway
<1>6. Away(OwnHeap(heap, Dying), <<0, Len(stack)>>)
  <2>1. 0 \notin DOMAIN heap BY DEF MemoryInv, Shape, TypeOK
  <2> QED BY <2>1, HeapAway
<1>7. Away(OthersOfTop, <<0, Len(stack)>>)
  BY <1>2, <1>4, <1>5, <1>6, AwayUnion DEF OthersOfTop
<1> QED BY <1>3, <1>7

\* parse_simple_value, of a string: the owners.
LEMMA ParseStringOwners == ASSUME MemoryInv, ParseString PROVE Once(Owners, Live(heap))'
<1>1. /\ stack \in Seq(Entry) /\ stack # <<>> /\ Out("string", tokens[i].sym, fresh)
      /\ fresh \in Nat \ {0} /\ DOMAIN heap \subseteq 1 .. fresh - 1
      /\ UNCHANGED <<root, work>> /\ Head(stack).ptr = NULL /\ work = <<>>
  BY DEF MemoryInv, Shape, TypeOK, Control, ParseString
<1>2. tokens[i].sym \in Literals BY CurrentToken DEF ParseString, Expect
<1>3. /\ stack' \in Seq(Entry) /\ stack' # <<>> /\ Tail(stack') = Tail(stack)
      /\ Len(stack') = Len(stack)
      /\ Head(stack').ptr = fresh /\ Head(stack').kind = "string"
  BY <1>1, <1>2, OutStep
<1> DEFINE place == <<0, Len(stack)>>
           new == <<fresh, "string">>
<1>4. Owners = OthersOfTop
  <2>1. Own(place, Head(stack)) = {} BY <1>1 DEF Own
  <2> QED BY <1>1, <2>1, TopApart
<1>5. OwnStack(0, stack') = OwnStack(0, Tail(stack)) \cup {<<place, new>>}
  <2>1. OwnStack(0, stack') = OwnStack(0, Tail(stack')) \cup Own(<<0, Len(stack')>>, Head(stack'))
    BY <1>3, StackTop
  <2>2. Own(place, Head(stack')) = {<<place, new>>}
    BY <1>1, <1>3 DEF Own, Pointer, Holds, NULL
  <2> QED BY <1>3, <2>1, <2>2
<1>6. Dying = {} /\ Dying' = {} BY <1>1 DEF Dying
<1>7. /\ DOMAIN heap' = DOMAIN heap \cup {fresh} /\ fresh \notin DOMAIN heap
      /\ heap'[fresh] = [cap |-> 0, elems |-> <<>>]
      /\ \A b \in DOMAIN heap : heap'[b] = heap[b]
  BY <1>1 DEF ParseString
<1>8. OwnHeap(heap', Dying') = OwnHeap(heap, Dying)
  <2>1. OwnHeap(heap', {}) = OwnHeap(heap', {fresh}) \cup OwnArray(fresh, heap'[fresh].elems)
    <3>1. fresh \in DOMAIN heap' \ {} /\ {} \cup {fresh} = {fresh} BY <1>7
    <3>2. \A D : fresh \in DOMAIN heap' \ D =>
             OwnHeap(heap', D) = OwnHeap(heap', D \cup {fresh})
                                   \cup OwnArray(fresh, heap'[fresh].elems)
      BY HeapSplit
    <3> QED BY <3>1, <3>2
  <2>2. OwnArray(fresh, heap'[fresh].elems) = {} BY <1>7 DEF OwnArray
  <2>3. OwnHeap(heap', {fresh}) = OwnHeap(heap, {}) BY <1>7, HeapSame
  <2> QED BY <1>6, <2>1, <2>2, <2>3
<1>9. Owners' = OthersOfTop \cup {<<place, new>>}
  BY <1>1, <1>5, <1>8 DEF Owners, OthersOfTop, Pending
<1>10. Live(heap') = Live(heap) \cup {new}
  <2>1. heap'[fresh].cap = 0 BY <1>7
  <2> QED BY <1>7, <2>1 DEF Live, What
<1>11. new \notin Live(heap)
  <2>1. \A x \in Live(heap) : \E b \in DOMAIN heap : x[1] = b BY DEF Live
  <2>2. new[1] = fresh OBVIOUS
  <2> HIDE DEF new
  <2> QED BY <1>7, <2>1, <2>2
<1> HIDE DEF new, place
<1>12. Once(OthersOfTop \cup {<<place, new>>}, Live(heap) \cup {new})
  BY <1>4, <1>11, OnceNew DEF MemoryInv
<1> QED BY <1>9, <1>10, <1>12

\* A function that returns its error: the owners.
LEMMA UnwindOwners == ASSUME MemoryInv, Unwind PROVE Once(Owners, Live(heap))'
<1> DEFINE e == Head(stack)
           p == <<0, Len(stack)>>
           q == <<-1, 1>>
<1>1. /\ stack # <<>> /\ work = <<>> /\ stack' = Tail(stack) /\ UNCHANGED <<root, heap>>
      /\ work' = <<ValueFree(e)>> /\ stack \in Seq(Entry) /\ e \in Entry
  BY HeadTailProperties DEF Unwind, FreeOut, MemoryInv, Shape, TypeOK
<1>2. Owners = OthersOfTop \cup Own(p, e) /\ Away(OthersOfTop, p)
  BY <1>1, TopApart
<1>3. Once(OthersOfTop \cup Own(q, e), Live(heap))
  BY <1>2, OnceMoved DEF MemoryInv
<1>4. OwnStack(-1, Pending) = {}
  <2>1. Pending = <<>> BY <1>1 DEF Pending
  <2> QED BY <2>1 DEF OwnStack
<1>5. OwnStack(-1, Pending') = Own(q, e)
  <2>1. Pending' = <<e>> BY <1>1 DEF Pending, ValueFree
  <2>2. Len(<<e>>) = 1 /\ Nth(<<e>>, 1) = e /\ 1 .. 1 = {1} BY DEF Nth
  <2> QED BY <2>1, <2>2 DEF OwnStack
<1>6. Dying = {} /\ Dying' = {} BY <1>1 DEF Dying, ValueFree
<1>7. Owners' = OthersOfTop \cup Own(q, e)
  BY <1>1, <1>4, <1>5, <1>6 DEF Owners, OthersOfTop
<1> QED BY <1>1, <1>3, <1>7

\* The rest of the owners, when the next call is left out.
OthersOfNext ==
  Own(<<0, 0>>, root) \cup OwnStack(0, stack) \cup OwnStack(-1, Tail(Pending))

\* The next call as an owner.
LEMMA NextApart ==
  ASSUME MemoryInv, work # <<>>, NEW e, e = Head(work).of
  PROVE  /\ Owners = (OthersOfNext \cup OwnHeap(heap, Dying)) \cup Own(<<-1, Len(work)>>, e)
         /\ Away(OthersOfNext, <<-1, Len(work)>>)
         /\ Away(OwnHeap(heap, Dying), <<-1, Len(work)>>)
         /\ Tail(Pending) \in Seq(Entry) /\ Len(Tail(Pending)) = Len(work) - 1
         /\ Len(work) \in Nat \ {0}
         /\ \A n \in 1 .. Len(work) - 1 : Tail(Pending)[n] = Tail(work)[n].of
<1>1. work \in Seq(Call) BY DEF MemoryInv, Shape, TypeOK
<1>2. /\ Pending \in Seq(Entry) /\ Len(Pending) = Len(work) /\ Pending # <<>>
      /\ Head(Pending) = e /\ \A n \in 1 .. Len(work) : Pending[n] = work[n].of
  BY <1>1, PendingSeq
<1>3. Len(work) \in Nat \ {0} BY <1>1, EmptySeq
<1>4. /\ Tail(Pending) \in Seq(Entry) /\ Len(Tail(Pending)) = Len(work) - 1
      /\ \A n \in 1 .. Len(work) - 1 : Tail(Pending)[n] = Pending[n + 1]
  BY <1>2, HeadTailProperties
<1>5. \A n \in 1 .. Len(work) - 1 : Tail(work)[n] = work[n + 1] /\ n + 1 \in 1 .. Len(work)
  BY <1>1, <1>3, HeadTailProperties
<1>6. \A n \in 1 .. Len(work) - 1 : Tail(Pending)[n] = Tail(work)[n].of
  BY <1>2, <1>4, <1>5
<1>7. /\ OwnStack(-1, Pending) = OwnStack(-1, Tail(Pending)) \cup Own(<<-1, Len(work)>>, e)
      /\ Away(OwnStack(-1, Tail(Pending)), <<-1, Len(work)>>)
  BY <1>2, StackTop
<1>8. Owners = (OthersOfNext \cup OwnHeap(heap, Dying)) \cup Own(<<-1, Len(work)>>, e)
  BY <1>7 DEF Owners, OthersOfNext
<1>9. Away(Own(<<0, 0>>, root), <<-1, Len(work)>>)
  <2>1. <<0, 0>> # <<-1, Len(work)>> BY <1>1
  <2> QED BY <2>1, OneAway
<1>10. Away(OwnStack(0, stack), <<-1, Len(work)>>) BY StackAway
<1>11. Away(OwnHeap(heap, Dying), <<-1, Len(work)>>)
  <2>1. -1 \notin DOMAIN heap BY DEF MemoryInv, Shape, TypeOK
  <2> QED BY <2>1, HeapAway
<1>12. Away(OthersOfNext, <<-1, Len(work)>>)
  BY <1>7, <1>9, <1>10, AwayUnion DEF OthersOfNext
<1> QED BY <1>3, <1>4, <1>6, <1>8, <1>11, <1>12

\* The arrays that wait for their free, by the calls.
LEMMA DyingTail ==
  ASSUME work \in Seq(Call), work # <<>>, NEW w, w = Tail(work)
  PROVE  /\ w \in Seq(Call)
         /\ Head(work).op = "value_free" =>
              Dying = {w[n].of.ptr : n \in {m \in DOMAIN w : w[m].op = "free"}}
         /\ Head(work).op = "free" =>
              Dying = {w[n].of.ptr : n \in {m \in DOMAIN w : w[m].op = "free"}}
                        \cup {Head(work).of.ptr}
<1>1. /\ w \in Seq(Call) /\ Len(work) \in Nat \ {0} /\ DOMAIN w = 1 .. Len(work) - 1
      /\ DOMAIN work = 1 .. Len(work) /\ \A n \in 1 .. Len(work) - 1 : w[n] = work[n + 1]
      /\ Head(work) = work[1]
  BY EmptySeq, HeadTailProperties, LenProperties
<1>2. \A n \in DOMAIN work : n = 1 \/ (n - 1 \in DOMAIN w /\ w[n - 1] = work[n])
  <2> SUFFICES ASSUME NEW n \in DOMAIN work, n # 1
               PROVE  n - 1 \in DOMAIN w /\ w[n - 1] = work[n]
    OBVIOUS
  <2>1. n - 1 \in 1 .. Len(work) - 1 /\ (n - 1) + 1 = n BY <1>1
  <2> QED BY <1>1, <2>1
<1>3. \A n \in DOMAIN w : n + 1 \in DOMAIN work /\ w[n] = work[n + 1] /\ n + 1 # 1 BY <1>1
<1>4. 1 \in DOMAIN work BY <1>1
<1> DEFINE D == {w[n].of.ptr : n \in {m \in DOMAIN w : w[m].op = "free"}}
<1>5. \A x \in D : x \in Dying BY <1>3 DEF Dying
<1>6. \A x \in Dying : x \in D \/ (x = work[1].of.ptr /\ work[1].op = "free")
  <2> SUFFICES ASSUME NEW x \in Dying
               PROVE  x \in D \/ (x = work[1].of.ptr /\ work[1].op = "free")
    OBVIOUS
  <2>1. PICK n \in DOMAIN work : work[n].op = "free" /\ x = work[n].of.ptr BY DEF Dying
  <2>2. CASE n = 1 BY <2>1, <2>2
  <2>3. CASE n # 1
    <3>1. n - 1 \in DOMAIN w /\ w[n - 1] = work[n] BY <1>2, <2>3
    <3> QED BY <2>1, <3>1
  <2> QED BY <2>2, <2>3
<1>7. work[1].op = "free" => work[1].of.ptr \in Dying BY <1>4 DEF Dying
<1> QED BY <1>1, <1>5, <1>6, <1>7

\* The calls that are left are the next ones.
LEMMA TailPending ==
  ASSUME MemoryInv, work # <<>>, work' = Tail(work)
  PROVE  Pending' = Tail(Pending)
<1>1. work' \in Seq(Call) /\ Len(work') = Len(work) - 1
  BY HeadTailProperties DEF MemoryInv, Shape, TypeOK
<1>2. /\ Tail(Pending) \in Seq(Entry) /\ Len(Tail(Pending)) = Len(work) - 1
      /\ \A n \in 1 .. Len(work) - 1 : Tail(Pending)[n] = Tail(work)[n].of
  BY NextApart
<1>3. Pending' = [n \in 1 .. Len(work) - 1 |-> Tail(work)[n].of] BY <1>1 DEF Pending
<1> DEFINE t == Tail(Pending)
<1>4. t \in [1 .. Len(work) - 1 -> Entry] /\ \A n \in 1 .. Len(work) - 1 : t[n] = Tail(work)[n].of
  BY <1>2, LenProperties
<1> HIDE DEF t
<1>5. t = [n \in 1 .. Len(work) - 1 |-> Tail(work)[n].of] BY <1>4
<1> QED BY <1>3, <1>5 DEF t

\* free of NULL: the owners.
LEMMA FreeNothingOwners == ASSUME MemoryInv, FreeNothing PROVE Once(Owners, Live(heap))'
<1> DEFINE e == Head(work).of
           p == <<-1, Len(work)>>
<1>1. /\ work # <<>> /\ work' = Tail(work) /\ UNCHANGED <<stack, root, heap>>
      /\ e.kind \in {"undefined", "boolean", "integer"} /\ work \in Seq(Call)
      /\ Head(work).op = "value_free" /\ e \in Entry
  BY NextCall DEF FreeNothing, tree, MemoryInv, Shape, TypeOK
<1>2. Own(p, e) = {}
  <2>1. Own(p, e) \subseteq Owners BY <1>1, HeldBlocks
  <2>2. Holds(e) = "nothing" BY <1>1 DEF Holds
  <2>3. e.ptr = NULL BY <2>1, <2>2, OwnedBlock DEF MemoryInv, What
  <2> QED BY <2>3 DEF Own
<1>3. Dying' = Dying
  <2>1. Dying' = {work'[n].of.ptr : n \in {m \in DOMAIN work' : work'[m].op = "free"}} BY DEF Dying
  <2> QED BY <1>1, <2>1, DyingTail
<1>4. Owners' = OthersOfNext \cup OwnHeap(heap, Dying)
  BY <1>1, <1>3, TailPending DEF Owners, OthersOfNext
<1>5. Owners = OthersOfNext \cup OwnHeap(heap, Dying)
  BY <1>1, <1>2, NextApart
<1> QED BY <1>1, <1>4, <1>5 DEF MemoryInv

\* What is live after free.
LEMMA LiveWithout ==
  ASSUME NEW h, NEW g, NEW p \in DOMAIN h, DOMAIN g = DOMAIN h \ {p},
         \A b \in DOMAIN g : g[b] = h[b]
  PROVE  Live(g) = Live(h) \ {<<p, What(h[p])>>}
<1>1. \A x \in Live(h) : \E b \in DOMAIN h : x = <<b, What(h[b])>> BY DEF Live
<1>2. \A b \in DOMAIN h : b = p <=> <<b, What(h[b])>> = <<p, What(h[p])>> OBVIOUS
<1> QED BY <1>1, <1>2 DEF Live

\* free of the block that the next call points to.
LEMMA FreeOwners ==
  ASSUME MemoryInv, work # <<>>, Free(Head(work).of.ptr), work' = Tail(work),
         UNCHANGED <<stack, root>>, OwnHeap(heap', Dying') = OwnHeap(heap, Dying)
  PROVE  Once(Owners, Live(heap))'
<1> DEFINE e == Head(work).of
           p == <<-1, Len(work)>>
           A == OthersOfNext \cup OwnHeap(heap, Dying)
<1>1. DOMAIN heap' = DOMAIN heap \ {e.ptr} /\ \A b \in DOMAIN heap' : heap'[b] = heap[b]
  BY FreeKept
<1>2. Owners = A \cup Own(p, e) /\ Away(A, p) BY NextApart, AwayUnion
<1>3. Owners' = A BY TailPending DEF Owners, OthersOfNext
<1>4. CASE e.ptr = NULL
  <2>1. DOMAIN heap' = DOMAIN heap
    <3>1. NULL \notin DOMAIN heap BY DEF MemoryInv, Shape, TypeOK, NULL
    <3> QED BY <1>1, <1>4, <3>1
  <2>2. Live(heap') = Live(heap) BY <1>1, <2>1 DEF Live
  <2>3. Owners = A BY <1>2, <1>4 DEF Own
  <2> QED BY <1>3, <2>2, <2>3 DEF MemoryInv
<1>5. CASE e.ptr # NULL
  <2>1. e.ptr \in DOMAIN heap /\ Holds(e) = What(heap[e.ptr])
    BY <1>2, <1>5, OwnedBlock, SMTT(40) DEF MemoryInv
  <2>2. Live(heap') = Live(heap) \ {Pointer(e)}
    <3>1. Live(heap') = Live(heap) \ {<<e.ptr, What(heap[e.ptr])>>}
      BY <1>1, <2>1, LiveWithout
    <3> QED BY <2>1, <3>1 DEF Pointer
  <2>3. Own(p, e) = {<<p, Pointer(e)>>} BY <1>5 DEF Own
  <2>4. Once(A \cup {<<p, Pointer(e)>>}, Live(heap)) BY <1>2, <2>3 DEF MemoryInv
  <2>5. Once(A, Live(heap) \ {Pointer(e)}) BY <1>2, <2>4, OnceGone
  <2> QED BY <1>3, <2>2, <2>5
<1> QED BY <1>4, <1>5

\* kevs_value_free, of a string: the owners.
LEMMA FreeStringOwners == ASSUME MemoryInv, FreeString PROVE Once(Owners, Live(heap))'
<1> DEFINE e == Head(work).of
           p == e.ptr
<1>1. /\ work # <<>> /\ work' = Tail(work) /\ UNCHANGED <<stack, root>> /\ Free(p)
      /\ e.kind = "string" /\ work \in Seq(Call)
      /\ Head(work).op = "value_free" /\ e \in Entry
  BY NextCall DEF FreeString, MemoryInv, Shape, TypeOK
<1>2. DOMAIN heap' = DOMAIN heap \ {p} /\ \A b \in DOMAIN heap' : heap'[b] = heap[b]
  BY <1>1, FreeKept
<1>3. Dying' = Dying
  <2>1. Dying' = {work'[n].of.ptr : n \in {m \in DOMAIN work' : work'[m].op = "free"}} BY DEF Dying
  <2> QED BY <1>1, <2>1, DyingTail, SMTT(40)
<1>4. CASE p \in DOMAIN heap \ Dying
  <2>1. Own(<<-1, Len(work)>>, e) \subseteq Owners BY <1>1, HeldBlocks
  <2>2. p # NULL BY <1>4 DEF MemoryInv, Shape, TypeOK, NULL
  <2>3. Holds(e) = What(heap[p])
    BY <2>1, <2>2, OwnedBlock DEF MemoryInv
  <2>4. heap[p].cap = 0 BY <1>1, <2>3 DEF Holds, What
  <2>5. heap[p] \in Block /\ Len(heap[p].elems) <= heap[p].cap
    BY <1>4 DEF MemoryInv, Shape, TypeOK, Capacity
  <2>6. Len(heap[p].elems) = 0
    <3>1. heap[p].elems \in Seq(Entry) BY <2>5 DEF Block
    <3> QED BY <2>4, <2>5, <3>1, LenProperties
  <2>7. OwnArray(p, heap[p].elems) = {} BY <2>6 DEF OwnArray
  <2>8. OwnHeap(heap, Dying) = OwnHeap(heap, Dying \cup {p})
    BY <1>4, <2>7, HeapSplit
  <2>9. OwnHeap(heap', Dying) = OwnHeap(heap, Dying \cup {p})
    <3>1. DOMAIN heap' \ Dying = DOMAIN heap \ (Dying \cup {p}) BY <1>2
    <3> DEFINE D == Dying \cup {p}
    <3>2. \A b \in DOMAIN heap \ D : heap'[b].elems = heap[b].elems BY <1>2
    <3> HIDE DEF D
    <3>3. OwnHeap(heap', Dying) = OwnHeap(heap, D) BY <3>1, <3>2, HeapSame DEF D
    <3> QED BY <3>3 DEF D
  <2> QED BY <1>1, <1>3, <2>8, <2>9, FreeOwners
<1>5. CASE p \notin DOMAIN heap \ Dying
  <2>1. DOMAIN heap' \ Dying = DOMAIN heap \ Dying BY <1>2, <1>5
  <2>2. OwnHeap(heap', Dying) = OwnHeap(heap, Dying) BY <1>2, <2>1, HeapSame
  <2> QED BY <1>1, <1>3, <2>2, FreeOwners
<1> QED BY <1>4, <1>5

\* free of an array, after its elements: the owners.
LEMMA FreeArrayOwners == ASSUME MemoryInv, FreeArray PROVE Once(Owners, Live(heap))'
<1> DEFINE p == Head(work).of.ptr
<1>1. /\ work # <<>> /\ work' = Tail(work) /\ UNCHANGED <<stack, root>> /\ Free(p)
      /\ work \in Seq(Call) /\ Head(work).op = "free"
  BY DEF FreeArray, MemoryInv, Shape, TypeOK
<1>2. DOMAIN heap' = DOMAIN heap \ {p} /\ \A b \in DOMAIN heap' : heap'[b] = heap[b]
  BY <1>1, FreeKept
<1>3. Dying = Dying' \cup {p}
  <2>1. Dying' = {work'[n].of.ptr : n \in {m \in DOMAIN work' : work'[m].op = "free"}} BY DEF Dying
  <2>2. Dying = {Tail(work)[n].of.ptr : n \in {m \in DOMAIN Tail(work) : Tail(work)[m].op = "free"}}
                 \cup {Head(work).of.ptr}
    BY <1>1, DyingTail
  <2> QED BY <1>1, <2>1, <2>2
<1> DEFINE E == Dying'
<1>4. DOMAIN heap' \ E = DOMAIN heap \ Dying BY <1>2, <1>3
<1>5. \A b \in DOMAIN heap \ Dying : heap'[b].elems = heap[b].elems BY <1>2, <1>3
<1> HIDE DEF E
<1>6. OwnHeap(heap', E) = OwnHeap(heap, Dying) BY <1>4, <1>5, HeapSame
<1> QED BY <1>1, <1>6, FreeOwners DEF E

\* kevs_free, called: the owners.
LEMMA KevsFreeOwners == ASSUME MemoryInv, KevsFree PROVE Once(Owners, Live(heap))'
<1> DEFINE p == <<0, 0>>
           q == <<-1, 1>>
           A == OwnHeap(heap, {})
<1>1. /\ stack = <<>> /\ work = <<>> /\ work' = <<ValueFree(root)>> /\ root' = EmptyTable
      /\ UNCHANGED <<stack, heap>>
  BY DEF MemoryInv, Shape, Control, KevsFree
<1>2. \A a : OwnStack(a, <<>>) = {} BY DEF OwnStack
<1>3. Dying = {} /\ Dying' = {} /\ Pending = <<>> BY <1>1 DEF Dying, ValueFree, Pending
<1>4. Owners = A \cup Own(p, root) BY <1>1, <1>2, <1>3 DEF Owners
<1>5. Away(A, p)
  <2>1. 0 \notin DOMAIN heap \ {} BY DEF MemoryInv, Shape, TypeOK
  <2> QED BY <2>1, HeapAway
<1>6. Once(A \cup Own(q, root), Live(heap)) BY <1>4, <1>5, OnceMoved DEF MemoryInv
<1>7. OwnStack(-1, Pending') = Own(q, root)
  <2>1. Pending' = <<root>> BY <1>1 DEF Pending, ValueFree
  <2>2. Len(<<root>>) = 1 /\ Nth(<<root>>, 1) = root /\ 1 .. 1 = {1} BY DEF Nth
  <2> QED BY <2>1, <2>2 DEF OwnStack
<1>8. Own(p, EmptyTable) = {} BY DEF Own, EmptyTable
<1>9. Owners' = A \cup Own(q, root)
  BY <1>1, <1>2, <1>3, <1>7, <1>8 DEF Owners
<1> QED BY <1>1, <1>6, <1>9

\* The array that list_free and kevs_free are to free does not wait for it yet.
LEMMA NotDying ==
  ASSUME MemoryInv, work # <<>>, Head(work).op = "value_free", Head(work).of.ptr # NULL
  PROVE  Head(work).of.ptr \in DOMAIN heap \ Dying
<1> DEFINE e == Head(work).of
           R == OthersOfNext \cup OwnHeap(heap, Dying)
<1>1. Owners = R \cup Own(<<-1, Len(work)>>, e) BY NextApart
<1>2. e.ptr \in DOMAIN heap /\ Holds(e) = What(heap[e.ptr])
  BY <1>1, OwnedBlock DEF MemoryInv
<1>3. ASSUME e.ptr \in Dying PROVE FALSE
  <2>1. PICK n \in DOMAIN work : work[n].op = "free" /\ e.ptr = work[n].of.ptr BY <1>3 DEF Dying
  <2> DEFINE f == work[n].of
             k == Len(work) + 1 - n
  <2>2. /\ work \in Seq(Call) /\ n \in 1 .. Len(work) /\ Len(work) \in Nat
        /\ Head(work) = work[1]
    BY LenProperties DEF MemoryInv, Shape, TypeOK
  <2>3. n # 1 BY <2>1, <2>2
  <2>4. /\ Len(Pending) = Len(work) /\ Pending[n] = f BY <2>2, PendingSeq
  <2>5. k \in 1 .. Len(work) /\ k # Len(work) /\ Len(work) + 1 - k = n BY <2>2, <2>3
  <2>6. Own(<<-1, k>>, f) \subseteq Owners
    <3>1. Nth(Pending, k) = f BY <2>4, <2>5 DEF Nth
    <3> HIDE DEF k, f
    <3>2. Own(<<-1, k>>, f) \subseteq OwnStack(-1, Pending)
      BY <2>4, <2>5, <3>1 DEF OwnStack
    <3> QED BY <3>2 DEF Owners
  <2>7. Holds(f) = What(heap[f.ptr])
    <3>1. f.ptr # NULL BY <2>1
    <3> HIDE DEF f
    <3> QED BY <2>6, <3>1, OwnedBlock, ZenonT(40) DEF MemoryInv
  <2>8. Pointer(f) = Pointer(e) BY <1>2, <2>1, <2>7 DEF Pointer
  <2> DEFINE x == <<<<-1, k>>, Pointer(f)>>
             y == <<<<-1, Len(work)>>, Pointer(e)>>
  <2>9. x \in Owners /\ y \in Owners
    BY <1>1, <2>1, <2>6 DEF Own
  <2>10. x[2] = y[2] /\ x[1][2] = k /\ y[1][2] = Len(work) BY <2>8
  <2> HIDE DEF x, y, k
  <2>11. x = y BY <2>9, <2>10 DEF MemoryInv, Once
  <2> QED BY <2>5, <2>10, <2>11
<1> QED BY <1>2, <1>3

\* The calls that FreeElements leaves: the elements, and then what there was, as
\* entries; one more array that waits for its free.
LEMMA ElementsPending ==
  ASSUME MemoryInv, FreeElements, NEW e, e = Head(work).of, NEW es, es = Elems(e.ptr)
  PROVE  Pending' = es \o Pending /\ Dying' = Dying \cup {e.ptr}
<1> DEFINE L == Len(es)
           W == Len(work)
<1>1. /\ work # <<>> /\ work' = FreeCalls(e) \o Tail(work)
      /\ work \in Seq(Call) /\ Head(work).op = "value_free" /\ e \in Entry
      /\ es \in Seq(Entry) /\ L \in Nat /\ W \in Nat \ {0}
      /\ DOMAIN work = 1 .. W /\ Head(work) = work[1]
  BY NextCall, EmptySeq, LenProperties DEF FreeElements, MemoryInv, Shape, TypeOK
<1>2. /\ FreeCalls(e) \in Seq(Call) /\ Len(FreeCalls(e)) = L + 1
      /\ \A n \in 1 .. L : FreeCalls(e)[n] = ValueFree(es[n])
      /\ FreeCalls(e)[L + 1] = ArrayFree(e)
  BY <1>1, CallsSeq
<1>3. /\ Pending \in Seq(Entry) /\ Len(Pending) = W
      /\ \A n \in 1 .. W : Pending[n] = work[n].of
  BY <1>1, PendingSeq
<1>4. /\ Tail(work) \in Seq(Call) /\ Len(Tail(work)) = W - 1
      /\ \A n \in 1 .. W - 1 : Tail(work)[n] = work[n + 1]
  BY <1>1, HeadTailProperties
<1> DEFINE fc == FreeCalls(e)
           tl == Tail(work)
           w  == work'
<1> HIDE DEF fc, tl, L, W, w
<1>5. w \in Seq(Call) /\ Len(w) = L + W /\ DOMAIN w = 1 .. L + W
  <2>1. w = fc \o tl BY <1>1 DEF fc, tl, w
  <2>2. fc \o tl \in Seq(Call) /\ Len(fc \o tl) = (L + 1) + (W - 1)
    BY <1>2, <1>4, ConcatProperties DEF fc, tl
  <2>3. (L + 1) + (W - 1) = L + W BY <1>1
  <2> QED BY <2>1, <2>2, <2>3, LenProperties
<1>6. \A n \in 1 .. L + W : w[n] = IF n <= L + 1 THEN fc[n] ELSE tl[n - (L + 1)]
  <2>1. \A n \in 1 .. (L + 1) + (W - 1) :
          (fc \o tl)[n] = IF n <= L + 1 THEN fc[n] ELSE tl[n - (L + 1)]
    BY <1>2, <1>4, ConcatProperties DEF fc, tl
  <2>2. (L + 1) + (W - 1) = L + W BY <1>1
  <2> QED BY <1>1, <2>1, <2>2 DEF fc, tl, w
<1>7. \A n \in 1 .. L : n \in 1 .. L + W /\ w[n] = ValueFree(es[n])
  <2> SUFFICES ASSUME NEW n \in 1 .. L PROVE n \in 1 .. L + W /\ w[n] = ValueFree(es[n])
    OBVIOUS
  <2>1. n \in 1 .. L + W /\ n <= L + 1 BY <1>1
  <2> QED BY <1>2, <1>6, <2>1 DEF fc
<1>8. L + 1 \in 1 .. L + W /\ w[L + 1] = ArrayFree(e)
  <2>1. L + 1 \in 1 .. L + W /\ L + 1 <= L + 1 BY <1>1
  <2> QED BY <1>2, <1>6, <2>1 DEF fc
<1>9. \A n \in 2 .. W : L + n \in 1 .. L + W /\ n \in 1 .. W /\ w[L + n] = work[n]
  <2> SUFFICES ASSUME NEW n \in 2 .. W
               PROVE  L + n \in 1 .. L + W /\ n \in 1 .. W /\ w[L + n] = work[n]
    OBVIOUS
  <2>1. /\ L + n \in 1 .. L + W /\ ~(L + n <= L + 1) /\ L + n - (L + 1) = n - 1
        /\ n - 1 \in 1 .. W - 1 /\ n \in 1 .. W /\ (n - 1) + 1 = n
    BY <1>1
  <2>2. w[L + n] = tl[n - 1]
    <3> DEFINE j == L + n
    <3>1. j \in 1 .. L + W /\ ~(j <= L + 1) /\ j - (L + 1) = n - 1 BY <1>1
    <3> HIDE DEF j
    <3>2. w[j] = tl[n - 1] BY <1>6, <3>1
    <3> QED BY <3>2 DEF j
  <2>3. tl[n - 1] = work[n] BY <1>4, <2>1 DEF tl
  <2> QED BY <2>1, <2>2, <2>3
<1>10. \A n \in 1 .. L + W : n \in 1 .. L \/ n = L + 1 \/ (n - L \in 2 .. W /\ L + (n - L) = n)
  BY <1>1
<1>11. 1 \in 1 .. W /\ work[1].of = e BY <1>1
<1>12. Pending' = es \o Pending
  <2> DEFINE pn == Pending'
             po == Pending
             cc == es \o po
  <2>1. pn \in Seq(Entry) /\ Len(pn) = L + W /\ \A n \in 1 .. L + W : pn[n] = w[n].of
    <3>1. w \in Seq(Call) BY <1>5
    <3>2. pn = [n \in 1 .. Len(w) |-> w[n].of] BY DEF Pending, w
    <3>3. \A n \in 1 .. L + W : w[n].of \in Entry
      <4>1. \A n \in 1 .. L + W : w[n] \in Call BY <1>5, ElementOfSeq
      <4> QED BY <4>1 DEF Call
    <3> HIDE DEF pn
    <3>4. pn \in [1 .. L + W -> Entry] BY <1>5, <3>2, <3>3
    <3>5. pn \in Seq(Entry) BY <1>1, <3>4, SeqDef
    <3>6. Len(pn) = L + W BY <1>1, <3>4, <3>5, LenProperties
    <3> QED BY <1>5, <3>2, <3>5, <3>6
  <2>2. /\ cc \in Seq(Entry) /\ Len(cc) = L + W
        /\ \A n \in 1 .. L + W : cc[n] = IF n <= L THEN es[n] ELSE po[n - L]
    <3>0. es \in Seq(Entry) /\ po \in Seq(Entry) BY <1>1, <1>3
    <3> HIDE DEF po
    <3>1. /\ es \o po \in Seq(Entry) /\ Len(es \o po) = Len(es) + Len(po)
          /\ \A n \in 1 .. Len(es) + Len(po) :
               (es \o po)[n] = IF n <= Len(es) THEN es[n] ELSE po[n - Len(es)]
      BY <3>0, ConcatProperties
    <3>2. Len(po) = W /\ Len(es) = L BY <1>3 DEF L, po
    <3> QED BY <3>1, <3>2
  <2> HIDE DEF pn, po, cc
  <2>3. ASSUME NEW n \in 1 .. L + W PROVE pn[n] = cc[n]
    <3>1. CASE n \in 1 .. L
      <4>1. n <= L /\ cc[n] = es[n] BY <1>1, <2>2, <3>1
      <4>2. w[n] = ValueFree(es[n]) BY <1>7, <3>1
      <4>3. w[n].of = es[n] BY <4>2 DEF ValueFree
      <4> QED BY <2>1, <4>1, <4>3
    <3>2. CASE n = L + 1
      <4>1. ~(n <= L) /\ n - L = 1 BY <1>1, <3>2
      <4>2. cc[n] = po[1] BY <2>2, <4>1
      <4>3. w[n].of = e BY <1>8, <3>2 DEF ArrayFree
      <4>4. po[1] = e BY <1>3, <1>11 DEF po
      <4> QED BY <2>1, <4>2, <4>3, <4>4
    <3>3. CASE n - L \in 2 .. W /\ L + (n - L) = n
      <4>1. ~(n <= L) BY <1>1, <3>3
      <4>2. cc[n] = po[n - L] BY <2>2, <4>1
      <4>3. w[n] = work[n - L] /\ n - L \in 1 .. W BY <1>9, <3>3
      <4>4. po[n - L] = work[n - L].of BY <1>3, <4>3 DEF po
      <4> QED BY <2>1, <4>2, <4>3, <4>4
    <3> QED BY <1>10, <3>1, <3>2, <3>3
  <2>4. pn = cc BY <2>1, <2>2, <2>3, SeqEqual
  <2> QED BY <2>4 DEF pn, po, cc
<1>13. Dying' = Dying \cup {e.ptr}
  <2> DEFINE D == Dying'
  <2>1. D = {w[n].of.ptr : n \in {m \in 1 .. L + W : w[m].op = "free"}} BY <1>5 DEF Dying, w
  <2>2. Dying = {work[n].of.ptr : n \in {m \in 1 .. W : work[m].op = "free"}} BY <1>1 DEF Dying, W
  <2> HIDE DEF D
  <2>3. ASSUME NEW x \in D PROVE x \in Dying \cup {e.ptr}
    <3>1. PICK n \in 1 .. L + W : w[n].op = "free" /\ x = w[n].of.ptr BY <2>1
    <3>2. n \notin 1 .. L
      <4> SUFFICES ASSUME n \in 1 .. L PROVE FALSE OBVIOUS
      <4>1. w[n] = ValueFree(es[n]) BY <1>7
      <4>2. w[n].op = "value_free" BY <4>1 DEF ValueFree
      <4> QED BY <3>1, <4>2
    <3>3. CASE n = L + 1 BY <1>8, <3>1, <3>3 DEF ArrayFree
    <3>4. CASE n - L \in 2 .. W /\ L + (n - L) = n
      <4>1. w[n] = work[n - L] /\ n - L \in 1 .. W BY <1>9, <3>4
      <4> QED BY <2>2, <3>1, <4>1
    <3> QED BY <1>10, <3>2, <3>3, <3>4
  <2>4. e.ptr \in D BY <1>8, <2>1 DEF ArrayFree
  <2>5. ASSUME NEW x \in Dying PROVE x \in D
    <3>1. PICK n \in 1 .. W : work[n].op = "free" /\ x = work[n].of.ptr BY <2>2
    <3>2. n # 1 BY <1>1, <3>1
    <3>3. n \in 2 .. W BY <1>1, <3>2
    <3>4. L + n \in 1 .. L + W /\ w[L + n] = work[n] BY <1>9, <3>3
    <3> QED BY <2>1, <3>1, <3>4
  <2> QED BY <2>3, <2>4, <2>5 DEF D
<1> QED BY <1>12, <1>13

\* list_free and table_free, their loops: the owners.
LEMMA FreeElementsOwners == ASSUME MemoryInv, FreeElements PROVE Once(Owners, Live(heap))'
<1> DEFINE e  == Head(work).of
           p  == e.ptr
           es == Elems(p)
           L  == Len(es)
           W  == Len(work)
           C  == Own(<<0, 0>>, root) \cup OwnStack(0, stack) \cup OwnStack(-1, Pending)
           A  == C \cup OwnHeap(heap, Dying \cup {p})
           f  == [k \in 1 .. L |-> <<p, k>>]
           g  == [k \in 1 .. L |-> <<-1, W + L + 1 - k>>]
           New == OwnAll(1 .. L, g, es)
<1>1. /\ work # <<>> /\ UNCHANGED <<stack, root, heap>>
      /\ work \in Seq(Call) /\ Head(work).op = "value_free" /\ e \in Entry
      /\ es \in Seq(Entry) /\ L \in Nat /\ W \in Nat
  BY NextCall, LenProperties DEF FreeElements, tree, MemoryInv, Shape, TypeOK
<1>2. Pending' = es \o Pending /\ Dying' = Dying \cup {p} BY ElementsPending
<1>3. Pending \in Seq(Entry) /\ Len(Pending) = W BY <1>1, PendingSeq
<1>4. OwnStack(-1, es \o Pending) = OwnStack(-1, Pending) \cup New
  <2>1. OwnStack(-1, es \o Pending) = OwnStack(-1, Pending)
              \cup UNION {Own(<<-1, Len(Pending) + Len(es) + 1 - k>>, es[k]) : k \in 1 .. Len(es)}
    BY <1>1, <1>3, StackConcat, ZenonT(40)
  <2>2. \A k \in 1 .. L : g[k] = <<-1, W + L + 1 - k>> OBVIOUS
  <2> HIDE DEF g
  <2> QED BY <1>3, <2>1, <2>2 DEF OwnAll
<1>5. Owners' = A \cup New
  <2>1. Owners' = Own(<<0, 0>>, root) \cup OwnStack(0, stack) \cup OwnStack(-1, es \o Pending)
                    \cup OwnHeap(heap, Dying \cup {p})
    BY <1>1, <1>2 DEF Owners
  <2> HIDE DEF New
  <2> QED BY <1>4, <2>1
<1>6. Owners = C \cup OwnHeap(heap, Dying) BY DEF Owners
<1>7. CASE p = NULL
  <2>1. L = 0 BY <1>7 DEF Elems
  <2>2. New = {}
    <3> HIDE DEF L, g, es
    <3> QED BY <2>1 DEF OwnAll
  <2>3. NULL \notin DOMAIN heap BY DEF MemoryInv, Shape, TypeOK, NULL
  <2>4. OwnHeap(heap, Dying \cup {p}) = OwnHeap(heap, Dying)
    <3>1. DOMAIN heap \ (Dying \cup {p}) = DOMAIN heap \ Dying BY <1>7, <2>3
    <3> QED BY <3>1 DEF OwnHeap
  <2>5. Owners' = Owners BY <1>5, <1>6, <2>2, <2>4
  <2> QED BY <1>1, <2>5 DEF MemoryInv
<1>8. CASE p # NULL
  <2>1. p \in DOMAIN heap \ Dying BY <1>1, <1>8, NotDying
  <2>2. es = heap[p].elems BY <1>8 DEF Elems
  <2>3. /\ OwnHeap(heap, Dying) = OwnHeap(heap, Dying \cup {p}) \cup OwnArray(p, es)
        /\ \A k : Away(OwnHeap(heap, Dying \cup {p}), <<p, k>>)
    BY <2>1, <2>2, HeapSplit, SMTT(40)
  <2>4. OwnArray(p, es) = OwnAll(1 .. L, f, es)
    BY DEF OwnArray, OwnAll
  <2>5. p \in Nat /\ p # 0 /\ p # -1
    BY <2>1 DEF MemoryInv, Shape, TypeOK
  <2>6. \A k : Away(A, <<p, k>>)
    <3> SUFFICES ASSUME NEW k PROVE Away(A, <<p, k>>) OBVIOUS
    <3>1. <<0, 0>> # <<p, k>> BY <2>5
    <3>2. Away(Own(<<0, 0>>, root), <<p, k>>) BY <3>1, OneAway
    <3>3. Away(OwnStack(0, stack), <<p, k>>) /\ Away(OwnStack(-1, Pending), <<p, k>>)
      BY <2>5, StackAway
    <3>4. Away(C, <<p, k>>) BY <3>2, <3>3, AwayUnion
    <3> QED BY <2>3, <3>4, AwayUnion
  <2>7. \A k \in 1 .. L : f[k] = <<p, k>> /\ f[k][2] = k OBVIOUS
  <2>9. \A k, m \in 1 .. L : f[k] = f[m] => k = m
    <3> HIDE DEF f
    <3> QED BY <2>7
  <2>10. Owners = A \cup OwnAll(1 .. L, f, es) BY <1>6, <2>3, <2>4
  <2>11. \A k \in 1 .. L : Away(A, f[k])
    <3> HIDE DEF f, A
    <3> QED BY <2>6, <2>7
  <2>12. Once(A \cup OwnAll(1 .. L, f, es), Live(heap))
    BY <2>10 DEF MemoryInv
  <2>13. Once(A \cup New, Live(heap))
    <3> DEFINE N == 1 .. L
    <3>1. /\ Once(A \cup OwnAll(N, f, es), Live(heap))
          /\ \A k \in N : Away(A, f[k])
          /\ \A k, m \in N : f[k] = f[m] => k = m
      BY <2>9, <2>11, <2>12
    <3> HIDE DEF A, f, g, es, N
    <3>2. Once(A \cup OwnAll(N, g, es), Live(heap)) BY <3>1, OnceRenamed
    <3> QED BY <3>2 DEF N
  <2> QED BY <1>1, <1>5, <2>13
<1> QED BY <1>7, <1>8

\* The owners in an array are in no other place.
LEMMA ArrayAway ==
  ASSUME NEW b, NEW s, NEW c, NEW k, b # c \/ k \notin 1 .. Len(s)
  PROVE  Away(OwnArray(b, s), <<c, k>>)
<1> SUFFICES ASSUME NEW x \in OwnArray(b, s), x[1] = <<c, k>> PROVE FALSE BY DEF Away
<1>1. PICK m \in 1 .. Len(s) : x \in Own(<<b, m>>, s[m]) BY DEF OwnArray
<1>2. x[1] = <<b, m>> BY <1>1 DEF Own
<1> QED BY <1>2

\* The last value moves into the array, whose elements may move to another block.
LEMMA AppendMoves ==
  ASSUME NEW A, NEW H, NEW j \in Nat, NEW c, NEW e \in Entry, NEW es \in Seq(Entry),
         NEW p \in Nat, NEW q \in Nat \ {0}, p = 0 => es = <<>>,
         Once(((A \cup OwnArray(p, es)) \cup Own(<<0, j>>, c)) \cup Own(<<0, j + 1>>, e), H),
         Away(A, <<0, j + 1>>),
         p # 0 => \A k : Away(A, <<p, k>>)
  PROVE  Once((A \cup OwnArray(q, Append(es, e))) \cup Own(<<0, j>>, c), H)
<1> DEFINE L    == Len(es)
           last == <<q, L + 1>>
           B    == (A \cup Own(<<0, j>>, c)) \cup Own(last, e)
           N    == 1 .. L
           f    == [k \in N |-> <<p, k>>]
           g    == [k \in N |-> <<q, k>>]
<1>0. L \in Nat BY LenProperties
<1>1. Away(OwnArray(p, es), <<0, j + 1>>)
  <2>1. CASE p = 0
    <3>1. Len(es) = 0 /\ j + 1 \notin 1 .. 0 BY <2>1, EmptySeq
    <3> QED BY <3>1, ArrayAway
  <2>2. CASE p # 0 BY <2>2, ArrayAway
  <2> QED BY <2>1, <2>2
<1>2. Away(Own(<<0, j>>, c), <<0, j + 1>>)
  <2>1. j # j + 1 OBVIOUS
  <2>2. <<0, j>> # <<0, j + 1>> BY <2>1
  <2> QED BY <2>2, OneAway
<1>3. Once(((A \cup OwnArray(p, es)) \cup Own(<<0, j>>, c)) \cup Own(last, e), H)
  <2> DEFINE R == (A \cup OwnArray(p, es)) \cup Own(<<0, j>>, c)
             top == <<0, j + 1>>
  <2>1. Away(R, top) BY <1>1, <1>2, AwayUnion
  <2>2. Once(R \cup Own(top, e), H) OBVIOUS
  <2> HIDE DEF R, top, last
  <2>3. Once(R \cup Own(last, e), H) BY <2>1, <2>2, OnceMoved
  <2> QED BY <2>3 DEF R
<1>4. OwnArray(p, es) = OwnAll(N, f, es) /\ OwnArray(q, es) = OwnAll(N, g, es)
  BY DEF OwnArray, OwnAll
<1>5. Once(B \cup OwnAll(N, f, es), H)
  <2>1. ((A \cup OwnArray(p, es)) \cup Own(<<0, j>>, c)) \cup Own(last, e) = B \cup OwnArray(p, es)
    OBVIOUS
  <2> HIDE DEF B, f
  <2> QED BY <1>3, <1>4, <2>1
<1>6. \A k \in N : f[k] = <<p, k>> /\ f[k][2] = k OBVIOUS
<1>7. \A k \in N : Away(B, <<p, k>>)
  <2> SUFFICES ASSUME NEW k \in N PROVE Away(B, <<p, k>>) OBVIOUS
  <2>1. p # 0 BY <1>0, EmptySeq
  <2>2. <<0, j>> # <<p, k>> /\ last # <<p, k>> BY <1>0, <2>1
  <2>3. Away(Own(<<0, j>>, c), <<p, k>>) /\ Away(Own(last, e), <<p, k>>)
    <3> HIDE DEF last
    <3> QED BY <2>2, OneAway
  <2> QED BY <2>1, <2>3, AwayUnion
<1>8. Once(B \cup OwnAll(N, g, es), H)
  <2>1. \A k, m \in N : f[k] = f[m] => k = m
    <3> HIDE DEF f, N
    <3> QED BY <1>6
  <2>2. \A k \in N : Away(B, f[k])
    <3> HIDE DEF f, N, B
    <3> QED BY <1>6, <1>7
  <2> HIDE DEF f, g, N, B
  <2> QED BY <1>5, <2>1, <2>2, OnceRenamed
<1>9. OwnArray(q, Append(es, e)) = OwnArray(q, es) \cup Own(last, e) BY ArrayTop
<1>10. B \cup OwnAll(N, g, es) = (A \cup OwnArray(q, Append(es, e))) \cup Own(<<0, j>>, c)
  <2> HIDE DEF last, g, N
  <2> QED BY <1>4, <1>9
<1> HIDE DEF B, g, N
<1> QED BY <1>8, <1>10

\* What the array's own owner makes of it.
LEMMA ArrayMoves ==
  ASSUME NEW R, NEW H, NEW H2, NEW place, NEW c, NEW d, Once(R \cup Own(place, c), H),
         Away(R, place), d.ptr # NULL, c.ptr # NULL => Pointer(c) \in H,
         \/ Pointer(d) = Pointer(c) /\ c.ptr # NULL /\ H2 = H
         \/ Pointer(d) \notin H /\ c.ptr = NULL /\ H2 = H \cup {Pointer(d)}
         \/ Pointer(d) \notin H /\ c.ptr # NULL /\ H2 = (H \ {Pointer(c)}) \cup {Pointer(d)}
  PROVE  Once(R \cup Own(place, d), H2)
<1>1. Own(place, d) = {<<place, Pointer(d)>>} BY DEF Own
<1>2. c.ptr = NULL => R \cup Own(place, c) = R BY DEF Own
<1>3. c.ptr # NULL => Own(place, c) = {<<place, Pointer(c)>>} BY DEF Own
<1>4. CASE Pointer(d) = Pointer(c) /\ c.ptr # NULL /\ H2 = H BY <1>1, <1>3, <1>4
<1>5. CASE Pointer(d) \notin H /\ c.ptr = NULL /\ H2 = H \cup {Pointer(d)}
  BY <1>1, <1>2, <1>5, OnceNew
<1>6. CASE Pointer(d) \notin H /\ c.ptr # NULL /\ H2 = (H \ {Pointer(c)}) \cup {Pointer(d)}
  <2>1. Once(R, H \ {Pointer(c)}) BY <1>3, <1>6, OnceGone
  <2>2. Pointer(d) \notin H \ {Pointer(c)} BY <1>6
  <2> QED BY <1>1, <1>6, <2>1, <2>2, OnceNew
<1> QED BY <1>4, <1>5, <1>6

\* Owners before and after an append: those it leaves alone, the array's
\* elements, the array's owner, and before it the value.
LEMMA AppendApart ==
  ASSUME MemoryInv, AppendValue, NEW d, d = [Target EXCEPT !.ptr = Moved]
  PROVE  \E A :
           LET j == Len(stack) - 1
               p == Target.ptr
           IN  /\ Owners = (A \cup Own(<<0, j>>, Target)) \cup Own(<<0, j + 1>>, Head(stack))
                             \cup OwnHeap(heap, {})
               /\ Owners' = (A \cup Own(<<0, j>>, d)) \cup OwnHeap(heap', {})
               /\ Away(A, <<0, j>>) /\ Away(A, <<0, j + 1>>)
               /\ \A b \in Nat \ {0} : \A k : Away(A, <<b, k>>)
<1> DEFINE n == Len(stack)
           j == n - 1
<1>1. /\ stack \in Seq(Entry) /\ stack # <<>> /\ n \in Nat \ {0} /\ pc = "append"
      /\ work = <<>> /\ work' = <<>> /\ j \in Nat /\ j + 1 = n
  BY AppendFacts, AppendContainer DEF MemoryInv, Shape, TypeOK, Control, AppendValue
<1>2. /\ Dying = {} /\ Dying' = {} /\ Pending = <<>> /\ Pending' = <<>>
      /\ \A a : OwnStack(a, <<>>) = {}
  BY <1>1 DEF Dying, Pending, OwnStack
<1>3. OwnStack(0, stack) = OwnStack(0, Tail(stack)) \cup Own(<<0, n>>, Head(stack))
  BY <1>1, StackTop
<1>4. CASE n = 1
  <2> DEFINE A == {}
  <2>1. stack' = <<>> /\ root' = d /\ Target = root BY <1>4, AppendFacts DEF Target
  <2>2. Tail(stack) = <<>>
    <3>1. Tail(stack) \in Seq(Entry) /\ Len(Tail(stack)) = 0 BY <1>1, <1>4, HeadTailProperties
    <3> DEFINE r == Tail(stack)
    <3>2. r \in Seq(Entry) /\ Len(r) = 0 BY <3>1
    <3> HIDE DEF r
    <3>3. r = <<>> BY <3>2, EmptySeq
    <3> QED BY <3>3 DEF r
  <2>3. j = 0 BY <1>4
  <2>4. Owners = (A \cup Own(<<0, 0>>, Target)) \cup Own(<<0, n>>, Head(stack)) \cup OwnHeap(heap, {})
    BY <1>2, <1>3, <2>1, <2>2 DEF Owners
  <2>5. Owners' = (A \cup Own(<<0, 0>>, d)) \cup OwnHeap(heap', {})
    BY <1>2, <2>1 DEF Owners
  <2>6. \A x : Away(A, x) BY DEF Away
  <2> HIDE DEF j, A, n
  <2> QED BY <1>1, <2>3, <2>4, <2>5, <2>6 DEF j, n
<1>5. CASE n # 1
  <2> DEFINE t == Tail(Tail(stack))
             A == Own(<<0, 0>>, root) \cup OwnStack(0, t)
  <2>1. /\ Target = stack[2] /\ stack[2] = Head(Tail(stack)) /\ Tail(stack) \in Seq(Entry)
        /\ Tail(stack) # <<>> /\ t \in Seq(Entry) /\ Target \in Entry
    BY <1>1, <1>5, AppendContainer DEF Target
  <2>2. stack' = <<d>> \o t /\ root' = root BY <1>5, <2>1, AppendFacts
  <2>3. Len(Tail(stack)) = j /\ Len(t) = j - 1 /\ (j - 1) + 1 = j /\ j # 0
    BY <1>1, <1>5, <2>1, HeadTailProperties
  <2>4. /\ OwnStack(0, Tail(stack)) = OwnStack(0, t) \cup Own(<<0, j>>, Target)
        /\ Away(OwnStack(0, t), <<0, j>>)
    BY <2>1, <2>3, StackTop
  <2>5. d \in Entry BY <2>1, AppendFacts DEF Entry
  <2>6. OwnStack(0, stack') = OwnStack(0, t) \cup Own(<<0, j>>, d)
    <3>1. OwnStack(0, <<d>> \o t) = OwnStack(0, t) \cup Own(<<0, Len(t) + 1>>, d)
      <4>1. t \in Seq(Entry) /\ d \in Entry BY <2>1, <2>5
      <4> HIDE DEF t
      <4> QED BY <4>1, StackPush, SMTT(40)
    <3> QED BY <2>2, <2>3, <3>1
  <2>7. Owners = (A \cup Own(<<0, j>>, Target)) \cup Own(<<0, n>>, Head(stack)) \cup OwnHeap(heap, {})
    BY <1>2, <1>3, <2>4 DEF Owners
  <2>8. Owners' = (A \cup Own(<<0, j>>, d)) \cup OwnHeap(heap', {})
    BY <1>2, <2>2, <2>6 DEF Owners
  <2>9. Away(A, <<0, j>>)
    <3>1. <<0, 0>> # <<0, j>> BY <2>3
    <3>2. Away(Own(<<0, 0>>, root), <<0, j>>) BY <3>1, OneAway
    <3> QED BY <2>4, <3>2, AwayUnion
  <2>10. Away(A, <<0, n>>)
    <3>1. <<0, 0>> # <<0, n>> /\ n \notin 1 .. j - 1 BY <1>1
    <3>2. Away(OwnStack(0, t), <<0, n>>) BY <2>3, <3>1, StackAway
    <3> QED BY <3>1, <3>2, OneAway, AwayUnion
  <2>11. ASSUME NEW b \in Nat \ {0}, NEW k PROVE Away(A, <<b, k>>)
    <3>1. <<0, 0>> # <<b, k>> /\ b # 0 OBVIOUS
    <3>2. Away(OwnStack(0, t), <<b, k>>) BY <3>1, StackAway
    <3> QED BY <3>1, <3>2, OneAway, AwayUnion
  <2> HIDE DEF j, A, n
  <2> QED BY <1>1, <2>7, <2>8, <2>9, <2>10, <2>11 DEF j, n
<1> QED BY <1>4, <1>5

\* The heap before and after an append.
LEMMA AppendHeap ==
  ASSUME MemoryInv, AppendValue, NEW p, p = Target.ptr, NEW q, q = Moved,
         NEW B, B = OwnHeap(heap, {p})
  PROVE  /\ OwnHeap(heap, {}) = B \cup OwnArray(p, Elems(p))
         /\ OwnHeap(heap', {}) = B \cup OwnArray(q, Append(Elems(p), Head(stack)))
         /\ \A k : Away(B, <<p, k>>)
         /\ \A j : Away(B, <<0, j>>)
<1>1. /\ p # NULL => p \in DOMAIN heap
      /\ q \in DOMAIN heap' /\ heap'[q].elems = Append(Elems(p), Head(stack))
      /\ DOMAIN heap' \ {q} = DOMAIN heap \ {p}
      /\ \A b \in DOMAIN heap' \ {q} : heap'[b] = heap[b]
  BY AppendFacts DEF Filled
<1>2. 0 \notin DOMAIN heap BY DEF MemoryInv, Shape, TypeOK
<1>3. \A h, b : b \in DOMAIN h =>
        /\ OwnHeap(h, {}) = OwnHeap(h, {b}) \cup OwnArray(b, h[b].elems)
        /\ \A k : Away(OwnHeap(h, {b}), <<b, k>>)
  <2> SUFFICES ASSUME NEW h, NEW b \in DOMAIN h
               PROVE  /\ OwnHeap(h, {}) = OwnHeap(h, {b}) \cup OwnArray(b, h[b].elems)
                      /\ \A k : Away(OwnHeap(h, {b}), <<b, k>>)
    OBVIOUS
  <2> DEFINE D == {}
  <2>1. b \in DOMAIN h \ D /\ D \cup {b} = {b} OBVIOUS
  <2> HIDE DEF D
  <2>2. /\ OwnHeap(h, D) = OwnHeap(h, D \cup {b}) \cup OwnArray(b, h[b].elems)
        /\ \A k : Away(OwnHeap(h, D \cup {b}), <<b, k>>)
    BY <2>1, HeapSplit
  <2> QED BY <2>1, <2>2 DEF D
<1>4. OwnHeap(heap', {}) = OwnHeap(heap', {q}) \cup OwnArray(q, heap'[q].elems) BY <1>1, <1>3
<1>5. OwnHeap(heap', {q}) = B
  <2>1. \A b \in DOMAIN heap \ {p} : heap'[b].elems = heap[b].elems BY <1>1
  <2> QED BY <1>1, <2>1, HeapSame
<1>6. \A j : Away(B, <<0, j>>)
  <2>1. 0 \notin DOMAIN heap \ {p} BY <1>2
  <2> QED BY <2>1, HeapAway
<1>7. CASE p = NULL
  <2>1. OwnArray(p, Elems(p)) = {} BY <1>7 DEF Elems, OwnArray
  <2>2. DOMAIN heap \ {p} = DOMAIN heap \ {} BY <1>2, <1>7 DEF NULL
  <2>3. OwnHeap(heap, {}) = B BY <2>2, HeapSame
  <2>4. \A k : Away(B, <<p, k>>) BY <1>6, <1>7 DEF NULL
  <2> QED BY <1>1, <1>4, <1>5, <1>6, <2>1, <2>3, <2>4
<1>8. CASE p # NULL
  <2>1. Elems(p) = heap[p].elems BY <1>8 DEF Elems
  <2>2. /\ OwnHeap(heap, {}) = B \cup OwnArray(p, heap[p].elems)
        /\ \A k : Away(B, <<p, k>>)
    BY <1>1, <1>3, <1>8
  <2> QED BY <1>1, <1>4, <1>5, <1>6, <2>1, <2>2
<1> QED BY <1>7, <1>8

\* The blocks before and after an append.
LEMMA AppendLive ==
  ASSUME MemoryInv, AppendValue, NEW d, d = [Target EXCEPT !.ptr = Moved],
         NEW c, c = Target, NEW H, H = Live(heap), NEW H2, H2 = Live(heap')
  PROVE  /\ d.ptr # NULL
         /\ c.ptr # NULL => Pointer(c) \in H
         /\ \/ Pointer(d) = Pointer(c) /\ c.ptr # NULL /\ H2 = H
            \/ Pointer(d) \notin H /\ c.ptr = NULL /\ H2 = H \cup {Pointer(d)}
            \/ Pointer(d) \notin H /\ c.ptr # NULL /\ H2 = (H \ {Pointer(c)}) \cup {Pointer(d)}
<1> DEFINE p == c.ptr
           q == Moved
<1>1. /\ c \in Entry /\ c.kind \in {"list", "table"} /\ q # NULL
      /\ heap'[q] = Filled /\ Filled.cap # 0
      /\ \A b \in DOMAIN heap' \ {q} : b \in DOMAIN heap /\ heap'[b] = heap[b]
  BY AppendFacts, AppendContainer DEF NULL
<1>2. d.ptr = q /\ d.kind = c.kind BY <1>1 DEF Entry
<1>3. Pointer(d) = <<q, "array">> /\ Pointer(c) = <<p, "array">>
  BY <1>1, <1>2 DEF Pointer, Holds
<1>4. What(heap'[q]) = "array" BY <1>1 DEF What
<1>5. p # NULL => p \in DOMAIN heap /\ What(heap[p]) = "array"
  <2> SUFFICES ASSUME p # NULL PROVE p \in DOMAIN heap /\ What(heap[p]) = "array" OBVIOUS
  <2>1. PICK place : Own(place, c) \subseteq Owners BY AppendFacts, AppendContainer
  <2>2. p \in DOMAIN heap /\ Holds(c) = What(heap[p]) BY <2>1, OwnedBlock DEF MemoryInv
  <2> QED BY <1>1, <2>2 DEF Holds
<1>6. NULL \notin DOMAIN heap BY DEF MemoryInv, Shape, TypeOK, NULL
<1>7. \A b, x : b # x => <<b, What(heap[b])>> # <<x, "array">> OBVIOUS
<1>8. p # NULL => Pointer(c) \in H BY <1>3, <1>5 DEF Live
<1>9. CASE q = fresh /\ fresh \notin DOMAIN heap /\ DOMAIN heap' = (DOMAIN heap \ {p}) \cup {q}
  <2>1. Pointer(d) \notin H BY <1>3, <1>7, <1>9 DEF Live
  <2> DEFINE Rest == {<<b, What(heap[b])>> : b \in DOMAIN heap \ {p}}
  <2>2. H2 = Rest \cup {Pointer(d)}
    <3>1. H2 = {<<b, What(heap'[b])>> : b \in DOMAIN heap'} BY DEF Live
    <3>2. \A b \in DOMAIN heap \ {p} : b \in DOMAIN heap' /\ heap'[b] = heap[b]
      BY <1>1, <1>9
    <3>3. <<q, What(heap'[q])>> = Pointer(d) BY <1>3, <1>4
    <3> QED BY <1>9, <3>1, <3>2, <3>3
  <2>3. CASE p = NULL
    <3>1. DOMAIN heap \ {p} = DOMAIN heap BY <1>6, <2>3
    <3>2. Rest = H BY <3>1 DEF Live
    <3> QED BY <1>2, <1>1, <1>8, <2>1, <2>2, <2>3, <3>2
  <2>4. CASE p # NULL
    <3>1. Rest = H \ {Pointer(c)} BY <1>3, <1>5, <1>7, <2>4 DEF Live
    <3> QED BY <1>2, <1>1, <1>8, <2>1, <2>2, <2>4, <3>1
  <2> QED BY <2>3, <2>4
<1>10. CASE q = p /\ q \in DOMAIN heap /\ DOMAIN heap' = DOMAIN heap
  <2>1. \A b \in DOMAIN heap : What(heap'[b]) = What(heap[b])
    BY <1>1, <1>4, <1>5, <1>10
  <2>2. H2 = H BY <1>10, <2>1 DEF Live
  <2> QED BY <1>1, <1>2, <1>3, <1>8, <1>10, <2>2
<1>11. \/ q = fresh /\ fresh \notin DOMAIN heap /\ DOMAIN heap' = (DOMAIN heap \ {p}) \cup {q}
       \/ q = p /\ q \in DOMAIN heap /\ DOMAIN heap' = DOMAIN heap
  BY AppendFacts
<1> QED BY <1>9, <1>10, <1>11

\* list_append and table_append: the owners.
LEMMA AppendValueOwners == ASSUME MemoryInv, AppendValue PROVE Once(Owners, Live(heap))'
<1> DEFINE d  == [Target EXCEPT !.ptr = Moved]
           e  == Head(stack)
           j  == Len(stack) - 1
           p  == Target.ptr
           q  == Moved
           es == Elems(p)
           B  == OwnHeap(heap, {p})
           H  == Live(heap)
           H2 == Live(heap')
           pl == <<0, j>>
<1>1. PICK A : /\ Owners = (A \cup Own(pl, Target)) \cup Own(<<0, j + 1>>, e) \cup OwnHeap(heap, {})
               /\ Owners' = (A \cup Own(pl, d)) \cup OwnHeap(heap', {})
               /\ Away(A, pl) /\ Away(A, <<0, j + 1>>)
               /\ \A b \in Nat \ {0} : \A k : Away(A, <<b, k>>)
  BY AppendApart
<1>2. /\ OwnHeap(heap, {}) = B \cup OwnArray(p, es)
      /\ OwnHeap(heap', {}) = B \cup OwnArray(q, Append(es, e))
      /\ \A k : Away(B, <<p, k>>)
      /\ \A k : Away(B, <<0, k>>)
  BY AppendHeap
<1>3. /\ j \in Nat /\ e \in Entry /\ es \in Seq(Entry) /\ p \in Nat /\ q \in Nat \ {0}
      /\ p = 0 => es = <<>>
  BY AppendFacts, AppendContainer DEF Entry, Elems, NULL
<1>4. /\ d.ptr # NULL
      /\ Target.ptr # NULL => Pointer(Target) \in H
      /\ \/ Pointer(d) = Pointer(Target) /\ Target.ptr # NULL /\ H2 = H
         \/ Pointer(d) \notin H /\ Target.ptr = NULL /\ H2 = H \cup {Pointer(d)}
         \/ /\ Pointer(d) \notin H /\ Target.ptr # NULL
            /\ H2 = (H \ {Pointer(Target)}) \cup {Pointer(d)}
  BY AppendLive
<1> DEFINE X == A \cup B
           R == X \cup OwnArray(q, Append(es, e))
<1>5. Once(R \cup Own(pl, Target), H)
  <2>1. Owners = ((X \cup OwnArray(p, es)) \cup Own(pl, Target)) \cup Own(<<0, j + 1>>, e)
    BY <1>1, <1>2
  <2>2. Once(((X \cup OwnArray(p, es)) \cup Own(pl, Target)) \cup Own(<<0, j + 1>>, e), H)
    BY <2>1 DEF MemoryInv
  <2>3. Away(X, <<0, j + 1>>) BY <1>1, <1>2, AwayUnion
  <2>4. p # 0 => \A k : Away(X, <<p, k>>) BY <1>1, <1>2, <1>3, AwayUnion
  <2> HIDE DEF X, H, j, p, q, es, e
  <2> QED BY <1>3, <2>2, <2>3, <2>4, AppendMoves
<1>6. Away(R, pl)
  <2>1. Away(OwnArray(q, Append(es, e)), pl) BY <1>3, ArrayAway
  <2> QED BY <1>1, <1>2, <2>1, AwayUnion
<1>7. Once(R \cup Own(pl, d), H2)
  <2> HIDE DEF R, H, H2, pl, d
  <2> QED BY <1>4, <1>5, <1>6, ArrayMoves
<1>8. Owners' = R \cup Own(pl, d) BY <1>1, <1>2
<1> QED BY <1>7, <1>8

-----------------------------------------------------------------------------
(* The theorems.                                                           *)

\* In the beginning nothing is allocated.
LEMMA MemoryInit == ASSUME Init PROVE MemoryInv
<1>1. EmptyTable \in Entry /\ EmptyTable.kind = "table" /\ EmptyTable.ptr = NULL
  BY DEF EmptyTable, Entry, NULL
<1>2. /\ stack = <<>> /\ work = <<>> /\ DOMAIN heap = {} /\ root = EmptyTable /\ pc = "scan"
      /\ tokens = <<>> /\ i = 1 /\ key = NoKey /\ fresh = 1 /\ error = "none" /\ overrun = FALSE
  BY DEF Init, ParserInit
<1>3. Shape
  <2>1. /\ tokens \in Seq(Token) /\ i \in 1 .. Len(tokens) + 1 /\ stack \in Seq(Entry)
        /\ work \in Seq(Call)
    BY <1>2, EmptySeq
  <2>2. /\ key \in Keys \cup {NoKey} /\ root \in Entry /\ fresh \in Nat \ {0}
        /\ DOMAIN heap \subseteq 1 .. fresh - 1 /\ \A b \in DOMAIN heap : heap[b] \in Block
        /\ error \in Errors \cup {"scan_error"} /\ overrun \in BOOLEAN
    <3>1. key \in Keys \cup {NoKey} BY <1>2
    <3>2. root \in Entry BY <1>1, <1>2
    <3>3. fresh \in Nat \ {0} BY <1>2
    <3>4. DOMAIN heap \subseteq 1 .. fresh - 1 /\ \A b \in DOMAIN heap : heap[b] \in Block
      BY <1>2
    <3>5. error \in Errors \cup {"scan_error"} BY <1>2 DEF Errors
    <3>6. overrun \in BOOLEAN BY <1>2
    <3> QED BY <3>1, <3>2, <3>3, <3>4, <3>5, <3>6
  <2>5. TypeOK BY <1>2, <2>1, <2>2 DEF TypeOK
  <2>3. Control BY <1>1, <1>2 DEF Control, Arrays
  <2>4. Capacity BY <1>2 DEF Capacity
  <2> QED BY <2>3, <2>4, <2>5 DEF Shape
<1>4. Owners = {}
  <2>1. Pending = <<>> BY <1>2 DEF Pending
  <2>2. \A a : OwnStack(a, <<>>) = {} BY DEF OwnStack
  <2>3. OwnHeap(heap, Dying) = {} BY <1>2 DEF OwnHeap
  <2>4. \A p : Own(p, root) = {} BY <1>1, <1>2 DEF Own
  <2> QED BY <1>2, <2>1, <2>2, <2>3, <2>4 DEF Owners
<1>5. Live(heap) = {} BY <1>2 DEF Live
<1>6. Once({}, {}) BY DEF Once
<1> QED BY <1>3, <1>4, <1>5, <1>6 DEF MemoryInv

\* A step of parse.
LEMMA ParseStep == ASSUME MemoryInv, Parse PROVE MemoryInv'
<1>1. CASE Done
  BY <1>1, DoneKept, SameOwners DEF MemoryInv, Done, tree
<1>2. CASE ParseKey
  BY <1>2, ParseKeyKept, SameOwners DEF MemoryInv, ParseKey
<1>3. CASE ParseSeparator
  BY <1>3, ParseSeparatorKept, ParseSeparatorOwners DEF MemoryInv
<1>4. CASE ParseList
  BY <1>4, ParseOpenKept, ParseOpenOwners DEF MemoryInv, ParseList
<1>5. CASE ParseTable
  BY <1>5, ParseOpenKept, ParseOpenOwners DEF MemoryInv, ParseTable
<1>6. CASE ParseString
  BY <1>6, ParseStringKept, ParseStringOwners DEF MemoryInv
<1>7. CASE ParseScalar
  BY <1>7, ParseScalarKept, ParseScalarOwners DEF MemoryInv
<1>8. CASE ParseBadValue
  BY <1>8, ParseBadValueKept, SameOwners DEF MemoryInv, ParseBadValue, tree
<1>9. CASE ParseValueEnd
  BY <1>9, ParseValueEndKept, SameOwners DEF MemoryInv, ParseValueEnd, tree
<1>10. CASE ParseLoop
  BY <1>10, ParseLoopKept, ParseLoopOwners DEF MemoryInv
<1>11. CASE AppendValue
  BY <1>11, AppendValueKept, AppendValueOwners DEF MemoryInv
<1>12. CASE ParseAfter
  BY <1>12, ParseAfterKept, SameOwners DEF MemoryInv, ParseAfter, tree
<1> QED
  BY <1>1, <1>2, <1>3, <1>4, <1>5, <1>6, <1>7, <1>8, <1>9, <1>10, <1>11, <1>12 DEF Parse

\* A step of kevs_free.
LEMMA ReleaseStep == ASSUME MemoryInv, Release PROVE MemoryInv'
<1>1. CASE Unwind
  BY <1>1, UnwindKept, UnwindOwners DEF MemoryInv
<1>2. CASE Failed
  BY <1>2, FailedKept, SameOwners DEF MemoryInv, Failed, Kept
<1>3. CASE KevsFree
  BY <1>3, KevsFreeKept, KevsFreeOwners DEF MemoryInv
<1>4. CASE KevsFreed
  BY <1>4, KevsFreedKept, SameOwners DEF MemoryInv, KevsFreed, tree
<1>5. CASE FreeString
  BY <1>5, FreeStringKept, FreeStringOwners DEF MemoryInv
<1>6. CASE FreeElements
  BY <1>6, FreeElementsKept, FreeElementsOwners DEF MemoryInv
<1>7. CASE FreeArray
  BY <1>7, FreeArrayKept, FreeArrayOwners DEF MemoryInv
<1>8. CASE FreeNothing
  BY <1>8, FreeNothingKept, FreeNothingOwners DEF MemoryInv
<1> QED BY <1>1, <1>2, <1>3, <1>4, <1>5, <1>6, <1>7, <1>8 DEF Release

\* Every step keeps the memory in order.
LEMMA MemoryStep == ASSUME MemoryInv, [Next]_allvars PROVE MemoryInv'
<1>1. CASE Emit
  BY <1>1, EmitKept, SameOwners DEF MemoryInv, Emit, tree
<1>2. CASE ScanDone
  BY <1>2, ScanDoneKept, SameOwners DEF MemoryInv, ScanDone, tree
<1>3. CASE ScanFailed
  BY <1>3, ScanFailedKept, SameOwners DEF MemoryInv, ScanFailed, tree
<1>4. CASE KevsReturn
  BY <1>4, KevsReturnKept, SameOwners DEF MemoryInv, KevsReturn, tree
<1>5. CASE KevsParseAgain
  BY <1>5, KevsParseAgainKept, SameOwners DEF MemoryInv, KevsParseAgain
<1>6. CASE Parse BY <1>6, ParseStep
<1>7. CASE Release BY <1>7, ReleaseStep
<1>8. CASE UNCHANGED allvars
  <2>1. Shape' BY <1>8 DEF allvars, vars, MemoryInv, Shape, TypeOK, Control, Capacity, Arrays
  <2> QED BY <1>8, <2>1, SameOwners DEF allvars, vars, MemoryInv
<1> QED BY <1>1, <1>2, <1>3, <1>4, <1>5, <1>6, <1>7, <1>8 DEF Next

\* The memory of the parser is in order in every state of every session.
THEOREM MemoryInvariant == Spec => []MemoryInv
<1>1. Init => MemoryInv BY MemoryInit
<1>2. MemoryInv /\ [Next]_allvars => MemoryInv' BY MemoryStep
<1> QED BY <1>1, <1>2, PTL DEF Spec

\* The parser never leaves the token array, whatever the scanner emits, and
\* what it stores has the types of KevsValue.
THEOREM ParserTypes == Spec => []TypeOK
<1>1. MemoryInv => TypeOK BY DEF MemoryInv, Shape
<1> QED BY <1>1, MemoryInvariant, PTL

\* list_append and table_append grow an array before it is full.
THEOREM ArraysFit == Spec => []Capacity
<1>1. MemoryInv => Capacity BY DEF MemoryInv, Shape
<1> QED BY <1>1, MemoryInvariant, PTL

\* The place of an entry, counted as the invariant counts it.
PlaceOf(p) ==
  IF p[1] # NULL THEN p
  ELSE IF p[2] = 1 THEN <<0, 0>>
  ELSE IF p[2] <= 1 + Len(stack) THEN <<0, Len(stack) + 2 - p[2]>>
  ELSE <<-1, Len(stack) + Len(work) + 2 - p[2]>>

\* The entries outside the heap, by where they are.
LEMMA HeldParts ==
  ASSUME MemoryInv
  PROVE  /\ Held \in Seq(Entry) /\ DOMAIN Held = 1 .. 1 + Len(stack) + Len(work)
         /\ Len(stack) \in Nat /\ Len(work) \in Nat /\ Len(Pending) = Len(work)
         /\ Held[1] = root
         /\ \A k \in 1 .. Len(stack) : Held[1 + k] = stack[k]
         /\ \A k \in 1 .. Len(work) : Held[1 + Len(stack) + k] = Pending[k]
<1>1. /\ stack \in Seq(Entry) /\ Len(stack) \in Nat /\ Len(work) \in Nat /\ root \in Entry
      /\ Pending \in Seq(Entry) /\ Len(Pending) = Len(work)
  BY PendingSeq, LenProperties DEF MemoryInv, Shape, TypeOK
<1> DEFINE po == Pending
           f  == <<root>> \o stack
<1>2. Held = f \o po BY DEF Held, Pending
<1>3. po \in Seq(Entry) /\ Len(po) = Len(work) BY <1>1
<1> HIDE DEF po
<1>4. /\ f \in Seq(Entry) /\ Len(f) = 1 + Len(stack) /\ f[1] = root
      /\ \A k \in 1 .. Len(stack) : f[1 + k] = stack[k]
  BY <1>1
<1> HIDE DEF f
<1>5. /\ f \o po \in Seq(Entry) /\ Len(f \o po) = Len(f) + Len(po)
      /\ \A n \in 1 .. Len(f) + Len(po) :
           (f \o po)[n] = IF n <= Len(f) THEN f[n] ELSE po[n - Len(f)]
  <2>1. f \in Seq(Entry) /\ po \in Seq(Entry) BY <1>3, <1>4
  <2> QED BY <2>1, ConcatProperties
<1>6. DOMAIN Held = 1 .. 1 + Len(stack) + Len(work)
  BY <1>2, <1>3, <1>4, <1>5, LenProperties
<1>7. Held[1] = root
  <2>1. 1 \in 1 .. Len(f) + Len(po) /\ 1 <= Len(f) BY <1>1, <1>3, <1>4
  <2> QED BY <1>2, <1>4, <1>5, <2>1
<1>8. \A k \in 1 .. Len(stack) : Held[1 + k] = stack[k]
  <2> SUFFICES ASSUME NEW k \in 1 .. Len(stack) PROVE Held[1 + k] = stack[k] OBVIOUS
  <2>1. 1 + k \in 1 .. Len(f) + Len(po) /\ 1 + k <= Len(f) BY <1>1, <1>3, <1>4
  <2> QED BY <1>2, <1>4, <1>5, <2>1
<1>9. \A k \in 1 .. Len(work) : Held[1 + Len(stack) + k] = Pending[k]
  <2> SUFFICES ASSUME NEW k \in 1 .. Len(work) PROVE Held[1 + Len(stack) + k] = po[k]
    BY DEF po
  <2> DEFINE m == 1 + Len(stack) + k
  <2>1. m \in 1 .. Len(f) + Len(po) /\ ~(m <= Len(f)) /\ m - Len(f) = k BY <1>1, <1>3, <1>4
  <2> HIDE DEF m
  <2>2. Held[m] = po[k] BY <1>2, <1>5, <2>1
  <2> QED BY <2>2 DEF m
<1> QED BY <1>1, <1>2, <1>5, <1>6, <1>7, <1>8, <1>9

\* A place outside the heap is that of the table, of a value, or of a call.
LEMMA HeldPlaces ==
  ASSUME MemoryInv, NEW n \in DOMAIN Held
  PROVE  LET p == <<NULL, n>> IN
         \/ n = 1 /\ At(p) = root /\ PlaceOf(p) = <<0, 0>>
         \/ \E k \in 1 .. Len(stack) :
              n = 1 + Len(stack) + 1 - k /\ At(p) = Nth(stack, k) /\ PlaceOf(p) = <<0, k>>
         \/ \E k \in 1 .. Len(work) :
              /\ n = 1 + Len(stack) + Len(work) + 1 - k
              /\ At(p) = Nth(Pending, k) /\ PlaceOf(p) = <<-1, k>>
<1> DEFINE p == <<NULL, n>>
           S == Len(stack)
           W == Len(work)
<1>1. p[1] = NULL /\ p[2] = n /\ At(p) = Held[n] BY DEF At
<1>2. S \in Nat /\ W \in Nat /\ n \in 1 .. 1 + S + W BY HeldParts
<1> HIDE DEF p
<1>3. CASE n = 1 BY <1>1, <1>3, HeldParts DEF PlaceOf, p
<1>4. CASE n # 1 /\ n <= 1 + S
  <2> DEFINE k == S + 2 - n
             m == S + 1 - k
  <2>1. k \in 1 .. S /\ n = 1 + S + 1 - k /\ m \in 1 .. S /\ n = 1 + m BY <1>2, <1>4, SMTT(40)
  <2>2. PlaceOf(p) = <<0, k>> BY <1>1, <1>4 DEF PlaceOf
  <2>3. Held[n] = stack[m] BY <2>1, HeldParts
  <2>4. Nth(stack, k) = stack[m] BY DEF Nth
  <2> QED BY <1>1, <2>1, <2>2, <2>3, <2>4 DEF p
<1>5. CASE n # 1 /\ ~(n <= 1 + S)
  <2> DEFINE k == S + W + 2 - n
             m == W + 1 - k
  <2>1. k \in 1 .. W /\ n = 1 + S + W + 1 - k /\ m \in 1 .. W /\ n = 1 + S + m
    <3> HIDE DEF S, W
    <3>1. n \in Int /\ n > 1 + S /\ n <= 1 + S + W BY <1>2, <1>5
    <3> QED BY <1>2, <3>1
  <2>2. PlaceOf(p) = <<-1, k>> BY <1>1, <1>5 DEF PlaceOf
  <2>3. Held[n] = Pending[m] BY <2>1, HeldParts
  <2>4. Nth(Pending, k) = Pending[m] BY HeldParts DEF Nth
  <2> QED BY <1>1, <2>1, <2>2, <2>3, <2>4 DEF p
<1> QED BY <1>3, <1>4, <1>5 DEF p

\* Every place is an owner's, if its entry points to a block.
LEMMA PlaceOwns ==
  ASSUME MemoryInv, NEW p \in Places
  PROVE  Own(PlaceOf(p), At(p)) \subseteq Owners
<1>1. CASE p \in {<<NULL, n>> : n \in DOMAIN Held}
  <2>1. PICK n \in DOMAIN Held : p = <<NULL, n>> BY <1>1
  <2>2. \/ At(p) = root /\ PlaceOf(p) = <<0, 0>>
        \/ \E k \in 1 .. Len(stack) : At(p) = Nth(stack, k) /\ PlaceOf(p) = <<0, k>>
        \/ \E k \in 1 .. Len(Pending) : At(p) = Nth(Pending, k) /\ PlaceOf(p) = <<-1, k>>
    BY <2>1, HeldPlaces, HeldParts
  <2> QED BY <2>2 DEF Owners, OwnStack
<1>2. CASE p \in UNION {{<<b, n>> : n \in DOMAIN heap[b].elems} : b \in DOMAIN heap \ Dying}
  <2>1. PICK b \in DOMAIN heap \ Dying : \E n \in DOMAIN heap[b].elems : p = <<b, n>> BY <1>2
  <2>2. PICK n \in DOMAIN heap[b].elems : p = <<b, n>> BY <2>1
  <2>3. b # NULL BY DEF MemoryInv, Shape, TypeOK, NULL
  <2>4. p[1] = b /\ p[2] = n BY <2>2
  <2>5. PlaceOf(p) = <<b, n>> BY <2>2, <2>3, <2>4 DEF PlaceOf
  <2>6. At(p) = heap[b].elems[n] BY <2>3, <2>4 DEF At
  <2>7. n \in 1 .. Len(heap[b].elems)
    <3>1. heap[b].elems \in Seq(Entry) BY DEF MemoryInv, Shape, TypeOK, Block
    <3> QED BY <3>1, LenProperties
  <2> QED BY <2>5, <2>6, <2>7 DEF Owners, OwnHeap, OwnArray
<1> QED BY <1>1, <1>2 DEF Places

\* Two places are never the same owner's.
LEMMA PlacesDiffer ==
  ASSUME MemoryInv, NEW p \in Places, NEW r \in Places, PlaceOf(p) = PlaceOf(r)
  PROVE  p = r
<1> DEFINE InHeap(x) == /\ \E b \in DOMAIN heap : x[1] = b
                        /\ PlaceOf(x) = x
<1>1. \A x \in Places : InHeap(x) \/ \E n \in DOMAIN Held : x = <<NULL, n>>
  <2> SUFFICES ASSUME NEW x \in Places, ~\E n \in DOMAIN Held : x = <<NULL, n>> PROVE InHeap(x)
    OBVIOUS
  <2>1. PICK b \in DOMAIN heap \ Dying : \E n \in DOMAIN heap[b].elems : x = <<b, n>>
    BY DEF Places
  <2>2. x[1] = b /\ b # NULL BY <2>1 DEF MemoryInv, Shape, TypeOK, NULL
  <2> QED BY <2>1, <2>2 DEF PlaceOf
<1>2. ASSUME NEW n \in DOMAIN Held
      PROVE  /\ PlaceOf(<<NULL, n>>)[1] \in {0, -1}
             /\ n = IF PlaceOf(<<NULL, n>>) = <<0, 0>> THEN 1
                    ELSE IF PlaceOf(<<NULL, n>>)[1] = 0
                    THEN 1 + Len(stack) + 1 - PlaceOf(<<NULL, n>>)[2]
                    ELSE 1 + Len(stack) + Len(work) + 1 - PlaceOf(<<NULL, n>>)[2]
  <2> DEFINE x == PlaceOf(<<NULL, n>>)
  <2>1. \/ n = 1 /\ x = <<0, 0>>
        \/ \E k \in 1 .. Len(stack) : n = 1 + Len(stack) + 1 - k /\ x = <<0, k>>
        \/ \E k \in 1 .. Len(work) : n = 1 + Len(stack) + Len(work) + 1 - k /\ x = <<-1, k>>
    BY HeldPlaces
  <2> HIDE DEF x
  <2>2. CASE n = 1 /\ x = <<0, 0>> BY <2>2 DEF x
  <2>3. CASE \E k \in 1 .. Len(stack) : n = 1 + Len(stack) + 1 - k /\ x = <<0, k>>
    <3>1. PICK k \in 1 .. Len(stack) : n = 1 + Len(stack) + 1 - k /\ x = <<0, k>> BY <2>3
    <3>2. x[1] = 0 /\ x[2] = k /\ k # 0 BY <3>1
    <3>3. x # <<0, 0>> BY <3>2
    <3> QED BY <3>1, <3>2, <3>3 DEF x
  <2>4. CASE \E k \in 1 .. Len(work) : n = 1 + Len(stack) + Len(work) + 1 - k /\ x = <<-1, k>>
    <3>1. PICK k \in 1 .. Len(work) : n = 1 + Len(stack) + Len(work) + 1 - k /\ x = <<-1, k>>
      BY <2>4
    <3>2. x[1] = -1 /\ x[2] = k /\ x[1] # 0 BY <3>1
    <3>3. x # <<0, 0>> BY <3>2
    <3> QED BY <3>1, <3>2, <3>3 DEF x
  <2> QED BY <2>1, <2>2, <2>3, <2>4
<1>3. \A b \in DOMAIN heap : b # 0 /\ b # -1 BY DEF MemoryInv, Shape, TypeOK
<1>4. CASE InHeap(p) /\ InHeap(r) BY <1>4
<1>5. CASE \E n \in DOMAIN Held : p = <<NULL, n>>
  <2>1. PICK n \in DOMAIN Held : p = <<NULL, n>> BY <1>5
  <2>2. CASE InHeap(r)
    <3>1. PlaceOf(r)[1] \in {0, -1} BY <1>2, <2>1
    <3> QED BY <1>3, <2>2, <3>1
  <2>3. CASE \E m \in DOMAIN Held : r = <<NULL, m>>
    <3>1. PICK m \in DOMAIN Held : r = <<NULL, m>> BY <2>3
    <3>2. n = m BY <1>2, <2>1, <3>1
    <3> QED BY <2>1, <3>1, <3>2
  <2> QED BY <1>1, <2>2, <2>3
<1>6. CASE InHeap(p) /\ \E n \in DOMAIN Held : r = <<NULL, n>>
  <2>1. PlaceOf(p)[1] \in {0, -1} BY <1>2, <1>6
  <2> QED BY <1>3, <1>6, <2>1
<1> QED BY <1>1, <1>4, <1>5, <1>6

\* Every owner is in a place.
LEMMA OwnerPlaced ==
  ASSUME MemoryInv, NEW x \in Owners
  PROVE  \E p \in Places : At(p).ptr = x[2][1]
<1>0. \A place, e : \A y \in Own(place, e) : y[2][1] = e.ptr
  <2> SUFFICES ASSUME NEW place, NEW e, NEW y \in Own(place, e) PROVE y[2][1] = e.ptr OBVIOUS
  <2>1. y = <<place, Pointer(e)>> BY DEF Own
  <2> QED BY <2>1 DEF Pointer
<1>1. \A n \in DOMAIN Held : <<NULL, n>> \in Places /\ At(<<NULL, n>>) = Held[n]
  BY DEF Places, At
<1>2. ASSUME NEW n \in DOMAIN Held, x[2][1] = Held[n].ptr
      PROVE  \E p \in Places : At(p).ptr = x[2][1]
  <2> DEFINE q == <<NULL, n>>
  <2>1. q \in Places /\ At(q) = Held[n] BY <1>1
  <2> HIDE DEF q
  <2> QED BY <1>2, <2>1
<1>3. CASE x \in Own(<<0, 0>>, root)
  <2>1. 1 \in DOMAIN Held /\ Held[1] = root BY HeldParts
  <2>2. x[2][1] = root.ptr BY <1>0, <1>3
  <2> QED BY <1>2, <2>1, <2>2
<1>4. CASE x \in OwnStack(0, stack)
  <2>1. PICK k \in 1 .. Len(stack) : x \in Own(<<0, k>>, Nth(stack, k)) BY <1>4 DEF OwnStack
  <2> DEFINE m == Len(stack) + 1 - k
             n == 1 + m
  <2>2. m \in 1 .. Len(stack) /\ n \in DOMAIN Held BY HeldParts
  <2>3. Held[n] = Nth(stack, k) BY <2>2, HeldParts DEF Nth
  <2>4. x[2][1] = Nth(stack, k).ptr BY <1>0, <2>1
  <2> HIDE DEF n
  <2> QED BY <1>2, <2>2, <2>3, <2>4
<1>5. CASE x \in OwnStack(-1, Pending)
  <2>1. PICK k \in 1 .. Len(Pending) : x \in Own(<<-1, k>>, Nth(Pending, k)) BY <1>5 DEF OwnStack
  <2> DEFINE m == Len(Pending) + 1 - k
             n == 1 + Len(stack) + m
  <2>2. m \in 1 .. Len(work) /\ n \in DOMAIN Held BY HeldParts
  <2>3. Held[n] = Nth(Pending, k) BY <2>2, HeldParts DEF Nth
  <2>4. x[2][1] = Nth(Pending, k).ptr BY <1>0, <2>1
  <2> HIDE DEF n
  <2> QED BY <1>2, <2>2, <2>3, <2>4
<1>6. CASE x \in OwnHeap(heap, Dying)
  <2>1. PICK b \in DOMAIN heap \ Dying : x \in OwnArray(b, heap[b].elems) BY <1>6 DEF OwnHeap
  <2>2. PICK n \in 1 .. Len(heap[b].elems) : x \in Own(<<b, n>>, heap[b].elems[n])
    BY <2>1 DEF OwnArray
  <2>3. heap[b].elems \in Seq(Entry) /\ b # NULL BY DEF MemoryInv, Shape, TypeOK, Block, NULL
  <2>4. n \in DOMAIN heap[b].elems BY <2>2, <2>3, LenProperties
  <2> DEFINE p == <<b, n>>
  <2>5. p \in Places BY <2>4 DEF Places
  <2>6. p[1] = b /\ p[2] = n OBVIOUS
  <2> HIDE DEF p
  <2>7. At(p) = heap[b].elems[n] BY <2>3, <2>6 DEF At
  <2> QED BY <1>0, <2>2, <2>5, <2>7
<1> QED BY <1>3, <1>4, <1>5, <1>6 DEF Owners

\* One owner in a place is what Ownership counts.
LEMMA OnceIsOwnership == ASSUME MemoryInv PROVE Ownership
<1> DEFINE X(p) == <<PlaceOf(p), Pointer(At(p))>>
<1>1. ASSUME NEW p \in Places, At(p).ptr # NULL
      PROVE  /\ X(p) \in Owners /\ At(p).ptr \in DOMAIN heap
             /\ Pointer(At(p)) = <<At(p).ptr, What(heap[At(p).ptr])>>
  <2>1. Own(PlaceOf(p), At(p)) \subseteq Owners BY PlaceOwns
  <2>2. At(p).ptr \in DOMAIN heap /\ Holds(At(p)) = What(heap[At(p).ptr])
    BY <1>1, <2>1, OwnedBlock DEF MemoryInv
  <2> QED BY <1>1, <2>1, <2>2 DEF Own, Pointer
<1>2. NULL \notin DOMAIN heap BY DEF MemoryInv, Shape, TypeOK, NULL
<1>3. ASSUME NEW b \in DOMAIN heap
      PROVE  Cardinality({p \in Places : At(p).ptr = b}) = 1
  <2> DEFINE z == <<b, What(heap[b])>>
  <2>1. z \in Live(heap) /\ z[1] = b BY DEF Live
  <2> HIDE DEF z
  <2>2. PICK x \in Owners : x[2] = z BY <2>1 DEF MemoryInv, Once
  <2>3. PICK p \in Places : At(p).ptr = b BY <2>1, <2>2, OwnerPlaced
  <2>4. ASSUME NEW r \in Places, At(r).ptr = b PROVE r = p
    <3>1. X(p) \in Owners /\ X(r) \in Owners BY <1>1, <1>2, <2>3, <2>4
    <3>2. Pointer(At(p)) = Pointer(At(r)) BY <1>1, <1>2, <2>3, <2>4
    <3> DEFINE u == X(p)
               v == X(r)
    <3>3. u[2] = v[2] /\ u[1] = PlaceOf(p) /\ v[1] = PlaceOf(r) BY <3>2
    <3> HIDE DEF u, v
    <3>4. u = v BY <3>1, <3>3 DEF MemoryInv, Once, u, v
    <3> QED BY <3>3, <3>4, PlacesDiffer
  <2>5. {r \in Places : At(r).ptr = b} = {p} BY <2>3, <2>4
  <2> QED BY <2>5, FS_Singleton
<1> QED BY <1>1, <1>3 DEF Ownership

\* Every block has exactly one owner at every moment of parse, of the unwinding
\* after an error at any depth, and of kevs_free, for every document, however
\* deep, and for every session of calls.
THEOREM MemoryIsOwned == Spec => []Ownership
<1>1. MemoryInv => Ownership BY OnceIsOwnership
<1> QED BY <1>1, MemoryInvariant, PTL

=============================================================================
