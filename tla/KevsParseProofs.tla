--------------------------- MODULE KevsParseProofs ----------------------------
(***************************************************************************)
(* The results of the parser, for all documents and all sessions: the keys *)
(* of a table are unique, what is lent out stays, nothing is leaked, no    *)
(* more is asked of the scanner than its grammar, exactly the streams of   *)
(* tokens that mean something are accepted, and the table stands for them. *)
(***************************************************************************)
EXTENDS ParserProofs, Meaning, WellFoundedInduction

-----------------------------------------------------------------------------
(* The keys.                                                               *)

\* Every entry in sight is an owner, if it points to a block.
LEMMA OwnersAt ==
  ASSUME MemoryInv
  PROVE  /\ Own(<<0, 0>>, root) \subseteq Owners
         /\ \A n \in 1 .. Len(stack) : Own(<<0, Len(stack) + 1 - n>>, stack[n]) \subseteq Owners
         /\ \A n \in 1 .. Len(work) : Own(<<-1, Len(work) + 1 - n>>, work[n].of) \subseteq Owners
         /\ \A b \in DOMAIN heap \ Dying : \A n \in 1 .. Len(heap[b].elems) :
              Own(<<b, n>>, heap[b].elems[n]) \subseteq Owners
<1>1. Len(stack) \in Nat /\ Len(work) \in Nat /\ Len(Pending) = Len(work)
      /\ \A n \in 1 .. Len(work) : Pending[n] = work[n].of
  BY PendingSeq, LenProperties DEF MemoryInv, Shape, TypeOK
<1>2. \A s, a : \A n \in 1 .. Len(s) : Len(s) \in Nat =>
        Own(<<a, Len(s) + 1 - n>>, s[n]) \subseteq OwnStack(a, s)
  <2> SUFFICES ASSUME NEW s, NEW a, NEW n \in 1 .. Len(s), Len(s) \in Nat
               PROVE  Own(<<a, Len(s) + 1 - n>>, s[n]) \subseteq OwnStack(a, s)
    OBVIOUS
  <2> DEFINE k == Len(s) + 1 - n
  <2>1. k \in 1 .. Len(s) /\ Len(s) + 1 - k = n OBVIOUS
  <2>2. Nth(s, k) = s[n] BY <2>1 DEF Nth
  <2> HIDE DEF k
  <2>3. Own(<<a, k>>, s[n]) \subseteq OwnStack(a, s) BY <2>1, <2>2 DEF OwnStack
  <2> QED BY <2>3 DEF k
<1>3. \A n \in 1 .. Len(stack) : Own(<<0, Len(stack) + 1 - n>>, stack[n]) \subseteq Owners
  BY <1>1, <1>2 DEF Owners
<1>4. \A n \in 1 .. Len(work) : Own(<<-1, Len(work) + 1 - n>>, work[n].of) \subseteq Owners
  <2> DEFINE po == Pending
  <2>1. \A n \in 1 .. Len(po) : Own(<<-1, Len(po) + 1 - n>>, po[n]) \subseteq OwnStack(-1, po)
    <3> HIDE DEF po
    <3> SUFFICES Len(po) \in Nat BY <1>2
    <3> QED BY <1>1 DEF po
  <2> QED BY <1>1, <2>1 DEF Owners
<1>5. \A b \in DOMAIN heap \ Dying : \A n \in 1 .. Len(heap[b].elems) :
        Own(<<b, n>>, heap[b].elems[n]) \subseteq Owners
  BY DEF Owners, OwnHeap, OwnArray
<1> QED BY <1>3, <1>4, <1>5 DEF Owners

\* Entries in two places never point to the same block.
LEMMA OneOwner ==
  ASSUME MemoryInv, NEW p, NEW e, NEW q, NEW f, Own(p, e) \subseteq Owners,
         Own(q, f) \subseteq Owners, p # q, e.ptr # NULL
  PROVE  e.ptr \in DOMAIN heap /\ f.ptr # e.ptr
<1>1. e.ptr \in DOMAIN heap /\ Holds(e) = What(heap[e.ptr]) BY OwnedBlock DEF MemoryInv
<1>2. SUFFICES ASSUME f.ptr = e.ptr PROVE FALSE BY <1>1
<1>3. Holds(f) = What(heap[f.ptr]) BY <1>2, OwnedBlock DEF MemoryInv
<1>4. Pointer(f) = Pointer(e) BY <1>1, <1>2, <1>3 DEF Pointer
<1> DEFINE x == <<p, Pointer(e)>>
           y == <<q, Pointer(f)>>
<1>5. x \in Owners /\ y \in Owners BY <1>2 DEF Own
<1>6. x[1] = p /\ y[1] = q /\ x[2] = y[2] BY <1>4
<1> HIDE DEF x, y
<1> QED BY <1>5, <1>6 DEF MemoryInv, Once

\* Container and UniqueKeys of a given heap and stack.
Unused(h, k, p) ==
  k # NoKey => \A n \in 1 .. Len(ElemsIn(h, p)) : ElemsIn(h, p)[n].key # k

Outer(s, r, n) == IF n = Len(s) THEN r ELSE s[n + 1]

\* The key of every value under construction is new where it will be stored.
KeysNew(h, s, r) == \A n \in 1 .. Len(s) : Unused(h, s[n].key, Outer(s, r, n).ptr)

UniqueIn(es) ==
  \A m, n \in 1 .. Len(es) : m # n /\ es[m].key # NoKey => es[m].key # es[n].key

\* No key occurs twice in a table, nor in the table it is about to enter.
KeysInv ==
  /\ \A b \in DOMAIN heap : UniqueIn(heap[b].elems)
  /\ pc # "unwind" => KeysNew(heap, stack, root)
  /\ pc = "sep" => Unused(heap, key, Container.ptr)

\* Steps that change neither.
LEMMA SameKeys ==
  ASSUME KeysInv, UNCHANGED <<stack, root, heap>>, pc' # "sep",
         pc' = pc \/ pc # "unwind" \/ stack = <<>>
  PROVE  KeysInv'
<1>1. stack = <<>> => KeysNew(heap, stack, root) BY DEF KeysNew
<1> QED BY <1>1 DEF KeysInv

\* Another value on top of the stack.
LEMMA OuterPush ==
  ASSUME NEW S, NEW s \in Seq(S), NEW e \in S, NEW r, NEW h, KeysNew(h, s, r),
         Unused(h, e.key, (IF s = <<>> THEN r ELSE Head(s)).ptr)
  PROVE  KeysNew(h, <<e>> \o s, r)
<1> DEFINE t == <<e>> \o s
           L == Len(s)
<1>1. /\ Len(t) = L + 1 /\ L \in Nat /\ t[1] = e
      /\ \A n \in 1 .. L : t[n + 1] = s[n]
  OBVIOUS
<1> HIDE DEF t
<1>2. ASSUME NEW n \in 1 .. L + 1 PROVE Unused(h, t[n].key, Outer(t, r, n).ptr)
  <2>1. CASE n = 1
    <3>1. s = <<>> => Outer(t, r, 1) = r BY <1>1, EmptySeq DEF Outer
    <3>2. s # <<>> => Outer(t, r, 1) = Head(s)
      <4> SUFFICES ASSUME s # <<>> PROVE Outer(t, r, 1) = Head(s) OBVIOUS
      <4>1. L # 0 /\ 1 \in 1 .. L /\ Head(s) = s[1] BY <1>1, EmptySeq, HeadTailProperties
      <4>2. 1 # L + 1 BY <1>1, <4>1
      <4> QED BY <1>1, <4>1, <4>2 DEF Outer
    <3> QED BY <1>1, <2>1, <3>1, <3>2
  <2>2. CASE n # 1
    <3> DEFINE m == n - 1
    <3>1. m \in 1 .. L /\ n = m + 1 BY <1>1, <2>2
    <3> HIDE DEF m
    <3>2. t[n] = s[m] BY <1>1, <3>1
    <3>3. Outer(t, r, n) = Outer(s, r, m)
      <4>1. CASE m = L BY <1>1, <3>1, <4>1 DEF Outer
      <4>2. CASE m # L
        <5>1. m + 1 \in 1 .. L /\ n # L + 1 BY <1>1, <3>1, <4>2
        <5>2. t[n + 1] = s[m + 1] BY <1>1, <3>1, <5>1
        <5> QED BY <1>1, <4>2, <5>1, <5>2 DEF Outer
      <4> QED BY <4>1, <4>2
    <3>4. Unused(h, s[m].key, Outer(s, r, m).ptr) BY <3>1 DEF KeysNew
    <3> QED BY <3>2, <3>3, <3>4
  <2> QED BY <2>1, <2>2
<1>3. KeysNew(h, t, r) BY <1>1, <1>2 DEF KeysNew
<1> QED BY <1>3 DEF t

\* The same entry with another pointer, or another kind, under the same key.
LEMMA OuterTop ==
  ASSUME NEW S, NEW s \in Seq(S), s # <<>>, NEW t \in Seq(S), t # <<>>, Tail(t) = Tail(s),
         Head(t).key = Head(s).key, NEW r, NEW h, KeysNew(h, s, r)
  PROVE  KeysNew(h, t, r)
<1>1. /\ Len(s) \in Nat \ {0} /\ Len(t) = Len(s) /\ t[1].key = s[1].key
      /\ \A n \in 1 .. Len(s) : n # 1 => t[n] = s[n]
  <2>1. /\ Len(Tail(s)) = Len(s) - 1 /\ Len(Tail(t)) = Len(t) - 1
        /\ Head(s) = s[1] /\ Head(t) = t[1] /\ Len(s) \in Nat \ {0} /\ Len(t) \in Nat \ {0}
        /\ \A n \in 1 .. Len(s) - 1 : Tail(s)[n] = s[n + 1]
        /\ \A n \in 1 .. Len(t) - 1 : Tail(t)[n] = t[n + 1]
    BY HeadTailProperties, EmptySeq, LenProperties
  <2>2. Len(t) = Len(s)
    <3> DEFINE m == Len(s)
               n == Len(t)
    <3>1. m \in Nat /\ n \in Nat /\ n - 1 = m - 1 BY <2>1, Zenon
    <3> HIDE DEF m, n
    <3>2. n = m BY <3>1
    <3> QED BY <3>2 DEF m, n
  <2>3. ASSUME NEW n \in 1 .. Len(s), n # 1 PROVE t[n] = s[n]
    <3> DEFINE m == Len(s)
    <3>1. m \in Nat /\ n \in 1 .. m BY <2>1
    <3> HIDE DEF m
    <3>2. n - 1 \in 1 .. m - 1 /\ (n - 1) + 1 = n BY <2>3, <3>1
    <3> QED BY <2>1, <2>2, <3>2 DEF m
  <2> QED BY <2>1, <2>2, <2>3
<1>2. ASSUME NEW n \in 1 .. Len(t) PROVE Unused(h, t[n].key, Outer(t, r, n).ptr)
  <2>1. Unused(h, s[n].key, Outer(s, r, n).ptr) BY <1>1 DEF KeysNew
  <2>2. t[n].key = s[n].key BY <1>1
  <2>3. Outer(t, r, n) = Outer(s, r, n)
    <3>1. CASE n = Len(s) BY <1>1, <3>1 DEF Outer
    <3>2. CASE n # Len(s)
      <4>1. n + 1 \in 1 .. Len(s) /\ n + 1 # 1 BY <1>1, <3>2
      <4>2. t[n + 1] = s[n + 1] BY <1>1, <4>1
      <4> QED BY <1>1, <3>2, <4>2 DEF Outer
    <3> QED BY <3>1, <3>2
  <2> QED BY <2>1, <2>2, <2>3
<1> QED BY <1>2 DEF KeysNew

\* The array parse_key looks at is live.
LEMMA ContainerElems ==
  ASSUME MemoryInv
  PROVE  Elems(Container.ptr) \in Seq(Entry)
<1>1. CASE stack = <<>>
  BY <1>1, HeldBlocks, HeldElems DEF Container, MemoryInv, Shape, TypeOK
<1>2. CASE stack # <<>>
  <2>1. Head(stack) \in Entry BY <1>2, HeadTailProperties DEF MemoryInv, Shape, TypeOK
  <2> QED BY <1>2, <2>1, HeldBlocks, HeldElems DEF Container
<1> QED BY <1>1, <1>2

\* parse_key: the keys.
LEMMA ParseKeyKeys == ASSUME MemoryInv, KeysInv, ParseKey PROVE KeysInv'
<1>1. UNCHANGED <<stack, root, heap>> /\ pc = "pair" BY DEF ParseKey, AtPair
<1>2. CASE pc' # "sep" BY <1>1, <1>2, SameKeys
<1>3. CASE pc' = "sep"
  <2>1. IsUnique(key') BY <1>3 DEF ParseKey, Fail
  <2>2. \A n \in DOMAIN Elems(Container.ptr) : Elems(Container.ptr)[n].key # key'
    BY <2>1 DEF IsUnique
  <2>3. Elems(Container.ptr) = ElemsIn(heap, Container.ptr) BY DEF Elems, ElemsIn
  <2>4. Elems(Container.ptr) \in Seq(Entry) BY ContainerElems
  <2>5. Unused(heap, key', Container.ptr)
    <3> DEFINE es == Elems(Container.ptr)
    <3>1. DOMAIN es = 1 .. Len(es) BY <2>4, LenProperties
    <3> HIDE DEF es
    <3>2. \A n \in 1 .. Len(es) : es[n].key # key' BY <2>2, <3>1 DEF es
    <3> QED BY <2>3, <3>2 DEF Unused, es
  <2>6. Container' = Container BY <1>1 DEF Container
  <2> QED BY <1>1, <1>3, <2>5, <2>6 DEF KeysInv
<1> QED BY <1>2, <1>3

\* parse_delim, after a key: the keys.
LEMMA ParseSeparatorKeys == ASSUME MemoryInv, KeysInv, ParseSeparator PROVE KeysInv'
<1>1. UNCHANGED <<root, heap>> /\ pc = "sep" /\ pc' # "sep" BY DEF ParseSeparator, Fail
<1>2. CASE stack' = stack BY <1>1, <1>2, SameKeys
<1>3. CASE stack' = <<Undefined(key)>> \o stack
  <2> DEFINE e == Undefined(key)
  <2>1. e \in Entry /\ e.key = key BY DEF Undefined, Entry, NULL, MemoryInv, Shape, TypeOK
  <2>2. stack \in Seq(Entry) BY DEF MemoryInv, Shape, TypeOK
  <2>3. Unused(heap, e.key, (IF stack = <<>> THEN root ELSE Head(stack)).ptr)
    BY <1>1, <2>1 DEF KeysInv, Container
  <2>4. KeysNew(heap, stack, root) BY <1>1 DEF KeysInv
  <2> HIDE DEF e
  <2>5. KeysNew(heap, <<e>> \o stack, root) BY <2>1, <2>2, <2>3, <2>4, OuterPush
  <2> QED BY <1>1, <1>3, <2>5 DEF KeysInv, e
<1> QED BY <1>2, <1>3 DEF ParseSeparator

\* The loops of parse, parse_list_value and parse_table_value: the keys.
LEMMA ParseLoopKeys == ASSUME MemoryInv, KeysInv, ParseLoop PROVE KeysInv'
<1>1. UNCHANGED <<root, heap>> /\ pc = "loop" /\ pc' # "sep" BY DEF ParseLoop
<1>2. CASE stack' = stack BY <1>1, <1>2, SameKeys
<1>3. CASE stack' = <<Undefined(NoKey)>> \o stack
  <2> DEFINE e == Undefined(NoKey)
  <2>1. e \in Entry /\ e.key = NoKey BY DEF Undefined, Entry, NULL
  <2>2. stack \in Seq(Entry) BY DEF MemoryInv, Shape, TypeOK
  <2>3. Unused(heap, e.key, (IF stack = <<>> THEN root ELSE Head(stack)).ptr)
    BY <2>1 DEF Unused
  <2>4. KeysNew(heap, stack, root) BY <1>1 DEF KeysInv
  <2> HIDE DEF e
  <2>5. KeysNew(heap, <<e>> \o stack, root) BY <2>1, <2>2, <2>3, <2>4, OuterPush
  <2> QED BY <1>1, <1>3, <2>5 DEF KeysInv, e
<1> QED BY <1>2, <1>3 DEF ParseLoop

\* The key of out stays what it is.
LEMMA OutKey ==
  ASSUME stack \in Seq(Entry), stack # <<>>, NEW kind, NEW data, NEW p, Out(kind, data, p)
  PROVE  Head(stack').key = Head(stack).key
<1> DEFINE e == Head(stack)
           f == [e EXCEPT !.kind = kind, !.data = data, !.ptr = p]
           t == Tail(stack)
<1>1. e \in Entry /\ t \in Seq(Entry) BY HeadTailProperties
<1>2. stack' = <<f>> \o t BY DEF Out
<1> HIDE DEF e, t
<1>3. f.key = e.key BY <1>1 DEF Entry
<1> HIDE DEF f
<1>4. Head(<<f>> \o t) = f BY <1>1
<1> QED BY <1>2, <1>3, <1>4 DEF e

\* parse_list_value, parse_table_value and parse_simple_value keep the key of their out.
LEMMA OutKeys ==
  ASSUME MemoryInv, stack # <<>>, NEW h, KeysNew(h, stack, root),
         NEW kind \in {"string", "integer", "boolean", "list", "table"},
         NEW data \in Literals \cup {NoData}, NEW p \in Nat, Out(kind, data, p)
  PROVE  KeysNew(h, stack', root)
<1>1. stack \in Seq(Entry) BY DEF MemoryInv, Shape, TypeOK
<1>2. stack' \in Seq(Entry) /\ stack' # <<>> /\ Tail(stack') = Tail(stack)
  BY <1>1, OutStep
<1>3. Head(stack').key = Head(stack).key BY <1>1, OutKey
<1> DEFINE s == stack
           t == stack'
<1>4. /\ s \in Seq(Entry) /\ s # <<>> /\ t \in Seq(Entry) /\ t # <<>> /\ Tail(t) = Tail(s)
      /\ Head(t).key = Head(s).key /\ KeysNew(h, s, root)
  BY <1>1, <1>2, <1>3
<1> HIDE DEF s, t
<1>5. KeysNew(h, t, root) BY <1>4, OuterTop
<1> QED BY <1>5 DEF t

\* parse_list_value and parse_table_value, on the way in: the keys.
LEMMA ParseOpenKeys ==
  ASSUME MemoryInv, KeysInv, NEW bracket, NEW kind \in {"list", "table"}, ParseOpen(bracket, kind)
  PROVE  KeysInv'
<1>1. /\ stack # <<>> /\ Out(kind, NoData, NULL) /\ NULL \in Nat
      /\ NoData \in Literals \cup {NoData} /\ pc = "value" /\ pc' = "loop"
      /\ kind \in {"string", "integer", "boolean", "list", "table"}
      /\ UNCHANGED <<root, heap>>
  BY DEF MemoryInv, Shape, TypeOK, Control, ParseOpen, NULL
<1>2. KeysNew(heap, stack, root) BY <1>1 DEF KeysInv
<1>3. KeysNew(heap, stack', root) BY <1>1, <1>2, OutKeys
<1> QED BY <1>1, <1>3 DEF KeysInv

\* parse_simple_value, of an integer or a boolean: the keys.
LEMMA ParseScalarKeys == ASSUME MemoryInv, KeysInv, ParseScalar PROVE KeysInv'
<1> DEFINE c == Class[tokens[i].sym]
<1>1. /\ stack # <<>> /\ Out(c, tokens[i].sym, NULL) /\ NULL \in Nat
      /\ c \in {"string", "integer", "boolean", "list", "table"}
      /\ UNCHANGED <<root, heap>> /\ pc = "value" /\ pc' = "end"
  BY DEF MemoryInv, Shape, TypeOK, Control, ParseScalar, NULL
<1> HIDE DEF c
<1>2. tokens[i].sym \in Literals BY CurrentToken DEF ParseScalar, Expect
<1>3. KeysNew(heap, stack, root) BY <1>1 DEF KeysInv
<1>4. KeysNew(heap, stack', root) BY <1>1, <1>2, <1>3, OutKeys
<1> QED BY <1>1, <1>4 DEF KeysInv

\* A heap that has the arrays of another one has the keys in them too.
LEMMA KeysSameIn ==
  ASSUME NEW h, NEW g, NEW k, NEW p, p # NULL => g[p] = h[p], Unused(h, k, p)
  PROVE  Unused(g, k, p)
<1>1. ElemsIn(g, p) = ElemsIn(h, p) BY DEF ElemsIn
<1> QED BY <1>1 DEF Unused

\* A value on the stack is in a live array, or in one that is still empty.
LEMMA OuterLive ==
  ASSUME MemoryInv, NEW n \in 1 .. Len(stack), NEW c, c = Outer(stack, root, n)
  PROVE  /\ \E place : /\ Own(place, c) \subseteq Owners
                       /\ place = IF n = Len(stack) THEN <<0, 0>> ELSE <<0, Len(stack) - n>>
         /\ c.ptr # NULL => c.ptr \in DOMAIN heap
<1>0. Len(stack) \in Nat BY LenProperties DEF MemoryInv, Shape, TypeOK
<1>1. CASE n = Len(stack)
  <2>1. c = root BY <1>1 DEF Outer
  <2>2. Own(<<0, 0>>, c) \subseteq Owners BY <2>1, OwnersAt
  <2> QED BY <1>1, <2>2, OwnedBlock DEF MemoryInv
<1>2. CASE n # Len(stack)
  <2> DEFINE m == n + 1
             k == Len(stack) + 1 - m
  <2>1. m \in 1 .. Len(stack) /\ k = Len(stack) - n BY <1>0, <1>2
  <2>2. c = stack[m] BY <1>2 DEF Outer
  <2> HIDE DEF m
  <2>3. Own(<<0, k>>, c) \subseteq Owners BY <2>1, <2>2, OwnersAt
  <2> HIDE DEF k
  <2>4. <<0, k>> = <<0, Len(stack) - n>> BY <2>1
  <2> QED BY <1>2, <2>3, <2>4, OwnedBlock DEF MemoryInv
<1> QED BY <1>1, <1>2

\* parse_simple_value, of a string: the keys.
LEMMA ParseStringKeys == ASSUME MemoryInv, KeysInv, ParseString PROVE KeysInv'
<1>1. /\ stack # <<>> /\ Out("string", tokens[i].sym, fresh) /\ fresh \in Nat
      /\ DOMAIN heap \subseteq 1 .. fresh - 1 /\ root' = root /\ pc = "value" /\ pc' = "end"
      /\ DOMAIN heap' = DOMAIN heap \cup {fresh} /\ fresh \notin DOMAIN heap
      /\ heap'[fresh] = [cap |-> 0, elems |-> <<>>]
      /\ \A b \in DOMAIN heap : heap'[b] = heap[b]
  BY DEF MemoryInv, Shape, TypeOK, Control, ParseString
<1>2. tokens[i].sym \in Literals BY CurrentToken DEF ParseString, Expect
<1>3. KeysNew(heap', stack, root)
  <2> SUFFICES ASSUME NEW n \in 1 .. Len(stack)
               PROVE  Unused(heap', stack[n].key, Outer(stack, root, n).ptr)
    BY DEF KeysNew
  <2> DEFINE p == Outer(stack, root, n).ptr
  <2>1. p # NULL => p \in DOMAIN heap BY OuterLive
  <2>2. Unused(heap, stack[n].key, p) BY <1>1 DEF KeysInv, KeysNew
  <2> HIDE DEF p
  <2>3. Unused(heap', stack[n].key, p) BY <1>1, <2>1, <2>2, KeysSameIn
  <2> QED BY <2>3 DEF p
<1>4. KeysNew(heap', stack', root)
  <2> DEFINE h == heap'
  <2>1. KeysNew(h, stack, root) BY <1>3
  <2> HIDE DEF h
  <2>2. KeysNew(h, stack', root) BY <1>1, <1>2, <2>1, OutKeys
  <2> QED BY <2>2 DEF h
<1>5. \A b \in DOMAIN heap' : UniqueIn(heap'[b].elems)
  <2>1. UniqueIn(<<>>) BY DEF UniqueIn
  <2> QED BY <1>1, <2>1 DEF KeysInv
<1> QED BY <1>1, <1>4, <1>5 DEF KeysInv

\* A function that returns its error: the keys.
LEMMA UnwindKeys == ASSUME MemoryInv, KeysInv, Unwind PROVE KeysInv'
BY DEF KeysInv, Unwind

\* kevs_free, called: the keys.
LEMMA KevsFreeKeys == ASSUME MemoryInv, KeysInv, KevsFree PROVE KeysInv'
<1>1. stack = <<>> BY DEF MemoryInv, Shape, Control, KevsFree
<1>2. KeysNew(heap, stack, root') BY <1>1 DEF KeysNew
<1> QED BY <1>2 DEF KeysInv, KevsFree

\* free takes no part in the keys.
LEMMA FreeKeys ==
  ASSUME MemoryInv, KeysInv, work # <<>>, NEW p, Free(p), UNCHANGED <<stack, root, pc>>
  PROVE  KeysInv'
<1>1. pc \in {"unwind", "freeing"} BY NextCall
<1>2. \A b \in DOMAIN heap' : UniqueIn(heap'[b].elems) BY FreeKept DEF KeysInv
<1>3. pc # "unwind" => KeysNew(heap', stack, root)
  BY <1>1 DEF MemoryInv, Shape, Control, KeysNew
<1> QED BY <1>1, <1>2, <1>3 DEF KeysInv

\* The array a value is appended to, against the others on the stack.
LEMMA AppendTarget ==
  ASSUME MemoryInv, AppendValue
  PROVE  /\ Len(stack) \in Nat \ {0} /\ Target = Outer(stack, root, 1)
         /\ \E place : /\ Own(place, Target) \subseteq Owners
                       /\ place = IF Len(stack) = 1 THEN <<0, 0>> ELSE <<0, Len(stack) - 1>>
         /\ Own(<<0, Len(stack)>>, stack[1]) \subseteq Owners
         /\ stack[1] = Head(stack) /\ Elems(Target.ptr) = ElemsIn(heap, Target.ptr)
         /\ Elems(Target.ptr) \in Seq(Entry)
<1>1. /\ Len(stack) \in Nat \ {0} /\ stack \in Seq(Entry) /\ stack # <<>>
      /\ Own(IF Len(stack) = 1 THEN <<0, 0>> ELSE <<0, Len(stack) - 1>>, Target) \subseteq Owners
  BY AppendContainer, AppendFacts DEF AppendValue, MemoryInv, Shape, TypeOK, Control
<1>2. stack[1] = Head(stack) BY <1>1, HeadTailProperties
<1>3. Own(<<0, Len(stack)>>, stack[1]) \subseteq Owners BY <1>1, <1>2, HeldBlocks
<1>4. Target = Outer(stack, root, 1)
  <2>1. 1 + 1 = 2 OBVIOUS
  <2> QED BY <1>1, <2>1 DEF Target, Outer
<1> QED BY <1>1, <1>2, <1>3, <1>4, AppendFacts DEF Elems, ElemsIn

\* What is in another array than the one that grows stays there.
LEMMA AppendElsewhere ==
  ASSUME MemoryInv, AppendValue, NEW place, NEW c, Own(place, c) \subseteq Owners,
         place # IF Len(stack) = 1 THEN <<0, 0>> ELSE <<0, Len(stack) - 1>>, c.ptr # NULL
  PROVE  /\ c.ptr \in DOMAIN heap /\ c.ptr \in DOMAIN heap'
         /\ c.ptr # Moved /\ heap'[c.ptr] = heap[c.ptr]
<1>1. PICK q : /\ Own(q, Target) \subseteq Owners
               /\ q = IF Len(stack) = 1 THEN <<0, 0>> ELSE <<0, Len(stack) - 1>>
  BY AppendTarget
<1>2. c.ptr \in DOMAIN heap /\ Target.ptr # c.ptr BY <1>1, OneOwner
<1>3. c.ptr # Moved BY <1>2, AppendFacts
<1>4. c.ptr \in DOMAIN heap' BY <1>2, AppendFacts
<1> QED BY <1>2, <1>3, <1>4, AppendFacts

\* An array and another element, whose key is new in it.
LEMMA UniqueAppend ==
  ASSUME NEW S, NEW es \in Seq(S), NEW e \in S, UniqueIn(es),
         e.key # NoKey => \A n \in 1 .. Len(es) : es[n].key # e.key
  PROVE  UniqueIn(Append(es, e))
<1> DEFINE t == Append(es, e)
           L == Len(es)
<1>1. /\ Len(t) = L + 1 /\ L \in Nat /\ t[L + 1] = e /\ \A k \in 1 .. L : t[k] = es[k]
  BY AppendProperties, LenProperties
<1> HIDE DEF t, L
<1>2. ASSUME NEW m \in 1 .. L + 1, NEW n \in 1 .. L + 1, m # n, t[m].key # NoKey
      PROVE  t[m].key # t[n].key
  <2>1. CASE m = L + 1
    <3>1. n \in 1 .. L BY <1>1, <1>2, <2>1
    <3> QED BY <1>1, <1>2, <2>1, <3>1 DEF L
  <2>2. CASE n = L + 1
    <3>1. m \in 1 .. L BY <1>1, <1>2, <2>2
    <3>2. t[m] = es[m] /\ t[n] = e BY <1>1, <2>2, <3>1
    <3>3. e.key # NoKey => es[m].key # e.key BY <3>1 DEF L
    <3> QED BY <1>2, <3>2, <3>3
  <2>3. CASE m # L + 1 /\ n # L + 1
    <3>1. m \in 1 .. L /\ n \in 1 .. L BY <1>1, <2>3
    <3> QED BY <1>1, <1>2, <3>1 DEF UniqueIn, L
  <2> QED BY <2>1, <2>2, <2>3
<1>3. UniqueIn(t) BY <1>1, <1>2 DEF UniqueIn
<1> QED BY <1>3 DEF t

\* The stack after an append.
LEMMA AppendStack ==
  ASSUME MemoryInv, AppendValue, NEW n \in 1 .. Len(stack')
  PROVE  /\ n + 1 \in 1 .. Len(stack) /\ Len(stack) # 1 /\ Len(stack') = Len(stack) - 1
         /\ stack'[n].key = stack[n + 1].key
         /\ n # 1 => stack'[n] = stack[n + 1]
         /\ n = 1 => stack'[n].ptr = Moved
         /\ Outer(stack', root', n) = Outer(stack, root, n + 1)
<1> DEFINE L == Len(stack)
           t == Tail(Tail(stack))
           c == [stack[2] EXCEPT !.ptr = Moved]
           u == stack'
<1>1. L \in Nat \ {0} /\ stack \in Seq(Entry)
  BY AppendTarget DEF MemoryInv, Shape, TypeOK
<1>2. L # 1
  <2>1. SUFFICES ASSUME L = 1 PROVE FALSE OBVIOUS
  <2>2. stack' = <<>> BY <2>1, AppendFacts
  <2>3. Len(stack') = 0 BY <2>2
  <2> QED BY <2>3
<1>3. /\ stack[2] \in Entry /\ t \in Seq(Entry) /\ u = <<c>> \o t /\ root' = root
  BY <1>2, AppendFacts, AppendContainer DEF Target
<1>4. Len(t) = L - 2 /\ \A k \in 1 .. L - 2 : t[k] = stack[k + 2]
  <2> DEFINE s == Tail(stack)
  <2>1. s \in Seq(Entry) /\ s # <<>> /\ Len(s) = L - 1 /\ \A k \in 1 .. L - 1 : s[k] = stack[k + 1]
    <3>1. stack # <<>> BY AppendFacts DEF MemoryInv, Shape, Control
    <3> QED BY <1>1, <3>1, HeadTailProperties, AppendContainer, AppendFacts, <1>2
  <2> HIDE DEF s
  <2>2. Len(Tail(s)) = Len(s) - 1 /\ \A k \in 1 .. Len(s) - 1 : Tail(s)[k] = s[k + 1]
    BY <2>1, HeadTailProperties
  <2>3. Len(Tail(s)) = L - 2 BY <1>1, <2>1, <2>2
  <2>4. ASSUME NEW k \in 1 .. L - 2 PROVE Tail(s)[k] = stack[k + 2]
    <3>1. k \in 1 .. Len(s) - 1 /\ k + 1 \in 1 .. L - 1 /\ (k + 1) + 1 = k + 2
      BY <1>1, <2>1
    <3> QED BY <2>1, <2>2, <3>1
  <2> QED BY <2>3, <2>4 DEF s
<1>5. c.key = stack[2].key /\ c.ptr = Moved BY <1>3 DEF Entry
<1> HIDE DEF c, t
<1>6. Len(u) = L - 1 /\ u[1] = c /\ \A k \in 1 .. L - 2 : u[k + 1] = stack[k + 2]
  <2>1. Len(u) = 1 + Len(t) /\ u[1] = c /\ \A k \in 1 .. Len(t) : u[k + 1] = t[k] BY <1>3
  <2> QED BY <1>1, <1>4, <2>1
<1> HIDE DEF u, L
<1>7. n \in 1 .. L - 1 BY <1>6 DEF u
<1>8. ASSUME NEW k \in 1 .. L - 1, k # 1 PROVE u[k] = stack[k + 1]
  <2> DEFINE m == k - 1
  <2>1. m \in 1 .. L - 2 /\ m + 1 = k /\ m + 2 = k + 1 BY <1>1, <1>8
  <2> HIDE DEF m
  <2> QED BY <1>6, <2>1
<1>9. u[n].key = stack[n + 1].key
  <2>1. CASE n = 1
    <3>1. n + 1 = 2 BY <2>1
    <3> QED BY <1>5, <1>6, <2>1, <3>1
  <2>2. CASE n # 1 BY <1>7, <1>8, <2>2
  <2> QED BY <2>1, <2>2
<1>10. Outer(u, root, n) = Outer(stack, root, n + 1)
  <2>1. CASE n = L - 1
    <3>1. n + 1 = L BY <1>1, <2>1
    <3> QED BY <1>6, <2>1, <3>1 DEF Outer, L
  <2>2. CASE n # L - 1
    <3>1. n + 1 \in 1 .. L - 1 /\ n + 1 # 1 /\ n + 1 # L BY <1>1, <1>7, <2>2
    <3>2. u[n + 1] = stack[(n + 1) + 1] BY <1>8, <3>1
    <3> QED BY <1>6, <2>2, <3>1, <3>2 DEF Outer, L
  <2> QED BY <2>1, <2>2
<1>11. n + 1 \in 1 .. L BY <1>1, <1>7
<1> QED BY <1>2, <1>3, <1>5, <1>6, <1>7, <1>8, <1>9, <1>10, <1>11 DEF u, L

\* list_append and table_append: the keys.
LEMMA AppendValueKeys == ASSUME MemoryInv, KeysInv, AppendValue PROVE KeysInv'
<1>1. pc = "append" /\ pc' # "sep" /\ pc' # "unwind" BY AppendFacts DEF AppendValue
<1>2. ASSUME NEW b \in DOMAIN heap' PROVE UniqueIn(heap'[b].elems)
  <2>1. CASE b # Moved BY <2>1, AppendFacts DEF KeysInv
  <2>2. CASE b = Moved
    <3> DEFINE es == Elems(Target.ptr)
               e  == Head(stack)
    <3>1. es \in Seq(Entry) /\ e \in Entry /\ heap'[b].elems = Append(es, e)
      BY <2>2, AppendFacts DEF Filled
    <3>2. UniqueIn(es)
      <4>1. UniqueIn(<<>>) BY DEF UniqueIn
      <4>2. Target.ptr # NULL => Target.ptr \in DOMAIN heap BY AppendFacts
      <4> QED BY <4>1, <4>2 DEF KeysInv, Elems
    <3>3. e.key # NoKey => \A n \in 1 .. Len(es) : es[n].key # e.key
      <4>1. 1 \in 1 .. Len(stack) BY AppendTarget
      <4>2. Unused(heap, stack[1].key, Outer(stack, root, 1).ptr)
        BY <1>1, <4>1 DEF KeysInv, KeysNew
      <4> QED BY <4>2, AppendTarget DEF Unused
    <3> HIDE DEF es, e
    <3> QED BY <3>1, <3>2, <3>3, UniqueAppend
  <2> QED BY <2>1, <2>2
<1>3. ASSUME NEW n \in 1 .. Len(stack')
      PROVE  Unused(heap', stack'[n].key, Outer(stack', root', n).ptr)
  <2> DEFINE m == n + 1
             c == Outer(stack, root, m)
             k == stack[m].key
  <2>1. /\ m \in 1 .. Len(stack) /\ Len(stack) # 1 /\ stack'[n].key = k
        /\ Outer(stack', root', n) = c
    BY AppendStack
  <2>2. Unused(heap, k, c.ptr) BY <1>1, <2>1 DEF KeysInv, KeysNew
  <2>3. m # 1 /\ Len(stack) \in Nat BY AppendTarget
  <2> HIDE DEF m
  <2>4. PICK place : /\ Own(place, c) \subseteq Owners
                     /\ place = IF m = Len(stack) THEN <<0, 0>> ELSE <<0, Len(stack) - m>>
    BY <2>1, OuterLive
  <2>5. place # <<0, Len(stack) - 1>>
    <3>1. CASE m = Len(stack)
      <4>1. place[2] = 0 /\ Len(stack) - 1 # 0 BY <2>1, <2>3, <2>4, <3>1
      <4> QED BY <4>1, SMTT(40)
    <3>2. CASE m # Len(stack)
      <4>1. place[2] = Len(stack) - m /\ Len(stack) - m # Len(stack) - 1
        BY <2>1, <2>3, <2>4, <3>2
      <4> QED BY <4>1
    <3> QED BY <3>1, <3>2
  <2>6. c.ptr # NULL => heap'[c.ptr] = heap[c.ptr] BY <2>1, <2>4, <2>5, AppendElsewhere
  <2> HIDE DEF c, k
  <2>7. Unused(heap', k, c.ptr) BY <2>2, <2>6, KeysSameIn
  <2> QED BY <2>1, <2>7
<1>4. KeysNew(heap', stack', root') BY <1>3 DEF KeysNew
<1> QED BY <1>1, <1>2, <1>4 DEF KeysInv

\* In the beginning there are no keys.
LEMMA KeysInit == ASSUME Init PROVE KeysInv
BY DEF Init, ParserInit, KeysInv, KeysNew

\* Every step keeps the keys of a table apart.
LEMMA KeysStep == ASSUME MemoryInv, KeysInv, [Next]_allvars PROVE KeysInv'
<1>1. CASE ParseKey BY <1>1, ParseKeyKeys
<1>2. CASE ParseSeparator BY <1>2, ParseSeparatorKeys
<1>3. CASE ParseList BY <1>3, ParseOpenKeys DEF ParseList
<1>4. CASE ParseTable BY <1>4, ParseOpenKeys DEF ParseTable
<1>5. CASE ParseString BY <1>5, ParseStringKeys
<1>6. CASE ParseScalar BY <1>6, ParseScalarKeys
<1>7. CASE ParseLoop BY <1>7, ParseLoopKeys
<1>8. CASE AppendValue BY <1>8, AppendValueKeys
<1>9. CASE Done \/ ParseBadValue \/ ParseValueEnd \/ ParseAfter
  BY <1>9, SameKeys DEF Done, ParseBadValue, ParseValueEnd, ParseAfter, Fail, tree
<1>10. CASE Unwind BY <1>10, UnwindKeys
<1>11. CASE KevsFree BY <1>11, KevsFreeKeys
<1>12. CASE FreeString BY <1>12, FreeKeys DEF FreeString
<1>13. CASE FreeArray BY <1>13, FreeKeys DEF FreeArray
<1>14. CASE Failed \/ KevsFreed BY <1>14, SameKeys DEF Failed, Kept, KevsFreed, tree
<1>15. CASE FreeElements \/ FreeNothing
  <2>1. pc # "sep" BY <1>15, NextCall DEF FreeElements, FreeNothing
  <2> QED BY <1>15, <2>1, SameKeys DEF FreeElements, FreeNothing, tree
<1>16. CASE Emit \/ ScanDone \/ ScanFailed \/ KevsReturn \/ KevsParseAgain
  BY <1>16, SameKeys DEF Emit, ScanDone, ScanFailed, KevsReturn, KevsParseAgain, tree
<1>17. CASE UNCHANGED allvars
  BY <1>17 DEF allvars, vars, KeysInv, Container
<1> QED
  BY <1>1, <1>2, <1>3, <1>4, <1>5, <1>6, <1>7, <1>8, <1>9, <1>10, <1>11, <1>12, <1>13, <1>14,
     <1>15, <1>16, <1>17
  DEF Next, Parse, Release

\* No table ever holds a key twice: parse_key compares a key with those of the
\* table the pair is going to be stored in, and that table is the one the pair
\* is stored in, however many values come and go in between.
THEOREM KeysAreUnique == Spec => []UniqueKeys
<1>1. Init => KeysInv BY KeysInit
<1>2. MemoryInv /\ KeysInv /\ [Next]_allvars => KeysInv' BY KeysStep
<1>3. MemoryInv /\ KeysInv => UniqueKeys
  <2> SUFFICES ASSUME MemoryInv, KeysInv, NEW b \in DOMAIN heap
               PROVE  LET es == heap[b].elems IN
                      \A m, n \in DOMAIN es : m # n /\ es[m].key # NoKey => es[m].key # es[n].key
    BY DEF UniqueKeys
  <2> DEFINE es == heap[b].elems
  <2>1. es \in Seq(Entry) /\ UniqueIn(es) BY DEF MemoryInv, Shape, TypeOK, Block, KeysInv
  <2>2. DOMAIN es = 1 .. Len(es) BY <2>1, LenProperties
  <2> HIDE DEF es
  <2>3. \A m, n \in DOMAIN es : m # n /\ es[m].key # NoKey => es[m].key # es[n].key
    BY <2>1, <2>2 DEF UniqueIn
  <2> QED BY <2>3 DEF es
<1> QED BY <1>1, <1>2, <1>3, MemoryInvariant, PTL DEF Spec

-----------------------------------------------------------------------------
(* What the lookups lend.                                                  *)

Lent == DOMAIN was.heap

\* What the caller knew before this call of kevs_parse is reached through the
\* caller's table alone, and none of it is under construction or being freed.
Apart ==
  /\ Lent \subseteq 1 .. fresh - 1
  /\ \A n \in 1 .. Len(stack) : stack[n].ptr \notin Lent
  /\ \A n \in 1 .. Len(work) : work[n].of.ptr \notin Lent
  /\ root.ptr \in Lent => root.ptr = was.root.ptr
  /\ \A b \in DOMAIN heap \ Lent :
       b # root.ptr => \A n \in 1 .. Len(heap[b].elems) : heap[b].elems[n].ptr \notin Lent
  /\ \A b \in Lent \ {was.root.ptr} : b \in DOMAIN heap /\ heap[b] = was.heap[b]

\* So it is until kevs_free, which frees what was lent.
LentInv == pc \notin {"freeing", "freed"} => Apart

\* A step that neither allocates, frees nor moves anything.
LEMMA SameLent ==
  ASSUME LentInv, UNCHANGED <<stack, root, heap, fresh, work, was>>,
         pc \in {"freeing", "freed"} => pc' \in {"freeing", "freed"}
  PROVE  LentInv'
BY DEF LentInv, Apart, Lent

\* Another entry on the stack, or another in the place of the first.
LEMMA PushLent ==
  ASSUME MemoryInv, LentInv, UNCHANGED <<root, heap, fresh, work, was>>,
         pc \notin {"freeing", "freed"}, NEW e \in Entry, e.ptr = NULL,
         stack' = <<e>> \o stack
  PROVE  LentInv'
<1>1. NULL \notin Lent BY DEF LentInv, Apart, NULL
<1>2. stack \in Seq(Entry) BY DEF MemoryInv, Shape, TypeOK
<1> DEFINE t == <<e>> \o stack
<1>3. Len(t) = Len(stack) + 1 /\ t[1] = e /\ \A n \in 1 .. Len(t) : n # 1 => t[n] = stack[n - 1]
  BY <1>2
<1> HIDE DEF t
<1>4. Len(stack) \in Nat BY <1>2
<1>5. ASSUME NEW n \in 1 .. Len(t) PROVE t[n].ptr \notin Lent
  <2>1. CASE n = 1 BY <1>1, <1>3, <2>1
  <2>2. CASE n # 1
    <3>1. n - 1 \in 1 .. Len(stack) BY <1>3, <1>4, <2>2
    <3> QED BY <1>3, <2>2, <3>1 DEF LentInv, Apart
  <2> QED BY <2>1, <2>2
<1>6. \A n \in 1 .. Len(stack') : stack'[n].ptr \notin Lent BY <1>5 DEF t
<1>7. Apart BY DEF LentInv
<1> QED BY <1>6, <1>7 DEF LentInv, Apart, Lent

\* A value that gets its data points to nothing that is lent.
LEMMA OutLent ==
  ASSUME MemoryInv, LentInv, pc = "value",
         NEW kind \in {"string", "integer", "boolean", "list", "table"},
         NEW data \in Literals \cup {NoData}, NEW p \in Nat, Out(kind, data, p),
         p \notin Lent, NEW n \in 1 .. Len(stack')
  PROVE  stack'[n].ptr \notin Lent
<1>1. stack \in Seq(Entry) /\ stack # <<>> BY DEF MemoryInv, Shape, TypeOK, Control
<1> DEFINE t == stack'
<1>2. /\ t \in Seq(Entry) /\ t # <<>> /\ Len(t) = Len(stack) /\ Tail(t) = Tail(stack)
      /\ Head(t).ptr = p
  BY <1>1, OutStep
<1> HIDE DEF t
<1>3. CASE n = 1
  <2>1. t[1] = Head(t) BY <1>2, HeadTailProperties
  <2> QED BY <1>2, <1>3, <2>1 DEF t
<1>4. CASE n # 1
  <2> DEFINE m == n - 1
             s == stack
  <2>1. Len(s) \in Nat /\ n \in 1 .. Len(s) BY <1>1, <1>2 DEF t
  <2>2. m \in 1 .. Len(s) - 1 /\ m + 1 = n BY <1>4, <2>1
  <2>3. \A k \in 1 .. Len(s) - 1 : Tail(s)[k] = s[k + 1] BY <1>1, HeadTailProperties
  <2>4. \A k \in 1 .. Len(s) - 1 : Tail(t)[k] = t[k + 1] BY <1>2, HeadTailProperties
  <2> HIDE DEF m
  <2>5. t[n] = s[n] BY <1>2, <2>2, <2>3, <2>4
  <2> QED BY <2>1, <2>5 DEF LentInv, Apart, t
<1> QED BY <1>3, <1>4

\* parse_list_value and parse_table_value, on the way in: what is lent.
LEMMA ParseOpenLent ==
  ASSUME MemoryInv, LentInv, NEW bracket, NEW kind \in {"list", "table"},
         ParseOpen(bracket, kind), UNCHANGED was
  PROVE  LentInv'
<1>1. /\ pc = "value" /\ Out(kind, NoData, NULL) /\ NULL \in Nat
      /\ NoData \in Literals \cup {NoData} /\ UNCHANGED <<root, heap, fresh, work, was>>
      /\ kind \in {"string", "integer", "boolean", "list", "table"}
  BY DEF ParseOpen, NULL
<1>2. Apart /\ NULL \notin Lent BY <1>1 DEF LentInv, Apart, NULL
<1>3. \A n \in 1 .. Len(stack') : stack'[n].ptr \notin Lent BY <1>1, <1>2, OutLent
<1> QED BY <1>1, <1>2, <1>3 DEF LentInv, Apart, Lent

\* parse_simple_value, of an integer or a boolean: what is lent.
LEMMA ParseScalarLent ==
  ASSUME MemoryInv, LentInv, ParseScalar, UNCHANGED was
  PROVE  LentInv'
<1> DEFINE c == Class[tokens[i].sym]
<1>1. /\ pc = "value" /\ Out(c, tokens[i].sym, NULL) /\ NULL \in Nat
      /\ c \in {"string", "integer", "boolean", "list", "table"}
      /\ UNCHANGED <<root, heap, fresh, work, was>>
  BY DEF ParseScalar, NULL
<1> HIDE DEF c
<1>2. tokens[i].sym \in Literals BY CurrentToken DEF ParseScalar, Expect
<1>3. Apart /\ NULL \notin Lent BY <1>1 DEF LentInv, Apart, NULL
<1>4. \A n \in 1 .. Len(stack') : stack'[n].ptr \notin Lent BY <1>1, <1>2, <1>3, OutLent
<1> QED BY <1>1, <1>3, <1>4 DEF LentInv, Apart, Lent

\* parse_simple_value, of a string: what is lent.
LEMMA ParseStringLent ==
  ASSUME MemoryInv, LentInv, ParseString, UNCHANGED was
  PROVE  LentInv'
<1>1. /\ pc = "value" /\ Out("string", tokens[i].sym, fresh) /\ fresh \in Nat
      /\ UNCHANGED <<root, work, was>> /\ fresh' = fresh + 1
      /\ DOMAIN heap' = DOMAIN heap \cup {fresh} /\ fresh \notin DOMAIN heap
      /\ heap'[fresh] = [cap |-> 0, elems |-> <<>>]
      /\ \A b \in DOMAIN heap : heap'[b] = heap[b]
  BY DEF ParseString, MemoryInv, Shape, TypeOK
<1>2. tokens[i].sym \in Literals BY CurrentToken DEF ParseString, Expect
<1>3. Apart /\ fresh \notin Lent BY <1>1 DEF LentInv, Apart
<1>4. \A n \in 1 .. Len(stack') : stack'[n].ptr \notin Lent BY <1>1, <1>2, <1>3, OutLent
<1>5. Lent \subseteq 1 .. fresh' - 1 BY <1>1, <1>3 DEF Apart
<1>6. \A b \in DOMAIN heap' \ Lent :
        b # root.ptr => \A n \in 1 .. Len(heap'[b].elems) : heap'[b].elems[n].ptr \notin Lent
  BY <1>1, <1>3 DEF Apart
<1>7. \A b \in Lent \ {was.root.ptr} : b \in DOMAIN heap' /\ heap'[b] = was.heap[b]
  BY <1>1, <1>3 DEF Apart
<1> QED BY <1>1, <1>3, <1>4, <1>5, <1>6, <1>7 DEF LentInv, Apart, Lent

\* A function that returns its error: what is lent.
LEMMA UnwindLent ==
  ASSUME MemoryInv, LentInv, Unwind, UNCHANGED was
  PROVE  LentInv'
<1>1. /\ pc = "unwind" /\ UNCHANGED <<root, heap, fresh, was>> /\ work' = <<ValueFree(Head(stack))>>
      /\ stack' = Tail(stack) /\ stack \in Seq(Entry) /\ stack # <<>>
  BY DEF Unwind, FreeOut, MemoryInv, Shape, TypeOK
<1>2. Apart BY <1>1 DEF LentInv
<1>3. /\ Len(stack) \in Nat \ {0} /\ Head(stack) = stack[1] /\ Len(Tail(stack)) = Len(stack) - 1
      /\ \A n \in 1 .. Len(stack) - 1 : Tail(stack)[n] = stack[n + 1]
  BY <1>1, HeadTailProperties, EmptySeq, LenProperties
<1>4. \A n \in 1 .. Len(stack') : stack'[n].ptr \notin Lent
  <2> SUFFICES ASSUME NEW n \in 1 .. Len(stack) - 1 PROVE Tail(stack)[n].ptr \notin Lent
    BY <1>1, <1>3
  <2>1. n + 1 \in 1 .. Len(stack) BY <1>3
  <2> QED BY <1>2, <1>3, <2>1 DEF Apart
<1>5. \A n \in 1 .. Len(work') : work'[n].of.ptr \notin Lent
  <2> DEFINE e == Head(stack)
  <2>1. e.ptr \notin Lent
    <3>1. 1 \in 1 .. Len(stack) BY <1>3
    <3> QED BY <1>2, <1>3, <3>1 DEF Apart
  <2> HIDE DEF e
  <2>2. \A n \in 1 .. Len(<<ValueFree(e)>>) : <<ValueFree(e)>>[n].of.ptr \notin Lent
    BY <2>1 DEF ValueFree
  <2> QED BY <1>1, <2>2 DEF e
<1> QED BY <1>1, <1>2, <1>4, <1>5 DEF LentInv, Apart, Lent

\* The next call, and those after it.
LEMMA WorkLent ==
  ASSUME MemoryInv, work # <<>>, Apart
  PROVE  /\ Head(work).of.ptr \notin Lent
         /\ \A n \in 1 .. Len(Tail(work)) : Tail(work)[n].of.ptr \notin Lent
<1>1. /\ Len(work) \in Nat \ {0} /\ Head(work) = work[1] /\ Len(Tail(work)) = Len(work) - 1
      /\ \A n \in 1 .. Len(work) - 1 : Tail(work)[n] = work[n + 1]
  BY HeadTailProperties, EmptySeq, LenProperties DEF MemoryInv, Shape, TypeOK
<1>2. 1 \in 1 .. Len(work) BY <1>1
<1>3. ASSUME NEW n \in 1 .. Len(work) - 1 PROVE Tail(work)[n].of.ptr \notin Lent
  <2>1. n + 1 \in 1 .. Len(work) BY <1>1
  <2> QED BY <1>1, <2>1 DEF Apart
<1> QED BY <1>1, <1>2, <1>3 DEF Apart

\* A block that is freed on the way out of an error was not lent.
LEMMA FreeLent ==
  ASSUME MemoryInv, LentInv, work # <<>>, Free(Head(work).of.ptr), work' = Tail(work),
         UNCHANGED <<stack, root, fresh, pc, was>>
  PROVE  LentInv'
<1> SUFFICES ASSUME pc \notin {"freeing", "freed"} PROVE Apart' BY DEF LentInv
<1>1. Apart BY DEF LentInv
<1> DEFINE p == Head(work).of.ptr
<1>2. /\ p \notin Lent /\ \A n \in 1 .. Len(work') : work'[n].of.ptr \notin Lent
  BY <1>1, WorkLent
<1>3. DOMAIN heap' = DOMAIN heap \ {p} /\ \A b \in DOMAIN heap' : heap'[b] = heap[b]
  BY FreeKept
<1> HIDE DEF p
<1>4. \A b \in DOMAIN heap' \ Lent :
        b # root.ptr => \A n \in 1 .. Len(heap'[b].elems) : heap'[b].elems[n].ptr \notin Lent
  BY <1>1, <1>3 DEF Apart
<1>5. \A b \in Lent \ {was.root.ptr} : b \in DOMAIN heap' /\ heap'[b] = was.heap[b]
  BY <1>1, <1>2, <1>3 DEF Apart
<1> QED BY <1>1, <1>2, <1>4, <1>5 DEF Apart, Lent

\* free of NULL: what is lent.
LEMMA FreeNothingLent ==
  ASSUME MemoryInv, LentInv, FreeNothing, UNCHANGED was
  PROVE  LentInv'
<1> SUFFICES ASSUME pc \notin {"freeing", "freed"} PROVE Apart' BY DEF LentInv, FreeNothing
<1>1. Apart BY DEF LentInv
<1>2. \A n \in 1 .. Len(work') : work'[n].of.ptr \notin Lent BY <1>1, WorkLent DEF FreeNothing
<1> QED BY <1>1, <1>2 DEF Apart, Lent, FreeNothing, tree

\* list_free and table_free, their loops: what is lent.
LEMMA FreeElementsLent ==
  ASSUME MemoryInv, LentInv, FreeElements, UNCHANGED was
  PROVE  LentInv'
<1> SUFFICES ASSUME pc \notin {"freeing", "freed"} PROVE Apart' BY DEF LentInv, FreeElements
<1> DEFINE e  == Head(work).of
           w  == Tail(work)
           es == Elems(e.ptr)
           cs == FreeCalls(e)
<1>1. Apart /\ work # <<>> /\ work' = cs \o w /\ UNCHANGED <<stack, root, heap, fresh>>
  BY DEF LentInv, FreeElements, tree
<1>2. e \in Entry /\ w \in Seq(Call) /\ es \in Seq(Entry) BY <1>1, NextCall
<1>3. e.ptr \notin Lent /\ \A n \in 1 .. Len(w) : w[n].of.ptr \notin Lent BY <1>1, WorkLent
<1>4. \A n \in 1 .. Len(es) : es[n].ptr \notin Lent
  <2>1. CASE e.ptr = NULL
    <3>1. es = <<>> BY <2>1 DEF Elems
    <3> QED BY <3>1
  <2>2. CASE e.ptr # NULL
    <3>1. Own(<<-1, Len(work)>>, e) \subseteq Owners /\ Own(<<0, 0>>, root) \subseteq Owners
      BY <1>1, HeldBlocks
    <3>2. <<-1, Len(work)>> # <<0, 0>> OBVIOUS
    <3> DEFINE place == <<-1, Len(work)>>
    <3>3. place # <<0, 0>> /\ Own(place, e) \subseteq Owners BY <3>1, <3>2
    <3> HIDE DEF place, e
    <3>4. e.ptr \in DOMAIN heap /\ root.ptr # e.ptr BY <2>2, <3>1, <3>3, OneOwner
    <3>5. es = heap[e.ptr].elems BY <2>2 DEF Elems
    <3> QED BY <1>1, <1>3, <3>4, <3>5 DEF Apart
  <2> QED BY <2>1, <2>2
<1>5. /\ cs \in Seq(Call) /\ Len(cs) = Len(es) + 1
      /\ \A n \in 1 .. Len(es) : cs[n] = ValueFree(es[n])
      /\ cs[Len(es) + 1] = ArrayFree(e)
  BY <1>2, CallsSeq
<1> HIDE DEF e, w, es, cs
<1>6. \A n \in 1 .. Len(cs) : cs[n].of.ptr \notin Lent
  <2> SUFFICES ASSUME NEW n \in 1 .. Len(cs) PROVE cs[n].of.ptr \notin Lent OBVIOUS
  <2>0. Len(es) \in Nat BY <1>2, LenProperties
  <2>1. CASE n = Len(es) + 1
    <3>1. cs[n].of = e BY <1>5, <2>1 DEF ArrayFree
    <3> QED BY <1>3, <3>1
  <2>2. CASE n # Len(es) + 1
    <3>1. n \in 1 .. Len(es) BY <1>5, <2>0, <2>2
    <3>2. cs[n].of = es[n]
      <4>1. cs[n] = ValueFree(es[n]) BY <1>5, <3>1
      <4>2. \A c : ValueFree(c).of = c BY DEF ValueFree
      <4> QED BY <4>1, <4>2
    <3> QED BY <1>4, <3>1, <3>2
  <2> QED BY <2>1, <2>2
<1>7. \A n \in 1 .. Len(work') : work'[n].of.ptr \notin Lent
  <2> DEFINE u == cs \o w
             a == Len(cs)
             b == Len(w)
  <2>1. /\ Len(u) = a + b /\ a \in Nat /\ b \in Nat
        /\ \A n \in 1 .. a + b : u[n] = IF n <= a THEN cs[n] ELSE w[n - a]
    BY <1>2, <1>5, ConcatProperties, LenProperties
  <2> HIDE DEF u, a, b
  <2> SUFFICES ASSUME NEW n \in 1 .. a + b PROVE u[n].of.ptr \notin Lent BY <1>1, <2>1 DEF u
  <2>2. CASE n <= a
    <3>1. n \in 1 .. a /\ u[n] = cs[n] BY <2>1, <2>2
    <3> QED BY <1>6, <3>1 DEF a
  <2>3. CASE ~(n <= a)
    <3>1. n - a \in 1 .. b /\ u[n] = w[n - a] BY <2>1, <2>3
    <3> QED BY <1>3, <3>1 DEF b
  <2> QED BY <2>2, <2>3
<1> QED BY <1>1, <1>7 DEF Apart, Lent

\* list_append and table_append: what is lent.
LEMMA AppendValueLent ==
  ASSUME MemoryInv, LentInv, AppendValue, UNCHANGED was
  PROVE  LentInv'
<1>0. /\ pc = "append" /\ work' = work /\ Apart /\ fresh \in Nat
      /\ fresh <= fresh' /\ fresh' \in Nat
  BY AppendFacts DEF AppendValue, LentInv, MemoryInv, Shape, TypeOK
<1>1. Lent \subseteq 1 .. fresh' - 1 /\ fresh \notin Lent
  <2> DEFINE m == fresh'
             n == fresh
  <2>1. Lent \subseteq 1 .. n - 1 /\ n \in Nat /\ m \in Nat /\ n <= m BY <1>0 DEF Apart
  <2> HIDE DEF m, n
  <2>2. Lent \subseteq 1 .. m - 1 /\ n \notin Lent BY <2>1
  <2> QED BY <2>2 DEF m, n
<1>2. Len(stack) # 1 => Target.ptr \notin Lent /\ Moved \notin Lent
  <2> SUFFICES ASSUME Len(stack) # 1 PROVE Target.ptr \notin Lent /\ Moved \notin Lent OBVIOUS
  <2>1. Target = stack[2] /\ 2 \in 1 .. Len(stack)
    <3> DEFINE L == Len(stack)
    <3>1. L \in Nat \ {0} /\ L # 1 BY AppendTarget
    <3> HIDE DEF L
    <3>2. 2 \in 1 .. L /\ L # 1 BY <3>1
    <3> QED BY <3>2 DEF L, Target
  <2>2. Target.ptr \notin Lent BY <1>0, <2>1 DEF Apart
  <2> QED BY <1>1, <2>2, AppendFacts
<1>3. Head(stack).ptr \notin Lent
  <2>1. 1 \in 1 .. Len(stack) /\ stack[1] = Head(stack) BY AppendTarget
  <2> QED BY <1>0, <2>1 DEF Apart
<1>4. ASSUME NEW n \in 1 .. Len(stack') PROVE stack'[n].ptr \notin Lent
  <2>1. n + 1 \in 1 .. Len(stack) /\ Len(stack) # 1 BY AppendStack
  <2>2. CASE n = 1 BY <1>2, <2>1, <2>2, AppendStack
  <2>3. CASE n # 1
    <3> DEFINE m == n + 1
    <3>1. m \in 1 .. Len(stack) /\ stack'[n] = stack[m] BY <2>1, <2>3, AppendStack
    <3> HIDE DEF m
    <3> QED BY <1>0, <3>1 DEF Apart
  <2> QED BY <2>2, <2>3
<1>5. Len(stack) = 1 => Target = root /\ root'.ptr = Moved
  <2> SUFFICES ASSUME Len(stack) = 1 PROVE Target = root /\ root'.ptr = Moved OBVIOUS
  <2>1. root' = [root EXCEPT !.ptr = Moved] /\ root \in Entry
    BY AppendFacts DEF MemoryInv, Shape, TypeOK
  <2> QED BY <2>1 DEF Target, Entry
<1>6. Len(stack) # 1 => root' = root /\ (Target.ptr # NULL => root.ptr # Target.ptr)
  <2> SUFFICES ASSUME Len(stack) # 1
               PROVE  root' = root /\ (Target.ptr # NULL => root.ptr # Target.ptr)
    OBVIOUS
  <2>1. PICK place : Own(place, Target) \subseteq Owners /\ place = <<0, Len(stack) - 1>>
    BY AppendTarget
  <2>2. place # <<0, 0>>
    <3>1. place[2] # 0 BY <2>1, AppendTarget
    <3> QED BY <3>1
  <2>3. Own(<<0, 0>>, root) \subseteq Owners BY OwnersAt
  <2> QED BY <2>1, <2>2, <2>3, OneOwner, AppendFacts
<1>7. root'.ptr \in Lent => root'.ptr = was.root.ptr
  <2>1. CASE Len(stack) = 1 BY <1>0, <1>1, <1>5, <2>1, AppendFacts DEF Apart
  <2>2. CASE Len(stack) # 1 BY <1>0, <1>6, <2>2 DEF Apart
  <2> QED BY <2>1, <2>2
<1>8. ASSUME NEW b \in DOMAIN heap' \ Lent, b # root'.ptr, NEW n \in 1 .. Len(heap'[b].elems)
      PROVE  heap'[b].elems[n].ptr \notin Lent
  <2>1. CASE b # Moved
    <3>1. b \in DOMAIN heap \ Lent /\ heap'[b] = heap[b] BY <2>1, AppendFacts
    <3>2. b # root.ptr
      <4>1. CASE Len(stack) = 1
        <5>1. SUFFICES ASSUME b = Target.ptr PROVE FALSE BY <1>5, <4>1
        <5>2. b \in DOMAIN heap' /\ b # Moved BY <2>1
        <5> QED BY <3>1, <5>1, <5>2, AppendFacts
      <4>2. CASE Len(stack) # 1 BY <1>6, <1>8, <4>2
      <4> QED BY <4>1, <4>2
    <3> QED BY <1>0, <1>8, <3>1, <3>2 DEF Apart
  <2>2. CASE b = Moved
    <3>1. Len(stack) # 1 BY <1>5, <1>8, <2>2
    <3> DEFINE es == Elems(Target.ptr)
               e  == Head(stack)
    <3>2. es \in Seq(Entry) /\ e \in Entry /\ heap'[b].elems = Append(es, e)
      BY <2>2, AppendFacts DEF Filled
    <3>3. \A k \in 1 .. Len(es) : es[k].ptr \notin Lent
      <4>1. CASE Target.ptr = NULL
        <5>1. es = <<>> BY <4>1 DEF Elems
        <5> QED BY <5>1
      <4>2. CASE Target.ptr # NULL
        <5>1. Target.ptr \in DOMAIN heap \ Lent /\ Target.ptr # root.ptr
          BY <1>2, <1>6, <3>1, <4>2, AppendFacts
        <5>2. es = heap[Target.ptr].elems BY <4>2 DEF Elems
        <5> QED BY <1>0, <5>1, <5>2 DEF Apart
      <4> QED BY <4>1, <4>2
    <3> HIDE DEF es, e
    <3>4. /\ Len(Append(es, e)) = Len(es) + 1 /\ Len(es) \in Nat
          /\ Append(es, e)[Len(es) + 1] = e /\ \A k \in 1 .. Len(es) : Append(es, e)[k] = es[k]
      BY <3>2, AppendProperties, LenProperties
    <3>5. n \in 1 .. Len(es) \/ n = Len(es) + 1
      <4> DEFINE L == Len(es)
      <4>1. L \in Nat /\ n \in 1 .. L + 1 BY <1>8, <3>2, <3>4
      <4> HIDE DEF L
      <4>2. n \in 1 .. L \/ n = L + 1 BY <4>1
      <4> QED BY <4>2 DEF L
    <3>6. CASE n \in 1 .. Len(es) BY <3>2, <3>3, <3>4, <3>6
    <3>7. CASE n = Len(es) + 1
      <4>1. heap'[b].elems[n] = e BY <3>2, <3>4, <3>7
      <4> QED BY <1>3, <4>1 DEF e
    <3> QED BY <3>5, <3>6, <3>7
  <2> QED BY <2>1, <2>2
<1>9. ASSUME NEW b \in Lent \ {was.root.ptr}
      PROVE  b \in DOMAIN heap' /\ heap'[b] = was.heap[b]
  <2>1. b \in DOMAIN heap /\ heap[b] = was.heap[b] BY <1>0 DEF Apart
  <2>2. b # Target.ptr
    <3>1. CASE Len(stack) = 1 BY <1>0, <1>5, <3>1 DEF Apart
    <3>2. CASE Len(stack) # 1 BY <1>2, <3>2
    <3> QED BY <3>1, <3>2
  <2>3. b # Moved /\ b \in DOMAIN heap' BY <1>1, <2>1, <2>2, AppendFacts
  <2> QED BY <2>1, <2>3, AppendFacts
<1>10. \A n \in 1 .. Len(work') : work'[n].of.ptr \notin Lent BY <1>0 DEF Apart
<1> QED BY <1>1, <1>4, <1>7, <1>8, <1>9, <1>10 DEF LentInv, Apart, Lent

\* kevs_parse, called again: what is lent.
LEMMA KevsParseAgainLent == ASSUME MemoryInv, KevsParseAgain PROVE LentInv'
<1>1. /\ was'.heap = heap /\ was'.root = root /\ UNCHANGED <<stack, root, heap, fresh, work>>
      /\ stack = <<>> /\ work = <<>> /\ DOMAIN heap \subseteq 1 .. fresh - 1
  BY DEF KevsParseAgain, MemoryInv, Shape, TypeOK, Control
<1> QED BY <1>1 DEF LentInv, Apart, Lent

\* In the beginning nothing is lent.
LEMMA LentInit == ASSUME Init PROVE LentInv
BY DEF Init, ParserInit, LentInv, Apart, Lent

\* Every step leaves alone what is lent.
LEMMA LentStep == ASSUME MemoryInv, LentInv, [Next]_allvars PROVE LentInv'
<1>1. CASE KevsParseAgain BY <1>1, KevsParseAgainLent
<1>2. CASE Emit \/ ScanDone \/ ScanFailed \/ KevsReturn
  BY <1>2, SameLent DEF Emit, ScanDone, ScanFailed, KevsReturn, tree
<1>3. CASE UNCHANGED allvars BY <1>3, SameLent DEF allvars, vars
<1>4. CASE Parse /\ UNCHANGED was
  <2>1. CASE Done \/ ParseKey \/ ParseBadValue \/ ParseValueEnd \/ ParseAfter
    BY <1>4, <2>1, SameLent
    DEF Done, ParseKey, AtPair, ParseBadValue, ParseValueEnd, ParseAfter, tree
  <2>2. CASE ParseSeparator
    <3>1. /\ UNCHANGED <<root, heap, fresh, work>> /\ pc \notin {"freeing", "freed"}
          /\ stack' = stack \/ stack' = <<Undefined(key)>> \o stack
      BY <2>2 DEF ParseSeparator
    <3>2. Undefined(key) \in Entry /\ Undefined(key).ptr = NULL
      BY DEF Undefined, Entry, NULL, MemoryInv, Shape, TypeOK
    <3> QED BY <1>4, <3>1, <3>2, PushLent, SameLent
  <2>3. CASE ParseLoop
    <3>1. /\ UNCHANGED <<root, heap, fresh, work>> /\ pc \notin {"freeing", "freed"}
          /\ stack' = stack \/ stack' = <<Undefined(NoKey)>> \o stack
      BY <2>3 DEF ParseLoop
    <3>2. Undefined(NoKey) \in Entry /\ Undefined(NoKey).ptr = NULL
      BY DEF Undefined, Entry, NULL
    <3> QED BY <1>4, <3>1, <3>2, PushLent, SameLent
  <2>4. CASE ParseList BY <1>4, <2>4, ParseOpenLent DEF ParseList
  <2>5. CASE ParseTable BY <1>4, <2>5, ParseOpenLent DEF ParseTable
  <2>6. CASE ParseString BY <1>4, <2>6, ParseStringLent
  <2>7. CASE ParseScalar BY <1>4, <2>7, ParseScalarLent
  <2>8. CASE AppendValue BY <1>4, <2>8, AppendValueLent
  <2> QED BY <1>4, <2>1, <2>2, <2>3, <2>4, <2>5, <2>6, <2>7, <2>8 DEF Parse
<1>5. CASE Release /\ UNCHANGED was
  <2>1. CASE Failed \/ KevsFreed BY <1>5, <2>1, SameLent DEF Failed, Kept, KevsFreed, tree
  <2>2. CASE Unwind BY <1>5, <2>2, UnwindLent
  <2>3. CASE KevsFree BY <2>3 DEF KevsFree, LentInv
  <2>4. CASE FreeString BY <1>5, <2>4, FreeLent DEF FreeString
  <2>5. CASE FreeArray BY <1>5, <2>5, FreeLent DEF FreeArray
  <2>6. CASE FreeElements BY <1>5, <2>6, FreeElementsLent
  <2>7. CASE FreeNothing BY <1>5, <2>7, FreeNothingLent
  <2> QED BY <1>5, <2>1, <2>2, <2>3, <2>4, <2>5, <2>6, <2>7 DEF Release
<1> QED BY <1>1, <1>2, <1>3, <1>4, <1>5 DEF Next

\* What the lookups handed out, a string or a nested list or table, is where
\* and what it was until kevs_free, whatever is parsed into the same table in
\* between: no failure and no append of a later call reaches it.
THEOREM LentStays == Spec => []StaysLent
<1>1. Init => LentInv BY LentInit
<1>2. MemoryInv /\ LentInv /\ [Next]_allvars => LentInv' BY LentStep
<1>3. LentInv => StaysLent BY DEF LentInv, Apart, Lent, StaysLent
<1> QED BY <1>1, <1>2, <1>3, MemoryInvariant, PTL DEF Spec

-----------------------------------------------------------------------------
(* Nothing is leaked.                                                      *)

\* Arrays are nested, and nothing is nested in itself: that every block has an
\* owner would not tell the heap from a ring of blocks nobody can reach.
Nested(h) ==
  \E N \in Nat : \E rank \in [DOMAIN h -> 0 .. N] :
    \A b \in DOMAIN h : \A n \in 1 .. Len(h[b].elems) :
      h[b].elems[n].ptr \in DOMAIN h => rank[h[b].elems[n].ptr] < rank[b]

\* What the end of a session needs to know of the heap.
EndInv ==
  /\ Nested(heap)
  /\ heap = [b \in DOMAIN heap |-> heap[b]]
  /\ pc \in {"freeing", "freed"} => root = EmptyTable
  /\ pc \in {"returned", "freeing", "freed"} => array # "live"

\* In the beginning nothing is nested.
LEMMA EndInit == ASSUME Init PROVE EndInv
<1>1. heap = [b \in {} |-> 0] /\ DOMAIN heap = {} /\ pc = "scan" BY DEF Init, ParserInit
<1>2. Nested(heap)
  <2>1. [b \in {} |-> 0] \in [DOMAIN heap -> 0 .. 0] BY <1>1
  <2> QED BY <1>1, <2>1 DEF Nested
<1>3. heap = [b \in DOMAIN heap |-> heap[b]] BY <1>1
<1> QED BY <1>1, <1>2, <1>3 DEF EndInv

\* A heap with less in it.
LEMMA NestedLess ==
  ASSUME NEW h, Nested(h), NEW g, DOMAIN g \subseteq DOMAIN h, \A b \in DOMAIN g : g[b] = h[b]
  PROVE  Nested(g)
<1>1. PICK N \in Nat : \E rank \in [DOMAIN h -> 0 .. N] :
        \A b \in DOMAIN h : \A n \in 1 .. Len(h[b].elems) :
          h[b].elems[n].ptr \in DOMAIN h => rank[h[b].elems[n].ptr] < rank[b]
  BY DEF Nested
<1>2. PICK rank \in [DOMAIN h -> 0 .. N] :
        \A b \in DOMAIN h : \A n \in 1 .. Len(h[b].elems) :
          h[b].elems[n].ptr \in DOMAIN h => rank[h[b].elems[n].ptr] < rank[b]
  BY <1>1
<1> DEFINE r == [b \in DOMAIN g |-> rank[b]]
<1>3. r \in [DOMAIN g -> 0 .. N] OBVIOUS
<1>4. \A b \in DOMAIN g : r[b] = rank[b] OBVIOUS
<1> HIDE DEF r
<1>5. ASSUME NEW b \in DOMAIN g, NEW n \in 1 .. Len(g[b].elems), g[b].elems[n].ptr \in DOMAIN g
      PROVE  r[g[b].elems[n].ptr] < r[b]
  <2>1. g[b] = h[b] /\ b \in DOMAIN h OBVIOUS
  <2> DEFINE c == h[b].elems[n].ptr
  <2>2. c \in DOMAIN g /\ c \in DOMAIN h /\ c = g[b].elems[n].ptr BY <1>5, <2>1
  <2>3. rank[c] < rank[b] BY <1>2, <1>5, <2>1, <2>2
  <2> HIDE DEF c
  <2>4. r[c] = rank[c] /\ r[b] = rank[b] BY <1>4, <2>2
  <2> QED BY <2>2, <2>3, <2>4
<1> QED BY <1>1, <1>3, <1>5 DEF Nested

\* A heap with one new or changed block in it, which none of the others holds.
LEMMA NestedMore ==
  ASSUME NEW h, Nested(h), NEW g, NEW q, q \in DOMAIN g,
         \A b \in DOMAIN g \ {q} : b \in DOMAIN h /\ g[b] = h[b],
         \A b \in DOMAIN g : \A n \in 1 .. Len(g[b].elems) : g[b].elems[n].ptr # q
  PROVE  Nested(g)
<1>1. PICK N \in Nat : \E rank \in [DOMAIN h -> 0 .. N] :
        \A b \in DOMAIN h : \A n \in 1 .. Len(h[b].elems) :
          h[b].elems[n].ptr \in DOMAIN h => rank[h[b].elems[n].ptr] < rank[b]
  BY DEF Nested
<1>2. PICK rank \in [DOMAIN h -> 0 .. N] :
        \A b \in DOMAIN h : \A n \in 1 .. Len(h[b].elems) :
          h[b].elems[n].ptr \in DOMAIN h => rank[h[b].elems[n].ptr] < rank[b]
  BY <1>1
<1> DEFINE M == N + 1
           r == [b \in DOMAIN g |-> IF b = q THEN M ELSE rank[b]]
<1>3. /\ M \in Nat /\ r \in [DOMAIN g -> 0 .. M] /\ r[q] = M
      /\ \A b \in DOMAIN g \ {q} : r[b] = rank[b] /\ rank[b] \in 0 .. N
  <2>1. \A b \in DOMAIN g \ {q} : rank[b] \in 0 .. N OBVIOUS
  <2>2. M \in Nat /\ 0 .. N \subseteq 0 .. M /\ M \in 0 .. M OBVIOUS
  <2> HIDE DEF M
  <2> QED BY <2>1, <2>2
<1> HIDE DEF r
<1>4. ASSUME NEW b \in DOMAIN g, NEW n \in 1 .. Len(g[b].elems), g[b].elems[n].ptr \in DOMAIN g
      PROVE  r[g[b].elems[n].ptr] < r[b]
  <2> DEFINE c == g[b].elems[n].ptr
  <2>1. c \in DOMAIN g \ {q} BY <1>4
  <2>2. r[c] = rank[c] /\ rank[c] \in 0 .. N /\ c \in DOMAIN h BY <1>3, <2>1
  <2>3. CASE b = q BY <1>3, <2>2, <2>3
  <2>4. CASE b # q
    <3>1. b \in DOMAIN h /\ g[b] = h[b] /\ r[b] = rank[b] BY <1>3, <2>4
    <3>2. rank[c] < rank[b] BY <1>2, <2>2, <3>1
    <3> QED BY <2>2, <3>1, <3>2
  <2> QED BY <2>3, <2>4
<1> HIDE DEF M
<1> QED BY <1>3, <1>4 DEF Nested

\* While nothing is being freed, the elements of arrays point to live blocks.
LEMMA ElementsLive ==
  ASSUME MemoryInv, work = <<>>, NEW b \in DOMAIN heap, NEW n \in 1 .. Len(heap[b].elems),
         NEW c, c = heap[b].elems[n].ptr
  PROVE  c # NULL => c \in DOMAIN heap
<1>1. Dying = {} BY DEF Dying
<1>2. Own(<<b, n>>, heap[b].elems[n]) \subseteq Owners BY <1>1, OwnersAt
<1> QED BY <1>2, OwnedBlock DEF MemoryInv

\* parse_simple_value, of a string: the nesting.
LEMMA ParseStringNested == ASSUME MemoryInv, EndInv, ParseString PROVE Nested(heap')
<1>1. /\ DOMAIN heap' = DOMAIN heap \cup {fresh} /\ fresh \notin DOMAIN heap
      /\ heap'[fresh] = [cap |-> 0, elems |-> <<>>] /\ work = <<>> /\ fresh # NULL
      /\ \A b \in DOMAIN heap : heap'[b] = heap[b]
  BY DEF ParseString, MemoryInv, Shape, TypeOK, Control, NULL
<1>2. ASSUME NEW b \in DOMAIN heap', NEW n \in 1 .. Len(heap'[b].elems)
      PROVE  heap'[b].elems[n].ptr # fresh
  <2>1. CASE b = fresh BY <1>1, <1>2, <2>1
  <2>2. CASE b # fresh
    <3>1. b \in DOMAIN heap /\ heap'[b] = heap[b] BY <1>1, <2>2
    <3>2. n \in 1 .. Len(heap[b].elems) BY <1>2, <3>1
    <3>3. heap[b].elems[n].ptr # NULL => heap[b].elems[n].ptr \in DOMAIN heap
      BY <1>1, <3>1, <3>2, ElementsLive
    <3> QED BY <1>1, <3>1, <3>3
  <2> QED BY <2>1, <2>2
<1> DEFINE g == heap'
<1>3. /\ fresh \in DOMAIN g /\ \A b \in DOMAIN g \ {fresh} : b \in DOMAIN heap /\ g[b] = heap[b]
      /\ \A b \in DOMAIN g : \A n \in 1 .. Len(g[b].elems) : g[b].elems[n].ptr # fresh
  BY <1>1, <1>2
<1> HIDE DEF g
<1>4. Nested(g) BY <1>3, NestedMore DEF EndInv
<1> QED BY <1>4 DEF g

\* list_append and table_append: the nesting.
LEMMA AppendValueNested == ASSUME MemoryInv, EndInv, AppendValue PROVE Nested(heap')
<1>0. work = <<>> /\ Moved \in Nat \ {0} /\ Moved \in DOMAIN heap'
  BY AppendFacts
<1>1. ASSUME NEW b \in DOMAIN heap, NEW n \in 1 .. Len(heap[b].elems)
      PROVE  heap[b].elems[n].ptr # Moved
  <2> DEFINE e == heap[b].elems[n]
             place == <<b, n>>
  <2>1. CASE e.ptr = NULL BY <1>0, <2>1 DEF NULL
  <2>2. CASE e.ptr # NULL
    <3>1. Dying = {} BY <1>0 DEF Dying
    <3>2. Own(place, e) \subseteq Owners BY <3>1, OwnersAt
    <3>3. place # IF Len(stack) = 1 THEN <<0, 0>> ELSE <<0, Len(stack) - 1>>
      <4>1. place[1] # 0 BY DEF MemoryInv, Shape, TypeOK
      <4> QED BY <4>1
    <3> HIDE DEF place, e
    <3>4. e.ptr # Moved BY <2>2, <3>2, <3>3, AppendElsewhere
    <3> QED BY <3>4 DEF e
  <2> QED BY <2>1, <2>2
<1>2. Head(stack).ptr # Moved
  <2> DEFINE e == Head(stack)
             place == <<0, Len(stack)>>
  <2>1. CASE e.ptr = NULL BY <1>0, <2>1 DEF NULL
  <2>2. CASE e.ptr # NULL
    <3>1. Own(place, e) \subseteq Owners /\ Len(stack) \in Nat \ {0} BY AppendTarget
    <3>2. place # IF Len(stack) = 1 THEN <<0, 0>> ELSE <<0, Len(stack) - 1>>
      <4>1. place[2] # 0 /\ place[2] # Len(stack) - 1 BY <3>1
      <4> QED BY <4>1
    <3> HIDE DEF place, e
    <3>3. e.ptr # Moved BY <2>2, <3>1, <3>2, AppendElsewhere
    <3> QED BY <3>3 DEF e
  <2> QED BY <2>1, <2>2
<1>3. ASSUME NEW b \in DOMAIN heap', NEW n \in 1 .. Len(heap'[b].elems)
      PROVE  heap'[b].elems[n].ptr # Moved
  <2>1. CASE b # Moved
    <3>1. b \in DOMAIN heap /\ heap'[b] = heap[b] BY <2>1, AppendFacts
    <3> QED BY <1>1, <1>3, <3>1
  <2>2. CASE b = Moved
    <3> DEFINE es == Elems(Target.ptr)
               e  == Head(stack)
               L  == Len(es)
    <3>1. es \in Seq(Entry) /\ e \in Entry /\ heap'[b].elems = Append(es, e)
      BY <2>2, AppendFacts DEF Filled
    <3>2. \A k \in 1 .. L : es[k].ptr # Moved
      <4>1. CASE Target.ptr = NULL
        <5>1. es = <<>> BY <4>1 DEF Elems
        <5> QED BY <5>1
      <4>2. CASE Target.ptr # NULL
        <5>1. Target.ptr \in DOMAIN heap /\ es = heap[Target.ptr].elems
          BY <4>2, AppendFacts DEF Elems
        <5> QED BY <1>1, <5>1
      <4> QED BY <4>1, <4>2
    <3> HIDE DEF es, e
    <3>3. /\ Len(Append(es, e)) = L + 1 /\ L \in Nat
          /\ Append(es, e)[L + 1] = e /\ \A k \in 1 .. L : Append(es, e)[k] = es[k]
      BY <3>1, AppendProperties, LenProperties
    <3> HIDE DEF L
    <3>4. n \in 1 .. L \/ n = L + 1
      <4>1. n \in 1 .. L + 1 BY <1>3, <3>1, <3>3
      <4> QED BY <3>3, <4>1
    <3>5. CASE n \in 1 .. L BY <3>1, <3>2, <3>3, <3>5
    <3>6. CASE n = L + 1
      <4>1. heap'[b].elems[n] = e BY <3>1, <3>3, <3>6
      <4> QED BY <1>2, <4>1 DEF e
    <3> QED BY <3>4, <3>5, <3>6
  <2> QED BY <2>1, <2>2
<1> DEFINE g == heap'
           q == Moved
<1>4. /\ q \in DOMAIN g /\ \A b \in DOMAIN g \ {q} : b \in DOMAIN heap /\ g[b] = heap[b]
      /\ \A b \in DOMAIN g : \A n \in 1 .. Len(g[b].elems) : g[b].elems[n].ptr # q
  BY <1>0, <1>3, AppendFacts
<1> HIDE DEF g, q
<1>5. Nested(g) BY <1>4, NestedMore DEF EndInv
<1> QED BY <1>5 DEF g

\* free does not undo the nesting of the rest.
LEMMA FreeNested ==
  ASSUME MemoryInv, EndInv, NEW p, Free(p)
  PROVE  Nested(heap') /\ heap' = [b \in DOMAIN heap' |-> heap'[b]]
<1> DEFINE g == heap'
<1>1. DOMAIN g \subseteq DOMAIN heap /\ \A b \in DOMAIN g : g[b] = heap[b] BY FreeKept
<1>2. g = [b \in DOMAIN g |-> g[b]] BY DEF Free
<1> HIDE DEF g
<1>3. Nested(g) BY <1>1, NestedLess DEF EndInv
<1> QED BY <1>2, <1>3 DEF g

\* Every step keeps the arrays nested.
LEMMA EndStep == ASSUME MemoryInv, EndInv, [Next]_allvars PROVE EndInv'
<1>1. CASE ParseString /\ UNCHANGED array
  <2>1. heap' = [b \in DOMAIN heap' |-> heap'[b]] BY <1>1 DEF ParseString
  <2>2. pc' = "end" /\ Nested(heap') BY <1>1, ParseStringNested DEF ParseString
  <2> QED BY <2>1, <2>2 DEF EndInv
<1>2. CASE AppendValue /\ UNCHANGED array
  <2>1. heap' = [b \in DOMAIN heap' |-> heap'[b]] BY <1>2 DEF AppendValue, AppendTo
  <2>2. pc' \in {"pair", "after"} /\ Nested(heap') BY <1>2, AppendValueNested DEF AppendValue
  <2> QED BY <2>1, <2>2 DEF EndInv
<1>3. CASE FreeString /\ UNCHANGED array
  <2>1. Nested(heap') /\ heap' = [b \in DOMAIN heap' |-> heap'[b]]
    BY <1>3, FreeNested DEF FreeString
  <2> QED BY <1>3, <2>1 DEF EndInv, FreeString
<1>4. CASE FreeArray /\ UNCHANGED array
  <2>1. Nested(heap') /\ heap' = [b \in DOMAIN heap' |-> heap'[b]]
    BY <1>4, FreeNested DEF FreeArray
  <2> QED BY <1>4, <2>1 DEF EndInv, FreeArray
<1>5. CASE (Done \/ ParseKey \/ ParseSeparator \/ ParseBadValue \/ ParseValueEnd \/ ParseLoop
              \/ ParseAfter \/ ParseList \/ ParseTable \/ ParseScalar)
  BY <1>5
  DEF EndInv, Done, ParseKey, ParseSeparator, ParseBadValue, ParseValueEnd, ParseLoop, ParseAfter,
      ParseList, ParseTable, ParseOpen, ParseScalar, Fail, tree
<1>6. CASE (Unwind \/ Failed \/ FreeElements \/ FreeNothing) /\ UNCHANGED array
  BY <1>6 DEF EndInv, Unwind, Failed, Kept, FreeElements, FreeNothing, tree
<1>7. CASE (KevsFree \/ KevsFreed) /\ UNCHANGED array
  BY <1>7 DEF EndInv, KevsFree, KevsFreed, tree
<1>8. CASE Emit \/ ScanDone \/ ScanFailed \/ KevsParseAgain
  BY <1>8 DEF EndInv, Emit, ScanDone, ScanFailed, KevsParseAgain, tree
<1>9. CASE KevsReturn
  <2>1. array' # "live" /\ UNCHANGED <<root, heap>> /\ pc' = "returned"
    BY <1>9 DEF KevsReturn, Freed, tree
  <2> QED BY <2>1 DEF EndInv
<1>10. CASE UNCHANGED allvars BY <1>10 DEF allvars, vars, EndInv
<1> QED
  BY <1>1, <1>2, <1>3, <1>4, <1>5, <1>6, <1>7, <1>8, <1>9, <1>10 DEF Next, Parse, Release

\* Of the blocks of a nested heap one is in no array.
LEMMA Outermost ==
  ASSUME NEW h, Nested(h), DOMAIN h # {}
  PROVE  \E b \in DOMAIN h : \A c \in DOMAIN h : \A n \in 1 .. Len(h[c].elems) :
           h[c].elems[n].ptr # b
<1>1. PICK N \in Nat : \E rank \in [DOMAIN h -> 0 .. N] :
        \A b \in DOMAIN h : \A n \in 1 .. Len(h[b].elems) :
          h[b].elems[n].ptr \in DOMAIN h => rank[h[b].elems[n].ptr] < rank[b]
  BY DEF Nested
<1>2. PICK rank \in [DOMAIN h -> 0 .. N] :
        \A b \in DOMAIN h : \A n \in 1 .. Len(h[b].elems) :
          h[b].elems[n].ptr \in DOMAIN h => rank[h[b].elems[n].ptr] < rank[b]
  BY <1>1
<1> DEFINE T == {k \in Nat : \E b \in DOMAIN h : k = N - rank[b]}
           R == OpToRel(<, Nat)
<1>3. T \subseteq Nat /\ T # {}
  <2>1. PICK b \in DOMAIN h : TRUE OBVIOUS
  <2>2. rank[b] \in 0 .. N OBVIOUS
  <2>3. N - rank[b] \in Nat BY <2>2
  <2>4. N - rank[b] \in T BY <2>3
  <2> QED BY <2>4
<1>4. \A x, y \in Nat : x < y => <<x, y>> \in R BY DEF OpToRel
<1>5. IsWellFoundedOn(R, Nat) BY NatLessThanWellFounded
<1>6. PICK k \in T : \A y \in T : ~(<<y, k>> \in R)
  <2> HIDE DEF R, T
  <2> QED BY <1>3, <1>5, WFMin
<1>7. PICK b \in DOMAIN h : k = N - rank[b] OBVIOUS
<1>8. ASSUME NEW c \in DOMAIN h, NEW n \in 1 .. Len(h[c].elems), h[c].elems[n].ptr = b
      PROVE  FALSE
  <2>1. rank[b] < rank[c] /\ rank[b] \in 0 .. N /\ rank[c] \in 0 .. N BY <1>2, <1>8
  <2> DEFINE m == N - rank[c]
  <2>2. m \in Nat /\ m < k BY <1>7, <2>1
  <2>3. m \in T BY <2>2
  <2> HIDE DEF m, T, R
  <2>4. k \in Nat BY <1>3, <1>6
  <2>5. <<m, k>> \in R BY <1>4, <2>2, <2>4
  <2> QED BY <1>6, <2>3, <2>5
<1> QED BY <1>8

\* After kevs_free nothing is left, whether kevs_parse failed, and where.
THEOREM NothingIsLeaked == Spec => []NothingLeaked
<1>1. Init => EndInv BY EndInit
<1>2. MemoryInv /\ EndInv /\ [Next]_allvars => EndInv' BY EndStep
<1>3. MemoryInv /\ EndInv => NothingLeaked
  <2> SUFFICES ASSUME MemoryInv, EndInv, pc = "freed"
               PROVE  heap = [b \in {} |-> 0] /\ root = EmptyTable /\ array # "live"
    BY DEF NothingLeaked
  <2>1. stack = <<>> /\ work = <<>> /\ root = EmptyTable /\ array # "live"
    BY DEF MemoryInv, Shape, Control, EndInv
  <2>2. Owners = OwnHeap(heap, {})
    <3>1. Own(<<0, 0>>, root) = {} BY <2>1 DEF Own, EmptyTable
    <3>2. Pending = <<>> /\ Dying = {} BY <2>1 DEF Pending, Dying
    <3>3. \A a : OwnStack(a, <<>>) = {} BY DEF OwnStack
    <3> QED BY <2>1, <3>1, <3>2, <3>3 DEF Owners
  <2>3. SUFFICES ASSUME DOMAIN heap # {} PROVE FALSE
    <3>1. SUFFICES ASSUME DOMAIN heap = {}
                   PROVE  heap = [b \in {} |-> 0] /\ root = EmptyTable /\ array # "live"
      BY <2>3
    <3>2. heap = [b \in {} |-> heap[b]] BY <3>1 DEF EndInv
    <3>3. [b \in {} |-> heap[b]] = [b \in {} |-> 0] OBVIOUS
    <3> QED BY <2>1, <3>2, <3>3
  <2>4. PICK b \in DOMAIN heap : \A c \in DOMAIN heap : \A n \in 1 .. Len(heap[c].elems) :
          heap[c].elems[n].ptr # b
    <3>1. Nested(heap) /\ DOMAIN heap # {} BY <2>3 DEF EndInv
    <3> QED BY <3>1, Outermost
  <2> DEFINE z == <<b, What(heap[b])>>
  <2>5. z \in Live(heap) /\ z[1] = b BY DEF Live
  <2> HIDE DEF z
  <2>6. PICK x \in Owners : x[2] = z BY <2>5 DEF MemoryInv, Once
  <2>7. PICK c \in DOMAIN heap : x \in OwnArray(c, heap[c].elems) BY <2>2, <2>6 DEF OwnHeap
  <2>8. PICK n \in 1 .. Len(heap[c].elems) : x \in Own(<<c, n>>, heap[c].elems[n])
    BY <2>7 DEF OwnArray
  <2>9. x[2][1] = heap[c].elems[n].ptr
    <3>1. x = <<<<c, n>>, Pointer(heap[c].elems[n])>> BY <2>8 DEF Own
    <3>2. x[2] = Pointer(heap[c].elems[n]) BY <3>1
    <3> QED BY <3>2 DEF Pointer
  <2> QED BY <2>4, <2>5, <2>6, <2>8, <2>9
<1> QED BY <1>1, <1>2, <1>3, MemoryInvariant, PTL DEF Spec

-----------------------------------------------------------------------------
(* The parser and the grammar of the tokens.                               *)

\* The steps of TokenGrammar, from one state of it to the next, by the symbol emitted.
InOpen(a, kind) == a.open # <<>> /\ Head(a.open) = kind

Due(a) == a.want = "value" \/ (a.want = "item" /\ InOpen(a, "list"))

Moves(a, sym, b) ==
  \/ /\ a.want = "item" /\ (a.open = <<>> \/ InOpen(a, "table")) /\ sym = "key"
     /\ b.want \in {"sep", "stopped"} /\ b.open = a.open
  \/ a.want = "sep" /\ sym = kKeyValSep /\ b.want = "value" /\ b.open = a.open
  \/ Due(a) /\ sym = "value" /\ b.want = "end" /\ b.open = a.open
  \/ Due(a) /\ sym = kListBegin /\ b.want = "item" /\ b.open = <<"list">> \o a.open
  \/ Due(a) /\ sym = kTableBegin /\ b.want = "item" /\ b.open = <<"table">> \o a.open
  \/ /\ a.want = "item" /\ InOpen(a, "list") /\ sym = kListEnd
     /\ b.want = "end" /\ b.open = Tail(a.open)
  \/ /\ a.want = "item" /\ InOpen(a, "table") /\ sym = kTableEnd
     /\ b.want = "end" /\ b.open = Tail(a.open)
  \/ a.want = "end" /\ sym = kKeyValEnd /\ b.want = "item" /\ b.open = a.open

\* s is what the grammar went through while it emitted the tokens t.
Run(t, s) ==
  /\ s[1] = [open |-> <<>>, want |-> "item"]
  /\ \A n \in 1 .. Len(t) : Moves(s[n], Symbol(t[n]), s[n + 1])

\* The lists and tables under construction are those the grammar has open.
Matches(o, s) ==
  /\ o \in Seq({"list", "table"}) /\ Len(o) = Len(s)
  /\ \A n \in 1 .. Len(o) : o[n] = s[n].kind

Parsing == {"pair", "sep", "value", "loop", "after", "end", "append"}

\* Where the parser is when the grammar was in state a before the next symbol.
Follows(p, s, a, sym) ==
  /\ p \in {"pair", "sep", "loop", "after"} => Matches(a.open, s)
  /\ p \in {"value", "end", "append"} => Matches(a.open, Tail(s))
  /\ p \in {"pair", "loop", "after", "append"} => a.want = "item"
  /\ p = "sep" => a.want = "sep"
  /\ p = "end" => a.want = "end"
  /\ p = "value" =>
       \/ a.want = "value"
       \/ a.want = "item" /\ a.open # <<>> /\ Head(a.open) = "list" /\ sym # kListEnd
  /\ p \in {"loop", "after"} => s # <<>>
  /\ p = "pair" /\ s # <<>> => Head(s).kind = "table" /\ sym # kTableEnd

SymbolAt(t, n) == IF n > Len(t) THEN "none" ELSE Symbol(t[n])

Whole(t, s) == Run(t, s) /\ s[Len(t) + 1] = [open |-> <<>>, want |-> "item"]

Suffices(o, e) ==
  /\ ~o
  /\ e \notin {"expected_key_token", "missing_key_value_separator",
               "expected_value_token", "missing_key_value_end"}

GrammarInv ==
  /\ Suffices(overrun, error)
  /\ pc = "scan" =>
       /\ i = 1
       /\ \E s : Run(tokens, s) /\ s[Len(tokens) + 1] = [open |-> open, want |-> want]
  /\ pc \in Parsing =>
       \E s : Whole(tokens, s) /\ Follows(pc, stack, s[i], SymbolAt(tokens, i))

\* What Expect and ExpectDelim ask is about the symbol.
LEMMA ExpectSymbol ==
  ASSUME MemoryInv, NEW sym, sym = SymbolAt(tokens, i)
  PROVE  /\ Expect("key") <=> sym = "key"
         /\ Expect("value") <=> sym = "value"
         /\ \A c \in Delimiters : ExpectDelim(c) <=> sym = c
         /\ NoneLeft => sym = "none"
<1> USE DEF kKeyValSep, kKeyValEnd, kListBegin, kListEnd, kTableBegin, kTableEnd, Delimiters
<1>1. tokens \in Seq(Token) /\ i \in 1 .. Len(tokens) + 1 /\ Len(tokens) \in Nat
  BY LenProperties DEF MemoryInv, Shape, TypeOK
<1>2. CASE NoneLeft
  <2>1. sym = "none" BY <1>2 DEF NoneLeft, SymbolAt
  <2> QED BY <1>2, <2>1 DEF Expect, ExpectDelim
<1>3. CASE ~NoneLeft
  <2>1. i \in 1 .. Len(tokens) /\ sym = Symbol(tokens[i]) BY <1>1, <1>3 DEF NoneLeft, SymbolAt
  <2> DEFINE t == tokens[i]
  <2>2. t \in Token BY <1>1, <2>1, ElementOfSeq
  <2>3. /\ Expect("key") <=> t.kind = "key"
        /\ Expect("value") <=> t.kind = "value"
        /\ \A c : ExpectDelim(c) <=> t.kind = "delim" /\ t.sym = c
    BY <1>3 DEF Expect, ExpectDelim
  <2> HIDE DEF t
  <2>4. \/ t.kind = "key" \/ t.kind = "value"
        \/ t.kind = "delim" /\ t.sym \in Delimiters
    BY <2>2 DEF Token
  <2>5. sym = IF t.kind = "delim" THEN t.sym ELSE t.kind BY <2>1 DEF Symbol, t
  <2> QED BY <1>3, <2>3, <2>4, <2>5
<1> QED BY <1>2, <1>3

\* The next move of the grammar, if it was not over yet.
LEMMA NextMove ==
  ASSUME MemoryInv, NEW s, Whole(tokens, s)
  PROVE  /\ NoneLeft => s[i].open = <<>> /\ s[i].want = "item"
         /\ ~NoneLeft => Moves(s[i], SymbolAt(tokens, i), s[i + 1])
         /\ ~NoneLeft => s[i + 1].want # "stopped"
<1>1. i \in 1 .. Len(tokens) + 1 /\ Len(tokens) \in Nat
  BY LenProperties DEF MemoryInv, Shape, TypeOK
<1>2. ASSUME NoneLeft PROVE s[i].open = <<>> /\ s[i].want = "item"
  <2>1. i = Len(tokens) + 1 BY <1>1, <1>2 DEF NoneLeft
  <2> QED BY <2>1 DEF Whole
<1>3. ASSUME ~NoneLeft
      PROVE  Moves(s[i], SymbolAt(tokens, i), s[i + 1]) /\ s[i + 1].want # "stopped"
  <2>1. i \in 1 .. Len(tokens) /\ ~(i > Len(tokens)) BY <1>1, <1>3 DEF NoneLeft
  <2>2. Moves(s[i], SymbolAt(tokens, i), s[i + 1]) BY <2>1 DEF Whole, Run, SymbolAt
  <2>3. CASE i = Len(tokens)
    <3>1. s[i + 1].want = "item" BY <2>3 DEF Whole
    <3> QED BY <2>2, <3>1
  <2>4. CASE i # Len(tokens)
    <3>1. i + 1 \in 1 .. Len(tokens) BY <1>1, <2>1, <2>4
    <3> DEFINE j == i + 1
    <3>2. Moves(s[j], Symbol(tokens[j]), s[j + 1]) BY <3>1 DEF Whole, Run
    <3> HIDE DEF j
    <3>3. s[j].want # "stopped" BY <3>2 DEF Moves, Due
    <3> QED BY <2>2, <3>3 DEF j
  <2> QED BY <2>3, <2>4
<1> QED BY <1>2, <1>3

\* Matches, of a stack and of what is pushed on and popped from it.
LEMMA MatchesParts ==
  ASSUME NEW o, NEW s \in Seq(Entry), Matches(o, s)
  PROVE  /\ o = <<>> <=> s = <<>>
         /\ s # <<>> => Head(o) = Head(s).kind /\ Matches(Tail(o), Tail(s))
<1>1. o \in Seq({"list", "table"}) /\ Len(o) = Len(s) /\ Len(s) \in Nat
      /\ \A n \in 1 .. Len(s) : o[n] = s[n].kind
  BY LenProperties DEF Matches
<1>2. o = <<>> <=> s = <<>>
  <2>1. o = <<>> <=> Len(o) = 0 BY <1>1, EmptySeq
  <2>2. s = <<>> <=> Len(s) = 0 BY EmptySeq
  <2> QED BY <1>1, <2>1, <2>2
<1>3. ASSUME s # <<>> PROVE Head(o) = Head(s).kind /\ Matches(Tail(o), Tail(s))
  <2>1. o # <<>> BY <1>2, <1>3
  <2>2. /\ Head(s) = s[1] /\ Len(Tail(s)) = Len(s) - 1 /\ Tail(s) \in Seq(Entry)
        /\ \A n \in 1 .. Len(s) - 1 : Tail(s)[n] = s[n + 1]
    BY <1>3, HeadTailProperties
  <2>3. /\ Head(o) = o[1] /\ Len(Tail(o)) = Len(o) - 1 /\ Tail(o) \in Seq({"list", "table"})
        /\ \A n \in 1 .. Len(o) - 1 : Tail(o)[n] = o[n + 1]
    BY <1>1, <2>1, HeadTailProperties
  <2>4. Len(s) \in Nat \ {0} BY <1>1, <1>3, EmptySeq
  <2> DEFINE L == Len(s)
  <2>5. L \in Nat \ {0} /\ L = Len(s) /\ L = Len(o) BY <1>1, <2>4
  <2> HIDE DEF L
  <2>6. 1 \in 1 .. L /\ \A n \in 1 .. L - 1 : n + 1 \in 1 .. L BY <2>5
  <2>7. \A n \in 1 .. L - 1 : Tail(o)[n] = Tail(s)[n].kind BY <1>1, <2>2, <2>3, <2>5, <2>6
  <2>8. Head(o) = Head(s).kind BY <1>1, <2>2, <2>3, <2>5, <2>6
  <2>9. Len(Tail(o)) = L - 1 /\ Len(Tail(s)) = L - 1 BY <2>2, <2>3, <2>5
  <2> QED BY <2>3, <2>7, <2>8, <2>9 DEF Matches
<1> QED BY <1>2, <1>3

\* A list or table that is opened by the parser and by the grammar.
LEMMA MatchesPush ==
  ASSUME NEW o, NEW s \in Seq(Entry), Matches(o, s), NEW k \in {"list", "table"},
         NEW t \in Seq(Entry), t # <<>>, Tail(t) = s, Head(t).kind = k
  PROVE  Matches(<<k>> \o o, t)
<1> DEFINE u == <<k>> \o o
           L == Len(s)
<1>1. o \in Seq({"list", "table"}) /\ Len(o) = L /\ L \in Nat
      /\ \A n \in 1 .. L : o[n] = s[n].kind
  BY LenProperties DEF Matches
<1>2. u \in Seq({"list", "table"}) /\ Len(u) = L + 1 /\ u[1] = k /\ \A n \in 1 .. L : u[n + 1] = o[n]
  BY <1>1
<1>3. /\ Head(t) = t[1] /\ Len(s) = Len(t) - 1 /\ Len(t) \in Nat
      /\ \A n \in 1 .. Len(t) - 1 : s[n] = t[n + 1]
  <2>1. /\ Head(t) = t[1] /\ Len(Tail(t)) = Len(t) - 1 /\ Len(t) \in Nat
        /\ \A n \in 1 .. Len(t) - 1 : Tail(t)[n] = t[n + 1]
    BY HeadTailProperties, LenProperties
  <2> QED BY <2>1, Zenon
<1> HIDE DEF u, L
<1>4. Len(t) = L + 1 /\ \A n \in 1 .. L : s[n] = t[n + 1] BY <1>1, <1>3 DEF L
<1>5. ASSUME NEW n \in 1 .. L + 1 PROVE u[n] = t[n].kind
  <2>1. CASE n = 1 BY <1>2, <1>3, <2>1
  <2>2. CASE n # 1
    <3> DEFINE m == n - 1
    <3>1. m \in 1 .. L /\ n = m + 1 BY <1>1, <2>2
    <3> HIDE DEF m
    <3> QED BY <1>1, <1>2, <1>4, <3>1
  <2> QED BY <2>1, <2>2
<1>6. Matches(u, t) BY <1>2, <1>4, <1>5 DEF Matches
<1> QED BY <1>6 DEF u

\* A value on top of the stack that keeps its kind.
LEMMA MatchesTop ==
  ASSUME NEW o, NEW s \in Seq(Entry), s # <<>>, Matches(o, s),
         NEW t \in Seq(Entry), t # <<>>, Tail(t) = Tail(s), Head(t).kind = Head(s).kind
  PROVE  Matches(o, t)
<1>1. /\ o \in Seq({"list", "table"}) /\ o # <<>> /\ Head(o) = Head(s).kind
      /\ Matches(Tail(o), Tail(s)) /\ Head(o) \in {"list", "table"} /\ Tail(s) \in Seq(Entry)
  <2>1. o \in Seq({"list", "table"}) BY DEF Matches
  <2>2. o # <<>> /\ Head(o) = Head(s).kind /\ Matches(Tail(o), Tail(s)) BY MatchesParts
  <2>3. Head(o) \in {"list", "table"} BY <2>1, <2>2, HeadTailProperties
  <2> QED BY <2>1, <2>2, <2>3, HeadTailProperties
<1> DEFINE k == Head(o)
           r == Tail(o)
           q == Tail(s)
<1>2. k \in {"list", "table"} /\ Matches(r, q) /\ q \in Seq(Entry) /\ Tail(t) = q /\ Head(t).kind = k
  BY <1>1
<1>3. o = <<k>> \o r
  <2>1. r \in Seq({"list", "table"}) BY <1>1, HeadTailProperties
  <2> QED BY <1>1, <2>1
<1> HIDE DEF k, r, q
<1>4. Matches(<<k>> \o r, t) BY <1>2, MatchesPush
<1> QED BY <1>3, <1>4

\* A step of the parser, seen from the grammar.
LEMMA FollowsStep ==
  ASSUME NEW s, Whole(tokens, s), tokens' = tokens, pc' # "scan", Suffices(overrun', error'),
         pc' \in Parsing => Follows(pc', stack', s[i'], SymbolAt(tokens, i'))
  PROVE  GrammarInv'
BY DEF GrammarInv

\* A function that fails with a message about the meaning of a token.
LEMMA FailStep ==
  ASSUME GrammarInv, pc \in Parsing, tokens' = tokens, pc' = "unwind", overrun' = overrun,
         Suffices(overrun, error')
  PROVE  GrammarInv'
BY DEF GrammarInv, Parsing

\* parse_key: the grammar.
LEMMA ParseKeyFollows == ASSUME MemoryInv, GrammarInv, ParseKey PROVE GrammarInv'
<1> DEFINE sym == SymbolAt(tokens, i)
<1>1. /\ pc = "pair" /\ pc \in Parsing /\ (stack = <<>> => ~NoneLeft) /\ UNCHANGED <<tokens, stack>>
      /\ stack \in Seq(Entry) /\ Suffices(overrun, error)
  BY DEF ParseKey, AtPair, Parsing, MemoryInv, Shape, TypeOK, GrammarInv
<1>2. PICK s : Whole(tokens, s) /\ Follows("pair", stack, s[i], sym) BY <1>1 DEF GrammarInv
<1> DEFINE a == s[i]
           b == s[i + 1]
<1>3. /\ Expect("key") <=> sym = "key"
      /\ NoneLeft => a.open = <<>>
      /\ ~NoneLeft => Moves(a, sym, b) /\ b.want # "stopped"
  BY <1>2, ExpectSymbol, NextMove
<1>4. /\ a.want = "item" /\ Matches(a.open, stack)
      /\ stack # <<>> => Head(stack).kind = "table" /\ sym # kTableEnd
  BY <1>2 DEF Follows
<1> HIDE DEF a, b, sym
<1>5. (a.open = <<>> <=> stack = <<>>) /\ (stack # <<>> => Head(a.open) = "table")
  BY <1>1, <1>4, MatchesParts
<1>6. ~NoneLeft BY <1>1, <1>3, <1>5
<1>7. sym = "key" /\ b.want = "sep" /\ b.open = a.open
  BY <1>3, <1>4, <1>5, <1>6 DEF Moves, Due, InOpen
<1>8. overrun' = overrun /\ Expect("key") 
  BY <1>1, <1>3, <1>6, <1>7
  DEF ParseKey, Looked, GrammarInv, Suffices, MemoryInv, Shape, TypeOK
<1>9. CASE pc' = "unwind"
  <2>1. error' \in {"key_is_not_a_valid_identifier", "key_is_not_unique_for_current_table"}
    BY <1>8, <1>9 DEF ParseKey, Fail
  <2>2. Suffices(overrun, error') BY <1>1, <2>1 DEF Suffices
  <2> QED BY <1>1, <1>8, <1>9, <2>2, FailStep
<1>10. CASE pc' # "unwind"
  <2>1. pc' = "sep" /\ i' = i + 1 /\ error' = error
    BY <1>8, <1>10 DEF ParseKey, Fail, Pop
  <2>2. Follows("sep", stack, b, SymbolAt(tokens, i + 1)) BY <1>4, <1>7 DEF Follows
  <2>3. Suffices(overrun', error') BY <1>1, <1>8, <2>1
  <2> QED BY <1>1, <1>2, <2>1, <2>2, <2>3, FollowsStep DEF b
<1> QED BY <1>9, <1>10

\* parse_delim, after a key: the grammar.
LEMMA ParseSeparatorFollows == ASSUME MemoryInv, GrammarInv, ParseSeparator PROVE GrammarInv'
<1> DEFINE sym == SymbolAt(tokens, i)
<1>1. /\ pc = "sep" /\ pc \in Parsing /\ tokens' = tokens
      /\ stack \in Seq(Entry) /\ Suffices(overrun, error)
  BY DEF ParseSeparator, Parsing, MemoryInv, Shape, TypeOK, GrammarInv
<1>2. PICK s : Whole(tokens, s) /\ Follows("sep", stack, s[i], sym) BY <1>1 DEF GrammarInv
<1> DEFINE a == s[i]
           b == s[i + 1]
<1>3. /\ ExpectDelim(kKeyValSep) <=> sym = kKeyValSep
      /\ NoneLeft => a.want = "item"
      /\ ~NoneLeft => Moves(a, sym, b)
  BY <1>2, ExpectSymbol, NextMove DEF Delimiters
<1>4. a.want = "sep" /\ Matches(a.open, stack) BY <1>2 DEF Follows
<1> HIDE DEF a, b, sym
<1>5. ~NoneLeft /\ sym = kKeyValSep /\ b.want = "value" /\ b.open = a.open
  BY <1>3, <1>4 DEF Moves, Due
<1>6. /\ overrun' = overrun /\ i' = i + 1 /\ pc' = "value" /\ error' = error
      /\ stack' = <<Undefined(key)>> \o stack
  BY <1>3, <1>5 DEF ParseSeparator, Looked, Pop, GrammarInv, Suffices, MemoryInv, Shape, TypeOK
<1>7. Tail(stack') = stack
  <2> DEFINE e == Undefined(key)
  <2>1. e \in Entry BY DEF Undefined, Entry, NULL, MemoryInv, Shape, TypeOK
  <2> HIDE DEF e
  <2>2. Tail(<<e>> \o stack) = stack BY <1>1, <2>1, StackPush
  <2> QED BY <1>6, <2>2 DEF e
<1>8. Follows("value", stack', b, SymbolAt(tokens, i + 1))
  <2>1. Matches(b.open, Tail(stack')) BY <1>4, <1>5, <1>7
  <2> QED BY <1>5, <2>1 DEF Follows
<1>9. Suffices(overrun', error') BY <1>1, <1>6
<1> QED BY <1>1, <1>2, <1>6, <1>8, <1>9, FollowsStep DEF b

\* What may stand where a value is due.
LEMMA ValueSymbol ==
  ASSUME MemoryInv, NEW s, Whole(tokens, s), NEW sym, sym = SymbolAt(tokens, i),
         Follows("value", stack, s[i], sym)
  PROVE  /\ ~NoneLeft
         /\ \/ sym = "value" /\ s[i + 1].want = "end" /\ s[i + 1].open = s[i].open
            \/ /\ sym = kListBegin /\ s[i + 1].want = "item"
               /\ s[i + 1].open = <<"list">> \o s[i].open
            \/ /\ sym = kTableBegin /\ s[i + 1].want = "item"
               /\ s[i + 1].open = <<"table">> \o s[i].open
<1> DEFINE a == s[i]
           b == s[i + 1]
<1>1. /\ NoneLeft => a.want = "item" /\ a.open = <<>>
      /\ ~NoneLeft => Moves(a, sym, b)
  BY NextMove
<1>2. \/ a.want = "value"
      \/ a.want = "item" /\ a.open # <<>> /\ Head(a.open) = "list" /\ sym # kListEnd
  BY DEF Follows
<1> HIDE DEF a, b
<1>3. ~NoneLeft BY <1>1, <1>2
<1>4. \/ sym = "value" /\ b.want = "end" /\ b.open = a.open
      \/ sym = kListBegin /\ b.want = "item" /\ b.open = <<"list">> \o a.open
      \/ sym = kTableBegin /\ b.want = "item" /\ b.open = <<"table">> \o a.open
  BY <1>1, <1>2, <1>3 DEF Moves, Due, InOpen
<1> QED BY <1>3, <1>4 DEF a, b

\* parse_list_value and parse_table_value, on the way in: the grammar.
LEMMA ParseOpenFollows ==
  ASSUME MemoryInv, GrammarInv, NEW bracket, NEW kind, ParseOpen(bracket, kind),
         \/ bracket = kListBegin /\ kind = "list"
         \/ bracket = kTableBegin /\ kind = "table"
  PROVE  GrammarInv'
<1> DEFINE sym == SymbolAt(tokens, i)
<1>1. /\ pc = "value" /\ pc \in Parsing /\ UNCHANGED <<tokens, overrun, error>>
      /\ i' = i + 1 /\ pc' = "loop"
      /\ stack \in Seq(Entry) /\ stack # <<>> /\ Suffices(overrun, error)
      /\ Out(kind, NoData, NULL) /\ ExpectDelim(bracket)
      /\ kind \in {"list", "table"} /\ kind \in {"string", "integer", "boolean", "list", "table"}
      /\ NULL \in Nat /\ NoData \in Literals \cup {NoData}
  BY DEF ParseOpen, Pop, Parsing, MemoryInv, Shape, TypeOK, Control, GrammarInv, NULL
<1>2. PICK s : Whole(tokens, s) /\ Follows("value", stack, s[i], sym) BY <1>1 DEF GrammarInv
<1>3. sym = bracket BY <1>1, ExpectSymbol DEF Delimiters
<1>4. s[i + 1].want = "item" /\ s[i + 1].open = <<kind>> \o s[i].open
  <2>1. /\ kListBegin # kTableBegin /\ kListBegin # "value" /\ kTableBegin # "value"
    BY DEF kListBegin, kTableBegin
  <2> QED BY <1>2, <1>3, <2>1, ValueSymbol
<1>5. Matches(s[i].open, Tail(stack)) BY <1>2 DEF Follows
<1> DEFINE t == stack'
           r == Tail(stack)
<1>6. t \in Seq(Entry) /\ t # <<>> /\ Tail(t) = r /\ Head(t).kind = kind
  BY <1>1, OutStep
<1>7. r \in Seq(Entry) BY <1>1, HeadTailProperties
<1> DEFINE o == s[i].open
<1>8. Matches(<<kind>> \o o, t)
  <2>1. Matches(o, r) BY <1>5
  <2> HIDE DEF t, r, o
  <2> QED BY <1>1, <1>6, <1>7, <2>1, MatchesPush
<1>9. Follows("loop", stack', s[i + 1], SymbolAt(tokens, i + 1))
  BY <1>4, <1>6, <1>8 DEF Follows
<1>10. Suffices(overrun', error') BY <1>1
<1> QED BY <1>1, <1>2, <1>9, <1>10, FollowsStep

\* parse_simple_value on a value it accepts.
LEMMA ParseSimpleFollows ==
  ASSUME MemoryInv, GrammarInv, ParseString \/ ParseScalar
  PROVE  GrammarInv'
<1> DEFINE sym == SymbolAt(tokens, i)
<1>1. /\ pc = "value" /\ pc \in Parsing /\ UNCHANGED <<tokens, overrun, error>>
      /\ i' = i + 1 /\ pc' = "end" /\ Expect("value")
      /\ stack \in Seq(Entry) /\ stack # <<>> /\ Suffices(overrun, error)
  BY DEF ParseString, ParseScalar, Pop, Parsing, MemoryInv, Shape, TypeOK, Control, GrammarInv
<1>2. PICK s : Whole(tokens, s) /\ Follows("value", stack, s[i], sym) BY <1>1 DEF GrammarInv
<1>3. sym = "value" BY <1>1, ExpectSymbol
<1>4. s[i + 1].want = "end" /\ s[i + 1].open = s[i].open
  BY <1>2, <1>3, ValueSymbol DEF kListBegin, kTableBegin
<1>5. Matches(s[i].open, Tail(stack)) BY <1>2 DEF Follows
<1>6. Tail(stack') = Tail(stack)
  <2>1. tokens[i].sym \in Literals BY <1>1, CurrentToken DEF Expect
  <2>2. ASSUME ParseString PROVE Tail(stack') = Tail(stack)
    <3>1. Out("string", tokens[i].sym, fresh) /\ fresh \in Nat
      BY <2>2 DEF ParseString, MemoryInv, Shape, TypeOK
    <3> QED BY <1>1, <2>1, <3>1, OutStep
  <2>3. ASSUME ParseScalar PROVE Tail(stack') = Tail(stack)
    <3> DEFINE k == Class[tokens[i].sym]
    <3>1. Out(k, tokens[i].sym, NULL) /\ NULL \in Nat
          /\ k \in {"string", "integer", "boolean", "list", "table"}
      BY <2>3 DEF ParseScalar, NULL
    <3> HIDE DEF k
    <3> QED BY <1>1, <2>1, <3>1, OutStep
  <2> QED BY <2>2, <2>3
<1>7. Follows("end", stack', s[i + 1], SymbolAt(tokens, i + 1))
  BY <1>4, <1>5, <1>6 DEF Follows
<1>8. Suffices(overrun', error') BY <1>1
<1> QED BY <1>1, <1>2, <1>7, <1>8, FollowsStep

\* parse_value, of what is no value: the grammar.
LEMMA ParseBadValueFollows == ASSUME MemoryInv, GrammarInv, ParseBadValue PROVE GrammarInv'
<1> DEFINE sym == SymbolAt(tokens, i)
<1>1. /\ pc = "value" /\ pc \in Parsing /\ tokens' = tokens /\ Suffices(overrun, error)
      /\ ~ExpectDelim(kListBegin) /\ ~ExpectDelim(kTableBegin)
  BY DEF ParseBadValue, Parsing, GrammarInv
<1>2. PICK s : Whole(tokens, s) /\ Follows("value", stack, s[i], sym) BY <1>1 DEF GrammarInv
<1>3. ~NoneLeft /\ Expect("value")
  <2>1. ~NoneLeft /\ sym \in {"value", kListBegin, kTableBegin} BY <1>2, ValueSymbol
  <2> QED BY <1>1, <2>1, ExpectSymbol DEF Delimiters
<1>4. overrun' = overrun /\ pc' = "unwind"
      /\ error' \in {"could_not_normalize_string", "value_is_not_an_integer"}
  BY <1>3 DEF ParseBadValue, Looked, Fail, GrammarInv, Suffices, MemoryInv, Shape, TypeOK
<1>5. Suffices(overrun, error') BY <1>1, <1>4 DEF Suffices
<1> QED BY <1>1, <1>4, <1>5, FailStep

\* parse_delim, after a value: the grammar.
LEMMA ParseValueEndFollows == ASSUME MemoryInv, GrammarInv, ParseValueEnd PROVE GrammarInv'
<1> DEFINE sym == SymbolAt(tokens, i)
<1>1. /\ pc = "end" /\ pc \in Parsing /\ UNCHANGED <<tokens, stack>> /\ Suffices(overrun, error)
  BY DEF ParseValueEnd, Parsing, GrammarInv, tree
<1>2. PICK s : Whole(tokens, s) /\ Follows("end", stack, s[i], sym) BY <1>1 DEF GrammarInv
<1> DEFINE a == s[i]
           b == s[i + 1]
<1>3. /\ ExpectDelim(kKeyValEnd) <=> sym = kKeyValEnd
      /\ NoneLeft => a.want = "item"
      /\ ~NoneLeft => Moves(a, sym, b)
  BY <1>2, ExpectSymbol, NextMove DEF Delimiters
<1>4. a.want = "end" /\ Matches(a.open, Tail(stack)) BY <1>2 DEF Follows
<1> HIDE DEF a, b, sym
<1>5. ~NoneLeft /\ sym = kKeyValEnd /\ b.want = "item" /\ b.open = a.open
  BY <1>3, <1>4 DEF Moves, Due
<1>6. overrun' = overrun /\ i' = i + 1 /\ pc' = "append" /\ error' = error
  BY <1>3, <1>5
  DEF ParseValueEnd, Looked, PopDelim, Pop, GrammarInv, Suffices, MemoryInv, Shape, TypeOK
<1>7. Follows("append", stack, b, SymbolAt(tokens, i + 1)) BY <1>4, <1>5 DEF Follows
<1>8. Suffices(overrun', error') BY <1>1, <1>6
<1> QED BY <1>1, <1>2, <1>6, <1>7, <1>8, FollowsStep DEF b

\* What may stand at the head of an iteration, and after an element.
LEMMA LoopSymbol ==
  ASSUME MemoryInv, pc \in {"loop", "after"}, NEW s, Whole(tokens, s),
         NEW sym, sym = SymbolAt(tokens, i), Follows(pc, stack, s[i], sym)
  PROVE  /\ ~NoneLeft /\ stack # <<>> /\ Matches(s[i].open, stack) /\ s[i].want = "item"
         /\ s[i].open # <<>> /\ Head(s[i].open) = Head(stack).kind
         /\ Head(stack).kind \in {"list", "table"}
         /\ ExpectDelim(Closer) =>
              /\ s[i + 1].want = "end" /\ Matches(s[i + 1].open, Tail(stack))
         /\ ~ExpectDelim(Closer) =>
              /\ Head(stack).kind = "list" => sym # kListEnd
              /\ Head(stack).kind = "table" => sym # kTableEnd
<1> DEFINE a == s[i]
           b == s[i + 1]
<1>1. stack \in Seq(Entry) /\ stack # <<>> /\ Matches(a.open, stack) /\ a.want = "item"
  BY DEF Follows, MemoryInv, Shape, TypeOK
<1>2. /\ NoneLeft => a.open = <<>>
      /\ ~NoneLeft => Moves(a, sym, b)
  BY NextMove
<1>3. Head(stack).kind \in {"list", "table"}
  <2>1. Arrays(stack) /\ 1 \in DOMAIN stack /\ Head(stack) = stack[1]
    BY <1>1, HeadTailProperties, EmptySeq, LenProperties DEF MemoryInv, Shape, Control
  <2> QED BY <2>1 DEF Arrays
<1> HIDE DEF a, b
<1>4. a.open # <<>> /\ Head(a.open) = Head(stack).kind /\ Matches(Tail(a.open), Tail(stack))
  BY <1>1, MatchesParts
<1>5. ~NoneLeft BY <1>2, <1>4
<1>6. Closer \in Delimiters /\ (ExpectDelim(Closer) <=> sym = Closer)
  BY <1>3, ExpectSymbol DEF Closer, Delimiters
<1>7. ASSUME ExpectDelim(Closer) PROVE b.want = "end" /\ b.open = Tail(a.open)
  <2>1. sym = Closer /\ Moves(a, sym, b) BY <1>2, <1>5, <1>6, <1>7
  <2>2. \/ Head(a.open) = "list" /\ sym = kListEnd
        \/ Head(a.open) = "table" /\ sym = kTableEnd
    BY <1>3, <1>4, <2>1 DEF Closer
  <2> QED BY <1>1, <1>4, <2>1, <2>2
      DEF Moves, Due, InOpen, kKeyValSep, kKeyValEnd, kListBegin, kListEnd, kTableBegin, kTableEnd
<1>8. ASSUME ~ExpectDelim(Closer)
      PROVE  /\ Head(stack).kind = "list" => sym # kListEnd
             /\ Head(stack).kind = "table" => sym # kTableEnd
  BY <1>6, <1>8 DEF Closer
<1> QED BY <1>1, <1>3, <1>4, <1>5, <1>7, <1>8 DEF a, b

\* The loops of parse, parse_list_value and parse_table_value: the grammar.
LEMMA ParseLoopFollows == ASSUME MemoryInv, GrammarInv, ParseLoop PROVE GrammarInv'
<1> DEFINE sym == SymbolAt(tokens, i)
<1>1. /\ pc = "loop" /\ pc \in {"loop", "after"} /\ pc \in Parsing /\ UNCHANGED <<tokens, error>>
      /\ stack \in Seq(Entry) /\ Suffices(overrun, error)
  BY DEF ParseLoop, Parsing, GrammarInv, MemoryInv, Shape, TypeOK
<1>2. PICK s : Whole(tokens, s) /\ Follows(pc, stack, s[i], sym) BY <1>1 DEF GrammarInv
<1>3. /\ ~NoneLeft /\ stack # <<>> /\ Matches(s[i].open, stack) /\ s[i].want = "item"
      /\ s[i].open # <<>> /\ Head(s[i].open) = Head(stack).kind
      /\ Head(stack).kind \in {"list", "table"}
      /\ ExpectDelim(Closer) => s[i + 1].want = "end" /\ Matches(s[i + 1].open, Tail(stack))
      /\ ~ExpectDelim(Closer) => /\ Head(stack).kind = "list" => sym # kListEnd
                                 /\ Head(stack).kind = "table" => sym # kTableEnd
  BY <1>1, <1>2, LoopSymbol
<1>4. overrun' = overrun
  BY <1>3 DEF ParseLoop, Looked, GrammarInv, Suffices, MemoryInv, Shape, TypeOK
<1>5. CASE ExpectDelim(Closer)
  <2>1. pc' = "end" /\ i' = i + 1 /\ stack' = stack BY <1>5 DEF ParseLoop, Pop
  <2>2. Follows("end", stack, s[i + 1], SymbolAt(tokens, i + 1)) BY <1>3, <1>5 DEF Follows
  <2> QED BY <1>1, <1>2, <1>4, <2>1, <2>2, FollowsStep
<1>6. CASE ~ExpectDelim(Closer) /\ Head(stack).kind = "list"
  <2>1. pc' = "value" /\ i' = i /\ stack' = <<Undefined(NoKey)>> \o stack
    BY <1>6 DEF ParseLoop
  <2>2. Tail(stack') = stack
    <3> DEFINE e == Undefined(NoKey)
    <3>1. e \in Entry BY DEF Undefined, Entry, NULL
    <3> HIDE DEF e
    <3>2. Tail(<<e>> \o stack) = stack BY <1>1, <3>1, StackPush
    <3> QED BY <2>1, <3>2 DEF e
  <2>3. Follows("value", stack', s[i], sym) BY <1>3, <1>6, <2>2 DEF Follows
  <2> QED BY <1>1, <1>2, <1>4, <2>1, <2>3, FollowsStep
<1>7. CASE ~ExpectDelim(Closer) /\ Head(stack).kind # "list"
  <2>1. pc' = "pair" /\ i' = i /\ stack' = stack BY <1>7 DEF ParseLoop
  <2>2. Follows("pair", stack, s[i], sym) BY <1>3, <1>7 DEF Follows
  <2> QED BY <1>1, <1>2, <1>4, <2>1, <2>2, FollowsStep
<1> QED BY <1>5, <1>6, <1>7

\* parse_list_value and parse_table_value, after the last element: the grammar.
LEMMA ParseAfterFollows == ASSUME MemoryInv, GrammarInv, ParseAfter PROVE GrammarInv'
<1> DEFINE sym == SymbolAt(tokens, i)
<1>1. /\ pc = "after" /\ pc \in {"loop", "after"} /\ pc \in Parsing
      /\ UNCHANGED <<tokens, stack, error>> /\ Suffices(overrun, error)
  BY DEF ParseAfter, Parsing, GrammarInv, tree
<1>2. PICK s : Whole(tokens, s) /\ Follows(pc, stack, s[i], sym) BY <1>1 DEF GrammarInv
<1>3. /\ ~NoneLeft /\ stack # <<>> /\ Matches(s[i].open, stack) /\ s[i].want = "item"
      /\ ExpectDelim(Closer) => s[i + 1].want = "end" /\ Matches(s[i + 1].open, Tail(stack))
  BY <1>1, <1>2, LoopSymbol
<1>4. overrun' = overrun
  BY <1>3 DEF ParseAfter, Looked, GrammarInv, Suffices, MemoryInv, Shape, TypeOK
<1>5. CASE ExpectDelim(Closer)
  <2>1. pc' = "end" /\ i' = i + 1 BY <1>5 DEF ParseAfter, Pop
  <2>2. Follows("end", stack, s[i + 1], SymbolAt(tokens, i + 1)) BY <1>3, <1>5 DEF Follows
  <2> QED BY <1>1, <1>2, <1>4, <2>1, <2>2, FollowsStep
<1>6. CASE ~ExpectDelim(Closer)
  <2>1. pc' = "loop" /\ i' = i BY <1>6 DEF ParseAfter
  <2>2. Follows("loop", stack, s[i], sym) BY <1>3 DEF Follows
  <2> QED BY <1>1, <1>2, <1>4, <2>1, <2>2, FollowsStep
<1> QED BY <1>5, <1>6

\* list_append and table_append: the grammar.
LEMMA AppendValueFollows == ASSUME MemoryInv, GrammarInv, AppendValue PROVE GrammarInv'
<1>1. /\ pc = "append" /\ pc \in Parsing /\ UNCHANGED <<tokens, i, overrun, error>>
      /\ Suffices(overrun, error) /\ stack \in Seq(Entry) /\ stack # <<>>
      /\ Len(stack) \in Nat \ {0}
  BY AppendTarget DEF AppendValue, Parsing, GrammarInv, MemoryInv, Shape, TypeOK, Control
<1>2. PICK s : Whole(tokens, s) /\ Follows("append", stack, s[i], SymbolAt(tokens, i))
  BY <1>1 DEF GrammarInv
<1> DEFINE o == s[i].open
<1>3. s[i].want = "item" /\ Matches(o, Tail(stack)) BY <1>2 DEF Follows
<1>4. CASE Len(stack) = 1
  <2>1. pc' = "pair" /\ stack' = <<>> BY <1>4, AppendFacts DEF AppendValue
  <2>2. Matches(o, <<>>)
    <3>1. Len(Tail(stack)) = 0 BY <1>1, <1>4, HeadTailProperties
    <3>2. Len(o) = 0 /\ o \in Seq({"list", "table"}) BY <1>3, <3>1 DEF Matches
    <3> HIDE DEF o
    <3>3. o = <<>> BY <3>2, EmptySeq
    <3>4. Len(<<>>) = 0 OBVIOUS
    <3> QED BY <3>2, <3>3, <3>4 DEF Matches
  <2>3. Follows("pair", <<>>, s[i], SymbolAt(tokens, i)) BY <1>3, <2>2 DEF Follows
  <2> QED BY <1>1, <1>2, <2>1, <2>3, FollowsStep
<1>5. CASE Len(stack) # 1
  <2> DEFINE c == [stack[2] EXCEPT !.ptr = Moved]
             q == Tail(stack)
             r == Tail(q)
  <2>1. /\ pc' = "after" /\ stack' = <<c>> \o r /\ stack[2] = Head(q) /\ stack[2] \in Entry
        /\ q \in Seq(Entry) /\ q # <<>> /\ r \in Seq(Entry) /\ Moved \in Nat
    BY <1>5, AppendFacts, AppendContainer DEF AppendValue, Target
  <2>2. c \in Entry /\ c.kind = Head(q).kind BY <2>1 DEF Entry
  <2> HIDE DEF c
  <2> DEFINE t == <<c>> \o r
  <2>3. t \in Seq(Entry) /\ t # <<>> /\ Tail(t) = Tail(q) /\ Head(t).kind = Head(q).kind
    <3> HIDE DEF r
    <3>1. t \in Seq(Entry) /\ t # <<>> /\ Tail(t) = r /\ Head(t) = c BY <2>1, <2>2, StackPush
    <3> QED BY <2>2, <3>1 DEF r
  <2> HIDE DEF t, q, o
  <2>4. Matches(o, t) BY <1>3, <2>1, <2>3, MatchesTop DEF q
  <2>5. Follows("after", t, s[i], SymbolAt(tokens, i)) BY <1>3, <2>3, <2>4 DEF Follows, o
  <2>6. stack' = t BY <2>1 DEF t
  <2> QED BY <1>1, <1>2, <2>1, <2>5, <2>6, FollowsStep
<1> QED BY <1>4, <1>5

\* tokens_append is a step of the grammar.
LEMMA EmitMoves ==
  ASSUME MemoryInv, Emit
  PROVE  \E t \in Token : /\ tokens' = Append(tokens, t)
                          /\ Moves([open |-> open, want |-> want], Symbol(t),
                                   [open |-> open', want |-> want'])
<1>1. PICK t \in Token : tokens' = Append(tokens, t) BY DEF Emit
<1>2. /\ tokens \in Seq(Token) /\ Len(tokens) \in Nat /\ Len(tokens') = Len(tokens) + 1
      /\ tokens'[Len(tokens) + 1] = t
  BY <1>1, AppendProperties, LenProperties DEF MemoryInv, Shape, TypeOK
<1> DEFINE f == [n \in 1 .. Len(tokens) |-> Symbol(tokens[n])]
           g == [n \in 1 .. Len(tokens') |-> Symbol(tokens'[n])]
           L == Len(tokens)
<1>3. L \in Nat /\ Len(g) = L + 1 /\ Len(f) = L /\ g[L + 1] = Symbol(t) BY <1>2
<1>4. \A x : g = Append(f, x) => Symbol(t) = x
  <2> SUFFICES ASSUME NEW x, g = Append(f, x) PROVE Symbol(t) = x OBVIOUS
  <2>1. f \in Seq({f[n] : n \in 1 .. L}) BY <1>3
  <2> HIDE DEF f, g, L
  <2>2. Append(f, x)[L + 1] = x BY <1>3, <2>1
  <2> QED BY <1>3, <2>2
<1>5. g # f
  <2> HIDE DEF f, g, L
  <2> QED BY <1>3
<1>6. G!GNext BY DEF Emit
<1>7. \/ G!Key \/ G!Separator \/ G!Simple \/ G!End
      \/ G!OpenList \/ G!OpenTable \/ G!CloseList \/ G!CloseTable
  <2>1. ~G!Accept /\ ~G!Stop BY <1>5 DEF G!Accept, G!Stop
  <2> QED BY <1>6, <2>1 DEF G!GNext
<1> DEFINE a == [open |-> open, want |-> want]
           b == [open |-> open', want |-> want']
<1>8. \A x, next : G!Emit(x, next) => Symbol(t) = x /\ b.want = next
  BY <1>4 DEF G!Emit
<1>9. a.open = open /\ a.want = want /\ b.open = open' /\ b.want = want' OBVIOUS
<1> HIDE DEF a, b, f, g, L
<1>10. (G!ValueDue <=> Due(a)) /\ \A kind : G!Within(kind) <=> InOpen(a, kind)
  BY <1>9 DEF G!ValueDue, G!Within, Due, InOpen
<1>11. Moves(a, Symbol(t), b)
  BY <1>7, <1>8, <1>9, <1>10
  DEF Moves, G!Key, G!Separator, G!Simple, G!End, G!OpenList, G!OpenTable, G!CloseList,
      G!CloseTable, G!kKeyValSep, G!kKeyValEnd, G!kListBegin, G!kListEnd, G!kTableBegin,
      G!kTableEnd, kKeyValSep, kKeyValEnd, kListBegin, kListEnd, kTableBegin, kTableEnd
<1> QED BY <1>1, <1>11 DEF a, b

\* scan, one token: the grammar.
LEMMA EmitFollows == ASSUME MemoryInv, GrammarInv, Emit PROVE GrammarInv'
<1>1. /\ pc = "scan" /\ pc' = "scan" /\ UNCHANGED <<i, overrun, error>> /\ i = 1
      /\ Suffices(overrun, error)
  BY DEF Emit, GrammarInv, tree
<1>2. PICK s : Run(tokens, s) /\ s[Len(tokens) + 1] = [open |-> open, want |-> want]
  BY <1>1 DEF GrammarInv
<1>3. PICK t \in Token : /\ tokens' = Append(tokens, t)
                         /\ Moves([open |-> open, want |-> want], Symbol(t),
                                  [open |-> open', want |-> want'])
  BY EmitMoves
<1> DEFINE L == Len(tokens)
           b == [open |-> open', want |-> want']
           r == [n \in 1 .. L + 2 |-> IF n = L + 2 THEN b ELSE s[n]]
           u == tokens'
<1>4. /\ L \in Nat /\ Len(u) = L + 1 /\ u[L + 1] = t
      /\ \A n \in 1 .. L : u[n] = tokens[n]
  BY <1>3, AppendProperties, LenProperties DEF MemoryInv, Shape, TypeOK
<1>5. r[L + 2] = b /\ \A n \in 1 .. L + 1 : r[n] = s[n] BY <1>4
<1>6. Moves(s[L + 1], Symbol(t), b) BY <1>2, <1>3
<1>7. s[1] = [open |-> <<>>, want |-> "item"]
      /\ \A n \in 1 .. L : Moves(s[n], Symbol(tokens[n]), s[n + 1])
  BY <1>2 DEF Run
<1> HIDE DEF L, b, r, u
<1>8. ASSUME NEW n \in 1 .. L + 1 PROVE Moves(r[n], Symbol(u[n]), r[n + 1])
  <2>1. CASE n = L + 1
    <3>1. n + 1 = L + 2 /\ n \in 1 .. L + 1 BY <1>4, <2>1
    <3> QED BY <1>4, <1>5, <1>6, <2>1, <3>1
  <2>2. CASE n # L + 1
    <3>1. n \in 1 .. L /\ n + 1 \in 1 .. L + 1 BY <1>4, <2>2
    <3> QED BY <1>4, <1>5, <1>7, <3>1
  <2> QED BY <2>1, <2>2
<1>9. Run(u, r)
  <2>1. 1 \in 1 .. L + 1 BY <1>4
  <2> QED BY <1>4, <1>5, <1>7, <1>8, <2>1 DEF Run
<1>10. r[Len(u) + 1] = b
  <2>1. (L + 1) + 1 = L + 2 BY <1>4
  <2> QED BY <1>4, <1>5, <2>1
<1> QED BY <1>1, <1>9, <1>10 DEF GrammarInv, Parsing, b, u

\* scan, returned: the grammar.
LEMMA ScanDoneFollows == ASSUME MemoryInv, GrammarInv, ScanDone PROVE GrammarInv'
<1>1. /\ pc = "scan" /\ pc' = "pair" /\ UNCHANGED <<tokens, i, stack, overrun, error>> /\ i = 1
      /\ Suffices(overrun, error) /\ stack = <<>> /\ open = <<>> /\ want = "item"
  BY DEF ScanDone, GrammarInv, tree, G!Accept, MemoryInv, Shape, Control
<1>2. PICK s : Run(tokens, s) /\ s[Len(tokens) + 1] = [open |-> open, want |-> want]
  BY <1>1 DEF GrammarInv
<1>3. Whole(tokens, s) /\ s[1] = [open |-> <<>>, want |-> "item"] BY <1>1, <1>2 DEF Whole, Run
<1>4. Matches(<<>>, <<>>)
  <2>1. Len(<<>>) = 0 /\ <<>> \in Seq({"list", "table"}) OBVIOUS
  <2> QED BY <2>1 DEF Matches
<1>5. Follows("pair", <<>>, s[1], SymbolAt(tokens, 1)) BY <1>3, <1>4 DEF Follows
<1> QED BY <1>1, <1>3, <1>5, FollowsStep

\* Before scan the grammar has emitted nothing.
LEMMA GrammarInit == ASSUME Init PROVE GrammarInv
<1>1. /\ pc = "scan" /\ i = 1 /\ tokens = <<>> /\ open = <<>> /\ want = "item"
      /\ error = "none" /\ overrun = FALSE
  BY DEF Init, ParserInit
<1> DEFINE s == [n \in {1} |-> [open |-> <<>>, want |-> "item"]]
<1>2. s[1] = [open |-> <<>>, want |-> "item"] /\ Len(<<>>) = 0 OBVIOUS
<1> HIDE DEF s
<1>3. Run(<<>>, s) BY <1>2 DEF Run
<1>4. s[Len(<<>>) + 1] = [open |-> <<>>, want |-> "item"] BY <1>2
<1> QED BY <1>1, <1>3, <1>4 DEF GrammarInv, Parsing, Suffices

\* kevs_parse, called again: the grammar.
LEMMA KevsParseAgainFollows == ASSUME GrammarInv, KevsParseAgain PROVE GrammarInv'
<1>1. /\ pc' = "scan" /\ i' = 1 /\ tokens' = <<>> /\ open' = <<>> /\ want' = "item"
      /\ error' = "none" /\ overrun' = overrun /\ Suffices(overrun, error)
  BY DEF KevsParseAgain, GrammarInv
<1> DEFINE s == [n \in {1} |-> [open |-> <<>>, want |-> "item"]]
<1>2. s[1] = [open |-> <<>>, want |-> "item"] /\ Len(<<>>) = 0 OBVIOUS
<1> HIDE DEF s
<1>3. Run(<<>>, s) BY <1>2 DEF Run
<1>4. s[Len(<<>>) + 1] = [open |-> <<>>, want |-> "item"] BY <1>2
<1> QED BY <1>1, <1>3, <1>4 DEF GrammarInv, Parsing, Suffices

\* Where the parser is not at work.
LEMMA IdleStep ==
  ASSUME GrammarInv, pc' \notin Parsing, pc' # "scan", Suffices(overrun', error')
  PROVE  GrammarInv'
BY DEF GrammarInv

\* Every step keeps the parser in step with the grammar.
LEMMA GrammarStep == ASSUME MemoryInv, GrammarInv, [Next]_allvars PROVE GrammarInv'
<1>1. CASE Emit BY <1>1, EmitFollows
<1>2. CASE ScanDone BY <1>2, ScanDoneFollows
<1>3. CASE KevsParseAgain BY <1>3, KevsParseAgainFollows
<1>4. CASE ScanFailed
  <2>1. pc' = "failed" /\ overrun' = overrun /\ error' = "scan_error" BY <1>4 DEF ScanFailed
  <2> QED BY <2>1, IdleStep DEF GrammarInv, Suffices, Parsing
<1>5. CASE KevsReturn \/ Done \/ Unwind \/ Failed \/ KevsFree \/ KevsFreed
  <2>1. /\ pc' \in {"returned", "done", "unwind", "failed", "freeing", "freed"}
        /\ UNCHANGED <<overrun, error>>
    BY <1>5 DEF KevsReturn, Done, Unwind, Failed, Kept, KevsFree, KevsFreed
  <2> QED BY <2>1, IdleStep DEF GrammarInv, Parsing
<1>6. CASE FreeString \/ FreeElements \/ FreeArray \/ FreeNothing
  <2>1. /\ pc \in {"unwind", "freeing"} /\ pc' = pc /\ UNCHANGED <<overrun, error>>
    BY <1>6, NextCall DEF FreeString, FreeElements, FreeArray, FreeNothing
  <2> QED BY <2>1, IdleStep DEF GrammarInv, Parsing
<1>7. CASE ParseKey BY <1>7, ParseKeyFollows
<1>8. CASE ParseSeparator BY <1>8, ParseSeparatorFollows
<1>9. CASE ParseList BY <1>9, ParseOpenFollows DEF ParseList
<1>10. CASE ParseTable BY <1>10, ParseOpenFollows DEF ParseTable
<1>11. CASE ParseString \/ ParseScalar BY <1>11, ParseSimpleFollows
<1>12. CASE ParseBadValue BY <1>12, ParseBadValueFollows
<1>13. CASE ParseValueEnd BY <1>13, ParseValueEndFollows
<1>14. CASE ParseLoop BY <1>14, ParseLoopFollows
<1>15. CASE AppendValue BY <1>15, AppendValueFollows
<1>16. CASE ParseAfter BY <1>16, ParseAfterFollows
<1>17. CASE UNCHANGED allvars BY <1>17 DEF allvars, vars, GrammarInv
<1> QED
  BY <1>1, <1>2, <1>3, <1>4, <1>5, <1>6, <1>7, <1>8, <1>9, <1>10, <1>11, <1>12, <1>13, <1>14,
     <1>15, <1>16, <1>17
  DEF Next, Parse, Release

\* What the scanner promises is enough, for every stream of tokens it may emit:
\* parse never runs out of tokens, where parse_errorf would read past the
\* array, and reports no token that is not the one it expects.
THEOREM GrammarIsEnough == Spec => []GrammarSuffices
<1>1. Init => GrammarInv BY GrammarInit
<1>2. MemoryInv /\ GrammarInv /\ [Next]_allvars => GrammarInv' BY GrammarStep
<1>3. GrammarInv => GrammarSuffices BY DEF GrammarInv, GrammarSuffices, Suffices
<1> QED BY <1>1, <1>2, <1>3, MemoryInvariant, PTL DEF Spec

-----------------------------------------------------------------------------
(* What the tokens mean.                                                   *)

\* The brackets among the tokens from .. to.
BracketSet(syms, from, to) ==
  {n \in from .. to : tokens[n].kind = "delim" /\ tokens[n].sym \in syms}

IsBracket(syms, n) == tokens[n].kind = "delim" /\ tokens[n].sym \in syms

\* One more token changes the count by one, or not at all.
LEMMA BracketsNext ==
  ASSUME NEW syms, NEW p \in Nat, NEW n \in Nat, p <= n + 1
  PROVE  /\ Brackets(syms, p, n) \in Nat
         /\ Brackets(syms, p, n + 1) =
              IF IsBracket(syms, n + 1) THEN Brackets(syms, p, n) + 1 ELSE Brackets(syms, p, n)
<1> DEFINE B == BracketSet(syms, p, n)
           C == BracketSet(syms, p, n + 1)
<1>1. Brackets(syms, p, n) = Cardinality(B) /\ Brackets(syms, p, n + 1) = Cardinality(C)
  BY DEF Brackets, BracketSet
<1>2. IsFiniteSet(B) /\ Cardinality(B) \in Nat
  <2>1. IsFiniteSet(p .. n) BY FS_Interval
  <2>2. B \subseteq p .. n BY DEF BracketSet
  <2>3. IsFiniteSet(B) BY <2>1, <2>2, FS_Subset
  <2> QED BY <2>3, FS_CardinalityType
<1>3. n + 1 \notin B BY DEF BracketSet
<1>4. p .. n + 1 = (p .. n) \cup {n + 1} OBVIOUS
<1>5. CASE IsBracket(syms, n + 1)
  <2>1. C = B \cup {n + 1} BY <1>4, <1>5 DEF BracketSet, IsBracket
  <2>2. Cardinality(C) = Cardinality(B) + 1 BY <1>2, <1>3, <2>1, FS_AddElement
  <2> QED BY <1>1, <1>2, <1>5, <2>2
<1>6. CASE ~IsBracket(syms, n + 1)
  <2>1. C = B BY <1>4, <1>6 DEF BracketSet, IsBracket
  <2> QED BY <1>1, <1>2, <1>6, <2>1
<1> QED BY <1>5, <1>6

\* A stretch of no tokens has no brackets, and one of a single token one at most.
LEMMA BracketsOne ==
  ASSUME NEW syms, NEW n \in Nat \ {0}
  PROVE  /\ Brackets(syms, n, n - 1) = 0
         /\ Brackets(syms, n, n) = IF IsBracket(syms, n) THEN 1 ELSE 0
<1>1. Brackets(syms, n, n - 1) = 0
  <2>1. n .. n - 1 = {} OBVIOUS
  <2>2. BracketSet(syms, n, n - 1) = {} BY <2>1 DEF BracketSet
  <2>3. Cardinality(BracketSet(syms, n, n - 1)) = 0 BY <2>2, FS_EmptySet
  <2> QED BY <2>3 DEF BracketSet, Brackets
<1> DEFINE m == n - 1
<1>2. m \in Nat /\ n = m + 1 /\ n <= m + 1 /\ n \in Nat OBVIOUS
<1>3. Brackets(syms, n, m) = 0 BY <1>1
<1> HIDE DEF m
<1>4. Brackets(syms, n, m + 1) = IF IsBracket(syms, m + 1) THEN Brackets(syms, n, m) + 1 ELSE Brackets(syms, n, m)
  BY <1>2, BracketsNext
<1>5. Brackets(syms, n, n) = IF IsBracket(syms, n) THEN 0 + 1 ELSE 0
  BY <1>2, <1>3, <1>4
<1> QED BY <1>1, <1>5

\* What is open before the next token.
LEMMA OpenNext ==
  ASSUME NEW n \in Nat \ {0}
  PROVE  OpenAt(n + 1) =
           {p \in OpenAt(n) : Brackets(Openers, p, n) > Brackets(Closers, p, n)}
             \cup {p \in {n} : IsBracket(Openers, n)}
<1> DEFINE More(p, q) == Brackets(Openers, p, q) > Brackets(Closers, p, q)
<1>1. OpenAt(n) = {p \in 1 .. n - 1 : Brackets(Openers, p, p) = 1 /\ \A q \in p .. n - 1 : More(p, q)}
  BY DEF OpenAt
<1>2. OpenAt(n + 1) = {p \in 1 .. n : Brackets(Openers, p, p) = 1 /\ \A q \in p .. n : More(p, q)}
  <2>1. (n + 1) - 1 = n OBVIOUS
  <2> QED BY <2>1 DEF OpenAt
<1>3. Brackets(Openers, n, n) = 1 /\ More(n, n) <=> IsBracket(Openers, n)
  <2>1. Brackets(Openers, n, n) = IF IsBracket(Openers, n) THEN 1 ELSE 0 BY BracketsOne
  <2>2. Brackets(Closers, n, n) = IF IsBracket(Closers, n) THEN 1 ELSE 0 BY BracketsOne
  <2>3. IsBracket(Openers, n) => ~IsBracket(Closers, n)
    BY DEF IsBracket, Openers, Closers, kListBegin, kTableBegin, kListEnd, kTableEnd
  <2> QED BY <2>1, <2>2, <2>3
<1> HIDE DEF More
<1>4. ASSUME NEW p \in 1 .. n - 1
      PROVE  (\A q \in p .. n : More(p, q)) <=> (\A q \in p .. n - 1 : More(p, q)) /\ More(p, n)
  <2>1. p .. n = (p .. n - 1) \cup {n} OBVIOUS
  <2> QED BY <2>1
<1>5. n .. n = {n} /\ 1 .. n = (1 .. n - 1) \cup {n} /\ n \notin 1 .. n - 1 OBVIOUS
<1>6. OpenAt(n + 1) = {p \in OpenAt(n) : More(p, n)} \cup {p \in {n} : IsBracket(Openers, n)}
  BY <1>1, <1>2, <1>3, <1>4, <1>5
<1> QED BY <1>6 DEF More

-----------------------------------------------------------------------------

\* The lists and tables that are open before token n, from the outside in: P gives
\* the bracket of each, and so many more brackets have been opened than closed from there on.
OpenTo(P, d) == {P[j] : j \in 1 .. d}

Opened(P, d, n) ==
  /\ \A j \in 1 .. d :
       /\ P[j] \in 1 .. n - 1
       /\ Brackets(Openers, P[j], n - 1) = Brackets(Closers, P[j], n - 1) + (d + 1 - j)
  /\ OpenAt(n) = OpenTo(P, d)

\* Brackets are different, so the levels are.
LEMMA LevelsDiffer ==
  ASSUME NEW P, NEW d \in Nat, NEW n \in Nat \ {0}, Opened(P, d, n), NEW k \in 0 .. d
  PROVE  /\ OpenTo(P, k) = OpenAt(n) <=> k = d
         /\ OpenAt(n) = {} <=> d = 0
<1>1. OpenAt(n) = OpenTo(P, d) BY DEF Opened
<1>2. ASSUME NEW j \in 1 .. d, NEW l \in 1 .. d, P[j] = P[l] PROVE j = l
  <2>1. /\ Brackets(Openers, P[j], n - 1) = Brackets(Closers, P[j], n - 1) + (d + 1 - j)
        /\ Brackets(Openers, P[j], n - 1) = Brackets(Closers, P[j], n - 1) + (d + 1 - l)
    BY <1>2 DEF Opened
  <2>2. P[j] \in 1 .. n - 1 BY DEF Opened
  <2>3. P[j] \in Nat /\ n - 1 \in Nat /\ P[j] <= (n - 1) + 1 BY <2>2
  <2>4. Brackets(Closers, P[j], n - 1) \in Nat BY <2>3, BracketsNext
  <2> DEFINE c == Brackets(Closers, P[j], n - 1)
  <2>5. c + (d + 1 - j) = c + (d + 1 - l) /\ c \in Nat BY <2>1, <2>4
  <2> HIDE DEF c
  <2> QED BY <2>5
<1>3. ASSUME k # d PROVE OpenTo(P, k) # OpenTo(P, d)
  <2>1. d \in 1 .. d /\ \A j \in 1 .. k : j \in 1 .. d /\ j # d BY <1>3
  <2>2. P[d] \in OpenTo(P, d) BY <2>1 DEF OpenTo
  <2>3. P[d] \notin OpenTo(P, k) BY <1>2, <2>1 DEF OpenTo
  <2> QED BY <2>2, <2>3
<1>4. OpenTo(P, d) = {} <=> d = 0
  <2>1. d = 0 <=> 1 .. d = {} OBVIOUS
  <2> QED BY <2>1 DEF OpenTo
<1> QED BY <1>1, <1>3, <1>4

\* A token that is no bracket.
LEMMA OpenedSame ==
  ASSUME NEW P, NEW d \in Nat, NEW n \in Nat \ {0}, Opened(P, d, n),
         ~IsBracket(Openers, n), ~IsBracket(Closers, n)
  PROVE  Opened(P, d, n + 1)
<1>1. \A j \in 1 .. d : P[j] \in 1 .. n - 1 BY DEF Opened
<1>2. ASSUME NEW j \in 1 .. d
      PROVE  /\ P[j] \in 1 .. n
             /\ Brackets(Openers, P[j], n) = Brackets(Closers, P[j], n) + (d + 1 - j)
             /\ Brackets(Openers, P[j], n) > Brackets(Closers, P[j], n)
  <2> DEFINE m == n - 1
  <2>1. m \in Nat /\ n = m + 1 /\ P[j] \in Nat /\ P[j] <= m + 1 /\ P[j] \in 1 .. n BY <1>1
  <2>2. Brackets(Openers, P[j], m) = Brackets(Closers, P[j], m) + (d + 1 - j) BY DEF Opened
  <2> HIDE DEF m
  <2>3. /\ Brackets(Openers, P[j], m + 1) = Brackets(Openers, P[j], m)
        /\ Brackets(Closers, P[j], m + 1) = Brackets(Closers, P[j], m)
        /\ Brackets(Closers, P[j], m) \in Nat
    BY <2>1, BracketsNext
  <2> DEFINE c == Brackets(Closers, P[j], m)
  <2>4. c + (d + 1 - j) > c
    <3>1. c \in Nat BY <2>3
    <3> HIDE DEF c
    <3> QED BY <3>1
  <2> QED BY <2>1, <2>2, <2>3, <2>4
<1>3. OpenAt(n) = OpenTo(P, d) BY DEF Opened
<1>4. OpenAt(n + 1) = OpenAt(n) BY <1>2, <1>3, OpenNext DEF OpenTo
<1>5. (n + 1) - 1 = n OBVIOUS
<1> QED BY <1>2, <1>3, <1>4, <1>5 DEF Opened

\* A bracket that opens a list or table.
LEMMA OpenedMore ==
  ASSUME NEW P, NEW d \in Nat, NEW n \in Nat \ {0}, Opened(P, d, n), IsBracket(Openers, n),
         NEW Q, Q[d + 1] = n, \A j \in 1 .. d : Q[j] = P[j]
  PROVE  /\ Opened(Q, d + 1, n + 1)
         /\ \A k \in 0 .. d : OpenTo(Q, k) = OpenTo(P, k)
<1>1. \A j \in 1 .. d : P[j] \in 1 .. n - 1 BY DEF Opened
<1>2. ~IsBracket(Closers, n)
  BY DEF IsBracket, Openers, Closers, kListBegin, kTableBegin, kListEnd, kTableEnd
<1>3. ASSUME NEW j \in 1 .. d
      PROVE  /\ P[j] \in 1 .. n
             /\ Brackets(Openers, P[j], n) = Brackets(Closers, P[j], n) + ((d + 1) + 1 - j)
             /\ Brackets(Openers, P[j], n) > Brackets(Closers, P[j], n)
  <2> DEFINE m == n - 1
  <2>1. m \in Nat /\ n = m + 1 /\ P[j] \in Nat /\ P[j] <= m + 1 /\ P[j] \in 1 .. n BY <1>1
  <2>2. Brackets(Openers, P[j], m) = Brackets(Closers, P[j], m) + (d + 1 - j) BY DEF Opened
  <2> HIDE DEF m
  <2>3. /\ Brackets(Openers, P[j], m + 1) = Brackets(Openers, P[j], m) + 1
        /\ Brackets(Closers, P[j], m + 1) = Brackets(Closers, P[j], m)
        /\ Brackets(Closers, P[j], m) \in Nat
    BY <1>2, <2>1, BracketsNext
  <2> DEFINE c == Brackets(Closers, P[j], m)
  <2>4. c + (d + 1 - j) + 1 > c /\ c + (d + 1 - j) + 1 = c + ((d + 1) + 1 - j)
    <3>1. c \in Nat BY <2>3
    <3> HIDE DEF c
    <3> QED BY <3>1
  <2> QED BY <2>1, <2>2, <2>3, <2>4
<1>4. /\ Brackets(Openers, n, n) = 1 /\ Brackets(Closers, n, n) = 0
  BY <1>2, BracketsOne
<1>5. OpenAt(n) = OpenTo(P, d) BY DEF Opened
<1>6. OpenAt(n + 1) = OpenAt(n) \cup {n} BY <1>3, <1>5, OpenNext DEF OpenTo
<1>7. \A k \in 0 .. d : OpenTo(Q, k) = OpenTo(P, k)
  <2>1. \A k \in 0 .. d : \A j \in 1 .. k : j \in 1 .. d OBVIOUS
  <2> QED BY <2>1 DEF OpenTo
<1>8. 1 .. d + 1 = (1 .. d) \cup {d + 1} /\ d \in 0 .. d OBVIOUS
<1>9. OpenTo(Q, d + 1) = OpenTo(P, d) \cup {n}
  <2>1. OpenTo(Q, d + 1) = OpenTo(Q, d) \cup {Q[d + 1]} BY <1>8 DEF OpenTo
  <2> QED BY <1>7, <1>8, <2>1
<1>10. ASSUME NEW j \in 1 .. d + 1
       PROVE  /\ Q[j] \in 1 .. n
              /\ Brackets(Openers, Q[j], n) = Brackets(Closers, Q[j], n) + ((d + 1) + 1 - j)
  <2>1. CASE j = d + 1
    <3>1. Q[j] = n /\ n \in 1 .. n /\ 1 = 0 + ((d + 1) + 1 - j) BY <2>1
    <3> QED BY <1>4, <3>1
  <2>2. CASE j # d + 1
    <3>1. j \in 1 .. d BY <1>8, <2>2
    <3> QED BY <1>3, <3>1
  <2> QED BY <2>1, <2>2
<1>11. (n + 1) - 1 = n OBVIOUS
<1>12. Opened(Q, d + 1, n + 1) BY <1>5, <1>6, <1>9, <1>10, <1>11 DEF Opened
<1> QED BY <1>7, <1>12

\* A bracket that closes the innermost one.
LEMMA OpenedLess ==
  ASSUME NEW P, NEW d \in Nat \ {0}, NEW n \in Nat \ {0}, Opened(P, d, n), IsBracket(Closers, n)
  PROVE  Opened(P, d - 1, n + 1)
<1>1. \A j \in 1 .. d : P[j] \in 1 .. n - 1 BY DEF Opened
<1>2. ~IsBracket(Openers, n)
  BY DEF IsBracket, Openers, Closers, kListBegin, kTableBegin, kListEnd, kTableEnd
<1>3. ASSUME NEW j \in 1 .. d
      PROVE  /\ P[j] \in 1 .. n
             /\ Brackets(Openers, P[j], n) = Brackets(Closers, P[j], n) + ((d - 1) + 1 - j)
             /\ Brackets(Openers, P[j], n) > Brackets(Closers, P[j], n) <=> j # d
  <2> DEFINE m == n - 1
  <2>1. m \in Nat /\ n = m + 1 /\ P[j] \in Nat /\ P[j] <= m + 1 /\ P[j] \in 1 .. n BY <1>1
  <2>2. Brackets(Openers, P[j], m) = Brackets(Closers, P[j], m) + (d + 1 - j) BY DEF Opened
  <2> HIDE DEF m
  <2>3. /\ Brackets(Openers, P[j], m + 1) = Brackets(Openers, P[j], m)
        /\ Brackets(Closers, P[j], m + 1) = Brackets(Closers, P[j], m) + 1
        /\ Brackets(Closers, P[j], m) \in Nat
    BY <1>2, <2>1, BracketsNext
  <2> DEFINE c == Brackets(Closers, P[j], m)
  <2>4. /\ c + (d + 1 - j) = c + 1 + ((d - 1) + 1 - j)
        /\ c + (d + 1 - j) > c + 1 <=> j # d
    <3>1. c \in Nat BY <2>3
    <3> HIDE DEF c
    <3> QED BY <3>1
  <2> QED BY <2>1, <2>2, <2>3, <2>4
<1>4. OpenAt(n) = OpenTo(P, d) BY DEF Opened
<1>5. OpenAt(n + 1) = {p \in OpenTo(P, d) : Brackets(Openers, p, n) > Brackets(Closers, p, n)}
  BY <1>2, <1>4, OpenNext
<1>6. OpenAt(n + 1) = OpenTo(P, d - 1)
  <2>1. 1 .. d - 1 = {j \in 1 .. d : j # d} OBVIOUS
  <2> QED BY <1>3, <1>5, <2>1 DEF OpenTo
<1>7. (n + 1) - 1 = n /\ \A j \in 1 .. d - 1 : j \in 1 .. d OBVIOUS
<1> QED BY <1>3, <1>6, <1>7 DEF Opened

-----------------------------------------------------------------------------

\* The keys met so far in the list or table whose brackets are S, and those in an array.
UsedAt(S, n) ==
  {tokens[m].sym : m \in {l \in 1 .. n - 1 : tokens[l].kind = "key" /\ OpenAt(l) = S}}

KeysOf(es) == {es[n].key : n \in 1 .. Len(es)}

\* The list or table at a level, from the outside in; the key in it whose value is
\* under construction; the keys it had before this call.
Level(s, r, k) == IF k = 0 THEN r ELSE Nth(s, k)

Waiting(s, x, k) == IF k < Len(s) THEN {Nth(s, k + 1).key} ELSE x

Before(k) == IF k = 0 THEN OldKeys ELSE {}

\* The keys of a table under construction are those met in it.
KeysFit(P, d, n, h, s, r, x) ==
  \A k \in 0 .. d :
    Level(s, r, k).kind = "table" =>
      KeysOf(ElemsIn(h, Level(s, r, k).ptr)) \cup Waiting(s, x, k)
        = UsedAt(OpenTo(P, k), n) \cup Before(k)

\* The value on top of the stack is none yet, or complete, in these.
InValue(p) == p \in {"value", "end", "append"}

Depth(p, s) == IF InValue(p) THEN Len(s) - 1 ELSE Len(s)

KeyRead(p, k) == IF p = "sep" THEN {k} ELSE {}

Verdict == error = IF Troubled = {} THEN "none" ELSE Trouble(Min(Troubled))

Fine(n) == \A m \in 1 .. n - 1 : Trouble(m) = "none"

Reading(p, n, h, s, r, k) ==
  \E P : /\ Opened(P, Depth(p, s), n)
         /\ KeysFit(P, Depth(p, s), n, h, s, r, KeyRead(p, k))

MeaningInv ==
  /\ pc = "scan" => heap = was.heap /\ root = was.root /\ error = "none"
  /\ pc \in Parsing => error = "none" /\ Fine(i) /\ Reading(pc, i, heap, stack, root, key)
  /\ pc \in {"unwind", "done", "failed", "returned"} /\ error # "scan_error" => Verdict

\* What the tokens mean changes with the tokens and the caller's table only.
LEMMA SameMeaning ==
  ASSUME UNCHANGED <<tokens, was>>
  PROVE  /\ \A y, p, n : Brackets(y, p, n)' = Brackets(y, p, n)
         /\ \A n : OpenAt(n)' = OpenAt(n)
         /\ \A S, n : UsedAt(S, n)' = UsedAt(S, n)
         /\ \A k : Before(k)' = Before(k)
         /\ \A n : Trouble(n)' = Trouble(n)
         /\ Troubled' = Troubled
<1>1. \A y, p, n : Brackets(y, p, n)' = Brackets(y, p, n) BY DEF Brackets
<1>2. \A n : OpenAt(n)' = OpenAt(n) BY <1>1 DEF OpenAt
<1>3. OldKeys' = OldKeys BY DEF OldKeys
<1>4. \A n : Trouble(n)' = Trouble(n) BY <1>2, <1>3 DEF Trouble
<1>5. Troubled' = Troubled BY <1>4 DEF Troubled
<1>6. \A S, n : UsedAt(S, n)' = UsedAt(S, n) BY <1>2 DEF UsedAt
<1>7. \A k : Before(k)' = Before(k) BY <1>3 DEF Before
<1> QED BY <1>1, <1>2, <1>4, <1>5, <1>6, <1>7

\* Steps of parse that read on.
LEMMA ReadsOn ==
  ASSUME UNCHANGED <<tokens, was>>, pc' \in Parsing, error' = "none", Fine(i'),
         Reading(pc', i', heap', stack', root', key')
  PROVE  MeaningInv'
<1>2. Fine(i)' BY SameMeaning DEF Fine
<1>3. Reading(pc, i, heap, stack, root, key)'
  BY SameMeaning DEF Reading, Opened, KeysFit
<1> QED BY <1>2, <1>3 DEF MeaningInv, Parsing

\* A function that returns an error, about the first token that has no meaning.
LEMMA Blames ==
  ASSUME UNCHANGED <<tokens, was>>, pc' = "unwind", tokens \in Seq(Token), i \in 1 .. Len(tokens),
         Fine(i), error' = Trouble(i), Trouble(i) # "none"
  PROVE  MeaningInv'
<1>1. Troubled' = Troubled /\ \A n : Trouble(n)' = Trouble(n) BY SameMeaning
<1>2. DOMAIN tokens = 1 .. Len(tokens) /\ Len(tokens) \in Nat BY LenProperties
<1>3. i \in Troubled BY <1>2 DEF Troubled
<1>4. \A n \in Troubled : n \in Int /\ i <= n
  <2> SUFFICES ASSUME NEW n \in Troubled PROVE n \in Int /\ i <= n OBVIOUS
  <2>1. n \in 1 .. Len(tokens) /\ Trouble(n) # "none" BY <1>2 DEF Troubled
  <2>2. n \notin 1 .. i - 1 BY <2>1 DEF Fine
  <2> QED BY <2>1, <2>2, <1>2
<1>5. Min(Troubled) = i
  <2> DEFINE M == Min(Troubled)
  <2>1. M \in Troubled /\ \A y \in Troubled : M <= y BY <1>3, <1>4 DEF Min
  <2>2. M \in Int /\ i <= M /\ M <= i /\ i \in Int BY <1>3, <1>4, <2>1
  <2> HIDE DEF M
  <2>3. M = i BY <2>2
  <2> QED BY <2>3 DEF M
<1>6. error' = IF Troubled = {} THEN "none" ELSE Trouble(Min(Troubled)) BY <1>3, <1>5
<1>7. Verdict'
  <2>1. Verdict' <=> (error' = IF Troubled' = {} THEN "none" ELSE Trouble(Min(Troubled))')
    BY DEF Verdict
  <2>2. Trouble(Min(Troubled))' = Trouble(Min(Troubled)) BY <1>1, SameMeaning
  <2> QED BY <1>1, <1>6, <2>1, <2>2
<1> QED BY <1>7 DEF MeaningInv, Parsing

\* What has been said stays said.
LEMMA Said ==
  ASSUME MeaningInv, UNCHANGED <<tokens, was, error>>,
         pc \in {"unwind", "done", "failed", "returned", "freeing", "freed"},
         pc' \in {"unwind", "done", "failed", "returned", "freeing", "freed"},
         pc \in {"freeing", "freed"} => pc' \in {"freeing", "freed"}
  PROVE  MeaningInv'
<1>1. Verdict => Verdict'
  <2>1. Verdict' <=> (error' = IF Troubled' = {} THEN "none" ELSE Trouble(Min(Troubled))')
    BY DEF Verdict
  <2>2. Trouble(Min(Troubled))' = Trouble(Min(Troubled)) /\ Troubled' = Troubled BY SameMeaning
  <2> QED BY <2>1, <2>2 DEF Verdict
<1> QED BY <1>1 DEF MeaningInv, Parsing

\* The trouble with a token.
LEMMA TroubleOf ==
  ASSUME NEW n, NEW t, t = tokens[n]
  PROVE  /\ t.kind = "delim" => Trouble(n) = "none"
         /\ t.kind = "key" =>
              Trouble(n) = IF t.sym \notin ValidKeys THEN "key_is_not_a_valid_identifier"
                           ELSE IF \/ \E m \in 1 .. n - 1 : tokens[m] = t /\ OpenAt(m) = OpenAt(n)
                                   \/ OpenAt(n) = {} /\ t.sym \in OldKeys
                           THEN "key_is_not_unique_for_current_table" ELSE "none"
         /\ t.kind = "value" =>
              Trouble(n) = IF Class[t.sym] = "badString" THEN "could_not_normalize_string"
                           ELSE IF Class[t.sym] = "badInteger" THEN "value_is_not_an_integer"
                           ELSE "none"
<1>1. t.kind = "delim" => Trouble(n) = "none" BY DEF Trouble
<1>2. ASSUME t.kind = "key"
      PROVE Trouble(n) = IF t.sym \notin ValidKeys THEN "key_is_not_a_valid_identifier"
                           ELSE IF \/ \E m \in 1 .. n - 1 : tokens[m] = t /\ OpenAt(m) = OpenAt(n)
                                   \/ OpenAt(n) = {} /\ t.sym \in OldKeys
                           THEN "key_is_not_unique_for_current_table" ELSE "none"
  <2> DEFINE again == \/ \E m \in 1 .. n - 1 : tokens[m] = t /\ OpenAt(m) = OpenAt(n)
                      \/ OpenAt(n) = {} /\ t.sym \in OldKeys
  <2>1. Trouble(n) =
          CASE t.kind = "key" /\ t.sym \notin ValidKeys -> "key_is_not_a_valid_identifier"
            [] t.kind = "key" /\ t.sym \in ValidKeys /\ again -> "key_is_not_unique_for_current_table"
            [] t.kind = "value" /\ Class[t.sym] = "badString" -> "could_not_normalize_string"
            [] t.kind = "value" /\ Class[t.sym] = "badInteger" -> "value_is_not_an_integer"
            [] OTHER -> "none"
    BY DEF Trouble
  <2> HIDE DEF again
  <2>2. Trouble(n) = IF t.sym \notin ValidKeys THEN "key_is_not_a_valid_identifier"
                     ELSE IF again THEN "key_is_not_unique_for_current_table" ELSE "none"
    BY <1>2, <2>1
  <2> QED BY <2>2 DEF again
<1>3. ASSUME t.kind = "value"
      PROVE  Trouble(n) = IF Class[t.sym] = "badString" THEN "could_not_normalize_string"
                           ELSE IF Class[t.sym] = "badInteger" THEN "value_is_not_an_integer"
                           ELSE "none"
  BY <1>3 DEF Trouble
<1> QED BY <1>1, <1>2, <1>3

\* One more token that has a meaning.
LEMMA FineNext ==
  ASSUME NEW n \in Nat \ {0}, Fine(n), Trouble(n) = "none"
  PROVE  Fine(n + 1)
<1>1. 1 .. (n + 1) - 1 = (1 .. n - 1) \cup {n} OBVIOUS
<1> QED BY <1>1 DEF Fine

\* One more token, and the keys met.
LEMMA UsedNext ==
  ASSUME NEW n \in Nat \ {0}, NEW S
  PROVE  UsedAt(S, n + 1) =
           UsedAt(S, n) \cup {tokens[m].sym : m \in {l \in {n} : tokens[l].kind = "key" /\ OpenAt(l) = S}}
<1>1. 1 .. (n + 1) - 1 = (1 .. n - 1) \cup {n} OBVIOUS
<1> QED BY <1>1 DEF UsedAt

\* One more token that is no key, and levels that are left.
LEMMA FitsNext ==
  ASSUME NEW P, NEW d \in Nat, NEW n \in Nat \ {0}, NEW h, NEW s, NEW r, NEW x,
         KeysFit(P, d, n, h, s, r, x), tokens[n].kind # "key", NEW c \in 0 .. d
  PROVE  KeysFit(P, c, n + 1, h, s, r, x)
<1>1. \A S : UsedAt(S, n + 1) = UsedAt(S, n) BY UsedNext
<1>2. \A k \in 0 .. c : k \in 0 .. d OBVIOUS
<1> QED BY <1>1, <1>2 DEF KeysFit

\* A value is pushed.
LEMMA Pushed ==
  ASSUME NEW s \in Seq(Entry), NEW e \in Entry, NEW t, t = <<e>> \o s
  PROVE  t \in Seq(Entry) /\ t # <<>> /\ Tail(t) = s /\ Head(t) = e
<1>1. /\ t \in Seq(Entry) /\ Len(t) = Len(s) + 1 /\ Len(s) \in Nat /\ t[1] = e
      /\ \A k \in 1 .. Len(s) : t[k + 1] = s[k]
  OBVIOUS
<1>2. t # <<>> BY <1>1, EmptySeq
<1>3. Head(t) = e BY <1>1, <1>2, HeadTailProperties
<1>4. Tail(t) = s OBVIOUS
<1> QED BY <1>1, <1>2, <1>3, <1>4

\* The stack under the value on top of it.
LEMMA NthPush ==
  ASSUME NEW s \in Seq(Entry), NEW t \in Seq(Entry), t # <<>>, Tail(t) = s
  PROVE  /\ Len(t) = Len(s) + 1 /\ Len(s) \in Nat
         /\ \A k \in 1 .. Len(s) : Nth(t, k) = Nth(s, k)
         /\ Nth(t, Len(s) + 1) = Head(t)
<1>1. /\ Len(Tail(t)) = Len(t) - 1 /\ Len(s) \in Nat /\ Len(t) \in Nat /\ Head(t) = t[1]
      /\ \A k \in 1 .. Len(t) - 1 : Tail(t)[k] = t[k + 1]
  BY HeadTailProperties, LenProperties
<1> DEFINE L == Len(s)
           M == Len(t)
<1>2. L \in Nat /\ M \in Nat /\ L = M - 1 BY <1>1
<1> HIDE DEF L, M
<1>3. M = L + 1 BY <1>2
<1>4. ASSUME NEW k \in 1 .. L PROVE Nth(t, k) = Nth(s, k)
  <2> DEFINE m == L + 1 - k
  <2>1. m \in 1 .. L /\ m \in 1 .. M - 1 /\ M + 1 - k = m + 1 BY <1>2, <1>3
  <2> HIDE DEF m
  <2>2. s[m] = t[m + 1] BY <1>1, <2>1 DEF M
  <2>3. t[M + 1 - k] = s[m] BY <2>1, <2>2
  <2> QED BY <2>3 DEF Nth, L, M, m
<1>5. M + 1 - (L + 1) = 1 BY <1>2, <1>3
<1>6. Nth(t, L + 1) = t[1] BY <1>5 DEF Nth, M
<1> QED BY <1>1, <1>3, <1>4, <1>6 DEF L, M

\* The stack under one value and under another.
LEMMA NthTop ==
  ASSUME NEW s \in Seq(Entry), s # <<>>, NEW t \in Seq(Entry), t # <<>>, Tail(t) = Tail(s)
  PROVE  /\ Len(t) = Len(s) /\ Len(s) \in Nat \ {0}
         /\ \A k \in 1 .. Len(s) - 1 : Nth(t, k) = Nth(s, k)
         /\ Nth(s, Len(s)) = Head(s) /\ Nth(t, Len(s)) = Head(t)
<1>1. /\ Len(Tail(s)) = Len(s) - 1 /\ Len(Tail(t)) = Len(t) - 1
      /\ Head(s) = s[1] /\ Head(t) = t[1] /\ Len(s) \in Nat \ {0} /\ Len(t) \in Nat \ {0}
      /\ \A n \in 1 .. Len(s) - 1 : Tail(s)[n] = s[n + 1]
      /\ \A n \in 1 .. Len(t) - 1 : Tail(t)[n] = t[n + 1]
  BY HeadTailProperties, EmptySeq, LenProperties
<1> DEFINE L == Len(s)
           M == Len(t)
<1>2. L \in Nat \ {0} /\ M \in Nat \ {0} /\ M - 1 = L - 1 BY <1>1, Zenon
<1> HIDE DEF L, M
<1>3. M = L BY <1>2
<1>4. ASSUME NEW k \in 1 .. L - 1 PROVE t[L + 1 - k] = s[L + 1 - k]
  <2> DEFINE m == L - k
  <2>1. m \in 1 .. L - 1 /\ L + 1 - k = m + 1 BY <1>2
  <2> HIDE DEF m
  <2>2. Tail(s)[m] = s[m + 1] /\ Tail(t)[m] = t[m + 1] BY <1>1, <1>3, <2>1 DEF L, M
  <2> QED BY <2>1, <2>2
<1>5. L + 1 - L = 1 BY <1>2
<1> QED BY <1>1, <1>2, <1>3, <1>4, <1>5 DEF L, M, Nth

\* The current token.
LEMMA AtToken ==
  ASSUME MemoryInv, ~NoneLeft
  PROVE  /\ i \in Nat \ {0} /\ i \in 1 .. Len(tokens) /\ tokens \in Seq(Token)
         /\ tokens[i] \in Token
<1>1. tokens \in Seq(Token) /\ Len(tokens) \in Nat /\ i \in 1 .. Len(tokens) + 1
  BY LenProperties DEF MemoryInv, Shape, TypeOK
<1>2. i \in 1 .. Len(tokens) BY <1>1 DEF NoneLeft
<1>3. tokens[i] \in Token BY <1>1, <1>2, ElementOfSeq
<1> QED BY <1>1, <1>2, <1>3

\* A delimiter has a meaning of its own, and a bracket is one of four.
LEMMA AtDelim ==
  ASSUME MemoryInv, MeaningInv, pc \in Parsing, NEW c \in Delimiters, ExpectDelim(c)
  PROVE  /\ i \in Nat \ {0} /\ Fine(i + 1) /\ tokens[i].kind # "key"
         /\ \A syms : IsBracket(syms, i) <=> c \in syms
<1>1. ~NoneLeft /\ tokens[i].kind = "delim" /\ tokens[i].sym = c BY DEF ExpectDelim, Expect
<1>2. i \in Nat \ {0} BY <1>1, AtToken
<1>3. Trouble(i) = "none" BY <1>1, TroubleOf
<1>4. Fine(i) BY DEF MeaningInv
<1> QED BY <1>1, <1>2, <1>3, <1>4, FineNext DEF IsBracket

\* Every list and table under construction is the owner of its array.
LEMMA LevelOwned ==
  ASSUME MemoryInv, NEW k \in 0 .. Len(stack)
  PROVE  LET c == Level(stack, root, k)
         IN  /\ Own(<<0, k>>, c) \subseteq Owners
             /\ c.ptr # NULL => c.ptr \in DOMAIN heap
<1>1. Len(stack) \in Nat BY LenProperties DEF MemoryInv, Shape, TypeOK
<1> DEFINE c == Level(stack, root, k)
<1>2. Own(<<0, k>>, c) \subseteq Owners
  <2>1. CASE k = 0 BY <2>1, OwnersAt DEF Level
  <2>2. CASE k # 0
    <3> DEFINE n == Len(stack) + 1 - k
    <3>1. n \in 1 .. Len(stack) /\ Len(stack) + 1 - n = k BY <1>1, <2>2
    <3>2. c = stack[n] BY <2>2 DEF Level, Nth
    <3> HIDE DEF n
    <3>3. Own(<<0, Len(stack) + 1 - n>>, stack[n]) \subseteq Owners BY <3>1, OwnersAt
    <3> QED BY <3>1, <3>2, <3>3
  <2> QED BY <2>1, <2>2
<1> HIDE DEF c
<1>3. c.ptr # NULL => c.ptr \in DOMAIN heap BY <1>2, OwnedBlock DEF MemoryInv
<1> QED BY <1>2, <1>3 DEF c

\* parse_key asks for the keys met in this list or table.
LEMMA UniqueMeans ==
  ASSUME MemoryInv, MeaningInv, GrammarInv, pc = "pair", ~NoneLeft, tokens[i].kind = "key"
  PROVE  IsUnique(tokens[i].sym) <=>
           ~ \/ \E m \in 1 .. i - 1 : tokens[m] = tokens[i] /\ OpenAt(m) = OpenAt(i)
             \/ OpenAt(i) = {} /\ tokens[i].sym \in OldKeys
<1> DEFINE t == tokens[i]
           d == Len(stack)
           es == Elems(Container.ptr)
<1>1. /\ i \in Nat \ {0} /\ i \in 1 .. Len(tokens) /\ t \in Token /\ d \in Nat
      /\ stack \in Seq(Entry)
  BY AtToken, LenProperties DEF MemoryInv, Shape, TypeOK
<1>2. PICK P : Opened(P, d, i) /\ KeysFit(P, d, i, heap, stack, root, {})
  BY DEF MeaningInv, Parsing, Reading, Depth, InValue, KeyRead
<1>3. Level(stack, root, d) = Container /\ Container.kind = "table"
  <2>1. PICK s : Follows(pc, stack, s[i], SymbolAt(tokens, i)) BY DEF GrammarInv, Parsing
  <2>2. CASE stack = <<>>
    <3>1. d = 0 BY <2>2
    <3> QED BY <2>2, <3>1 DEF Level, Container, MemoryInv, Shape, Control
  <2>3. CASE stack # <<>>
    <3>1. Head(stack).kind = "table" BY <2>1, <2>3 DEF Follows
    <3>2. d # 0 /\ d + 1 - d = 1 /\ Head(stack) = stack[1]
      BY <1>1, <2>3, EmptySeq, HeadTailProperties
    <3> QED BY <2>3, <3>1, <3>2 DEF Level, Nth, Container
  <2> QED BY <2>2, <2>3
<1>4. d \in 0 .. d /\ ~(d < Len(stack)) BY <1>1
<1>5. KeysOf(es) = UsedAt(OpenAt(i), i) \cup Before(d)
  <2>1. OpenTo(P, d) = OpenAt(i) BY <1>2 DEF Opened
  <2>2. KeysOf(ElemsIn(heap, Container.ptr)) \cup Waiting(stack, {}, d) = UsedAt(OpenTo(P, d), i) \cup Before(d)
    BY <1>2, <1>3, <1>4 DEF KeysFit
  <2>3. Waiting(stack, {}, d) = {} BY <1>4 DEF Waiting
  <2> QED BY <2>1, <2>2, <2>3 DEF Elems, ElemsIn
<1>6. OpenAt(i) = {} <=> d = 0 BY <1>1, <1>2, <1>4, LevelsDiffer
<1>7. IsUnique(t.sym) <=> t.sym \notin KeysOf(es)
  <2>1. es \in Seq(Entry) BY ContainerElems
  <2>2. DOMAIN es = 1 .. Len(es) BY <2>1, LenProperties
  <2>3. IsUnique(t.sym) <=> \A n \in DOMAIN es : es[n].key # t.sym BY DEF IsUnique
  <2> HIDE DEF es
  <2> QED BY <2>2, <2>3 DEF KeysOf
<1>8. t.sym \in UsedAt(OpenAt(i), i) <=> \E m \in 1 .. i - 1 : tokens[m] = t /\ OpenAt(m) = OpenAt(i)
  <2>1. ASSUME NEW m \in 1 .. i - 1, tokens[m].kind = "key", tokens[m].sym = t.sym PROVE tokens[m] = t
    <3>1. tokens[m] \in Token /\ t \in Token
      <4>1. m \in 1 .. Len(tokens) /\ tokens \in Seq(Token) BY <1>1, AtToken, LenProperties
      <4> QED BY <1>1, <4>1, ElementOfSeq
    <3> DEFINE u == tokens[m]
    <3>2. u \in Token /\ u.kind = "key" /\ u.sym = t.sym /\ t \in Token /\ t.kind = "key"
      BY <2>1, <3>1
    <3> HIDE DEF u, t
    <3>3. u = t BY <3>2 DEF Token
    <3> QED BY <3>3 DEF u
  <2> QED BY <2>1 DEF UsedAt
<1> QED BY <1>5, <1>6, <1>7, <1>8 DEF Before

\* A key that has been read waits for its value.
LEMMA FitsKey ==
  ASSUME NEW P, NEW d \in Nat, NEW n \in Nat \ {0}, NEW h, NEW s, NEW r, d = Len(s),
         Opened(P, d, n), KeysFit(P, d, n, h, s, r, {}), tokens[n].kind = "key"
  PROVE  KeysFit(P, d, n + 1, h, s, r, {tokens[n].sym})
<1> DEFINE y == tokens[n].sym
<1> SUFFICES ASSUME NEW l \in 0 .. d, Level(s, r, l).kind = "table"
             PROVE  KeysOf(ElemsIn(h, Level(s, r, l).ptr)) \cup Waiting(s, {y}, l)
                      = UsedAt(OpenTo(P, l), n + 1) \cup Before(l)
  BY DEF KeysFit
<1>1. KeysOf(ElemsIn(h, Level(s, r, l).ptr)) \cup Waiting(s, {}, l)
        = UsedAt(OpenTo(P, l), n) \cup Before(l)
  BY DEF KeysFit
<1>2. OpenTo(P, l) = OpenAt(n) <=> l = d
  <2>1. d \in Nat /\ n \in Nat \ {0} /\ Opened(P, d, n) /\ l \in 0 .. d OBVIOUS
  <2> QED BY ONLY <2>1, LevelsDiffer
<1>3. UsedAt(OpenTo(P, l), n + 1)
        = UsedAt(OpenTo(P, l), n) \cup (IF l = d THEN {y} ELSE {})
  <2> DEFINE Y == OpenTo(P, l)
  <2>1. UsedAt(Y, n + 1) =
          UsedAt(Y, n) \cup {tokens[m].sym : m \in {q \in {n} : tokens[q].kind = "key" /\ OpenAt(q) = Y}}
    BY UsedNext
  <2>2. {tokens[m].sym : m \in {q \in {n} : tokens[q].kind = "key" /\ OpenAt(q) = Y}}
          = IF l = d THEN {y} ELSE {}
    BY <1>2, Zenon
  <2> QED BY <2>1, <2>2, Zenon
<1>4. (l < Len(s)) <=> l # d OBVIOUS
<1>5. /\ l # d => Waiting(s, {y}, l) = Waiting(s, {}, l)
      /\ l = d => Waiting(s, {y}, l) = {y} /\ Waiting(s, {}, l) = {}
  BY <1>4, Zenon DEF Waiting
<1>6. CASE l = d BY <1>1, <1>3, <1>5, <1>6
<1>7. CASE l # d BY <1>1, <1>3, <1>5, <1>7
<1> QED BY <1>6, <1>7

\* parse_key: what the tokens mean.
LEMMA ParseKeyMeans ==
  ASSUME MemoryInv, GrammarInv, GrammarInv', MeaningInv, ParseKey, was' = was PROVE MeaningInv'
<1> DEFINE k == tokens[i].sym
           d == Len(stack)
<1>1. /\ pc = "pair" /\ UNCHANGED <<tokens, stack, root, heap>>
      /\ error = "none" /\ Fine(i)
  BY DEF ParseKey, AtPair, MeaningInv, Parsing
<1>2. Expect("key")
  <2>1. error' # "expected_key_token" BY DEF GrammarInv, Suffices
  <2> QED BY <2>1 DEF ParseKey, Fail
<1>3. ~NoneLeft /\ tokens[i].kind = "key" BY <1>2 DEF Expect
<1>4. i \in Nat \ {0} /\ i \in 1 .. Len(tokens) /\ tokens \in Seq(Token) /\ d \in Nat
  BY <1>3, AtToken, LenProperties DEF MemoryInv, Shape, TypeOK
<1>5. Trouble(i) = IF k \notin ValidKeys THEN "key_is_not_a_valid_identifier"
                   ELSE IF ~IsUnique(k) THEN "key_is_not_unique_for_current_table" ELSE "none"
  BY <1>1, <1>3, UniqueMeans, TroubleOf
<1>6. CASE k \notin ValidKeys \/ ~IsUnique(k)
  <2>1. pc' = "unwind" /\ error' = Trouble(i) /\ Trouble(i) # "none"
    BY <1>2, <1>5, <1>6 DEF ParseKey, Fail
  <2> QED BY <1>1, <1>4, <2>1, Blames
<1>7. CASE k \in ValidKeys /\ IsUnique(k)
  <2>1. key' = k /\ i' = i + 1 /\ pc' = "sep" /\ error' = error
    BY <1>2, <1>7 DEF ParseKey, Pop
  <2>2. Fine(i + 1) BY <1>1, <1>4, <1>5, <1>7, FineNext
  <2>3. PICK P : Opened(P, d, i) /\ KeysFit(P, d, i, heap, stack, root, {})
    BY <1>1 DEF MeaningInv, Parsing, Reading, Depth, InValue, KeyRead
  <2>4. Opened(P, d, i + 1)
    <3>1. \A syms : ~IsBracket(syms, i) BY <1>3 DEF IsBracket
    <3> QED BY <1>4, <2>3, <3>1, OpenedSame
  <2>5. KeysFit(P, d, i + 1, heap, stack, root, {k}) BY <1>3, <1>4, <2>3, FitsKey
  <2>6. Reading(pc', i', heap', stack', root', key')
    <3>1. Reading("sep", i + 1, heap, stack, root, k)
      BY <2>4, <2>5 DEF Reading, Depth, InValue, KeyRead
    <3> QED BY <1>1, <2>1, <3>1
  <2>7. UNCHANGED <<tokens, was>> /\ pc' \in Parsing /\ error' = "none" /\ Fine(i')
    BY <1>1, <2>1, <2>2 DEF Parsing
  <2> QED BY <2>6, <2>7, ReadsOn
<1> QED BY <1>6, <1>7

\* Another value on top of the stack, under the key of the one that was there.
LEMMA FitsTop ==
  ASSUME NEW P, NEW d \in Nat, NEW n, NEW h, NEW s \in Seq(Entry), s # <<>>, NEW r,
         NEW t \in Seq(Entry), t # <<>>, Tail(t) = Tail(s), Head(t).key = Head(s).key,
         d < Len(s), KeysFit(P, d, n, h, s, r, {})
  PROVE  KeysFit(P, d, n, h, t, r, {})
<1>1. /\ Len(t) = Len(s) /\ Len(s) \in Nat \ {0}
      /\ \A k \in 1 .. Len(s) - 1 : Nth(t, k) = Nth(s, k)
      /\ Nth(s, Len(s)).key = Nth(t, Len(s)).key
  BY NthTop
<1> SUFFICES ASSUME NEW k \in 0 .. d
             PROVE  /\ Level(t, r, k) = Level(s, r, k)
                    /\ Waiting(t, {}, k) = Waiting(s, {}, k)
  BY DEF KeysFit
<1>2. Level(t, r, k) = Level(s, r, k)
  <2>1. k # 0 => k \in 1 .. Len(s) - 1 BY <1>1
  <2> QED BY <1>1, <2>1 DEF Level
<1>3. Nth(t, k + 1).key = Nth(s, k + 1).key
  <2>1. k + 1 \in 1 .. Len(s) - 1 \/ k + 1 = Len(s) BY <1>1
  <2> QED BY <1>1, <2>1
<1> QED BY <1>1, <1>2, <1>3 DEF Waiting

\* A value whose key was waiting, or in a list.
LEMMA FitsPush ==
  ASSUME NEW P, NEW d \in Nat, NEW n, NEW h, NEW s \in Seq(Entry), NEW r, NEW x,
         NEW t \in Seq(Entry), t # <<>>, Tail(t) = s, d = Len(s), KeysFit(P, d, n, h, s, r, x),
         x = {Head(t).key} \/ Level(s, r, d).kind # "table"
  PROVE  KeysFit(P, d, n, h, t, r, {})
<1>1. /\ Len(t) = d + 1 /\ \A k \in 1 .. d : Nth(t, k) = Nth(s, k)
      /\ Nth(t, d + 1) = Head(t)
  BY NthPush
<1> SUFFICES ASSUME NEW k \in 0 .. d, Level(t, r, k).kind = "table"
             PROVE  KeysOf(ElemsIn(h, Level(t, r, k).ptr)) \cup Waiting(t, {}, k)
                      = UsedAt(OpenTo(P, k), n) \cup Before(k)
  BY DEF KeysFit
<1>2. Level(t, r, k) = Level(s, r, k)
  <2>1. k # 0 => k \in 1 .. d OBVIOUS
  <2> QED BY <1>1, <2>1 DEF Level
<1>3. Waiting(t, {}, k) = Waiting(s, x, k)
  <2>1. CASE k = d
    <3>1. k < Len(t) /\ ~(k < Len(s)) BY <1>1, <2>1
    <3>2. Waiting(t, {}, k) = {Head(t).key} BY <1>1, <2>1, <3>1 DEF Waiting
    <3>3. Waiting(s, x, k) = x BY <3>1 DEF Waiting
    <3> QED BY <1>2, <2>1, <3>2, <3>3
  <2>2. CASE k # d
    <3>1. k < Len(t) /\ k < Len(s) /\ k + 1 \in 1 .. d BY <1>1, <2>2
    <3>2. Nth(t, k + 1) = Nth(s, k + 1) BY <1>1, <3>1
    <3> QED BY <3>1, <3>2 DEF Waiting
  <2> QED BY <2>1, <2>2
<1>4. KeysOf(ElemsIn(h, Level(s, r, k).ptr)) \cup Waiting(s, x, k)
        = UsedAt(OpenTo(P, k), n) \cup Before(k)
  BY <1>2 DEF KeysFit
<1> QED BY <1>2, <1>3, <1>4

\* Another heap, with the same arrays of what is under construction.
LEMMA FitsHeap ==
  ASSUME NEW P, NEW d, NEW n, NEW h, NEW g, NEW s, NEW r, NEW x, KeysFit(P, d, n, h, s, r, x),
         \A k \in 0 .. d : Level(s, r, k).ptr # NULL => g[Level(s, r, k).ptr] = h[Level(s, r, k).ptr]
  PROVE  KeysFit(P, d, n, g, s, r, x)
<1>1. \A k \in 0 .. d : ElemsIn(g, Level(s, r, k).ptr) = ElemsIn(h, Level(s, r, k).ptr)
  BY DEF ElemsIn
<1> QED BY <1>1 DEF KeysFit

\* parse_delim, after a key: what the tokens mean.
LEMMA ParseSeparatorMeans ==
  ASSUME MemoryInv, GrammarInv', MeaningInv, ParseSeparator, was' = was PROVE MeaningInv'
<1>1. /\ pc = "sep" /\ pc \in Parsing /\ UNCHANGED <<tokens, root, heap, key>>
      /\ error = "none" /\ stack \in Seq(Entry) /\ Len(stack) \in Nat
  BY LenProperties DEF ParseSeparator, MeaningInv, Parsing, MemoryInv, Shape, TypeOK
<1>2. ExpectDelim(kKeyValSep)
  <2>1. error' # "missing_key_value_separator" BY DEF GrammarInv, Suffices
  <2> QED BY <2>1 DEF ParseSeparator, Fail
<1>3. /\ i' = i + 1 /\ stack' = <<Undefined(key)>> \o stack /\ pc' = "value" /\ error' = error
  BY <1>2 DEF ParseSeparator, Pop
<1>4. /\ i \in Nat \ {0} /\ Fine(i + 1) /\ tokens[i].kind # "key"
      /\ \A syms : IsBracket(syms, i) <=> kKeyValSep \in syms
  BY <1>1, <1>2, AtDelim DEF Delimiters
<1> DEFINE d == Len(stack)
<1>5. PICK P : Opened(P, d, i) /\ KeysFit(P, d, i, heap, stack, root, {key})
  BY <1>1 DEF MeaningInv, Parsing, Reading, Depth, InValue, KeyRead
<1>6. Opened(P, d, i + 1)
  <2>1. ~IsBracket(Openers, i) /\ ~IsBracket(Closers, i)
    BY <1>4 DEF Openers, Closers, kKeyValSep, kListBegin, kTableBegin, kListEnd, kTableEnd
  <2> QED BY <1>1, <1>4, <1>5, <2>1, OpenedSame
<1> DEFINE e == Undefined(key)
           t == stack'
<1>7. KeysFit(P, d, i + 1, heap, t, root, {}) /\ Len(t) - 1 = d
  <2>1. e \in Entry /\ {key} = {e.key} BY DEF Undefined, Entry, NULL, MemoryInv, Shape, TypeOK
  <2>2. t = <<e>> \o stack BY <1>3
  <2> HIDE DEF e, t
  <2>3. d \in 0 .. d BY <1>1
  <2>7. t \in Seq(Entry) /\ t # <<>> /\ Tail(t) = stack /\ Head(t) = e BY <1>1, <2>1, <2>2, Pushed
  <2>4. KeysFit(P, d, i + 1, heap, stack, root, {key}) BY <1>1, <1>4, <1>5, <2>3, FitsNext
  <2>5. KeysFit(P, d, i + 1, heap, t, root, {}) BY <1>1, <2>1, <2>7, <2>4, FitsPush
  <2>6. Len(t) = d + 1 BY <1>1, <2>7, NthPush
  <2> QED BY <1>1, <2>5, <2>6
<1>8. Reading("value", i + 1, heap, t, root, key)
  BY <1>6, <1>7 DEF Reading, Depth, InValue, KeyRead
<1>9. Reading(pc', i', heap', stack', root', key') BY <1>1, <1>3, <1>8
<1> QED BY <1>1, <1>3, <1>4, <1>9, ReadsOn DEF Parsing

\* A list or table that has just been opened has no keys.
LEMMA FitsOpen ==
  ASSUME NEW P, NEW d \in Nat, NEW n \in Nat \ {0}, NEW h, NEW s \in Seq(Entry), s # <<>>, NEW r,
         Opened(P, d, n), IsBracket(Openers, n), KeysFit(P, d, n, h, s, r, {}),
         d + 1 = Len(s), Head(s).ptr = NULL
  PROVE  \E Q : Opened(Q, d + 1, n + 1) /\ KeysFit(Q, d + 1, n + 1, h, s, r, {})
<1> DEFINE Q == [j \in 1 .. d + 1 |-> IF j = d + 1 THEN n ELSE P[j]]
<1>1. Q[d + 1] = n /\ \A j \in 1 .. d : Q[j] = P[j]
  <2>1. d + 1 \in 1 .. d + 1 /\ \A j \in 1 .. d : j \in 1 .. d + 1 /\ j # d + 1 OBVIOUS
  <2> QED BY <2>1
<1> HIDE DEF Q
<1>2. /\ Opened(Q, d + 1, n + 1)
      /\ \A k \in 0 .. d : OpenTo(Q, k) = OpenTo(P, k)
  BY <1>1, OpenedMore
<1>3. tokens[n].kind # "key" BY DEF IsBracket
<1>4. KeysFit(P, d, n + 1, h, s, r, {})
  <2>1. d \in 0 .. d OBVIOUS
  <2> QED BY <1>3, <2>1, FitsNext
<1>5. ASSUME NEW k \in 0 .. d + 1, Level(s, r, k).kind = "table"
      PROVE  KeysOf(ElemsIn(h, Level(s, r, k).ptr)) \cup Waiting(s, {}, k)
               = UsedAt(OpenTo(Q, k), n + 1) \cup Before(k)
  <2>1. CASE k = d + 1
    <3>1. Level(s, r, k).ptr = NULL
      <4>1. Nth(s, Len(s)) = Head(s) BY NthTop
      <4>2. k # 0 /\ k = Len(s) BY <2>1
      <4> QED BY <4>1, <4>2 DEF Level
    <3>2. KeysOf(ElemsIn(h, Level(s, r, k).ptr)) = {} BY <3>1 DEF KeysOf, ElemsIn
    <3>3. ~(k < Len(s)) /\ k # 0 BY <2>1
    <3>4. Waiting(s, {}, k) = {} /\ Before(k) = {} BY <3>3 DEF Waiting, Before
    <3>5. n \in OpenTo(Q, k)
      <4>1. d + 1 \in 1 .. d + 1 OBVIOUS
      <4> QED BY <1>1, <2>1, <4>1 DEF OpenTo
    <3>6. UsedAt(OpenTo(Q, k), n + 1) = {}
      <4>1. \A m \in 1 .. (n + 1) - 1 : n \notin OpenAt(m) BY DEF OpenAt
      <4> QED BY <3>5, <4>1 DEF UsedAt
    <3> QED BY <3>2, <3>4, <3>6
  <2>2. CASE k # d + 1
    <3>1. k \in 0 .. d BY <2>2
    <3> QED BY <1>2, <1>4, <1>5, <3>1 DEF KeysFit
  <2> QED BY <2>1, <2>2
<1>6. KeysFit(Q, d + 1, n + 1, h, s, r, {}) BY <1>5 DEF KeysFit
<1> QED BY <1>2, <1>6

\* parse_list_value and parse_table_value, on the way in: what the tokens mean.
LEMMA ParseOpenMeans ==
  ASSUME MemoryInv, MeaningInv, NEW bracket \in Openers, NEW kind \in {"list", "table"},
         ParseOpen(bracket, kind), was' = was
  PROVE  MeaningInv'
<1>1. /\ pc = "value" /\ pc \in Parsing /\ UNCHANGED <<tokens, root, heap, key, error>>
      /\ error = "none" /\ stack \in Seq(Entry) /\ stack # <<>>
      /\ ExpectDelim(bracket) /\ i' = i + 1 /\ pc' = "loop" /\ Out(kind, NoData, NULL)
      /\ NULL \in Nat /\ NoData \in Literals \cup {NoData}
      /\ kind \in {"string", "integer", "boolean", "list", "table"}
  BY DEF ParseOpen, Pop, MeaningInv, Parsing, MemoryInv, Shape, TypeOK, Control, NULL
<1>2. bracket \in Delimiters BY DEF Openers, Delimiters
<1>3. /\ i \in Nat \ {0} /\ Fine(i + 1) /\ tokens[i].kind # "key" /\ IsBracket(Openers, i)
  BY <1>1, <1>2, AtDelim
<1> DEFINE t == stack'
           d == Len(stack) - 1
<1>4. /\ t \in Seq(Entry) /\ t # <<>> /\ Len(t) = Len(stack) /\ Tail(t) = Tail(stack)
      /\ Head(t).ptr = NULL /\ Head(t).key = Head(stack).key
  BY <1>1, OutStep, OutKey
<1>5. d \in Nat /\ d < Len(stack) /\ d + 1 = Len(t)
  <2>1. Len(stack) \in Nat \ {0} BY <1>1, EmptySeq, LenProperties
  <2> QED BY <1>4, <2>1
<1>6. PICK P : Opened(P, d, i) /\ KeysFit(P, d, i, heap, stack, root, {})
  BY <1>1 DEF MeaningInv, Parsing, Reading, Depth, InValue, KeyRead
<1> HIDE DEF t, d
<1>7. KeysFit(P, d, i, heap, t, root, {}) BY <1>1, <1>4, <1>5, <1>6, FitsTop
<1>8. PICK Q : Opened(Q, d + 1, i + 1) /\ KeysFit(Q, d + 1, i + 1, heap, t, root, {})
  BY <1>3, <1>4, <1>5, <1>6, <1>7, FitsOpen
<1>9. Reading("loop", i + 1, heap, t, root, key)
  BY <1>5, <1>8 DEF Reading, Depth, InValue, KeyRead
<1>10. Reading(pc', i', heap', stack', root', key') BY <1>1, <1>9 DEF t
<1> QED BY <1>1, <1>3, <1>10, ReadsOn DEF Parsing

\* A value that has been read: the keys are those before it, and the token is
\* neither a key nor a bracket.
LEMMA ValueMeans ==
  ASSUME MemoryInv, MeaningInv, pc = "value", Expect("value"),
         Class[tokens[i].sym] \notin {"badString", "badInteger"},
         NEW kind \in {"string", "integer", "boolean", "list", "table"},
         NEW data \in Literals \cup {NoData}, NEW p \in Nat, Out(kind, data, p),
         NEW h, \A b \in DOMAIN heap : h[b] = heap[b]
  PROVE  Fine(i + 1) /\ Reading("end", i + 1, h, stack', root, key)
<1>1. /\ pc \in Parsing /\ error = "none" /\ Fine(i) /\ stack \in Seq(Entry) /\ stack # <<>>
      /\ ~NoneLeft /\ tokens[i].kind = "value" /\ i \in Nat \ {0}
  BY AtToken DEF Expect, MeaningInv, Parsing, MemoryInv, Shape, TypeOK, Control
<1>2. Fine(i + 1)
  <2>1. Trouble(i) = "none" BY <1>1, TroubleOf
  <2> QED BY <1>1, <2>1, FineNext
<1> DEFINE t == stack'
           d == Len(stack) - 1
<1>3. /\ t \in Seq(Entry) /\ t # <<>> /\ Len(t) = Len(stack) /\ Tail(t) = Tail(stack)
      /\ Head(t).key = Head(stack).key
  BY <1>1, OutStep, OutKey
<1>4. d \in Nat /\ d < Len(stack) /\ d = Len(t) - 1 /\ d \in 0 .. d
  <2>1. Len(stack) \in Nat \ {0} BY <1>1, EmptySeq, LenProperties
  <2> QED BY <1>3, <2>1
<1>5. PICK P : Opened(P, d, i) /\ KeysFit(P, d, i, heap, stack, root, {})
  BY <1>1 DEF MeaningInv, Parsing, Reading, Depth, InValue, KeyRead
<1>6. Opened(P, d, i + 1)
  <2>1. \A syms : ~IsBracket(syms, i) BY <1>1 DEF IsBracket
  <2> HIDE DEF d
  <2> QED BY <1>1, <1>4, <1>5, <2>1, OpenedSame
<1>7. KeysFit(P, d, i + 1, h, stack, root, {})
  <2>1. tokens[i].kind # "key" BY <1>1
  <2>2. \A k \in 0 .. d : Level(stack, root, k).ptr # NULL =>
          h[Level(stack, root, k).ptr] = heap[Level(stack, root, k).ptr]
    <3>1. \A k \in 0 .. d : k \in 0 .. Len(stack) BY <1>1, <1>3, <1>4
    <3> QED BY <3>1, LevelOwned
  <2> HIDE DEF d
  <2>3. KeysFit(P, d, i + 1, heap, stack, root, {}) BY <1>1, <1>4, <1>5, <2>1, FitsNext
  <2> QED BY <2>2, <2>3, FitsHeap
<1> HIDE DEF t, d
<1>8. KeysFit(P, d, i + 1, h, t, root, {}) BY <1>1, <1>3, <1>4, <1>7, FitsTop
<1>9. Reading("end", i + 1, h, t, root, key)
  BY <1>4, <1>6, <1>8 DEF Reading, Depth, InValue, KeyRead
<1> QED BY <1>2, <1>9 DEF t

\* parse_simple_value, of a string: what the tokens mean.
LEMMA ParseStringMeans ==
  ASSUME MemoryInv, MeaningInv, ParseString, was' = was PROVE MeaningInv'
<1>1. /\ pc = "value" /\ Expect("value") /\ Class[tokens[i].sym] \in {"string", "raw"}
      /\ Out("string", tokens[i].sym, fresh) /\ i' = i + 1 /\ pc' = "end"
      /\ UNCHANGED <<tokens, key, root, error>> /\ fresh \in Nat
      /\ DOMAIN heap \subseteq 1 .. fresh - 1
      /\ error = "none"
  BY DEF ParseString, Pop, MeaningInv, Parsing, MemoryInv, Shape, TypeOK
<1>2. \A b \in DOMAIN heap : heap'[b] = heap[b] BY <1>1 DEF ParseString
<1>3. tokens[i].sym \in Literals BY <1>1, CurrentToken DEF Expect
<1> DEFINE h == heap'
<1>4. Fine(i + 1) /\ Reading("end", i + 1, h, stack', root, key)
  <2> HIDE DEF h
  <2>1. \A b \in DOMAIN heap : h[b] = heap[b] BY <1>2 DEF h
  <2> QED BY <1>1, <1>3, <2>1, ValueMeans
<1>5. Reading(pc', i', heap', stack', root', key') BY <1>1, <1>4
<1> QED BY <1>1, <1>4, <1>5, ReadsOn DEF Parsing

\* parse_simple_value, of an integer or a boolean: what the tokens mean.
LEMMA ParseScalarMeans ==
  ASSUME MemoryInv, MeaningInv, ParseScalar, was' = was PROVE MeaningInv'
<1>1. /\ pc = "value" /\ Expect("value") /\ Class[tokens[i].sym] \in {"boolean", "integer"}
      /\ Out(Class[tokens[i].sym], tokens[i].sym, NULL) /\ i' = i + 1 /\ pc' = "end"
      /\ UNCHANGED <<tokens, key, root, heap, error>> /\ NULL \in Nat /\ error = "none"
  BY DEF ParseScalar, Pop, MeaningInv, Parsing, NULL
<1>2. tokens[i].sym \in Literals BY <1>1, CurrentToken DEF Expect
<1> DEFINE c == Class[tokens[i].sym]
<1>3. Fine(i + 1) /\ Reading("end", i + 1, heap, stack', root, key)
  <2>1. /\ c \in {"string", "integer", "boolean", "list", "table"} /\ Out(c, tokens[i].sym, NULL)
        /\ c \notin {"badString", "badInteger"}
    BY <1>1
  <2> HIDE DEF c
  <2> QED BY <1>1, <1>2, <2>1, ValueMeans DEF c
<1>4. Reading(pc', i', heap', stack', root', key') BY <1>1, <1>3
<1> QED BY <1>1, <1>3, <1>4, ReadsOn DEF Parsing

\* parse_simple_value, of anything else: what the tokens mean.
LEMMA ParseBadValueMeans ==
  ASSUME MemoryInv, GrammarInv', MeaningInv, ParseBadValue, was' = was PROVE MeaningInv'
<1>1. pc = "value" /\ tokens' = tokens /\ Fine(i)
  BY DEF ParseBadValue, MeaningInv, Parsing
<1>2. Expect("value")
  <2>1. error' # "expected_value_token" BY DEF GrammarInv, Suffices
  <2> QED BY <2>1 DEF ParseBadValue, Fail
<1>3. ~NoneLeft /\ tokens[i].kind = "value" BY <1>2 DEF Expect
<1>4. i \in 1 .. Len(tokens) /\ tokens \in Seq(Token) BY <1>3, AtToken
<1>5. \/ /\ Class[tokens[i].sym] = "badString"
         /\ pc' = "unwind" /\ error' = "could_not_normalize_string"
      \/ /\ Class[tokens[i].sym] = "badInteger"
         /\ pc' = "unwind" /\ error' = "value_is_not_an_integer"
  BY <1>2 DEF ParseBadValue, Fail
<1>6. pc' = "unwind" /\ error' = Trouble(i) /\ Trouble(i) # "none" BY <1>3, <1>5, TroubleOf
<1> QED BY <1>1, <1>4, <1>6, Blames

\* parse_delim, after a value: what the tokens mean.
LEMMA ParseValueEndMeans ==
  ASSUME MemoryInv, GrammarInv', MeaningInv, ParseValueEnd, was' = was PROVE MeaningInv'
<1>1. /\ pc = "end" /\ pc \in Parsing /\ UNCHANGED <<tokens, stack, root, heap, key>>
      /\ error = "none" /\ stack \in Seq(Entry) /\ stack # <<>>
  BY DEF ParseValueEnd, tree, MeaningInv, Parsing, MemoryInv, Shape, TypeOK, Control
<1>2. ExpectDelim(kKeyValEnd)
  <2>1. error' # "missing_key_value_end" BY DEF GrammarInv, Suffices
  <2> QED BY <2>1 DEF ParseValueEnd, Fail
<1>3. i' = i + 1 /\ pc' = "append" /\ error' = error
  BY <1>2 DEF ParseValueEnd, PopDelim, Pop
<1>4. /\ i \in Nat \ {0} /\ Fine(i + 1) /\ tokens[i].kind # "key"
      /\ \A syms : IsBracket(syms, i) <=> kKeyValEnd \in syms
  BY <1>1, <1>2, AtDelim DEF Delimiters
<1> DEFINE d == Len(stack) - 1
<1>5. PICK P : Opened(P, d, i) /\ KeysFit(P, d, i, heap, stack, root, {})
  BY <1>1 DEF MeaningInv, Parsing, Reading, Depth, InValue, KeyRead
<1>6. d \in Nat /\ d \in 0 .. d BY <1>1, EmptySeq, LenProperties
<1>7. Opened(P, d, i + 1)
  <2>1. ~IsBracket(Openers, i) /\ ~IsBracket(Closers, i)
    BY <1>4 DEF Openers, Closers, kKeyValEnd, kListBegin, kTableBegin, kListEnd, kTableEnd
  <2> HIDE DEF d
  <2> QED BY <1>4, <1>5, <1>6, <2>1, OpenedSame
<1>8. KeysFit(P, d, i + 1, heap, stack, root, {})
  <2> HIDE DEF d
  <2> QED BY <1>1, <1>4, <1>5, <1>6, FitsNext
<1>9. Reading("append", i + 1, heap, stack, root, key)
  BY <1>7, <1>8 DEF Reading, Depth, InValue, KeyRead
<1>10. Reading(pc', i', heap', stack', root', key') BY <1>1, <1>3, <1>9
<1> QED BY <1>1, <1>3, <1>4, <1>10, ReadsOn DEF Parsing

\* The closing bracket, in the loop or after an element.
LEMMA CloserMeans ==
  ASSUME MemoryInv, MeaningInv, pc \in {"loop", "after"}, ExpectDelim(Closer)
  PROVE  Fine(i + 1) /\ Reading("end", i + 1, heap, stack, root, key)
<1>1. /\ pc \in Parsing /\ stack \in Seq(Entry) /\ stack # <<>>
  BY DEF Parsing, MemoryInv, Shape, TypeOK, Control
<1>2. Closer \in Closers /\ Closer \in Delimiters /\ Closer \notin Openers
  BY DEF Closer, Closers, Openers, Delimiters, kListBegin, kTableBegin, kListEnd, kTableEnd
<1>3. /\ i \in Nat \ {0} /\ Fine(i + 1) /\ tokens[i].kind # "key" /\ IsBracket(Closers, i)
  <2> DEFINE c == Closer
  <2>1. c \in Delimiters /\ ExpectDelim(c) /\ c \in Closers BY <1>2
  <2> HIDE DEF c
  <2> QED BY <1>1, <2>1, AtDelim
<1> DEFINE d == Len(stack)
<1>4. PICK P : Opened(P, d, i) /\ KeysFit(P, d, i, heap, stack, root, {})
  BY <1>1 DEF MeaningInv, Parsing, Reading, Depth, InValue, KeyRead
<1>5. d \in Nat \ {0} /\ d - 1 \in 0 .. d BY <1>1, EmptySeq, LenProperties
<1>6. Opened(P, d - 1, i + 1)
  <2> HIDE DEF d
  <2> QED BY <1>3, <1>4, <1>5, OpenedLess
<1>7. KeysFit(P, d - 1, i + 1, heap, stack, root, {})
  <2> HIDE DEF d
  <2> QED BY <1>3, <1>4, <1>5, FitsNext
<1> QED BY <1>3, <1>6, <1>7 DEF Reading, Depth, InValue, KeyRead

\* The loops of parse_list_value and parse_table_value: what the tokens mean.
LEMMA ParseLoopMeans ==
  ASSUME MemoryInv, MeaningInv, ParseLoop, was' = was PROVE MeaningInv'
<1>1. /\ pc = "loop" /\ pc \in Parsing /\ UNCHANGED <<tokens, root, heap, key, error>>
      /\ error = "none" /\ Fine(i) /\ stack \in Seq(Entry) /\ stack # <<>> /\ Len(stack) \in Nat
  BY LenProperties DEF ParseLoop, MeaningInv, Parsing, MemoryInv, Shape, TypeOK, Control
<1>2. CASE ExpectDelim(Closer)
  <2>1. i' = i + 1 /\ pc' = "end" /\ stack' = stack BY <1>2 DEF ParseLoop, Pop
  <2>2. Fine(i + 1) /\ Reading("end", i + 1, heap, stack, root, key)
    BY <1>1, <1>2, CloserMeans
  <2>3. Reading(pc', i', heap', stack', root', key') BY <1>1, <2>1, <2>2
  <2> QED BY <1>1, <2>1, <2>2, <2>3, ReadsOn DEF Parsing
<1> DEFINE d == Len(stack)
<1>3. PICK P : Opened(P, d, i) /\ KeysFit(P, d, i, heap, stack, root, {})
  BY <1>1 DEF MeaningInv, Parsing, Reading, Depth, InValue, KeyRead
<1>4. CASE ~ExpectDelim(Closer) /\ Head(stack).kind = "list"
  <2> DEFINE e == Undefined(NoKey)
             t == stack'
  <2>1. t = <<e>> \o stack /\ pc' = "value" /\ i' = i BY <1>4 DEF ParseLoop
  <2>2. e \in Entry BY DEF Undefined, Entry, NULL
  <2>3. Level(stack, root, d).kind # "table"
    <3>1. Nth(stack, Len(stack)) = Head(stack) BY <1>1, NthTop
    <3>2. d # 0 BY <1>1, EmptySeq
    <3> QED BY <1>4, <3>1, <3>2 DEF Level
  <2> HIDE DEF e, t
  <2>9. t \in Seq(Entry) /\ t # <<>> /\ Tail(t) = stack /\ Head(t) = e BY <1>1, <2>1, <2>2, Pushed
  <2>4. KeysFit(P, d, i, heap, t, root, {}) BY <1>1, <1>3, <2>9, <2>3, FitsPush
  <2>5. Len(t) = d + 1 BY <1>1, <2>9, NthPush
  <2>6. Len(t) - 1 = d BY <1>1, <2>5
  <2>7. Reading("value", i, heap, t, root, key)
    BY <1>3, <2>4, <2>6 DEF Reading, Depth, InValue, KeyRead
  <2>8. Reading(pc', i', heap', stack', root', key') BY <1>1, <2>1, <2>7 DEF t
  <2> QED BY <1>1, <2>1, <2>8, ReadsOn DEF Parsing
<1>5. CASE ~ExpectDelim(Closer) /\ Head(stack).kind # "list"
  <2>1. stack' = stack /\ pc' = "pair" /\ i' = i BY <1>5 DEF ParseLoop
  <2>2. Reading("pair", i, heap, stack, root, key)
    BY <1>3 DEF Reading, Depth, InValue, KeyRead
  <2>3. Reading(pc', i', heap', stack', root', key') BY <1>1, <2>1, <2>2
  <2> QED BY <1>1, <2>1, <2>3, ReadsOn DEF Parsing
<1> QED BY <1>2, <1>4, <1>5

\* The closing bracket after an element: what the tokens mean.
LEMMA ParseAfterMeans ==
  ASSUME MemoryInv, MeaningInv, ParseAfter, was' = was PROVE MeaningInv'
<1>1. /\ pc = "after" /\ pc \in Parsing /\ UNCHANGED <<tokens, stack, root, heap, key, error>>
      /\ error = "none" /\ Fine(i)
  BY DEF ParseAfter, tree, MeaningInv, Parsing
<1>2. CASE ExpectDelim(Closer)
  <2>1. i' = i + 1 /\ pc' = "end" BY <1>2 DEF ParseAfter, Pop
  <2>2. Fine(i + 1) /\ Reading("end", i + 1, heap, stack, root, key)
    BY <1>1, <1>2, CloserMeans
  <2>3. Reading(pc', i', heap', stack', root', key') BY <1>1, <2>1, <2>2
  <2> QED BY <1>1, <2>1, <2>2, <2>3, ReadsOn DEF Parsing
<1>3. CASE ~ExpectDelim(Closer)
  <2>1. i' = i /\ pc' = "loop" BY <1>3 DEF ParseAfter
  <2>2. Reading("loop", i, heap, stack, root, key)
    BY <1>1 DEF MeaningInv, Reading, Depth, InValue, KeyRead
  <2>3. Reading(pc', i', heap', stack', root', key') BY <1>1, <2>1, <2>2
  <2> QED BY <1>1, <2>1, <2>3, ReadsOn DEF Parsing
<1> QED BY <1>2, <1>3

\* The keys of an array and of one more element.
LEMMA KeysAppend ==
  ASSUME NEW S, NEW es \in Seq(S), NEW e \in S
  PROVE  KeysOf(Append(es, e)) = KeysOf(es) \cup {e.key}
<1> DEFINE t == Append(es, e)
           L == Len(es)
<1>1. /\ Len(t) = L + 1 /\ L \in Nat /\ t[L + 1] = e /\ \A k \in 1 .. L : t[k] = es[k]
  BY AppendProperties, LenProperties
<1> HIDE DEF t, L
<1>2. 1 .. L + 1 = (1 .. L) \cup {L + 1} BY <1>1
<1>3. KeysOf(t) = {t[n].key : n \in 1 .. L + 1} BY <1>1 DEF KeysOf
<1>4. KeysOf(t) = {t[n].key : n \in 1 .. L} \cup {t[L + 1].key} BY <1>2, <1>3
<1>5. {t[n].key : n \in 1 .. L} = KeysOf(es) BY <1>1 DEF KeysOf, L
<1> QED BY <1>1, <1>4, <1>5 DEF t

\* The levels after an append, from the outside in.
LEMMA AppendLevels ==
  ASSUME MemoryInv, AppendValue, NEW d, d = Len(stack) - 1
  PROVE  /\ d \in Nat /\ Len(stack') = d
         /\ \A k \in 0 .. d : k < d => /\ Level(stack', root', k) = Level(stack, root, k)
                                       /\ Nth(stack', k + 1).key = Nth(stack, k + 1).key
         /\ Level(stack, root, d) = Target /\ Nth(stack, d + 1) = Head(stack)
         /\ Level(stack', root', d).ptr = Moved
         /\ Level(stack', root', d).kind = Target.kind
<1> DEFINE L == Len(stack)
           u == stack'
<1>1. L \in Nat \ {0} /\ d \in Nat /\ L = d + 1 /\ Target \in Entry /\ stack[1] = Head(stack)
  BY AppendTarget, AppendFacts
<1>2. Nth(stack, d + 1) = Head(stack)
  <2>1. L + 1 - (d + 1) = 1 BY <1>1
  <2> QED BY <1>1, <2>1 DEF Nth
<1>3. Level(stack, root, d) = Target
  <2>1. CASE d = 0 BY <1>1, <2>1 DEF Level, Target
  <2>2. CASE d # 0
    <3>1. L + 1 - d = 2 /\ L # 1 BY <1>1, <2>2
    <3> QED BY <2>2, <3>1 DEF Level, Nth, Target
  <2> QED BY <2>1, <2>2
<1>4. CASE d = 0
  <2>1. L = 1 BY <1>1, <1>4
  <2>2. u = <<>> /\ root' = [root EXCEPT !.ptr = Moved] /\ Target = root
    BY <2>1, AppendFacts DEF Target
  <2>3. Level(u, root', d) = root' BY <1>4 DEF Level
  <2>4. root'.ptr = Moved /\ root'.kind = root.kind BY <1>1, <2>2 DEF Entry
  <2>5. Len(u) = 0 BY <2>2
  <2>6. \A k \in 0 .. d : ~(k < d)
    <3>1. \A k \in 0 .. 0 : ~(k < 0) OBVIOUS
    <3> QED BY <1>4, <3>1, Zenon
  <2> QED BY <1>1, <1>2, <1>3, <1>4, <2>2, <2>3, <2>4, <2>5, <2>6
<1>5. CASE d # 0
  <2>1. L # 1 /\ L >= 2 BY <1>1, <1>5
  <2>2. u = <<[stack[2] EXCEPT !.ptr = Moved]>> \o Tail(Tail(stack)) /\ root' = root /\ Target = stack[2]
    BY <2>1, AppendFacts DEF Target
  <2> DEFINE c == [stack[2] EXCEPT !.ptr = Moved]
             t == Tail(Tail(stack))
  <2>3. c.ptr = Moved /\ c.kind = Target.kind BY <1>1, <2>2 DEF Entry
  <2>4. t \in Seq(Entry) BY <2>1, AppendContainer, AppendFacts
  <2>5. u = <<c>> \o t BY <2>2
  <2> HIDE DEF c, t
  <2>6. Len(u) \in Nat \ {0} /\ u[1] = c BY <2>4, <2>5
  <2> HIDE DEF u
  <2>7. 1 \in 1 .. Len(u) BY <2>6
  <2>8. Len(u) = d
    <3>1. Len(stack') = Len(stack) - 1 BY <2>7, AppendStack DEF u
    <3> QED BY <3>1 DEF u
  <2>9. \A n \in 1 .. d : /\ u[n].key = stack[n + 1].key
                          /\ n # 1 => u[n] = stack[n + 1]
    BY <2>8, AppendStack DEF u
  <2>10. ASSUME NEW k \in 1 .. d
         PROVE  /\ Nth(u, k).key = Nth(stack, k).key
                /\ k # d => Nth(u, k) = Nth(stack, k)
    <3> DEFINE n == d + 1 - k
    <3>1. n \in 1 .. d /\ L + 1 - k = n + 1 /\ (k # d => n # 1) BY <1>1
    <3> HIDE DEF n
    <3>2. Nth(u, k) = u[n] BY <2>8 DEF Nth, n
    <3>3. Nth(stack, k) = stack[n + 1] BY <3>1 DEF Nth
    <3> QED BY <2>9, <3>1, <3>2, <3>3
  <2>11. Level(u, root', d) = c
    <3>1. d + 1 - d = 1 BY <1>1
    <3> QED BY <1>5, <2>6, <2>8, <3>1 DEF Level, Nth
  <2>12. ASSUME NEW k \in 0 .. d, k < d
         PROVE  /\ Level(u, root', k) = Level(stack, root, k)
                /\ Nth(u, k + 1).key = Nth(stack, k + 1).key
    <3>1. k + 1 \in 1 .. d /\ (k # 0 => k \in 1 .. d) /\ k # d BY <1>1, <2>12
    <3>2. Nth(u, k + 1).key = Nth(stack, k + 1).key BY <2>10, <3>1
    <3>3. CASE k = 0 BY <2>2, <3>2, <3>3 DEF Level
    <3>4. CASE k # 0 BY <2>10, <3>1, <3>2, <3>4 DEF Level
    <3> QED BY <3>3, <3>4
  <2> QED BY <1>1, <1>2, <1>3, <2>3, <2>8, <2>11, <2>12 DEF u
<1> QED BY <1>4, <1>5

\* list_append and table_append: what the tokens mean.
LEMMA AppendValueMeans ==
  ASSUME MemoryInv, MeaningInv, AppendValue, was' = was PROVE MeaningInv'
<1> DEFINE d == Len(stack) - 1
           u == stack'
           q == root'
           h == heap'
<1>1. /\ pc = "append" /\ UNCHANGED <<tokens, key, error, i>>
      /\ pc' = IF Len(stack) = 1 THEN "pair" ELSE "after"
      /\ error = "none" /\ Fine(i)
  BY DEF AppendValue, MeaningInv, Parsing
<1>2. PICK P : Opened(P, d, i) /\ KeysFit(P, d, i, heap, stack, root, {})
  BY <1>1 DEF MeaningInv, Parsing, Reading, Depth, InValue, KeyRead
<1>3. /\ d \in Nat /\ Len(u) = d /\ Len(stack) = d + 1
      /\ \A k \in 0 .. d : k < d => /\ Level(u, q, k) = Level(stack, root, k)
                                    /\ Nth(u, k + 1).key = Nth(stack, k + 1).key
      /\ Level(stack, root, d) = Target /\ Nth(stack, d + 1) = Head(stack)
      /\ Level(u, q, d).ptr = Moved /\ Level(u, q, d).kind = Target.kind
  BY AppendLevels, AppendTarget
<1>4. /\ h[Moved] = Filled /\ Moved # NULL
      /\ Elems(Target.ptr) \in Seq(Entry) /\ Head(stack) \in Entry
  BY AppendFacts DEF NULL
<1>5. ASSUME NEW k \in 0 .. d, k < d
      PROVE  ElemsIn(h, Level(stack, root, k).ptr) = ElemsIn(heap, Level(stack, root, k).ptr)
  <2> DEFINE c == Level(stack, root, k)
             place == <<0, k>>
  <2>1. k \in 0 .. Len(stack) BY <1>3
  <2>2. Own(place, c) \subseteq Owners BY <2>1, LevelOwned
  <2>3. place # IF Len(stack) = 1 THEN <<0, 0>> ELSE <<0, Len(stack) - 1>>
    <3>1. Len(stack) # 1 /\ k # Len(stack) - 1 BY <1>3, <1>5
    <3> QED BY <3>1
  <2> HIDE DEF c, place
  <2>4. c.ptr # NULL => h[c.ptr] = heap[c.ptr] BY <2>2, <2>3, AppendElsewhere
  <2>5. ElemsIn(h, c.ptr) = ElemsIn(heap, c.ptr) BY <2>4 DEF ElemsIn
  <2> QED BY <2>5 DEF c
<1> HIDE DEF d, u, q, h
<1>6. ASSUME NEW k \in 0 .. d, Level(u, q, k).kind = "table"
      PROVE  KeysOf(ElemsIn(h, Level(u, q, k).ptr)) \cup Waiting(u, {}, k)
               = UsedAt(OpenTo(P, k), i) \cup Before(k)
  <2>1. CASE k < d
    <3>1. Level(u, q, k) = Level(stack, root, k) BY <1>3, <2>1
    <3>2. Waiting(u, {}, k) = Waiting(stack, {}, k)
      <4>1. k < Len(stack) /\ k < Len(u) BY <1>3, <2>1
      <4> QED BY <1>3, <2>1, <4>1 DEF Waiting
    <3>3. KeysOf(ElemsIn(heap, Level(stack, root, k).ptr)) \cup Waiting(stack, {}, k)
            = UsedAt(OpenTo(P, k), i) \cup Before(k)
      BY <1>2, <1>6, <3>1 DEF KeysFit
    <3>4. ElemsIn(h, Level(stack, root, k).ptr) = ElemsIn(heap, Level(stack, root, k).ptr)
      BY <1>5, <2>1
    <3> QED BY <3>1, <3>2, <3>3, <3>4
  <2>2. CASE k = d
    <3> DEFINE es == Elems(Target.ptr)
    <3>1. ElemsIn(h, Level(u, q, k).ptr) = Append(es, Head(stack))
      BY <1>3, <1>4, <2>2 DEF ElemsIn, Filled
    <3>2. KeysOf(Append(es, Head(stack))) = KeysOf(es) \cup {Head(stack).key}
      BY <1>4, KeysAppend
    <3>3. Waiting(u, {}, k) = {} /\ Waiting(stack, {}, k) = {Head(stack).key}
      <4>1. ~(k < Len(u)) /\ k < Len(stack) BY <1>3, <2>2
      <4> QED BY <1>3, <2>2, <4>1 DEF Waiting
    <3>4. Level(stack, root, k).kind = "table" /\ ElemsIn(heap, Level(stack, root, k).ptr) = es
      BY <1>3, <1>6, <2>2 DEF Elems, ElemsIn
    <3> HIDE DEF es
    <3>5. KeysOf(es) \cup Waiting(stack, {}, k) = UsedAt(OpenTo(P, k), i) \cup Before(k)
      BY <1>2, <3>4 DEF KeysFit
    <3> QED BY <3>1, <3>2, <3>3, <3>5
  <2>3. k < d \/ k = d BY <1>3
  <2> QED BY <2>1, <2>2, <2>3
<1>7. KeysFit(P, d, i, h, u, q, {}) BY <1>6 DEF KeysFit
<1>8. Reading(pc', i, h, u, q, key)
  <2>1. ~InValue(pc') /\ pc' # "sep" BY <1>1 DEF InValue
  <2> QED BY <1>2, <1>3, <1>7, <2>1 DEF Reading, Depth, KeyRead
<1>9. Reading(pc', i', heap', stack', root', key') BY <1>1, <1>8 DEF h, u, q
<1> QED BY <1>1, <1>9, ReadsOn DEF Parsing

\* scan returned NULL: before the first token nothing is open, and the keys are
\* those the caller's table has.
LEMMA ScanDoneMeans ==
  ASSUME MemoryInv, GrammarInv, MeaningInv, ScanDone, was' = was PROVE MeaningInv'
<1>1. /\ pc = "scan" /\ pc' = "pair" /\ UNCHANGED <<tokens, i, key, stack, root, heap, error>>
      /\ error = "none" /\ heap = was.heap /\ root = was.root
      /\ i = 1 /\ stack = <<>> /\ Len(<<>>) = 0
  BY DEF ScanDone, tree, MeaningInv, GrammarInv, MemoryInv, Shape, Control
<1>2. 1 .. 1 - 1 = {} /\ 1 .. 0 = {} /\ 0 .. 0 = {0} OBVIOUS
<1>3. Fine(1) BY <1>2 DEF Fine
<1>4. Opened(<<>>, 0, 1)
  <2>1. OpenAt(1) = {} BY <1>2 DEF OpenAt
  <2>2. OpenTo(<<>>, 0) = {} BY <1>2 DEF OpenTo
  <2> QED BY <1>2, <2>1, <2>2 DEF Opened
<1>5. KeysFit(<<>>, 0, 1, heap, <<>>, root, {})
  <2> DEFINE es == ElemsIn(heap, root.ptr)
  <2>1. es \in Seq(Entry) BY <1>1, ContainerElems DEF Container, Elems, ElemsIn
  <2>2. DOMAIN es = 1 .. Len(es) BY <2>1, LenProperties
  <2>3. OldKeys = {es[n].key : n \in DOMAIN es} BY <1>1 DEF OldKeys
  <2> HIDE DEF es
  <2>4. KeysOf(es) = OldKeys BY <2>2, <2>3 DEF KeysOf
  <2>5. \A S : UsedAt(S, 1) = {} BY <1>2 DEF UsedAt
  <2>6. Level(<<>>, root, 0) = root /\ Before(0) = OldKeys BY DEF Level, Before
  <2>7. Waiting(<<>>, {}, 0) = {} BY <1>1 DEF Waiting
  <2> QED BY <1>2, <2>4, <2>5, <2>6, <2>7 DEF KeysFit, es
<1>6. Reading("pair", 1, heap, <<>>, root, key)
  <2>1. Depth("pair", <<>>) = 0 /\ KeyRead("pair", key) = {} BY <1>1 DEF Depth, InValue, KeyRead
  <2> QED BY <1>4, <1>5, <2>1 DEF Reading
<1>7. Reading(pc', i', heap', stack', root', key') BY <1>1, <1>6
<1> QED BY <1>1, <1>3, <1>7, ReadsOn DEF Parsing

\* parse returned NULL: every token has been read, and has a meaning.
LEMMA DoneMeans ==
  ASSUME MemoryInv, MeaningInv, Done, was' = was PROVE MeaningInv'
<1>1. /\ pc' = "done" /\ UNCHANGED <<tokens, error>> /\ error = "none" /\ Fine(i) /\ NoneLeft
  BY DEF Done, MeaningInv, Parsing
<1>2. /\ i \in 1 .. Len(tokens) + 1 /\ Len(tokens) \in Nat /\ DOMAIN tokens = 1 .. Len(tokens)
  BY LenProperties DEF MemoryInv, Shape, TypeOK
<1>3. 1 .. Len(tokens) = 1 .. i - 1 BY <1>1, <1>2 DEF NoneLeft
<1>4. Troubled = {} BY <1>1, <1>2, <1>3 DEF Fine, Troubled
<1>5. Troubled' = {} BY <1>1, <1>4, SameMeaning
<1>6. Verdict' <=> (error' = IF Troubled' = {} THEN "none" ELSE Trouble(Min(Troubled))')
  BY DEF Verdict
<1>7. Verdict' BY <1>1, <1>5, <1>6
<1> QED BY <1>1, <1>7 DEF MeaningInv, Parsing

\* In the beginning nothing has been read.
LEMMA MeaningInit == ASSUME Init PROVE MeaningInv
BY DEF Init, ParserInit, MeaningInv, Parsing

\* kevs_parse, called again, and the steps of scan: nothing has been read.
LEMMA ScanMeans ==
  ASSUME MeaningInv, Emit \/ ScanFailed \/ KevsParseAgain PROVE MeaningInv'
<1>1. CASE Emit BY <1>1 DEF Emit, tree, MeaningInv, Parsing
<1>2. CASE ScanFailed BY <1>2 DEF ScanFailed, MeaningInv, Parsing
<1>3. CASE KevsParseAgain BY <1>3 DEF KevsParseAgain, MeaningInv, Parsing
<1> QED BY <1>1, <1>2, <1>3

\* Once parse has returned, its message is about the first token without a meaning.
LEMMA ReleaseMeans ==
  ASSUME MemoryInv, MeaningInv, KevsReturn \/ Release, was' = was PROVE MeaningInv'
<1>1. CASE KevsReturn BY <1>1, Said DEF KevsReturn
<1>2. CASE Unwind BY <1>2, Said DEF Unwind
<1>3. CASE Failed BY <1>3, Said DEF Failed, Kept
<1>4. CASE KevsFree BY <1>4, Said DEF KevsFree
<1>5. CASE KevsFreed BY <1>5, Said DEF KevsFreed
<1>6. CASE FreeString \/ FreeElements \/ FreeArray \/ FreeNothing
  <2>1. pc \in {"unwind", "freeing"} /\ UNCHANGED <<pc, tokens, error>>
    BY <1>6, NextCall DEF FreeString, FreeElements, FreeArray, FreeNothing
  <2> QED BY <2>1, Said
<1> QED BY <1>1, <1>2, <1>3, <1>4, <1>5, <1>6 DEF Release

\* Every step keeps the keys of what is open those met in it, and every token
\* read so far one that has a meaning.
LEMMA MeaningStep ==
  ASSUME MemoryInv, GrammarInv, GrammarInv', MeaningInv, [Next]_allvars PROVE MeaningInv'
<1>1. CASE Emit \/ ScanFailed \/ KevsParseAgain BY <1>1, ScanMeans
<1>2. CASE ScanDone BY <1>2, ScanDoneMeans DEF ScanDone
<1>3. CASE KevsReturn BY <1>3, ReleaseMeans DEF KevsReturn
<1>4. CASE Release /\ was' = was BY <1>4, ReleaseMeans
<1>5. CASE Parse /\ was' = was
  <2>1. CASE Done BY <1>5, <2>1, DoneMeans
  <2>2. CASE ParseKey BY <1>5, <2>2, ParseKeyMeans
  <2>3. CASE ParseSeparator BY <1>5, <2>3, ParseSeparatorMeans
  <2>4. CASE ParseList
    <3>1. kListBegin \in Openers /\ "list" \in {"list", "table"} BY DEF Openers
    <3> QED BY <1>5, <2>4, <3>1, ParseOpenMeans DEF ParseList
  <2>5. CASE ParseTable
    <3>1. kTableBegin \in Openers /\ "table" \in {"list", "table"} BY DEF Openers
    <3> QED BY <1>5, <2>5, <3>1, ParseOpenMeans DEF ParseTable
  <2>6. CASE ParseString BY <1>5, <2>6, ParseStringMeans
  <2>7. CASE ParseScalar BY <1>5, <2>7, ParseScalarMeans
  <2>8. CASE ParseBadValue BY <1>5, <2>8, ParseBadValueMeans
  <2>9. CASE ParseValueEnd BY <1>5, <2>9, ParseValueEndMeans
  <2>10. CASE ParseLoop BY <1>5, <2>10, ParseLoopMeans
  <2>11. CASE AppendValue BY <1>5, <2>11, AppendValueMeans
  <2>12. CASE ParseAfter BY <1>5, <2>12, ParseAfterMeans
  <2> QED
    BY <1>5, <2>1, <2>2, <2>3, <2>4, <2>5, <2>6, <2>7, <2>8, <2>9, <2>10, <2>11, <2>12
    DEF Parse
<1>6. CASE UNCHANGED allvars
  <2>1. UNCHANGED <<tokens, i, key, stack, root, heap, pc, error, was>> BY <1>6 DEF allvars, vars
  <2>2. CASE pc \in Parsing BY <2>1, <2>2, ReadsOn DEF MeaningInv
  <2>3. CASE pc = "scan" BY <2>1, <2>3 DEF MeaningInv, Parsing
  <2>4. CASE pc \notin Parsing /\ pc # "scan"
    <3>1. pc \in {"unwind", "done", "failed", "returned", "freeing", "freed"}
      BY <2>4 DEF Parsing, MemoryInv, Shape, TypeOK
    <3> QED BY <2>1, <3>1, Said
  <2> QED BY <2>2, <2>3, <2>4
<1> QED BY <1>1, <1>2, <1>3, <1>4, <1>5, <1>6 DEF Next

\* Which streams of tokens kevs_parse accepts: those in which every token has a
\* meaning, by a reading that knows nothing of the parser; and of the others it
\* blames the first token that has none.
THEOREM AcceptedExactly == Spec => []AcceptsExactly
<1>1. Init => MeaningInv BY MeaningInit
<1>2. MemoryInv /\ GrammarInv /\ GrammarInv' /\ MeaningInv /\ [Next]_allvars => MeaningInv'
  BY MeaningStep
<1>3. MeaningInv => AcceptsExactly BY DEF MeaningInv, Verdict, AcceptsExactly
<1>4. Init => GrammarInv BY GrammarInit
<1>5. MemoryInv /\ GrammarInv /\ [Next]_allvars => GrammarInv' BY GrammarStep
<1> QED BY <1>1, <1>2, <1>3, <1>4, <1>5, MemoryInvariant, PTL DEF Spec

-----------------------------------------------------------------------------
(* What the table stands for.                                              *)

\* The texts of tokens, and those of the tokens a + 1 to b.
Shown == Keys \cup Literals \cup Delimiters \cup {NoData}

Seg(a, b) == [m \in 1 .. b - a |-> tokens[a + m].sym]

\* A stretch of tokens is a sequence of texts, one for each.
LEMMA SegSeq ==
  ASSUME tokens \in Seq(Token), NEW a \in Nat, NEW b \in Nat, a <= b, b <= Len(tokens)
  PROVE  Seg(a, b) \in Seq(Shown) /\ Len(Seg(a, b)) = b - a
<1>1. ASSUME NEW m \in 1 .. b - a PROVE tokens[a + m].sym \in Shown
  <2>1. Len(tokens) \in Nat BY LenProperties
  <2>2. a + m \in 1 .. Len(tokens) BY <2>1
  <2>3. tokens[a + m] \in Token BY <2>2, ElementOfSeq
  <2>4. \A t \in Token : t.sym \in Shown BY DEF Token, Shown
  <2> QED BY <2>3, <2>4
<1>2. b - a \in Nat OBVIOUS
<1>3. Seg(a, b) \in [1 .. b - a -> Shown] BY <1>1 DEF Seg
<1>4. Seg(a, b) \in Seq(Shown) BY <1>2, <1>3, SeqDef
<1> QED BY <1>2, <1>3, <1>4, LenProperties

\* Two stretches, one after the other.
LEMMA SegJoin ==
  ASSUME tokens \in Seq(Token), NEW a \in Nat, NEW b \in Nat, NEW c \in Nat, a <= b, b <= c,
         c <= Len(tokens)
  PROVE  Seg(a, b) \o Seg(b, c) = Seg(a, c)
<1> DEFINE s == Seg(a, b)
           t == Seg(b, c)
           u == Seg(a, c)
<1>1. Len(tokens) \in Nat BY LenProperties
<1>2. /\ s \in Seq(Shown) /\ Len(s) = b - a /\ t \in Seq(Shown) /\ Len(t) = c - b
      /\ u \in Seq(Shown) /\ Len(u) = c - a
  <2>1. a <= c /\ b <= Len(tokens) BY <1>1
  <2> QED BY <2>1, SegSeq
<1>3. /\ s \o t \in Seq(Shown) /\ Len(s \o t) = (b - a) + (c - b)
      /\ \A m \in 1 .. (b - a) + (c - b) :
           (s \o t)[m] = IF m <= b - a THEN s[m] ELSE t[m - (b - a)]
  <2> HIDE DEF s, t, u
  <2>1. /\ s \o t \in Seq(Shown) /\ Len(s \o t) = Len(s) + Len(t)
        /\ \A m \in 1 .. Len(s) + Len(t) :
             (s \o t)[m] = IF m <= Len(s) THEN s[m] ELSE t[m - Len(s)]
    BY <1>2, ConcatProperties
  <2> QED BY <1>2, <2>1
<1>4. (b - a) + (c - b) = c - a OBVIOUS
<1>5. ASSUME NEW m \in 1 .. c - a PROVE (s \o t)[m] = u[m]
  <2>1. u[m] = tokens[a + m].sym BY DEF Seg
  <2>2. CASE m <= b - a
    <3>1. m \in 1 .. b - a BY <2>2
    <3>2. s[m] = tokens[a + m].sym BY <3>1 DEF Seg
    <3> QED BY <1>3, <1>4, <2>1, <2>2, <3>2
  <2>3. CASE ~(m <= b - a)
    <3> DEFINE l == m - (b - a)
    <3>1. l \in 1 .. c - b /\ b + l = a + m BY <2>3
    <3> HIDE DEF l
    <3>2. t[l] = tokens[b + l].sym BY <3>1 DEF Seg
    <3>3. (s \o t)[m] = t[l] BY <1>3, <1>4, <2>3 DEF l
    <3> QED BY <2>1, <3>1, <3>2, <3>3
  <2> QED BY <2>2, <2>3
<1> HIDE DEF s, t, u
<1>6. s \o t = u
  <2>1. Len(s \o t) = Len(u) BY <1>2, <1>3, <1>4
  <2>2. \A m \in 1 .. Len(s \o t) : (s \o t)[m] = u[m] BY <1>2, <1>5, <2>1
  <2> QED BY <1>2, <1>3, <2>1, <2>2, SeqEqual
<1> QED BY <1>6 DEF s, t, u

\* A stretch of no token.
LEMMA SegNone == ASSUME NEW a \in Nat PROVE Seg(a, a) = <<>>
BY DEF Seg

\* A stretch that is one token longer.
LEMMA SegMore ==
  ASSUME tokens \in Seq(Token), NEW a \in Nat, NEW n \in Nat \ {0}, a <= n - 1, n <= Len(tokens)
  PROVE  Seg(a, n - 1) \o <<tokens[n].sym>> = Seg(a, n)
<1> DEFINE b == n - 1
<1>1. b \in Nat /\ b <= n /\ n - b = 1 /\ b + 1 = n /\ a <= b OBVIOUS
<1>2. Seg(b, n) = <<tokens[n].sym>>
  <2>1. Seg(b, n) = [m \in 1 .. 1 |-> tokens[b + m].sym] BY <1>1 DEF Seg
  <2>2. \A m \in 1 .. 1 : b + m = n BY <1>1
  <2>3. Seg(b, n) = [m \in 1 .. 1 |-> tokens[n].sym] BY <2>1, <2>2
  <2> QED BY <2>3
<1> HIDE DEF b
<1>3. Seg(a, b) \o Seg(b, n) = Seg(a, n) BY <1>1, SegJoin
<1> QED BY <1>2, <1>3 DEF b

\* Texts one after the other.
LEMMA TextJoin ==
  ASSUME NEW b \in Seq(Shown), NEW v \in Seq(Shown), NEW w \in Seq(Shown)
  PROVE  (b \o v) \o w = b \o (v \o w)
BY ConcatAssociative

-----------------------------------------------------------------------------

\* text is what the arrays of a heap stand for, but for those that are being freed:
\* their elements may be gone.
IsText(h, D, text) ==
  \A b \in DOMAIN h \ D :
    /\ text[<<b, 0>>] = <<>>
    /\ \A n \in 0 .. Len(h[b].elems) : text[<<b, n>>] \in Seq(Shown)
    /\ \A n \in 1 .. Len(h[b].elems) :
         text[<<b, n>>] = text[<<b, n - 1>>] \o ItemText(h, text, h[b].elems[n])

\* What an entry stands for is a sequence of tokens.
LEMMA TextTypes ==
  ASSUME NEW h, NEW D, NEW text, IsText(h, D, text), NEW e \in Entry,
         e.ptr # NULL => e.ptr \in DOMAIN h \ D /\ h[e.ptr] \in Block
  PROVE  /\ KeyText(e) \in Seq(Shown) /\ ArrayText(h, text, e.ptr) \in Seq(Shown)
         /\ ValueText(h, text, e) \in Seq(Shown) /\ ItemText(h, text, e) \in Seq(Shown)
<1>1. KeyText(e) \in Seq(Shown)
  <2>1. kKeyValSep \in Shown BY DEF Shown, Delimiters
  <2>2. e.key # NoKey => e.key \in Shown BY DEF Entry, Shown
  <2> QED BY <2>1, <2>2 DEF KeyText
<1>2. ArrayText(h, text, e.ptr) \in Seq(Shown)
  <2>1. CASE e.ptr = NULL BY <2>1 DEF ArrayText
  <2>2. CASE e.ptr # NULL
    <3>1. Len(h[e.ptr].elems) \in Nat BY <2>2, LenProperties DEF Block
    <3>2. Len(h[e.ptr].elems) \in 0 .. Len(h[e.ptr].elems) BY <3>1
    <3> QED BY <2>2, <3>2 DEF ArrayText, IsText
  <2> QED BY <2>1, <2>2
<1> DEFINE a == ArrayText(h, text, e.ptr)
<1>3. ValueText(h, text, e) \in Seq(Shown)
  <2>1. a \in Seq(Shown) BY <1>2
  <2> HIDE DEF a
  <2>2. \A x \in Shown : <<x>> \in Seq(Shown) OBVIOUS
  <2>3. {kListBegin, kListEnd, kTableBegin, kTableEnd, e.data} \subseteq Shown
    BY DEF Entry, Shown, Delimiters
  <2>4. \A x, y \in Shown : <<x>> \o a \o <<y>> \in Seq(Shown)
    BY <2>1, <2>2, ConcatProperties
  <2> QED BY <2>2, <2>3, <2>4 DEF ValueText, a
<1>4. ItemText(h, text, e) \in Seq(Shown)
  <2>1. <<kKeyValEnd>> \in Seq(Shown) BY DEF Shown, Delimiters
  <2> QED BY <1>1, <1>3, <2>1, ConcatProperties DEF ItemText
<1> QED BY <1>1, <1>2, <1>3, <1>4

\* An entry stands for the same in another heap, if its array does.
LEMMA SameText ==
  ASSUME NEW h, NEW text, NEW g, NEW its, NEW e,
         ArrayText(g, its, e.ptr) = ArrayText(h, text, e.ptr)
  PROVE  /\ ValueText(g, its, e) = ValueText(h, text, e)
         /\ ItemText(g, its, e) = ItemText(h, text, e)
<1>1. ValueText(g, its, e) = ValueText(h, text, e) BY DEF ValueText
<1> QED BY <1>1 DEF ItemText

\* A heap with less in it, none of which is missed.
LEMMA TextLess ==
  ASSUME NEW h, NEW D, NEW text, IsText(h, D, text), NEW g, NEW C,
         DOMAIN g \ C \subseteq DOMAIN h \ D, \A b \in DOMAIN g : g[b] = h[b],
         \A b \in DOMAIN g \ C : \A n \in 1 .. Len(g[b].elems) :
           g[b].elems[n].ptr # NULL => g[b].elems[n].ptr \in DOMAIN g
  PROVE  IsText(g, C, text)
<1> SUFFICES ASSUME NEW b \in DOMAIN g \ C
             PROVE  /\ text[<<b, 0>>] = <<>>
                    /\ \A n \in 0 .. Len(g[b].elems) : text[<<b, n>>] \in Seq(Shown)
                    /\ \A n \in 1 .. Len(g[b].elems) :
                         text[<<b, n>>] = text[<<b, n - 1>>] \o ItemText(g, text, g[b].elems[n])
  BY DEF IsText
<1>1. b \in DOMAIN h \ D /\ g[b] = h[b] OBVIOUS
<1>2. ASSUME NEW n \in 1 .. Len(g[b].elems)
      PROVE  ItemText(g, text, g[b].elems[n]) = ItemText(h, text, h[b].elems[n])
  <2> DEFINE e == g[b].elems[n]
  <2>1. e = h[b].elems[n] BY <1>1
  <2>2. e.ptr # NULL => e.ptr \in DOMAIN g OBVIOUS
  <2> HIDE DEF e
  <2>3. ArrayText(g, text, e.ptr) = ArrayText(h, text, e.ptr) BY <2>2 DEF ArrayText
  <2>4. ItemText(g, text, e) = ItemText(h, text, e) BY <2>3, SameText
  <2> QED BY <2>1, <2>4 DEF e
<1> QED BY <1>1, <1>2 DEF IsText

\* A heap with one new or changed block in it, which none of the others holds.
Grows(h, g, q) ==
  /\ q \in DOMAIN g
  /\ \A b \in DOMAIN g \ {q} : b \in DOMAIN h /\ g[b] = h[b]
  /\ \A b \in DOMAIN g : g[b] \in Block
  /\ \A b \in DOMAIN g : \A n \in 1 .. Len(g[b].elems) :
       g[b].elems[n].ptr # NULL => g[b].elems[n].ptr \in DOMAIN g \ {q}

\* w is what an array of a heap stands for.
Stands(h, text, es, w) ==
  /\ w[0] = <<>>
  /\ \A n \in 0 .. Len(es) : w[n] \in Seq(Shown)
  /\ \A n \in 1 .. Len(es) : w[n] = w[n - 1] \o ItemText(h, text, es[n])

\* An array stands for the same in another heap, if its elements do.
LEMMA SameStands ==
  ASSUME NEW h, NEW text, NEW es, NEW w, Stands(h, text, es, w), Len(es) \in Nat,
         NEW g, NEW its, \A n \in 1 .. Len(es) : ItemText(g, its, es[n]) = ItemText(h, text, es[n]),
         NEW v, \A n \in 0 .. Len(es) : v[n] = w[n]
  PROVE  Stands(g, its, es, v)
<1>1. /\ 0 \in 0 .. Len(es)
      /\ \A n \in 1 .. Len(es) : n \in 0 .. Len(es) /\ n - 1 \in 0 .. Len(es)
  OBVIOUS
<1> QED BY <1>1 DEF Stands

\* What the arrays of such a heap stand for.
LEMMA TextMore ==
  ASSUME NEW h, NEW text, IsText(h, {}, text), NEW g, NEW q, Grows(h, g, q), NEW w,
         Stands(h, text, g[q].elems, w)
  PROVE  \E other :
           /\ IsText(g, {}, other)
           /\ \A b \in DOMAIN g \ {q} : \A n \in 0 .. Len(g[b].elems) : other[<<b, n>>] = text[<<b, n>>]
           /\ \A n \in 0 .. Len(g[q].elems) : other[<<q, n>>] = w[n]
<1>0. PICK other : other = [x \in Parts(g) |-> IF x[1] = q THEN w[x[2]] ELSE text[x]] OBVIOUS
<1>1. ASSUME NEW b \in DOMAIN g, NEW n \in 0 .. Len(g[b].elems)
      PROVE  other[<<b, n>>] = IF b = q THEN w[n] ELSE text[<<b, n>>]
  <2> DEFINE x == <<b, n>>
  <2>1. x \in {b} \X (0 .. Len(g[b].elems)) OBVIOUS
  <2>2. x \in Parts(g) BY <2>1 DEF Parts
  <2>3. x[1] = b /\ x[2] = n OBVIOUS
  <2> HIDE DEF x
  <2>4. other[x] = IF b = q THEN w[n] ELSE text[x] BY <1>0, <2>2, <2>3
  <2> QED BY <2>4 DEF x
<1>2. ASSUME NEW b \in DOMAIN g PROVE Len(g[b].elems) \in Nat /\ Len(g[b].elems) \in 0 .. Len(g[b].elems)
  <2>1. g[b] \in Block BY DEF Grows
  <2>2. Len(g[b].elems) \in Nat BY <2>1, LenProperties DEF Block
  <2> QED BY <2>2
<1>3. ASSUME NEW e, e.ptr # NULL => e.ptr \in DOMAIN g \ {q}
      PROVE  ItemText(g, other, e) = ItemText(h, text, e)
  <2>1. ASSUME e.ptr # NULL
        PROVE  /\ g[e.ptr] = h[e.ptr]
               /\ other[<<e.ptr, Len(h[e.ptr].elems)>>] = text[<<e.ptr, Len(h[e.ptr].elems)>>]
    <3>1. e.ptr \in DOMAIN g \ {q} /\ g[e.ptr] = h[e.ptr] BY <1>3, <2>1 DEF Grows
    <3> QED BY <1>1, <1>2, <3>1
  <2>2. ArrayText(g, other, e.ptr) = ArrayText(h, text, e.ptr) BY <2>1 DEF ArrayText
  <2> QED BY <2>2, SameText
<1>4. ASSUME NEW b \in DOMAIN g, NEW n \in 1 .. Len(g[b].elems)
      PROVE  ItemText(g, other, g[b].elems[n]) = ItemText(h, text, g[b].elems[n])
  <2>1. g[b].elems[n].ptr # NULL => g[b].elems[n].ptr \in DOMAIN g \ {q} BY DEF Grows
  <2> QED BY <1>3, <2>1
<1>5. ASSUME NEW b \in DOMAIN g
      PROVE  /\ other[<<b, 0>>] = <<>>
             /\ \A n \in 0 .. Len(g[b].elems) : other[<<b, n>>] \in Seq(Shown)
             /\ \A n \in 1 .. Len(g[b].elems) :
                  other[<<b, n>>] = other[<<b, n - 1>>] \o ItemText(g, other, g[b].elems[n])
  <2>1. PICK v : v = [n \in 0 .. Len(g[b].elems) |-> other[<<b, n>>]] OBVIOUS
  <2>2. PICK u : /\ Stands(h, text, g[b].elems, u)
                 /\ \A n \in 0 .. Len(g[b].elems) : v[n] = u[n]
    <3>1. CASE b = q BY <1>1, <2>1, <3>1
    <3>2. CASE b # q
      <4>1. PICK u : u = [n \in 0 .. Len(g[b].elems) |-> text[<<b, n>>]] OBVIOUS
      <4>2. b \in DOMAIN h \ {} /\ g[b] = h[b] BY <3>2 DEF Grows
      <4>3. /\ 0 \in 0 .. Len(g[b].elems)
            /\ \A n \in 1 .. Len(g[b].elems) : n \in 0 .. Len(g[b].elems) /\ n - 1 \in 0 .. Len(g[b].elems)
        BY <1>2
      <4>4. Stands(h, text, g[b].elems, u) BY <4>1, <4>2, <4>3 DEF Stands, IsText
      <4> QED BY <1>1, <2>1, <3>2, <4>1, <4>4
    <3> QED BY <3>1, <3>2
  <2>3. Stands(g, other, g[b].elems, v) BY <1>2, <1>4, <2>2, SameStands
  <2>4. /\ 0 \in 0 .. Len(g[b].elems)
        /\ \A n \in 1 .. Len(g[b].elems) : n \in 0 .. Len(g[b].elems) /\ n - 1 \in 0 .. Len(g[b].elems)
    BY <1>2
  <2> QED BY <2>1, <2>3, <2>4 DEF Stands
<1>6. IsText(g, {}, other) BY <1>5 DEF IsText
<1>7. q \in DOMAIN g BY DEF Grows
<1>8. \A b \in DOMAIN g \ {q} : \A n \in 0 .. Len(g[b].elems) : other[<<b, n>>] = text[<<b, n>>]
  BY <1>1
<1>9. \A n \in 0 .. Len(g[q].elems) : other[<<q, n>>] = w[n] BY <1>1, <1>7
<1> QED BY <1>6, <1>8, <1>9

\* Of the numbers of which something holds one is the least.
LEMMA LeastOf ==
  ASSUME NEW T, T \subseteq Nat, T # {}
  PROVE  \E k \in T : \A n \in T : ~(n < k)
<1> DEFINE R == OpToRel(<, Nat)
<1>1. \A x, y \in Nat : x < y => <<x, y>> \in R BY DEF OpToRel
<1>2. IsWellFoundedOn(R, Nat) BY NatLessThanWellFounded
<1>3. PICK k \in T : \A y \in T : ~(<<y, k>> \in R)
  <2> HIDE DEF R
  <2> QED BY <1>2, WFMin
<1> HIDE DEF R
<1> QED BY <1>1, <1>3

\* The arrays of a heap are arrays, and what is in them is in the heap.
Sound(h) ==
  /\ \A b \in DOMAIN h : h[b] \in Block
  /\ \A b \in DOMAIN h : \A n \in 1 .. Len(h[b].elems) :
       h[b].elems[n].ptr # NULL => h[b].elems[n].ptr \in DOMAIN h

\* text obeys the equations of Texts.
Solves(h, text) ==
  \A b \in DOMAIN h :
    /\ text[<<b, 0>>] = <<>>
    /\ \A n \in 1 .. Len(h[b].elems) :
         text[<<b, n>>] = text[<<b, n - 1>>] \o ItemText(h, text, h[b].elems[n])

Agree(h, T, U, b) == \A n \in 0 .. Len(h[b].elems) : T[<<b, n>>] = U[<<b, n>>]

\* An array stands for the same twice if what is nested in it does.
LEMMA ArraysAgree ==
  ASSUME NEW h, Sound(h), NEW T, Solves(h, T), NEW U, Solves(h, U), NEW b \in DOMAIN h,
         \A n \in 1 .. Len(h[b].elems) :
           h[b].elems[n].ptr # NULL => Agree(h, T, U, h[b].elems[n].ptr)
  PROVE  Agree(h, T, U, b)
<1>0. \A c \in DOMAIN h : Len(h[c].elems) \in Nat
  <2> SUFFICES ASSUME NEW c \in DOMAIN h PROVE Len(h[c].elems) \in Nat OBVIOUS
  <2>1. h[c] \in Block BY DEF Sound
  <2> QED BY <2>1, LenProperties DEF Block
<1> DEFINE L == Len(h[b].elems)
           Bad == {n \in 0 .. L : T[<<b, n>>] # U[<<b, n>>]}
<1>1. L \in Nat BY <1>0
<1> SUFFICES ASSUME Bad # {} PROVE FALSE BY DEF Agree
<1>2. Bad \subseteq Nat BY <1>1
<1> HIDE DEF Bad
<1>3. PICK n \in Bad : \A m \in Bad : ~(m < n) BY <1>2, LeastOf
<1>4. n \in 0 .. L /\ T[<<b, n>>] # U[<<b, n>>] BY <1>3 DEF Bad
<1>5. n # 0 BY <1>4 DEF Solves
<1>6. n \in 1 .. L /\ n - 1 \in 0 .. L /\ n - 1 < n BY <1>1, <1>4, <1>5
<1>7. T[<<b, n - 1>>] = U[<<b, n - 1>>] BY <1>3, <1>6 DEF Bad
<1> DEFINE e == h[b].elems[n]
<1>8. ArrayText(h, T, e.ptr) = ArrayText(h, U, e.ptr)
  <2>1. CASE e.ptr = NULL BY <2>1 DEF ArrayText
  <2>2. CASE e.ptr # NULL
    <3>1. e.ptr \in DOMAIN h /\ Agree(h, T, U, e.ptr) BY <1>6, <2>2 DEF Sound
    <3> DEFINE m == Len(h[e.ptr].elems)
    <3>2. m \in Nat BY <1>0, <3>1
    <3>3. m \in 0 .. m BY <3>2
    <3>4. T[<<e.ptr, m>>] = U[<<e.ptr, m>>] BY <3>1, <3>3 DEF Agree
    <3> QED BY <2>2, <3>4 DEF ArrayText
  <2> QED BY <2>1, <2>2
<1> HIDE DEF e
<1>9. ItemText(h, U, e) = ItemText(h, T, e) BY <1>8, SameText
<1>10. T[<<b, n>>] = T[<<b, n - 1>>] \o ItemText(h, T, e) BY <1>6 DEF Solves, e
<1>11. U[<<b, n>>] = U[<<b, n - 1>>] \o ItemText(h, U, e) BY <1>6 DEF Solves, e
<1> QED BY <1>4, <1>7, <1>9, <1>10, <1>11

\* The arrays of a nested heap stand for one text only.
LEMMA TextsAgree ==
  ASSUME NEW h, Nested(h), Sound(h), NEW T, Solves(h, T), NEW U, Solves(h, U)
  PROVE  \A b \in DOMAIN h : Agree(h, T, U, b)
<1>1. PICK N \in Nat : \E rank \in [DOMAIN h -> 0 .. N] :
        \A b \in DOMAIN h : \A n \in 1 .. Len(h[b].elems) :
          h[b].elems[n].ptr \in DOMAIN h => rank[h[b].elems[n].ptr] < rank[b]
  BY DEF Nested
<1>2. PICK rank \in [DOMAIN h -> 0 .. N] :
        \A b \in DOMAIN h : \A n \in 1 .. Len(h[b].elems) :
          h[b].elems[n].ptr \in DOMAIN h => rank[h[b].elems[n].ptr] < rank[b]
  BY <1>1
<1> DEFINE Bad == {k \in 0 .. N : \E b \in DOMAIN h : k = rank[b] /\ ~Agree(h, T, U, b)}
<1>3. SUFFICES ASSUME Bad # {} PROVE FALSE
  <2>1. \A b \in DOMAIN h : rank[b] \in 0 .. N OBVIOUS
  <2> QED BY <2>1
<1>4. Bad \subseteq Nat OBVIOUS
<1>5. PICK k \in Bad : \A m \in Bad : ~(m < k)
  <2> HIDE DEF Bad
  <2> QED BY <1>3, <1>4, LeastOf
<1>6. PICK b \in DOMAIN h : k = rank[b] /\ ~Agree(h, T, U, b) OBVIOUS
<1>7. ASSUME NEW n \in 1 .. Len(h[b].elems), h[b].elems[n].ptr # NULL
      PROVE  Agree(h, T, U, h[b].elems[n].ptr)
  <2> DEFINE c == h[b].elems[n].ptr
  <2>1. c \in DOMAIN h BY <1>7 DEF Sound
  <2>2. rank[c] < k /\ rank[c] \in 0 .. N BY <1>2, <1>6, <2>1
  <2> HIDE DEF c
  <2>3. rank[c] \notin Bad BY <1>5, <2>2
  <2>4. Agree(h, T, U, c) BY <2>1, <2>2, <2>3
  <2> QED BY <2>4 DEF c
<1>8. Agree(h, T, U, b) BY <1>7, ArraysAgree
<1> QED BY <1>6, <1>8

\* Texts is one.
LEMMA TextsSolve ==
  ASSUME NEW h, Sound(h), NEW T, Solves(h, T)
  PROVE  Solves(h, Texts(h))
<1> DEFINE F(text) ==
      [x \in Parts(h) |-> IF x[2] = 0 THEN <<>>
                          ELSE text[<<x[1], x[2] - 1>>] \o ItemText(h, text, h[x[1]].elems[x[2]])]
<1>0. Texts(h) = CHOOSE text : text = F(text) BY DEF Texts
<1>1. \A c \in DOMAIN h : Len(h[c].elems) \in Nat
  <2> SUFFICES ASSUME NEW c \in DOMAIN h PROVE Len(h[c].elems) \in Nat OBVIOUS
  <2>1. h[c] \in Block BY DEF Sound
  <2> QED BY <2>1, LenProperties DEF Block
<1>2. ASSUME NEW b \in DOMAIN h, NEW n \in 0 .. Len(h[b].elems)
      PROVE  <<b, n>> \in Parts(h) /\ <<b, n>>[1] = b /\ <<b, n>>[2] = n
  <2>1. <<b, n>> \in {b} \X (0 .. Len(h[b].elems)) OBVIOUS
  <2> QED BY <2>1 DEF Parts
<1>3. PICK W : W = [x \in Parts(h) |-> T[x]] OBVIOUS
<1>4. ASSUME NEW b \in DOMAIN h, NEW n \in 0 .. Len(h[b].elems) PROVE W[<<b, n>>] = T[<<b, n>>]
  BY <1>2, <1>3
<1>5. ASSUME NEW b \in DOMAIN h, NEW n \in 1 .. Len(h[b].elems)
      PROVE  ItemText(h, W, h[b].elems[n]) = ItemText(h, T, h[b].elems[n])
  <2> DEFINE e == h[b].elems[n]
  <2>1. ArrayText(h, W, e.ptr) = ArrayText(h, T, e.ptr)
    <3>1. CASE e.ptr = NULL BY <3>1 DEF ArrayText
    <3>2. CASE e.ptr # NULL
      <4>1. e.ptr \in DOMAIN h BY <3>2 DEF Sound
      <4> DEFINE m == Len(h[e.ptr].elems)
      <4>2. m \in Nat BY <1>1, <4>1
      <4>3. m \in 0 .. m BY <4>2
      <4>4. W[<<e.ptr, m>>] = T[<<e.ptr, m>>] BY <1>4, <4>1, <4>3
      <4> QED BY <3>2, <4>4 DEF ArrayText
    <3> QED BY <3>1, <3>2
  <2> HIDE DEF e
  <2>2. ItemText(h, W, e) = ItemText(h, T, e) BY <2>1, SameText
  <2> QED BY <2>2 DEF e
<1>6. ASSUME NEW x \in Parts(h)
      PROVE  W[x] = IF x[2] = 0 THEN <<>>
                    ELSE W[<<x[1], x[2] - 1>>] \o ItemText(h, W, h[x[1]].elems[x[2]])
  <2>1. PICK b \in DOMAIN h : x \in {b} \X (0 .. Len(h[b].elems)) BY DEF Parts
  <2>2. PICK n \in 0 .. Len(h[b].elems) : x = <<b, n>> BY <2>1
  <2>3. x[1] = b /\ x[2] = n BY <2>2
  <2>4. CASE n = 0
    <3>1. W[x] = <<>> BY <1>4, <2>2, <2>4 DEF Solves
    <3> QED BY <2>3, <2>4, <3>1
  <2>5. CASE n # 0
    <3>1. n \in 1 .. Len(h[b].elems) /\ n - 1 \in 0 .. Len(h[b].elems) BY <1>1, <2>5
    <3>2. T[<<b, n>>] = T[<<b, n - 1>>] \o ItemText(h, T, h[b].elems[n]) BY <3>1 DEF Solves
    <3>3. W[x] = W[<<b, n - 1>>] \o ItemText(h, W, h[b].elems[n])
      BY <1>4, <1>5, <2>2, <3>1, <3>2
    <3> QED BY <2>3, <2>5, <3>3
  <2> QED BY <2>4, <2>5
<1>7. W = F(W)
  <2>1. W = [x \in Parts(h) |-> W[x]] BY <1>3
  <2>2. [x \in Parts(h) |-> W[x]] = F(W) BY <1>6
  <2> QED BY <2>1, <2>2
<1>8. PICK f : f = Texts(h) /\ f = F(f)
  <2> HIDE DEF F
  <2> QED BY <1>0, <1>7
<1>9. ASSUME NEW b \in DOMAIN h
      PROVE  /\ f[<<b, 0>>] = <<>>
             /\ \A n \in 1 .. Len(h[b].elems) :
                  f[<<b, n>>] = f[<<b, n - 1>>] \o ItemText(h, f, h[b].elems[n])
  <2>1. \A x \in Parts(h) : f[x] = IF x[2] = 0 THEN <<>>
                                   ELSE f[<<x[1], x[2] - 1>>] \o ItemText(h, f, h[x[1]].elems[x[2]])
    BY <1>8
  <2>2. 0 \in 0 .. Len(h[b].elems) BY <1>1
  <2>3. f[<<b, 0>>] = <<>> BY <1>2, <2>1, <2>2
  <2>4. ASSUME NEW n \in 1 .. Len(h[b].elems)
        PROVE  f[<<b, n>>] = f[<<b, n - 1>>] \o ItemText(h, f, h[b].elems[n])
    <3>1. n \in 0 .. Len(h[b].elems) /\ n # 0 BY <1>1
    <3>2. <<b, n>> \in Parts(h) /\ <<b, n>>[1] = b /\ <<b, n>>[2] = n BY <1>2, <3>1
    <3> HIDE DEF F
    <3> QED BY <2>1, <3>1, <3>2
  <2> QED BY <2>3, <2>4
<1> QED BY <1>8, <1>9 DEF Solves

\* What a table stands for is what any text that obeys the equations says.
LEMMA PairsAre ==
  ASSUME NEW h, Nested(h), Sound(h), NEW T, IsText(h, {}, T), NEW r,
         r.ptr # NULL => r.ptr \in DOMAIN h
  PROVE  PairsText(h, r) = ArrayText(h, T, r.ptr)
<1>1. Solves(h, T) BY DEF IsText, Solves
<1>2. Solves(h, Texts(h)) BY <1>1, TextsSolve
<1> DEFINE U == Texts(h)
<1>3. \A b \in DOMAIN h : Agree(h, U, T, b)
  <2> HIDE DEF U
  <2>1. Solves(h, U) BY <1>2 DEF U
  <2> QED BY <1>1, <2>1, TextsAgree
<1> HIDE DEF U
<1>4. ArrayText(h, U, r.ptr) = ArrayText(h, T, r.ptr)
  <2>1. CASE r.ptr = NULL BY <2>1 DEF ArrayText
  <2>2. CASE r.ptr # NULL
    <3> DEFINE m == Len(h[r.ptr].elems)
    <3>1. h[r.ptr] \in Block BY <2>2 DEF Sound
    <3>2. m \in Nat BY <3>1, LenProperties DEF Block
    <3>3. m \in 0 .. m BY <3>2
    <3>4. U[<<r.ptr, m>>] = T[<<r.ptr, m>>] BY <1>3, <2>2, <3>3 DEF Agree
    <3> QED BY <2>2, <3>4 DEF ArrayText
  <2> QED BY <2>1, <2>2
<1> QED BY <1>4 DEF PairsText, U

\* What the array of a level stood for before the tokens of this call; what is
\* written of a list or table before its elements.
Base(k) == IF k = 0 THEN PairsText(was.heap, was.root) ELSE <<>>

Opening(e) == KeyText(e) \o <<IF e.kind = "list" THEN kListBegin ELSE kTableBegin>>

\* The tokens before token n that the levels stand for: the array of level k for
\* those after P[k], to E[k], and its opening bracket, with its key, for those from
\* there on, after E[k - 1].
Spans(P, E, d, n, h, text, s, r) ==
  /\ P[0] = 0
  /\ \A k \in 0 .. d :
       /\ P[k] \in Nat /\ E[k] \in Nat /\ P[k] <= E[k] /\ E[k] <= n - 1
       /\ ArrayText(h, text, Level(s, r, k).ptr) = Base(k) \o Seg(P[k], E[k])
  /\ \A k \in 1 .. d : E[k - 1] <= P[k] /\ Opening(Level(s, r, k)) = Seg(E[k - 1], P[k])

\* What has been read of the element that is not in its array yet.
Late(p, h, text, s, x) ==
  CASE p = "sep"    -> <<x>>
    [] p = "value"  -> KeyText(Head(s))
    [] p = "end"    -> KeyText(Head(s)) \o ValueText(h, text, Head(s))
    [] p = "append" -> ItemText(h, text, Head(s))
    [] OTHER        -> <<>>

\* No semicolon after token c ends a pair of the outermost level, but for the last.
Ended(p, c, d, n) ==
  \A m \in c + 1 .. n - 1 :
    IsBracket({kKeyValEnd}, m) => OpenAt(m) # {} \/ (p = "append" /\ d = 0 /\ m = n - 1)

Writing(p, n, h, s, r, x, text) ==
  \E P, E : /\ Spans(P, E, Depth(p, s), n, h, text, s, r)
            /\ Seg(E[Depth(p, s)], n - 1) = Late(p, h, text, s, x)
            /\ Ended(p, E[0], Depth(p, s), n)

\* One more token.
LEMMA EndedNext ==
  ASSUME NEW p, p # "append", NEW c \in Nat, NEW d, NEW n \in Nat \ {0}, Ended(p, c, d, n), NEW q,
         IsBracket({kKeyValEnd}, n) => OpenAt(n) # {} \/ (q = "append" /\ d = 0)
  PROVE  Ended(q, c, d, n + 1)
<1> SUFFICES ASSUME NEW m \in c + 1 .. (n + 1) - 1, IsBracket({kKeyValEnd}, m)
             PROVE  OpenAt(m) # {} \/ (q = "append" /\ d = 0 /\ m = (n + 1) - 1)
  BY DEF Ended
<1>1. (n + 1) - 1 = n /\ (m = n \/ m \in c + 1 .. n - 1) OBVIOUS
<1> QED BY <1>1 DEF Ended

\* The levels stay, and so does what they stand for.
SameLevels(d, h, text, s, r, g, its, t) ==
  \A k \in 0 .. d :
    /\ Level(t, r, k) = Level(s, r, k)
    /\ ArrayText(g, its, Level(s, r, k).ptr) = ArrayText(h, text, Level(s, r, k).ptr)

\* A token that belongs to the element that is being read.
LEMMA WriteToken ==
  ASSUME tokens \in Seq(Token), NEW n \in 1 .. Len(tokens),
         NEW p, p # "append", NEW h, NEW s, NEW r, NEW x, NEW text, Writing(p, n, h, s, r, x, text),
         NEW q, NEW g, NEW t, NEW y, NEW its, NEW d \in Nat, d = Depth(p, s), d = Depth(q, t),
         SameLevels(d, h, text, s, r, g, its, t),
         Late(q, g, its, t, y) = Late(p, h, text, s, x) \o <<tokens[n].sym>>,
         IsBracket({kKeyValEnd}, n) => OpenAt(n) # {} \/ (q = "append" /\ d = 0)
  PROVE  Writing(q, n + 1, g, t, r, y, its)
<1>1. PICK P, E : /\ Spans(P, E, d, n, h, text, s, r)
                  /\ Seg(E[d], n - 1) = Late(p, h, text, s, x)
                  /\ Ended(p, E[0], d, n)
  BY DEF Writing
<1>2. Len(tokens) \in Nat /\ n \in Nat \ {0} /\ n <= Len(tokens) /\ (n + 1) - 1 = n
  BY LenProperties
<1>3. 0 \in 0 .. d /\ d \in 0 .. d /\ \A k \in 1 .. d : k \in 0 .. d OBVIOUS
<1>4. Spans(P, E, d, n + 1, g, its, t, r)
  <2>1. ASSUME NEW k \in 0 .. d
        PROVE  /\ P[k] \in Nat /\ E[k] \in Nat /\ P[k] <= E[k] /\ E[k] <= (n + 1) - 1
               /\ ArrayText(g, its, Level(t, r, k).ptr) = Base(k) \o Seg(P[k], E[k])
    <3>1. /\ P[k] \in Nat /\ E[k] \in Nat /\ P[k] <= E[k] /\ E[k] <= n - 1
          /\ ArrayText(h, text, Level(s, r, k).ptr) = Base(k) \o Seg(P[k], E[k])
      BY <1>1 DEF Spans
    <3>2. E[k] <= (n + 1) - 1 BY <1>2, <3>1
    <3> QED BY <3>1, <3>2 DEF SameLevels
  <2>2. \A k \in 1 .. d : E[k - 1] <= P[k] /\ Opening(Level(t, r, k)) = Seg(E[k - 1], P[k])
    BY <1>1, <1>3 DEF Spans, SameLevels
  <2>3. P[0] = 0 BY <1>1 DEF Spans
  <2> QED BY <2>1, <2>2, <2>3 DEF Spans
<1>5. E[d] \in Nat /\ E[d] <= n - 1 /\ E[0] \in Nat BY <1>1, <1>3 DEF Spans
<1>6. Seg(E[d], (n + 1) - 1) = Late(q, g, its, t, y)
  <2>1. Seg(E[d], n - 1) \o <<tokens[n].sym>> = Seg(E[d], n) BY <1>2, <1>5, SegMore
  <2> QED BY <1>1, <1>2, <2>1
<1>7. Ended(q, E[0], d, n + 1) BY <1>1, <1>2, <1>5, EndedNext
<1> QED BY <1>4, <1>6, <1>7 DEF Writing

\* Between two tokens.
LEMMA WriteOn ==
  ASSUME NEW n \in Nat \ {0}, NEW p, p # "append", NEW h, NEW s, NEW r, NEW x, NEW text,
         Writing(p, n, h, s, r, x, text),
         NEW q, NEW t, NEW y, Depth(q, t) = Depth(p, s),
         \A k \in 0 .. Depth(p, s) : Level(t, r, k) = Level(s, r, k),
         Depth(p, s) \in Nat, Late(q, h, text, t, y) = Late(p, h, text, s, x)
  PROVE  Writing(q, n, h, t, r, y, text)
<1> DEFINE d == Depth(p, s)
<1>1. PICK P, E : /\ Spans(P, E, d, n, h, text, s, r)
                  /\ Seg(E[d], n - 1) = Late(p, h, text, s, x)
                  /\ Ended(p, E[0], d, n)
  BY DEF Writing
<1>2. d \in Nat /\ d = Depth(q, t) /\ \A k \in 0 .. d : Level(t, r, k) = Level(s, r, k) OBVIOUS
<1> HIDE DEF d
<1>3. \A k \in 1 .. d : k \in 0 .. d OBVIOUS
<1>4. Spans(P, E, d, n, h, text, t, r) BY <1>1, <1>2, <1>3 DEF Spans
<1>5. Ended(q, E[0], d, n) BY <1>1 DEF Ended
<1> QED BY <1>1, <1>2, <1>4, <1>5 DEF Writing

\* A stretch of as many tokens as there are is empty only if it begins where it ends.
LEMMA SegEmpty ==
  ASSUME tokens \in Seq(Token), NEW a \in Nat, NEW b \in Nat, a <= b, b <= Len(tokens), Seg(a, b) = <<>>
  PROVE  a = b
<1>1. Len(Seg(a, b)) = b - a BY SegSeq
<1>2. Len(<<>>) = 0 OBVIOUS
<1> QED BY <1>1, <1>2

\* A bracket that opens a list or table, now on top of the stack.
LEMMA WriteOpen ==
  ASSUME tokens \in Seq(Token), NEW n \in 1 .. Len(tokens),
         NEW h, NEW s \in Seq(Entry), s # <<>>, NEW r, NEW x, NEW text,
         Writing("value", n, h, s, r, x, text),
         NEW t \in Seq(Entry), t # <<>>, Tail(t) = Tail(s), Head(t).key = Head(s).key,
         Head(t).ptr = NULL, ~IsBracket({kKeyValEnd}, n),
         tokens[n].sym = IF Head(t).kind = "list" THEN kListBegin ELSE kTableBegin
  PROVE  Writing("loop", n + 1, h, t, r, x, text)
<1> DEFINE d == Len(s) - 1
<1>1. /\ Len(t) = Len(s) /\ Len(s) \in Nat \ {0}
      /\ \A k \in 1 .. Len(s) - 1 : Nth(t, k) = Nth(s, k)
      /\ Nth(t, Len(s)) = Head(t)
  BY NthTop
<1>2. d \in Nat /\ Len(t) = d + 1 /\ Depth("value", s) = d /\ Depth("loop", t) = d + 1
  BY <1>1 DEF Depth, InValue
<1>3. PICK P, E : /\ Spans(P, E, d, n, h, text, s, r)
                  /\ Seg(E[d], n - 1) = Late("value", h, text, s, x)
                  /\ Ended("value", E[0], d, n)
  BY <1>2 DEF Writing
<1>4. Late("value", h, text, s, x) = KeyText(Head(s)) BY DEF Late
<1>5. \A k \in 0 .. d : Level(t, r, k) = Level(s, r, k)
  <2>1. \A k \in 0 .. d : k # 0 => k \in 1 .. Len(s) - 1 BY <1>2
  <2> QED BY <1>1, <2>1 DEF Level
<1>6. Level(t, r, d + 1) = Head(t)
  <2>1. d + 1 # 0 /\ d + 1 = Len(s) BY <1>1, <1>2
  <2> QED BY <1>1, <2>1 DEF Level
<1>7. Len(tokens) \in Nat /\ n \in Nat \ {0} /\ n <= Len(tokens) /\ (n + 1) - 1 = n
  BY LenProperties
<1> HIDE DEF d
<1> DEFINE Q == [k \in 0 .. d + 1 |-> IF k = d + 1 THEN n ELSE P[k]]
           F == [k \in 0 .. d + 1 |-> IF k = d + 1 THEN n ELSE E[k]]
<1>8. /\ Q[d + 1] = n /\ F[d + 1] = n
      /\ \A k \in 0 .. d : Q[k] = P[k] /\ F[k] = E[k]
  <2>1. d + 1 \in 0 .. d + 1 /\ \A k \in 0 .. d : k \in 0 .. d + 1 /\ k # d + 1 BY <1>2
  <2> QED BY <2>1
<1> HIDE DEF Q, F
<1>9. 0 \in 0 .. d /\ d \in 0 .. d BY <1>2
<1>10. E[d] \in Nat /\ E[d] <= n - 1 /\ E[0] \in Nat BY <1>3, <1>9 DEF Spans
<1>11. Opening(Head(t)) = Seg(E[d], n)
  <2>1. Seg(E[d], n - 1) \o <<tokens[n].sym>> = Seg(E[d], n) BY <1>7, <1>10, SegMore
  <2>2. KeyText(Head(t)) = KeyText(Head(s)) BY DEF KeyText
  <2>3. Opening(Head(t)) = KeyText(Head(t)) \o <<tokens[n].sym>> BY DEF Opening
  <2> QED BY <1>3, <1>4, <2>1, <2>2, <2>3
<1>12. Seg(n, n) = <<>> BY <1>7, SegNone
<1>13. Spans(Q, F, d + 1, n + 1, h, text, t, r)
  <2>1. Q[0] = 0 BY <1>3, <1>8, <1>9 DEF Spans
  <2>2. ASSUME NEW k \in 0 .. d + 1
        PROVE  /\ Q[k] \in Nat /\ F[k] \in Nat /\ Q[k] <= F[k] /\ F[k] <= (n + 1) - 1
               /\ ArrayText(h, text, Level(t, r, k).ptr) = Base(k) \o Seg(Q[k], F[k])
    <3>1. CASE k = d + 1
      <4>1. ArrayText(h, text, Level(t, r, k).ptr) = <<>> BY <1>6, <3>1 DEF ArrayText
      <4>2. Base(k) = <<>>
        <5>1. k # 0 BY <1>2, <3>1
        <5> QED BY <5>1 DEF Base
      <4>3. <<>> \o <<>> = <<>> OBVIOUS
      <4>4. Q[k] = n /\ F[k] = n BY <1>8, <3>1
      <4>5. n \in Nat /\ n <= n /\ n <= (n + 1) - 1 BY <1>7
      <4>6. ArrayText(h, text, Level(t, r, k).ptr) = Base(k) \o Seg(n, n) BY <1>12, <4>1, <4>2, <4>3, Zenon
      <4> QED BY <4>4, <4>5, <4>6
    <3>2. CASE k # d + 1
      <4>1. k \in 0 .. d BY <1>2, <3>2
      <4>2. /\ P[k] \in Nat /\ E[k] \in Nat /\ P[k] <= E[k] /\ E[k] <= n - 1
            /\ ArrayText(h, text, Level(s, r, k).ptr) = Base(k) \o Seg(P[k], E[k])
        BY <1>3, <4>1 DEF Spans
      <4>3. E[k] <= (n + 1) - 1 BY <1>7, <4>2
      <4> QED BY <1>5, <1>8, <4>1, <4>2, <4>3
    <3> QED BY <3>1, <3>2
  <2>3. ASSUME NEW k \in 1 .. d + 1
        PROVE  F[k - 1] <= Q[k] /\ Opening(Level(t, r, k)) = Seg(F[k - 1], Q[k])
    <3>1. CASE k = d + 1
      <4>1. k - 1 = d BY <1>2, <3>1
      <4>2. F[k - 1] = E[d] /\ Q[k] = n BY <1>8, <1>9, <3>1, <4>1
      <4>3. E[d] <= n BY <1>7, <1>10
      <4> QED BY <1>6, <1>11, <3>1, <4>2, <4>3
    <3>2. CASE k # d + 1
      <4>1. k \in 1 .. d /\ k \in 0 .. d /\ k - 1 \in 0 .. d BY <1>2, <3>2
      <4>2. E[k - 1] <= P[k] /\ Opening(Level(s, r, k)) = Seg(E[k - 1], P[k]) BY <1>3, <4>1 DEF Spans
      <4> QED BY <1>5, <1>8, <4>1, <4>2
    <3> QED BY <3>1, <3>2
  <2> QED BY <2>1, <2>2, <2>3 DEF Spans
<1>14. Seg(F[d + 1], (n + 1) - 1) = Late("loop", h, text, t, x)
  BY <1>7, <1>8, <1>12 DEF Late
<1>15. Ended("loop", F[0], d + 1, n + 1)
  <2>1. Ended("loop", E[0], d, n + 1) BY <1>3, <1>7, <1>10, EndedNext
  <2> QED BY <1>8, <1>9, <2>1 DEF Ended
<1> QED BY <1>2, <1>13, <1>14, <1>15 DEF Writing

\* The bracket that closes the list or table on top of the stack.
LEMMA WriteClose ==
  ASSUME tokens \in Seq(Token), NEW n \in 1 .. Len(tokens), NEW p \in {"loop", "after"},
         NEW h, NEW s \in Seq(Entry), s # <<>>, NEW r, NEW x, NEW text,
         Writing(p, n, h, s, r, x, text), Head(s).kind \in {"list", "table"},
         KeyText(Head(s)) \in Seq(Shown), ArrayText(h, text, Head(s).ptr) \in Seq(Shown),
         ~IsBracket({kKeyValEnd}, n),
         tokens[n].sym = IF Head(s).kind = "list" THEN kListEnd ELSE kTableEnd
  PROVE  Writing("end", n + 1, h, s, r, x, text)
<1> DEFINE d == Len(s)
           e == Head(s)
           y == tokens[n].sym
           z == IF e.kind = "list" THEN kListBegin ELSE kTableBegin
           a == ArrayText(h, text, e.ptr)
           k == KeyText(e)
<1>1. d \in Nat \ {0} /\ Level(s, r, d) = e
  <2>1. d \in Nat \ {0} /\ Nth(s, d) = e BY NthTop
  <2> QED BY <2>1 DEF Level
<1>2. Depth(p, s) = d /\ Depth("end", s) = d - 1 /\ Late(p, h, text, s, x) = <<>>
      /\ Late("end", h, text, s, x) = k \o ValueText(h, text, e)
  BY DEF Depth, InValue, Late
<1>3. PICK P, E : /\ Spans(P, E, d, n, h, text, s, r) /\ Seg(E[d], n - 1) = <<>>
                  /\ Ended(p, E[0], d, n)
  BY <1>2 DEF Writing
<1>4. ValueText(h, text, e) = <<z>> \o a \o <<y>> BY DEF ValueText
<1>5. z \in Shown /\ y \in Shown /\ k \in Seq(Shown) /\ a \in Seq(Shown)
      /\ Opening(e) = k \o <<z>>
  BY DEF Shown, Delimiters, kListBegin, kTableBegin, kListEnd, kTableEnd, Opening
<1>6. Len(tokens) \in Nat /\ n \in Nat \ {0} /\ n <= Len(tokens) /\ (n + 1) - 1 = n
      /\ n - 1 \in Nat /\ n - 1 <= Len(tokens)
  BY LenProperties
<1> HIDE DEF d, e, y, z, a, k
<1>7. /\ 0 \in 0 .. d - 1 /\ d - 1 \in 0 .. d /\ d \in 0 .. d /\ d \in 1 .. d /\ d - 1 \in Nat
      /\ \A l \in 0 .. d - 1 : l \in 0 .. d
      /\ \A l \in 1 .. d - 1 : l \in 1 .. d
  BY <1>1
<1> DEFINE c == E[d - 1]
           o == P[d]
<1>8. /\ E[d] \in Nat /\ E[d] <= n - 1 /\ o \in Nat /\ o <= E[d] /\ c \in Nat /\ c <= o
      /\ E[0] \in Nat
      /\ a = Base(d) \o Seg(o, E[d]) /\ Opening(e) = Seg(c, o)
  BY <1>1, <1>3, <1>7 DEF Spans, a
<1> HIDE DEF c, o
<1>9. E[d] = n - 1 BY <1>3, <1>6, <1>8, SegEmpty
<1>10. a = Seg(o, n - 1)
  <2>1. Base(d) = <<>> BY <1>1 DEF Base
  <2>2. Seg(o, n - 1) \in Seq(Shown) BY <1>6, <1>8, <1>9, SegSeq
  <2>3. <<>> \o Seg(o, n - 1) = Seg(o, n - 1) BY <2>2, ConcatEmptySeq
  <2> QED BY <1>8, <1>9, <2>1, <2>3
<1>11. Seg(c, (n + 1) - 1) = Late("end", h, text, s, x)
  <2>0. c \in Nat /\ o \in Nat /\ n - 1 \in Nat /\ c <= o /\ o <= n - 1 /\ n - 1 <= Len(tokens)
    BY <1>6, <1>8, <1>9
  <2>1. Seg(c, o) \o Seg(o, n - 1) = Seg(c, n - 1) BY <2>0, SegJoin
  <2>2. c <= n - 1
    <3>1. \A u, v, w \in Nat : u <= v /\ v <= w => u <= w OBVIOUS
    <3> QED BY <1>6, <1>8, <1>9, <3>1
  <2>3. Seg(c, n - 1) \o <<y>> = Seg(c, n)
    <3>1. c \in Nat /\ c <= n - 1 /\ n \in Nat \ {0} /\ n <= Len(tokens) BY <1>6, <1>8, <2>2
    <3>2. Seg(c, n - 1) \o <<tokens[n].sym>> = Seg(c, n) BY <3>1, SegMore
    <3> QED BY <3>2 DEF y
  <2>4. <<z>> \in Seq(Shown) /\ <<y>> \in Seq(Shown) BY <1>5
  <2>5. k \o ((<<z>> \o a) \o <<y>>) = (k \o (<<z>> \o a)) \o <<y>>
    <3>1. <<z>> \o a \in Seq(Shown) BY <1>5, <2>4, ConcatProperties
    <3>2. PICK za, ys : za = <<z>> \o a /\ ys = <<y>> OBVIOUS
    <3>3. k \in Seq(Shown) /\ za \in Seq(Shown) /\ ys \in Seq(Shown) BY <1>5, <2>4, <3>1, <3>2
    <3>4. (k \o za) \o ys = k \o (za \o ys) BY <3>3, TextJoin
    <3> QED BY <3>2, <3>4
  <2>6. k \o (<<z>> \o a) = (k \o <<z>>) \o a
    <3>1. k \in Seq(Shown) /\ <<z>> \in Seq(Shown) /\ a \in Seq(Shown) BY <1>5, <2>4
    <3> DEFINE zs == <<z>>
    <3> HIDE DEF zs
    <3>2. (k \o zs) \o a = k \o (zs \o a) BY <3>1, ConcatAssociative DEF zs
    <3> QED BY <3>2 DEF zs
  <2> QED BY <1>2, <1>4, <1>5, <1>6, <1>8, <1>10, <2>1, <2>3, <2>5, <2>6
<1>12. Spans(P, E, d - 1, n + 1, h, text, s, r)
  <2>1. ASSUME NEW l \in 0 .. d - 1
        PROVE  /\ P[l] \in Nat /\ E[l] \in Nat /\ P[l] <= E[l] /\ E[l] <= (n + 1) - 1
               /\ ArrayText(h, text, Level(s, r, l).ptr) = Base(l) \o Seg(P[l], E[l])
    <3>1. /\ P[l] \in Nat /\ E[l] \in Nat /\ P[l] <= E[l] /\ E[l] <= n - 1
          /\ ArrayText(h, text, Level(s, r, l).ptr) = Base(l) \o Seg(P[l], E[l])
      BY <1>3, <1>7 DEF Spans
    <3>2. E[l] <= (n + 1) - 1 BY <1>6, <3>1
    <3> QED BY <3>1, <3>2
  <2>2. \A l \in 1 .. d - 1 : E[l - 1] <= P[l] /\ Opening(Level(s, r, l)) = Seg(E[l - 1], P[l])
    BY <1>3, <1>7 DEF Spans
  <2>3. P[0] = 0 BY <1>3 DEF Spans
  <2> QED BY <2>1, <2>2, <2>3 DEF Spans
<1>13. Ended("end", E[0], d - 1, n + 1)
  <2>1. Ended("end", E[0], d, n + 1) BY <1>3, <1>6, <1>8, EndedNext
  <2> QED BY <2>1 DEF Ended
<1> QED BY <1>2, <1>11, <1>12, <1>13 DEF Writing, c

\* list_append and table_append: what the heap is then.
LEMMA AppendGrows == ASSUME MemoryInv, AppendValue PROVE Grows(heap, heap', Moved)
<1>0. work = <<>> /\ Moved \in Nat \ {0} /\ Moved \in DOMAIN heap'
  BY AppendFacts
<1>1. ASSUME NEW b \in DOMAIN heap, NEW n \in 1 .. Len(heap[b].elems), heap[b].elems[n].ptr # NULL
      PROVE  heap[b].elems[n].ptr \in DOMAIN heap' \ {Moved}
  <2> DEFINE e == heap[b].elems[n]
             place == <<b, n>>
  <2>1. Dying = {} BY <1>0 DEF Dying
  <2>2. Own(place, e) \subseteq Owners BY <2>1, OwnersAt
  <2>3. place # IF Len(stack) = 1 THEN <<0, 0>> ELSE <<0, Len(stack) - 1>>
    <3>1. place[1] # 0 BY DEF MemoryInv, Shape, TypeOK
    <3> QED BY <3>1
  <2> HIDE DEF place, e
  <2>4. e.ptr # NULL BY <1>1 DEF e
  <2>5. e.ptr \in DOMAIN heap' /\ e.ptr # Moved BY <2>2, <2>3, <2>4, AppendElsewhere
  <2> QED BY <2>5 DEF e
<1>2. ASSUME Head(stack).ptr # NULL PROVE Head(stack).ptr \in DOMAIN heap' \ {Moved}
  <2> DEFINE e == Head(stack)
             place == <<0, Len(stack)>>
  <2>1. Own(place, e) \subseteq Owners /\ Len(stack) \in Nat \ {0} BY AppendTarget
  <2>2. place # IF Len(stack) = 1 THEN <<0, 0>> ELSE <<0, Len(stack) - 1>>
    <3>1. place[2] # 0 /\ place[2] # Len(stack) - 1 BY <2>1
    <3> QED BY <3>1
  <2> HIDE DEF place, e
  <2>3. e.ptr # NULL BY <1>2 DEF e
  <2>4. e.ptr \in DOMAIN heap' /\ e.ptr # Moved BY <2>1, <2>2, <2>3, AppendElsewhere
  <2> QED BY <2>4 DEF e
<1>3. ASSUME NEW b \in DOMAIN heap', NEW n \in 1 .. Len(heap'[b].elems), heap'[b].elems[n].ptr # NULL
      PROVE  heap'[b].elems[n].ptr \in DOMAIN heap' \ {Moved}
  <2>1. CASE b # Moved
    <3>1. b \in DOMAIN heap /\ heap'[b] = heap[b] BY <2>1, AppendFacts
    <3> QED BY <1>1, <1>3, <3>1
  <2>2. CASE b = Moved
    <3> DEFINE es == Elems(Target.ptr)
               e  == Head(stack)
               L  == Len(es)
    <3>1. es \in Seq(Entry) /\ e \in Entry /\ heap'[b].elems = Append(es, e)
      BY <2>2, AppendFacts DEF Filled
    <3>2. \A k \in 1 .. L : es[k].ptr # NULL => es[k].ptr \in DOMAIN heap' \ {Moved}
      <4>1. CASE Target.ptr = NULL
        <5>1. es = <<>> BY <4>1 DEF Elems
        <5> QED BY <5>1
      <4>2. CASE Target.ptr # NULL
        <5>1. Target.ptr \in DOMAIN heap /\ es = heap[Target.ptr].elems
          BY <4>2, AppendFacts DEF Elems
        <5> QED BY <1>1, <5>1
      <4> QED BY <4>1, <4>2
    <3> HIDE DEF es, e
    <3>3. /\ Len(Append(es, e)) = L + 1 /\ L \in Nat
          /\ Append(es, e)[L + 1] = e /\ \A k \in 1 .. L : Append(es, e)[k] = es[k]
      BY <3>1, AppendProperties, LenProperties
    <3> HIDE DEF L
    <3>4. n \in 1 .. L \/ n = L + 1
      <4>1. n \in 1 .. L + 1 BY <1>3, <3>1, <3>3
      <4> QED BY <3>3, <4>1
    <3>5. CASE n \in 1 .. L BY <1>3, <3>1, <3>2, <3>3, <3>5
    <3>6. CASE n = L + 1
      <4>1. heap'[b].elems[n] = e BY <3>1, <3>3, <3>6
      <4> QED BY <1>2, <1>3, <4>1 DEF e
    <3> QED BY <3>4, <3>5, <3>6
  <2> QED BY <2>1, <2>2
<1>4. ASSUME NEW b \in DOMAIN heap' PROVE heap'[b] \in Block
  <2>1. CASE b = Moved BY <2>1, AppendFacts
  <2>2. CASE b # Moved BY <2>2, AppendFacts DEF MemoryInv, Shape, TypeOK
  <2> QED BY <2>1, <2>2
<1>5. \A b \in DOMAIN heap' \ {Moved} : b \in DOMAIN heap /\ heap'[b] = heap[b] BY AppendFacts
<1> QED BY <1>0, <1>3, <1>4, <1>5 DEF Grows

\* parse_simple_value, of a string: what the heap is then.
LEMMA StringGrows == ASSUME MemoryInv, ParseString PROVE Grows(heap, heap', fresh)
<1>1. /\ DOMAIN heap' = DOMAIN heap \cup {fresh} /\ fresh \notin DOMAIN heap
      /\ heap'[fresh] = [cap |-> 0, elems |-> <<>>] /\ work = <<>> /\ fresh # NULL
      /\ \A b \in DOMAIN heap : heap'[b] = heap[b]
  BY DEF ParseString, MemoryInv, Shape, TypeOK, Control, NULL
<1>2. ASSUME NEW b \in DOMAIN heap', NEW n \in 1 .. Len(heap'[b].elems), heap'[b].elems[n].ptr # NULL
      PROVE  heap'[b].elems[n].ptr \in DOMAIN heap' \ {fresh}
  <2>1. CASE b = fresh BY <1>1, <1>2, <2>1
  <2>2. CASE b # fresh
    <3>1. b \in DOMAIN heap /\ heap'[b] = heap[b] BY <1>1, <2>2
    <3>2. n \in 1 .. Len(heap[b].elems) BY <1>2, <3>1
    <3>3. heap[b].elems[n].ptr # NULL => heap[b].elems[n].ptr \in DOMAIN heap
      BY <1>1, <3>1, <3>2, ElementsLive
    <3> QED BY <1>1, <1>2, <3>1, <3>3
  <2> QED BY <2>1, <2>2
<1>3. \A b \in DOMAIN heap' : heap'[b] \in Block
  <2>1. [cap |-> 0, elems |-> <<>>] \in Block BY DEF Block
  <2>2. \A b \in DOMAIN heap : heap[b] \in Block BY DEF MemoryInv, Shape, TypeOK
  <2> QED BY <1>1, <2>1, <2>2
<1>4. \A b \in DOMAIN heap' \ {fresh} : b \in DOMAIN heap /\ heap'[b] = heap[b] BY <1>1
<1>5. fresh \in DOMAIN heap' BY <1>1
<1> QED BY <1>2, <1>3, <1>4, <1>5 DEF Grows

\* What is appended to an array is appended to what the array stands for.
LEMMA StandsMore ==
  ASSUME NEW h, NEW text, NEW p, NEW es \in Seq(Entry), NEW e \in Entry, es = ElemsIn(h, p),
         IsText(h, {}, text), p # NULL => p \in DOMAIN h,
         ArrayText(h, text, p) \in Seq(Shown), ItemText(h, text, e) \in Seq(Shown)
  PROVE  \E w : /\ Stands(h, text, Append(es, e), w)
                /\ w[Len(Append(es, e))] = ArrayText(h, text, p) \o ItemText(h, text, e)
<1> DEFINE t == Append(es, e)
           L == Len(es)
           a == ArrayText(h, text, p)
           z == ItemText(h, text, e)
<1>1. /\ Len(t) = L + 1 /\ L \in Nat /\ t[L + 1] = e /\ \A k \in 1 .. L : t[k] = es[k]
  BY AppendProperties, LenProperties
<1>2. PICK v : /\ v[0] = <<>> /\ v[L] = a
               /\ \A n \in 0 .. L : v[n] \in Seq(Shown)
               /\ \A n \in 1 .. L : v[n] = v[n - 1] \o ItemText(h, text, es[n])
  <2>1. CASE p = NULL
    <3>1. es = <<>> /\ a = <<>> BY <2>1 DEF ElemsIn, ArrayText
    <3>2. L = 0 BY <3>1
    <3> DEFINE v == [n \in {0} |-> <<>>]
    <3>3. v[0] = <<>> /\ <<>> \in Seq(Shown) OBVIOUS
    <3>4. \A n \in 0 .. L : n = 0 BY <3>2
    <3>5. \A n \in 1 .. L : FALSE BY <3>2
    <3> HIDE DEF v, L, a
    <3>6. v[0] = <<>> /\ v[L] = a /\ \A n \in 0 .. L : v[n] \in Seq(Shown)
      BY <3>1, <3>2, <3>3, <3>4
    <3>7. \A n \in 1 .. L : v[n] = v[n - 1] \o ItemText(h, text, es[n]) BY <3>5
    <3> QED BY <3>6, <3>7
  <2>2. CASE p # NULL
    <3>1. p \in DOMAIN h \ {} /\ es = h[p].elems /\ a = text[<<p, L>>] BY <2>2 DEF ElemsIn, ArrayText
    <3> DEFINE v == [n \in 0 .. L |-> text[<<p, n>>]]
    <3>2. \A n \in 0 .. L : v[n] = text[<<p, n>>] OBVIOUS
    <3>3. 0 \in 0 .. L /\ L \in 0 .. L /\ \A n \in 1 .. L : n \in 0 .. L /\ n - 1 \in 0 .. L BY <1>1
    <3> HIDE DEF v
    <3>4. v[0] = <<>> /\ v[L] = a /\ \A n \in 0 .. L : v[n] \in Seq(Shown)
      BY <3>1, <3>2, <3>3 DEF IsText
    <3>5. \A n \in 1 .. L : v[n] = v[n - 1] \o ItemText(h, text, es[n])
      BY <3>1, <3>2, <3>3 DEF IsText
    <3> QED BY <3>4, <3>5
  <2> QED BY <2>1, <2>2
<1> DEFINE w == [n \in 0 .. L + 1 |-> IF n = L + 1 THEN a \o z ELSE v[n]]
<1>3. /\ w[L + 1] = a \o z /\ \A n \in 0 .. L : w[n] = v[n]
  <2> HIDE DEF a, z
  <2>1. L + 1 \in 0 .. L + 1 /\ \A n \in 0 .. L : n \in 0 .. L + 1 /\ n # L + 1 BY <1>1
  <2> QED BY <2>1
<1>4. a \o z \in Seq(Shown) BY ConcatProperties
<1> HIDE DEF w, t, L, a, z
<1>5. 0 \in 0 .. L /\ L \in 0 .. L /\ (L + 1) - 1 = L /\ \A n \in 1 .. L : n \in 0 .. L /\ n - 1 \in 0 .. L
  BY <1>1
<1>6. \A n \in 0 .. L + 1 : n \in 0 .. L \/ n = L + 1 BY <1>1
<1>7. \A n \in 1 .. L + 1 : n \in 1 .. L \/ n = L + 1 BY <1>1
<1>8. ASSUME NEW n \in 0 .. L + 1 PROVE w[n] \in Seq(Shown) BY <1>2, <1>3, <1>4, <1>6
<1>9. ASSUME NEW n \in 1 .. L + 1 PROVE w[n] = w[n - 1] \o ItemText(h, text, t[n])
  <2>1. CASE n = L + 1 BY <1>1, <1>2, <1>3, <1>5, <2>1 DEF z
  <2>2. CASE n \in 1 .. L BY <1>1, <1>2, <1>3, <1>5, <2>2
  <2> QED BY <1>7, <2>1, <2>2
<1>10. w[0] = <<>> BY <1>2, <1>3, <1>5
<1>11. Stands(h, text, t, w) BY <1>1, <1>8, <1>9, <1>10 DEF Stands
<1> QED BY <1>1, <1>3, <1>11 DEF t, a, z

\* The lower levels stay, and so does what they stand for.
SameLower(d, h, text, s, r, g, its, t, u) ==
  \A k \in 0 .. d : k < d =>
    /\ Level(t, u, k) = Level(s, r, k)
    /\ ArrayText(g, its, Level(s, r, k).ptr) = ArrayText(h, text, Level(s, r, k).ptr)

\* The element that has been read is stored where it belongs.
LEMMA WriteStored ==
  ASSUME tokens \in Seq(Token), Base(0) \in Seq(Shown),
         NEW n \in Nat \ {0}, n - 1 <= Len(tokens), NEW h, NEW s, NEW r, NEW x, NEW text,
         Writing("append", n, h, s, r, x, text), NEW d \in Nat, d = Depth("append", s),
         NEW q \in {"pair", "after"}, NEW g, NEW t, NEW u, NEW y, NEW its, d = Depth(q, t),
         SameLower(d, h, text, s, r, g, its, t, u),
         Level(t, u, d).kind = Level(s, r, d).kind, d # 0 => Level(t, u, d).key = Level(s, r, d).key,
         ArrayText(g, its, Level(t, u, d).ptr)
           = ArrayText(h, text, Level(s, r, d).ptr) \o ItemText(h, text, Head(s))
  PROVE  Writing(q, n, g, t, u, y, its)
<1>1. PICK P, E : /\ Spans(P, E, d, n, h, text, s, r)
                  /\ Seg(E[d], n - 1) = ItemText(h, text, Head(s))
                  /\ Ended("append", E[0], d, n)
  BY DEF Writing, Late
<1>2. Len(tokens) \in Nat /\ n - 1 \in Nat BY LenProperties
<1>3. 0 \in 0 .. d /\ d \in 0 .. d /\ \A k \in 1 .. d : k \in 0 .. d /\ k - 1 \in 0 .. d /\ k - 1 # d
  OBVIOUS
<1> DEFINE F == [k \in 0 .. d |-> IF k = d THEN n - 1 ELSE E[k]]
<1>4. F[d] = n - 1 /\ \A k \in 0 .. d : k # d => F[k] = E[k] BY <1>3
<1> HIDE DEF F
<1>5. /\ P[d] \in Nat /\ E[d] \in Nat /\ P[d] <= E[d] /\ E[d] <= n - 1
      /\ ArrayText(h, text, Level(s, r, d).ptr) = Base(d) \o Seg(P[d], E[d])
  BY <1>1, <1>3 DEF Spans
<1>6. ArrayText(g, its, Level(t, u, d).ptr) = Base(d) \o Seg(P[d], n - 1)
  <2> DEFINE b == Base(d)
             v == Seg(P[d], E[d])
             w == Seg(E[d], n - 1)
  <2>1. P[d] \in Nat /\ E[d] \in Nat /\ n - 1 \in Nat /\ P[d] <= E[d] /\ E[d] <= n - 1
        /\ n - 1 <= Len(tokens) /\ E[d] <= Len(tokens)
    BY <1>2, <1>5
  <2>2. v \in Seq(Shown) /\ w \in Seq(Shown) BY <2>1, SegSeq
  <2>3. b \in Seq(Shown)
    <3>1. <<>> \in Seq(Shown) OBVIOUS
    <3>2. d = 0 \/ b = <<>> BY DEF Base
    <3> QED BY <3>1, <3>2
  <2>4. v \o w = Seg(P[d], n - 1) BY <2>1, SegJoin
  <2>5. ArrayText(g, its, Level(t, u, d).ptr) = (b \o v) \o w
    <3>1. ArrayText(h, text, Level(s, r, d).ptr) = b \o v BY <1>5
    <3>2. ItemText(h, text, Head(s)) = w BY <1>1
    <3> QED BY <3>1, <3>2, Zenon
  <2> HIDE DEF b, v, w
  <2>6. (b \o v) \o w = b \o (v \o w) BY <2>2, <2>3, TextJoin
  <2> QED BY <2>4, <2>5, <2>6 DEF b
<1>7. Spans(P, F, d, n, g, its, t, u)
  <2>1. ASSUME NEW k \in 0 .. d
        PROVE  /\ P[k] \in Nat /\ F[k] \in Nat /\ P[k] <= F[k] /\ F[k] <= n - 1
               /\ ArrayText(g, its, Level(t, u, k).ptr) = Base(k) \o Seg(P[k], F[k])
    <3>1. CASE k = d
      <4>1. P[k] \in Nat /\ F[k] = n - 1 BY <1>4, <1>5, <3>1
      <4>2. P[k] <= n - 1 /\ n - 1 <= n - 1
        <5>1. \A a, b, c \in Nat : a <= b /\ b <= c => a <= c /\ c <= c OBVIOUS
        <5> QED BY <1>2, <1>5, <3>1, <5>1
      <4> QED BY <1>2, <1>6, <3>1, <4>1, <4>2
    <3>2. CASE k # d
      <4>1. k < d BY <3>2
      <4> QED BY <1>1, <1>4, <3>2, <4>1 DEF Spans, SameLower
    <3> QED BY <3>1, <3>2
  <2>2. ASSUME NEW k \in 1 .. d
        PROVE  F[k - 1] <= P[k] /\ Opening(Level(t, u, k)) = Seg(F[k - 1], P[k])
    <3>1. E[k - 1] <= P[k] /\ Opening(Level(s, r, k)) = Seg(E[k - 1], P[k]) /\ F[k - 1] = E[k - 1]
      BY <1>1, <1>3, <1>4 DEF Spans
    <3>2. Opening(Level(t, u, k)) = Opening(Level(s, r, k))
      <4>1. CASE k = d
        <5>1. d # 0 BY <4>1
        <5> QED BY <4>1, <5>1 DEF Opening, KeyText
      <4>2. CASE k # d
        <5>1. k \in 0 .. d /\ k < d BY <4>2
        <5> QED BY <5>1 DEF SameLower
      <4> QED BY <4>1, <4>2
    <3> QED BY <3>1, <3>2
  <2>3. P[0] = 0 BY <1>1 DEF Spans
  <2> QED BY <2>1, <2>2, <2>3 DEF Spans
<1>8. Seg(F[d], n - 1) = Late(q, g, its, t, y) BY <1>2, <1>4, SegNone DEF Late
<1>9. Ended(q, F[0], d, n)
  <2>1. SUFFICES ASSUME NEW m \in F[0] + 1 .. n - 1, IsBracket({kKeyValEnd}, m)
                 PROVE  OpenAt(m) # {}
    BY DEF Ended
  <2>2. d # 0
    <3>1. SUFFICES ASSUME d = 0 PROVE FALSE OBVIOUS
    <3>2. F[0] = n - 1 BY <1>4, <3>1
    <3>3. \A k \in (n - 1) + 1 .. n - 1 : FALSE OBVIOUS
    <3> QED BY <2>1, <3>2, <3>3
  <2>3. F[0] = E[0] BY <1>3, <1>4, <2>2
  <2> QED BY <1>1, <2>1, <2>2, <2>3 DEF Ended
<1> QED BY <1>7, <1>8, <1>9 DEF Writing

\* What is left once parse is over: the tokens the caller's table stands for are the
\* first c.
Written(text) ==
  \E c \in 0 .. Len(tokens) :
    /\ ArrayText(heap, text, root.ptr) = Base(0) \o Seg(0, c)
    /\ error = "none" => c = Len(tokens)
    /\ error = "scan_error" => c = 0
    /\ \A m \in c + 1 .. i - 1 : IsBracket({kKeyValEnd}, m) => OpenAt(m) # {}

\* The arrays under construction stand for the tokens read so far.
TextInv ==
  /\ pc # "scan" => Base(0) \in Seq(Shown)
  /\ pc = "sep" => key \in Keys
  /\ \E text :
       /\ IsText(heap, Dying, text)
       /\ pc \in Parsing => Writing(pc, i, heap, stack, root, key, text)
       /\ pc \in {"unwind", "done", "failed", "returned"} => Written(text)

\* What has been written changes with the tokens and the caller's table only.
LEMMA SameWriting ==
  ASSUME UNCHANGED <<tokens, was>>
  PROVE  /\ \A a, b : Seg(a, b)' = Seg(a, b)
         /\ \A k : Base(k)' = Base(k)
         /\ \A n : OpenAt(n)' = OpenAt(n)
         /\ \A syms, n : IsBracket(syms, n)' = IsBracket(syms, n)
<1>1. \A a, b : Seg(a, b)' = Seg(a, b) BY DEF Seg
<1>2. \A k : Base(k)' = Base(k) BY DEF Base
<1>3. \A syms, n : IsBracket(syms, n)' = IsBracket(syms, n) BY DEF IsBracket
<1> QED BY <1>1, <1>2, <1>3, SameMeaning

\* While parse runs nothing is being freed.
LEMMA WritingNow ==
  ASSUME MemoryInv, TextInv, pc \in Parsing
  PROVE  /\ Base(0) \in Seq(Shown) /\ work = <<>>
         /\ \E text : IsText(heap, {}, text) /\ Writing(pc, i, heap, stack, root, key, text)
<1>1. work = <<>> BY DEF MemoryInv, Shape, Control, Parsing
<1>2. Dying = {} BY <1>1 DEF Dying
<1>3. pc # "scan" BY DEF Parsing
<1> QED BY <1>1, <1>2, <1>3 DEF TextInv

\* Steps of parse that write on.
LEMMA WritesOn ==
  ASSUME UNCHANGED <<tokens, was>>, Base(0) \in Seq(Shown), work' = <<>>, pc' \in Parsing,
         pc' = "sep" => key' \in Keys,
         NEW text, IsText(heap', {}, text), Writing(pc', i', heap', stack', root', key', text)
  PROVE  TextInv'
<1>1. Dying' = {} BY DEF Dying
<1>2. Base(0)' \in Seq(Shown) BY SameWriting
<1>3. PICK P, E : /\ Spans(P, E, Depth(pc', stack'), i', heap', text, stack', root')
                  /\ Seg(E[Depth(pc', stack')], i' - 1) = Late(pc', heap', text, stack', key')
                  /\ Ended(pc', E[0], Depth(pc', stack'), i')
  BY DEF Writing
<1>4. Spans(P, E, Depth(pc, stack), i, heap, text, stack, root)'
  <2> DEFINE d == Depth(pc', stack')
  <2>1. ASSUME NEW k \in 0 .. d
        PROVE  /\ P[k] \in Nat /\ E[k] \in Nat /\ P[k] <= E[k] /\ E[k] <= i' - 1
               /\ ArrayText(heap', text, Level(stack', root', k).ptr) = Base(k)' \o Seg(P[k], E[k])'
    <3>1. /\ P[k] \in Nat /\ E[k] \in Nat /\ P[k] <= E[k] /\ E[k] <= i' - 1
          /\ ArrayText(heap', text, Level(stack', root', k).ptr) = Base(k) \o Seg(P[k], E[k])
      BY <1>3 DEF Spans
    <3>2. Base(k)' = Base(k) /\ Seg(P[k], E[k])' = Seg(P[k], E[k]) BY SameWriting
    <3> QED BY <3>1, <3>2
  <2>2. ASSUME NEW k \in 1 .. d
        PROVE  E[k - 1] <= P[k] /\ Opening(Level(stack', root', k)) = Seg(E[k - 1], P[k])'
    <3>1. E[k - 1] <= P[k] /\ Opening(Level(stack', root', k)) = Seg(E[k - 1], P[k])
      BY <1>3 DEF Spans
    <3>2. Seg(E[k - 1], P[k])' = Seg(E[k - 1], P[k]) BY SameWriting
    <3> QED BY <3>1, <3>2
  <2>3. P[0] = 0 BY <1>3 DEF Spans
  <2> QED BY <2>1, <2>2, <2>3 DEF Spans
<1>5. (Seg(E[Depth(pc, stack)], i - 1) = Late(pc, heap, text, stack, key))'
  BY <1>3, SameWriting DEF Seg
<1>6. Ended(pc, E[0], Depth(pc, stack), i)' BY <1>3, SameWriting DEF Ended
<1>7. Writing(pc, i, heap, stack, root, key, text)' BY <1>4, <1>5, <1>6 DEF Writing
<1> QED BY <1>1, <1>2, <1>7 DEF TextInv, Parsing

\* A function that returns an error: what is stored stays.
LEMMA FailWrites ==
  ASSUME MemoryInv, TextInv, pc \in Parsing, pc # "append", UNCHANGED <<tokens, was, heap, root, work>>,
         pc' = "unwind", error' \notin {"none", "scan_error"},
         i' = i \/ (i' = i + 1 /\ ~IsBracket({kKeyValEnd}, i))
  PROVE  TextInv'
<1>1. /\ i \in Nat \ {0} /\ i - 1 <= Len(tokens) /\ Len(tokens) \in Nat /\ stack \in Seq(Entry)
      /\ Len(stack) \in Nat
  BY LenProperties DEF MemoryInv, Shape, TypeOK
<1>2. Base(0) \in Seq(Shown) /\ work = <<>> BY WritingNow
<1>3. PICK text : IsText(heap, {}, text) /\ Writing(pc, i, heap, stack, root, key, text) BY WritingNow
<1> DEFINE d == Depth(pc, stack)
<1>4. PICK P, E : Spans(P, E, d, i, heap, text, stack, root) /\ Ended(pc, E[0], d, i)
  BY <1>3 DEF Writing
<1>5. d \in Nat
  <2>1. InValue(pc) => stack # <<>> BY DEF InValue, MemoryInv, Shape, Control
  <2>2. InValue(pc) => Len(stack) # 0 BY <1>1, <2>1, EmptySeq
  <2> QED BY <1>1, <2>2 DEF Depth
<1>6. 0 \in 0 .. d BY <1>5
<1> HIDE DEF d
<1> DEFINE c == E[0]
<1>7. c \in Nat /\ c <= i - 1 /\ ArrayText(heap, text, root.ptr) = Base(0) \o Seg(0, c)
  BY <1>4, <1>6 DEF Spans, Level
<1> HIDE DEF c
<1>8. c \in 0 .. Len(tokens)
  <2>1. \A x, y, z \in Nat : x <= y /\ y <= z => x \in 0 .. z OBVIOUS
  <2>2. i - 1 \in Nat BY <1>1
  <2> QED BY <1>1, <1>7, <2>1, <2>2
<1>9. \A m \in c + 1 .. i' - 1 : IsBracket({kKeyValEnd}, m) => OpenAt(m) # {}
  <2>1. \A m \in c + 1 .. i - 1 : IsBracket({kKeyValEnd}, m) => OpenAt(m) # {} BY <1>4 DEF Ended, c
  <2>2. \A m \in c + 1 .. (i + 1) - 1 : m = i \/ m \in c + 1 .. i - 1 BY <1>1, <1>7
  <2> QED BY <2>1, <2>2
<1>10. Written(text)'
  <2>1. ArrayText(heap', text, root.ptr') = Base(0)' \o Seg(0, c)' BY <1>7, SameWriting
  <2>2. \A m \in c + 1 .. i' - 1 : IsBracket({kKeyValEnd}, m)' => OpenAt(m)' # {}
    BY <1>9, SameWriting
  <2>3. c \in 0 .. Len(tokens') BY <1>8
  <2> QED BY <2>1, <2>2, <2>3 DEF Written
<1>11. Dying' = {} BY <1>2 DEF Dying
<1>12. Base(0)' \in Seq(Shown) BY <1>2, SameWriting
<1> QED BY <1>3, <1>10, <1>11, <1>12 DEF TextInv, Parsing

\* parse_key: what the tokens are stored as.
LEMMA ParseKeyWrites == ASSUME MemoryInv, TextInv, ParseKey, was' = was PROVE TextInv'
<1>1. /\ pc = "pair" /\ pc \in Parsing /\ UNCHANGED <<tokens, was, stack, root, heap, work>>
  BY DEF ParseKey, AtPair, Parsing
<1>2. CASE pc' # "sep"
  <2>1. pc' = "unwind" /\ error' \notin {"none", "scan_error"} /\ i' = i
    BY <1>2 DEF ParseKey, Fail
  <2> QED BY <1>1, <2>1, FailWrites
<1>3. CASE pc' = "sep"
  <2> DEFINE k == tokens[i].sym
             d == Len(stack)
  <2>1. Expect("key") /\ key' = k /\ i' = i + 1 BY <1>3 DEF ParseKey, Fail, Pop
  <2>2. ~NoneLeft /\ tokens[i].kind = "key" BY <2>1 DEF Expect
  <2>3. /\ i \in 1 .. Len(tokens) /\ tokens \in Seq(Token) /\ k \in Keys /\ d \in Nat
        /\ ~IsBracket({kKeyValEnd}, i)
    BY <2>2, AtToken, CurrentToken, LenProperties DEF IsBracket, MemoryInv, Shape, TypeOK
  <2>4. Base(0) \in Seq(Shown) /\ work = <<>> BY <1>1, WritingNow
  <2>5. PICK text : IsText(heap, {}, text) /\ Writing("pair", i, heap, stack, root, key, text)
    BY <1>1, WritingNow
  <2>6. Late("sep", heap, text, stack, k) = Late("pair", heap, text, stack, key) \o <<tokens[i].sym>>
    BY DEF Late
  <2>7. d = Depth("pair", stack) /\ d = Depth("sep", stack) BY DEF Depth, InValue
  <2> HIDE DEF k, d
  <2>8. Writing("sep", i + 1, heap, stack, root, k, text)
    BY <2>3, <2>5, <2>6, <2>7, WriteToken DEF SameLevels
  <2> QED BY <1>1, <1>3, <2>1, <2>3, <2>4, <2>5, <2>8, WritesOn DEF Parsing, k
<1> QED BY <1>2, <1>3

\* parse_delim, after a key: what the tokens are stored as.
LEMMA ParseSeparatorWrites == ASSUME MemoryInv, TextInv, ParseSeparator, was' = was PROVE TextInv'
<1>1. /\ pc = "sep" /\ pc \in Parsing /\ UNCHANGED <<tokens, was, key, root, heap, work>>
      /\ stack \in Seq(Entry) /\ Len(stack) \in Nat /\ key \in Keys
  BY LenProperties DEF ParseSeparator, Parsing, MemoryInv, Shape, TypeOK, TextInv
<1>2. CASE ~ExpectDelim(kKeyValSep)
  <2>1. pc' = "unwind" /\ error' \notin {"none", "scan_error"} /\ i' = i
    BY <1>2 DEF ParseSeparator, Fail
  <2> QED BY <1>1, <2>1, FailWrites
<1>3. CASE ExpectDelim(kKeyValSep)
  <2> DEFINE d == Len(stack)
             e == Undefined(key)
             t == stack'
  <2>1. i' = i + 1 /\ t = <<e>> \o stack /\ pc' = "value" BY <1>3 DEF ParseSeparator, Pop
  <2>2. /\ ~NoneLeft /\ tokens[i].sym = kKeyValSep /\ ~IsBracket({kKeyValEnd}, i)
    BY <1>3 DEF ExpectDelim, Expect, IsBracket, kKeyValSep, kKeyValEnd
  <2>3. i \in 1 .. Len(tokens) /\ tokens \in Seq(Token) BY <2>2, AtToken
  <2>4. Base(0) \in Seq(Shown) /\ work = <<>> BY <1>1, WritingNow
  <2>5. PICK text : IsText(heap, {}, text) /\ Writing("sep", i, heap, stack, root, key, text)
    BY <1>1, WritingNow
  <2>6. e \in Entry /\ e.key = key BY <1>1 DEF Undefined, Entry, NULL
  <2>7. KeyText(e) = <<key, kKeyValSep>>
    <3>1. key # NoKey BY <1>1, ParserAssumption DEF ParserAssumption
    <3> QED BY <2>6, <3>1 DEF KeyText
  <2> HIDE DEF e, t
  <2>8. t \in Seq(Entry) /\ t # <<>> /\ Tail(t) = stack /\ Head(t) = e BY <1>1, <2>1, <2>6, Pushed
  <2>9. Len(t) = d + 1 /\ \A k \in 1 .. d : Nth(t, k) = Nth(stack, k) BY <1>1, <2>8, NthPush
  <2>10. \A k \in 0 .. d : Level(t, root, k) = Level(stack, root, k)
    <3>1. \A k \in 0 .. d : k # 0 => k \in 1 .. d OBVIOUS
    <3> QED BY <2>9, <3>1 DEF Level
  <2>11. d = Depth("sep", stack) /\ d = Depth("value", t)
    <3>1. Len(t) - 1 = d BY <1>1, <2>9
    <3> QED BY <3>1 DEF Depth, InValue
  <2>12. Late("value", heap, text, t, key) = Late("sep", heap, text, stack, key) \o <<tokens[i].sym>>
    BY <2>2, <2>7, <2>8 DEF Late
  <2> HIDE DEF d
  <2>13. Writing("value", i + 1, heap, t, root, key, text)
    BY <1>1, <2>2, <2>3, <2>5, <2>10, <2>11, <2>12, WriteToken DEF d, SameLevels
  <2> QED BY <1>1, <2>1, <2>4, <2>5, <2>13, WritesOn DEF Parsing, t
<1> QED BY <1>2, <1>3

\* parse_list_value and parse_table_value, on the way in: what the tokens are stored as.
LEMMA ParseOpenWrites ==
  ASSUME MemoryInv, TextInv, NEW bracket, NEW kind,
         <<bracket, kind>> \in {<<kListBegin, "list">>, <<kTableBegin, "table">>},
         ParseOpen(bracket, kind), was' = was
  PROVE  TextInv'
<1> DEFINE t == stack'
<1>1. /\ pc = "value" /\ pc \in Parsing /\ UNCHANGED <<tokens, was, root, heap, key, work>>
      /\ stack \in Seq(Entry) /\ stack # <<>>
      /\ ExpectDelim(bracket) /\ i' = i + 1 /\ pc' = "loop" /\ Out(kind, NoData, NULL)
      /\ NULL \in Nat /\ NoData \in Literals \cup {NoData}
      /\ kind \in {"string", "integer", "boolean", "list", "table"}
  BY DEF ParseOpen, Pop, Parsing, MemoryInv, Shape, TypeOK, Control, NULL
<1>2. bracket = IF kind = "list" THEN kListBegin ELSE kTableBegin OBVIOUS
<1>3. /\ t \in Seq(Entry) /\ t # <<>> /\ Tail(t) = Tail(stack)
      /\ Head(t).ptr = NULL /\ Head(t).key = Head(stack).key /\ Head(t).kind = kind
  BY <1>1, OutStep, OutKey
<1>4. /\ ~NoneLeft /\ tokens[i].sym = bracket /\ ~IsBracket({kKeyValEnd}, i)
  BY <1>1, <1>2 DEF ExpectDelim, Expect, IsBracket, kListBegin, kTableBegin, kKeyValEnd
<1>5. i \in 1 .. Len(tokens) /\ tokens \in Seq(Token) BY <1>4, AtToken
<1>6. Base(0) \in Seq(Shown) /\ work = <<>> BY <1>1, WritingNow
<1>7. PICK text : IsText(heap, {}, text) /\ Writing("value", i, heap, stack, root, key, text)
  BY <1>1, WritingNow
<1> HIDE DEF t
<1>8. tokens[i].sym = IF Head(t).kind = "list" THEN kListBegin ELSE kTableBegin BY <1>2, <1>3, <1>4
<1>9. Writing("loop", i + 1, heap, t, root, key, text)
  BY <1>1, <1>3, <1>4, <1>5, <1>7, <1>8, WriteOpen
<1> QED BY <1>1, <1>6, <1>7, <1>9, WritesOn DEF Parsing, t

\* The data of out.
LEMMA OutData ==
  ASSUME stack \in Seq(Entry), stack # <<>>, NEW kind, NEW data, NEW p, Out(kind, data, p)
  PROVE  Head(stack').data = data
<1> DEFINE e == Head(stack)
           f == [e EXCEPT !.kind = kind, !.data = data, !.ptr = p]
           t == Tail(stack)
<1>1. e \in Entry /\ t \in Seq(Entry) BY HeadTailProperties
<1>2. stack' = <<f>> \o t BY DEF Out
<1> HIDE DEF e, t
<1>3. f.data = data BY <1>1 DEF Entry
<1> HIDE DEF f
<1>4. Head(<<f>> \o t) = f BY <1>1
<1> QED BY <1>2, <1>3, <1>4

\* A value that is neither a list nor a table has been read.
LEMMA ValueWrites ==
  ASSUME MemoryInv, pc = "value", Expect("value"), NEW text, NEW h, NEW its,
         Writing("value", i, heap, stack, root, key, text),
         NEW kind \in {"string", "integer", "boolean"}, NEW p \in Nat, Out(kind, tokens[i].sym, p),
         \A b \in DOMAIN heap : ArrayText(h, its, b) = ArrayText(heap, text, b)
  PROVE  Writing("end", i + 1, h, stack', root, key, its)
<1> DEFINE t == stack'
           d == Len(stack) - 1
           z == tokens[i].sym
<1>1. /\ stack \in Seq(Entry) /\ stack # <<>> /\ ~NoneLeft /\ tokens[i].kind = "value"
      /\ ~IsBracket({kKeyValEnd}, i)
  BY DEF Expect, IsBracket, MemoryInv, Shape, TypeOK, Control
<1>2. i \in 1 .. Len(tokens) /\ tokens \in Seq(Token) /\ z \in Literals
  BY <1>1, AtToken, CurrentToken
<1>3. /\ t \in Seq(Entry) /\ t # <<>> /\ Len(t) = Len(stack) /\ Tail(t) = Tail(stack)
      /\ Head(t).key = Head(stack).key /\ Head(t).kind = kind /\ Head(t).data = z
  BY <1>1, <1>2, OutStep, OutKey, OutData
<1>4. /\ d \in Nat /\ d = Depth("value", stack) /\ d = Depth("end", t)
  <2>1. Len(stack) \in Nat \ {0} BY <1>1, EmptySeq, LenProperties
  <2> QED BY <1>3, <2>1 DEF Depth, InValue
<1>5. \A k \in 0 .. d : Level(t, root, k) = Level(stack, root, k)
  <2>1. \A k \in 1 .. Len(stack) - 1 : Nth(t, k) = Nth(stack, k) BY <1>1, <1>3, NthTop
  <2>2. \A k \in 0 .. d : k # 0 => k \in 1 .. Len(stack) - 1 BY <1>4
  <2> QED BY <2>1, <2>2 DEF Level
<1>6. ASSUME NEW k \in 0 .. d
      PROVE  ArrayText(h, its, Level(stack, root, k).ptr) = ArrayText(heap, text, Level(stack, root, k).ptr)
  <2> DEFINE q == Level(stack, root, k).ptr
  <2>1. k \in 0 .. Len(stack) BY <1>4
  <2>2. q # NULL => q \in DOMAIN heap BY <2>1, LevelOwned
  <2> HIDE DEF q
  <2>3. ArrayText(h, its, q) = ArrayText(heap, text, q) BY <2>2 DEF ArrayText
  <2> QED BY <2>3 DEF q
<1>7. Late("end", h, its, t, key) = Late("value", heap, text, stack, key) \o <<z>>
  <2>1. KeyText(Head(t)) = KeyText(Head(stack)) BY <1>3 DEF KeyText
  <2>2. ValueText(h, its, Head(t)) = <<z>> BY <1>3 DEF ValueText
  <2> QED BY <2>1, <2>2 DEF Late
<1> HIDE DEF t, d
<1>8. SameLevels(d, heap, text, stack, root, h, its, t) BY <1>5, <1>6 DEF SameLevels
<1>9. IsBracket({kKeyValEnd}, i) => OpenAt(i) # {} \/ ("end" = "append" /\ d = 0) BY <1>1
<1>10. Late("end", h, its, t, key) = Late("value", heap, text, stack, key) \o <<tokens[i].sym>> BY <1>7
<1> HIDE DEF z
<1>11. "value" # "append" /\ i \in 1 .. Len(tokens) /\ tokens \in Seq(Token) BY <1>2
<1>12. Writing("end", i + 1, h, t, root, key, its)
  BY <1>4, <1>8, <1>9, <1>10, <1>11, WriteToken
<1> QED BY <1>12 DEF t

\* parse_simple_value, of an integer or a boolean: what the token is stored as.
LEMMA ParseScalarWrites == ASSUME MemoryInv, TextInv, ParseScalar, was' = was PROVE TextInv'
<1> DEFINE c == Class[tokens[i].sym]
<1>1. /\ pc = "value" /\ Expect("value") /\ c \in {"string", "integer", "boolean"}
      /\ Out(c, tokens[i].sym, NULL) /\ i' = i + 1 /\ pc' = "end"
      /\ UNCHANGED <<tokens, was, key, root, heap, work>> /\ NULL \in Nat /\ pc \in Parsing
  BY DEF ParseScalar, Pop, Parsing, NULL
<1>2. Base(0) \in Seq(Shown) /\ work = <<>> BY <1>1, WritingNow
<1>3. PICK text : IsText(heap, {}, text) /\ Writing("value", i, heap, stack, root, key, text)
  BY <1>1, WritingNow
<1> HIDE DEF c
<1>4. Writing("end", i + 1, heap, stack', root, key, text) BY <1>1, <1>3, ValueWrites
<1> QED BY <1>1, <1>2, <1>3, <1>4, WritesOn DEF Parsing

\* parse_simple_value, of a string: what the token is stored as.
LEMMA ParseStringWrites == ASSUME MemoryInv, TextInv, ParseString, was' = was PROVE TextInv'
<1>1. /\ pc = "value" /\ Expect("value") /\ "string" \in {"string", "integer", "boolean"}
      /\ Out("string", tokens[i].sym, fresh) /\ i' = i + 1 /\ pc' = "end"
      /\ UNCHANGED <<tokens, was, key, root, work>> /\ fresh \in Nat /\ pc \in Parsing
      /\ fresh \notin DOMAIN heap /\ heap'[fresh].elems = <<>>
      /\ DOMAIN heap' = DOMAIN heap \cup {fresh} /\ NULL \notin DOMAIN heap
      /\ \A b \in DOMAIN heap : heap'[b] = heap[b] /\ Len(heap[b].elems) \in Nat
  BY LenProperties DEF ParseString, Pop, Parsing, MemoryInv, Shape, TypeOK, NULL, Block
<1>2. Base(0) \in Seq(Shown) /\ work = <<>> BY <1>1, WritingNow
<1>3. PICK text : IsText(heap, {}, text) /\ Writing("value", i, heap, stack, root, key, text)
  BY <1>1, WritingNow
<1> DEFINE h == heap'
<1>4. PICK w : Stands(heap, text, h[fresh].elems, w)
  <2> DEFINE w == [n \in {0} |-> <<>>]
  <2>1. w[0] = <<>> /\ <<>> \in Seq(Shown) /\ Len(<<>>) = 0 OBVIOUS
  <2>2. (\A n \in 0 .. 0 : n = 0) /\ (\A n \in 1 .. 0 : FALSE) OBVIOUS
  <2> HIDE DEF w
  <2>3. Stands(heap, text, <<>>, w) BY <2>1, <2>2 DEF Stands
  <2> QED BY <1>1, <2>3
<1>5. Grows(heap, h, fresh) BY StringGrows
<1> HIDE DEF h
<1>6. \E its : /\ IsText(h, {}, its)
               /\ \A b \in DOMAIN h \ {fresh} : \A n \in 0 .. Len(h[b].elems) : its[<<b, n>>] = text[<<b, n>>]
               /\ \A n \in 0 .. Len(h[fresh].elems) : its[<<fresh, n>>] = w[n]
  <2>1. IsText(heap, {}, text) BY <1>3
  <2> QED BY <2>1, <1>4, <1>5, TextMore
<1>7. PICK its : /\ IsText(h, {}, its)
                 /\ \A b \in DOMAIN h \ {fresh} : \A n \in 0 .. Len(h[b].elems) : its[<<b, n>>] = text[<<b, n>>]
  BY <1>6
<1>8. ASSUME NEW b \in DOMAIN heap PROVE ArrayText(h, its, b) = ArrayText(heap, text, b)
  <2>1. b \in DOMAIN h \ {fresh} /\ h[b] = heap[b] /\ b # NULL BY <1>1 DEF h
  <2>2. Len(h[b].elems) \in Nat BY <1>1, <2>1
  <2>3. Len(h[b].elems) \in 0 .. Len(h[b].elems) BY <2>2
  <2> QED BY <1>7, <2>1, <2>3 DEF ArrayText
<1>9. Writing("end", i + 1, h, stack', root, key, its) BY <1>1, <1>3, <1>8, ValueWrites
<1> QED BY <1>1, <1>2, <1>7, <1>9, WritesOn DEF Parsing, h

\* parse_simple_value, of anything else: what is stored stays.
LEMMA ParseBadValueWrites == ASSUME MemoryInv, TextInv, ParseBadValue, was' = was PROVE TextInv'
<1>1. /\ pc = "value" /\ pc \in Parsing /\ UNCHANGED <<tokens, was, heap, root, work>>
      /\ pc' = "unwind" /\ error' \notin {"none", "scan_error"}
      /\ i' = i \/ (i' = i + 1 /\ Expect("value"))
  BY DEF ParseBadValue, Fail, Pop, tree, Parsing
<1>2. Expect("value") => ~IsBracket({kKeyValEnd}, i) BY DEF Expect, IsBracket
<1> QED BY <1>1, <1>2, FailWrites

\* parse_delim, after a value: what the tokens are stored as.
LEMMA ParseValueEndWrites ==
  ASSUME MemoryInv, MeaningInv, TextInv, ParseValueEnd, was' = was PROVE TextInv'
<1>1. /\ pc = "end" /\ pc \in Parsing /\ UNCHANGED <<tokens, was, key, stack, root, heap, work>>
      /\ stack \in Seq(Entry) /\ stack # <<>>
  BY DEF ParseValueEnd, tree, Parsing, MemoryInv, Shape, TypeOK, Control
<1>2. CASE ~ExpectDelim(kKeyValEnd)
  <2>1. pc' = "unwind" /\ error' \notin {"none", "scan_error"} /\ i' = i
    BY <1>2 DEF ParseValueEnd, Fail
  <2> QED BY <1>1, <2>1, FailWrites
<1>3. CASE ExpectDelim(kKeyValEnd)
  <2> DEFINE d == Len(stack) - 1
  <2>1. i' = i + 1 /\ pc' = "append" BY <1>3 DEF ParseValueEnd, PopDelim, Pop
  <2>2. ~NoneLeft /\ tokens[i].sym = kKeyValEnd BY <1>3 DEF ExpectDelim, Expect
  <2>3. i \in 1 .. Len(tokens) /\ i \in Nat \ {0} /\ tokens \in Seq(Token) BY <2>2, AtToken
  <2>4. Base(0) \in Seq(Shown) /\ work = <<>> BY <1>1, WritingNow
  <2>5. PICK text : IsText(heap, {}, text) /\ Writing("end", i, heap, stack, root, key, text)
    BY <1>1, WritingNow
  <2>6. PICK P : Opened(P, d, i) BY <1>1 DEF MeaningInv, Parsing, Reading, Depth, InValue
  <2>7. d \in Nat /\ 0 \in 0 .. d BY <1>1, EmptySeq, LenProperties
  <2>8. d = Depth("end", stack) /\ d = Depth("append", stack) BY DEF Depth, InValue
  <2> HIDE DEF d
  <2>9. OpenAt(i) # {} \/ d = 0 BY <2>3, <2>6, <2>7, LevelsDiffer
  <2>10. Late("append", heap, text, stack, key) = Late("end", heap, text, stack, key) \o <<tokens[i].sym>>
    BY <2>2 DEF Late, ItemText
  <2>11. SameLevels(d, heap, text, stack, root, heap, text, stack) BY DEF SameLevels
  <2>12. Writing("append", i + 1, heap, stack, root, key, text)
    BY <2>3, <2>5, <2>7, <2>8, <2>9, <2>10, <2>11, WriteToken
  <2> QED BY <1>1, <2>1, <2>4, <2>5, <2>12, WritesOn DEF Parsing
<1> QED BY <1>2, <1>3

\* The closing bracket, in the loop or after an element: what the tokens are stored as.
LEMMA CloserWrites ==
  ASSUME MemoryInv, pc \in {"loop", "after"}, ExpectDelim(Closer), NEW text,
         IsText(heap, {}, text), Writing(pc, i, heap, stack, root, key, text)
  PROVE  Writing("end", i + 1, heap, stack, root, key, text)
<1> DEFINE e == Head(stack)
<1>1. stack \in Seq(Entry) /\ stack # <<>> /\ Arrays(stack)
  BY DEF MemoryInv, Shape, TypeOK, Control
<1>2. e \in Entry /\ e.kind \in {"list", "table"}
  <2>1. e = stack[1] /\ e \in Entry BY <1>1, HeadTailProperties
  <2>2. 1 \in DOMAIN stack BY <1>1, EmptySeq, LenProperties
  <2> QED BY <1>1, <2>1, <2>2 DEF Arrays
<1>3. ~NoneLeft /\ tokens[i].sym = Closer BY DEF ExpectDelim, Expect
<1>4. i \in 1 .. Len(tokens) /\ tokens \in Seq(Token) BY <1>3, AtToken
<1>5. ~IsBracket({kKeyValEnd}, i)
  BY <1>3 DEF IsBracket, Closer, kKeyValEnd, kListEnd, kTableEnd
<1>6. KeyText(e) \in Seq(Shown) /\ ArrayText(heap, text, e.ptr) \in Seq(Shown)
  <2>1. Own(<<0, Len(stack)>>, e) \subseteq Owners BY <1>1, HeldBlocks
  <2>2. e.ptr # NULL => e.ptr \in DOMAIN heap /\ heap[e.ptr] \in Block BY <1>2, <2>1, HeldElems
  <2> HIDE DEF e
  <2> QED BY <1>2, <2>2, TextTypes
<1>7. tokens[i].sym = IF e.kind = "list" THEN kListEnd ELSE kTableEnd BY <1>3 DEF Closer
<1> QED BY <1>1, <1>2, <1>4, <1>5, <1>6, <1>7, WriteClose

\* The loops of parse_list_value and parse_table_value: what the tokens are stored as.
LEMMA ParseLoopWrites == ASSUME MemoryInv, TextInv, ParseLoop, was' = was PROVE TextInv'
<1>1. /\ pc = "loop" /\ pc \in Parsing /\ UNCHANGED <<tokens, was, key, root, heap, work>>
      /\ stack \in Seq(Entry) /\ stack # <<>> /\ Len(stack) \in Nat /\ i \in Nat \ {0}
  BY LenProperties DEF ParseLoop, Parsing, MemoryInv, Shape, TypeOK, Control
<1>2. Base(0) \in Seq(Shown) /\ work = <<>> BY <1>1, WritingNow
<1>3. PICK text : IsText(heap, {}, text) /\ Writing("loop", i, heap, stack, root, key, text)
  BY <1>1, WritingNow
<1>4. CASE ExpectDelim(Closer)
  <2>1. i' = i + 1 /\ pc' = "end" /\ stack' = stack BY <1>4 DEF ParseLoop, Pop
  <2>2. Writing("end", i + 1, heap, stack, root, key, text) BY <1>1, <1>3, <1>4, CloserWrites
  <2> QED BY <1>1, <1>2, <1>3, <2>1, <2>2, WritesOn DEF Parsing
<1> DEFINE d == Len(stack)
<1>5. d = Depth("loop", stack) /\ d = Depth("pair", stack) BY DEF Depth, InValue
<1>6. CASE ~ExpectDelim(Closer) /\ Head(stack).kind = "list"
  <2> DEFINE e == Undefined(NoKey)
             t == stack'
  <2>1. t = <<e>> \o stack /\ pc' = "value" /\ i' = i BY <1>6 DEF ParseLoop
  <2>2. e \in Entry /\ e.key = NoKey BY DEF Undefined, Entry, NULL
  <2> HIDE DEF e, t
  <2>3. t \in Seq(Entry) /\ t # <<>> /\ Tail(t) = stack /\ Head(t) = e BY <1>1, <2>1, <2>2, Pushed
  <2>4. Len(t) = d + 1 /\ \A k \in 1 .. d : Nth(t, k) = Nth(stack, k) BY <1>1, <2>3, NthPush
  <2>5. \A k \in 0 .. d : Level(t, root, k) = Level(stack, root, k)
    <3>1. \A k \in 0 .. d : k # 0 => k \in 1 .. d OBVIOUS
    <3> QED BY <2>4, <3>1 DEF Level
  <2>6. d = Depth("value", t)
    <3>1. Len(t) - 1 = d BY <1>1, <2>4
    <3> QED BY <3>1 DEF Depth, InValue
  <2>7. Late("value", heap, text, t, key) = Late("loop", heap, text, stack, key)
    BY <2>2, <2>3 DEF Late, KeyText
  <2>8. d \in Nat BY <1>1
  <2> HIDE DEF d
  <2>9. Writing("value", i, heap, t, root, key, text)
    BY <1>1, <1>3, <1>5, <2>5, <2>6, <2>7, <2>8, WriteOn
  <2> QED BY <1>1, <1>2, <1>3, <2>1, <2>9, WritesOn DEF Parsing, t
<1>7. CASE ~ExpectDelim(Closer) /\ Head(stack).kind # "list"
  <2>1. stack' = stack /\ pc' = "pair" /\ i' = i BY <1>7 DEF ParseLoop
  <2>2. Late("pair", heap, text, stack, key) = Late("loop", heap, text, stack, key) BY DEF Late
  <2>3. d \in Nat BY <1>1
  <2> HIDE DEF d
  <2>4. Writing("pair", i, heap, stack, root, key, text)
    BY <1>1, <1>3, <1>5, <2>2, <2>3, WriteOn
  <2> QED BY <1>1, <1>2, <1>3, <2>1, <2>4, WritesOn DEF Parsing
<1> QED BY <1>4, <1>6, <1>7

\* The closing bracket after an element: what the tokens are stored as.
LEMMA ParseAfterWrites == ASSUME MemoryInv, TextInv, ParseAfter, was' = was PROVE TextInv'
<1>1. /\ pc = "after" /\ pc \in Parsing /\ UNCHANGED <<tokens, was, key, stack, root, heap, work>>
      /\ stack \in Seq(Entry) /\ Len(stack) \in Nat /\ i \in Nat \ {0}
  BY LenProperties DEF ParseAfter, tree, Parsing, MemoryInv, Shape, TypeOK
<1>2. Base(0) \in Seq(Shown) /\ work = <<>> BY <1>1, WritingNow
<1>3. PICK text : IsText(heap, {}, text) /\ Writing("after", i, heap, stack, root, key, text)
  BY <1>1, WritingNow
<1>4. CASE ExpectDelim(Closer)
  <2>1. i' = i + 1 /\ pc' = "end" BY <1>4 DEF ParseAfter, Pop
  <2>2. Writing("end", i + 1, heap, stack, root, key, text) BY <1>1, <1>3, <1>4, CloserWrites
  <2> QED BY <1>1, <1>2, <1>3, <2>1, <2>2, WritesOn DEF Parsing
<1>5. CASE ~ExpectDelim(Closer)
  <2> DEFINE d == Len(stack)
  <2>1. i' = i /\ pc' = "loop" BY <1>5 DEF ParseAfter
  <2>2. d = Depth("after", stack) /\ d = Depth("loop", stack) /\ d \in Nat BY <1>1 DEF Depth, InValue
  <2>3. Late("loop", heap, text, stack, key) = Late("after", heap, text, stack, key) BY DEF Late
  <2> HIDE DEF d
  <2>4. Writing("loop", i, heap, stack, root, key, text) BY <1>1, <1>3, <2>2, <2>3, WriteOn
  <2> QED BY <1>1, <1>2, <1>3, <2>1, <2>4, WritesOn DEF Parsing
<1> QED BY <1>4, <1>5

\* What is stored with an append, and what the arrays stand for then.
LEMMA AppendText ==
  ASSUME MemoryInv, AppendValue, NEW text, IsText(heap, {}, text)
  PROVE  \E its :
           /\ IsText(heap', {}, its)
           /\ ArrayText(heap', its, Moved)
                = ArrayText(heap, text, Target.ptr) \o ItemText(heap, text, Head(stack))
           /\ \A b \in DOMAIN heap' \ {Moved} : ArrayText(heap', its, b) = ArrayText(heap, text, b)
<1> DEFINE h == heap
           g == heap'
           e == Head(stack)
           p == Target.ptr
           es == Elems(Target.ptr)
           fs == Append(es, e)
           q == Moved
<1>1. /\ Target \in Entry /\ e \in Entry /\ es \in Seq(Entry) /\ es = ElemsIn(h, p)
      /\ p # NULL => p \in DOMAIN h /\ h[p] \in Block
      /\ q \in DOMAIN g /\ g[q].elems = fs /\ q # NULL
      /\ \A b \in DOMAIN g \ {q} : b \in DOMAIN h /\ g[b] = h[b] /\ b # NULL
      /\ stack # <<>>
  <2>1. /\ Target \in Entry /\ Head(stack) \in Entry /\ Elems(Target.ptr) \in Seq(Entry)
        /\ Target.ptr # NULL => Target.ptr \in DOMAIN heap
        /\ Moved \in DOMAIN heap' /\ Moved # NULL /\ heap'[Moved] = Filled
        /\ \A b \in DOMAIN heap' \ {Moved} : b \in DOMAIN heap /\ heap'[b] = heap[b]
        /\ pc = "append"
    BY AppendFacts DEF NULL
  <2>2. \A b \in DOMAIN heap : b # NULL /\ heap[b] \in Block
    BY DEF MemoryInv, Shape, TypeOK, NULL
  <2>3. heap'[Moved].elems = fs BY <2>1 DEF Filled
  <2>4. es = ElemsIn(h, p) BY DEF Elems, ElemsIn
  <2>5. stack # <<>> BY <2>1 DEF MemoryInv, Shape, Control
  <2> QED BY <2>1, <2>2, <2>3, <2>4, <2>5
<1>2. ArrayText(h, text, p) \in Seq(Shown)
  <2>1. Target.ptr # NULL => Target.ptr \in DOMAIN heap \ {} /\ heap[Target.ptr] \in Block BY <1>1
  <2> QED BY <1>1, <2>1, TextTypes
<1>3. ItemText(h, text, e) \in Seq(Shown)
  <2>1. Own(<<0, Len(stack)>>, e) \subseteq Owners BY <1>1, HeldBlocks
  <2>2. e.ptr # NULL => e.ptr \in DOMAIN h /\ h[e.ptr] \in Block BY <1>1, <2>1, HeldElems
  <2> HIDE DEF e
  <2> QED BY <1>1, <2>2, TextTypes
<1>4. Grows(h, g, q) BY AppendGrows
<1> HIDE DEF h, g, e, p, es, q
<1>5. PICK w : /\ Stands(h, text, fs, w)
               /\ w[Len(fs)] = ArrayText(h, text, p) \o ItemText(h, text, e)
  <2>1. IsText(h, {}, text) /\ (p # NULL => p \in DOMAIN h) BY <1>1 DEF h
  <2>2. es \in Seq(Entry) /\ e \in Entry /\ es = ElemsIn(h, p) BY <1>1
  <2> QED BY <1>2, <1>3, <2>1, <2>2, StandsMore, Zenon
<1> HIDE DEF fs
<1>6. \E its : /\ IsText(g, {}, its)
               /\ \A b \in DOMAIN g \ {q} : \A n \in 0 .. Len(g[b].elems) : its[<<b, n>>] = text[<<b, n>>]
               /\ \A n \in 0 .. Len(g[q].elems) : its[<<q, n>>] = w[n]
  <2>1. IsText(h, {}, text) /\ Stands(h, text, g[q].elems, w) BY <1>1, <1>5 DEF h
  <2> QED BY <1>4, <2>1, TextMore
<1>7. PICK its : /\ IsText(g, {}, its)
                 /\ \A b \in DOMAIN g \ {q} : \A n \in 0 .. Len(g[b].elems) : its[<<b, n>>] = text[<<b, n>>]
                 /\ \A n \in 0 .. Len(g[q].elems) : its[<<q, n>>] = w[n]
  BY <1>6
<1>8. ASSUME NEW b \in DOMAIN g PROVE Len(g[b].elems) \in 0 .. Len(g[b].elems)
  <2>1. g[b] \in Block BY <1>4 DEF Grows
  <2>2. Len(g[b].elems) \in Nat BY <2>1, LenProperties DEF Block
  <2> QED BY <2>2
<1>9. ArrayText(g, its, q) = ArrayText(h, text, p) \o ItemText(h, text, e)
  <2>1. its[<<q, Len(g[q].elems)>>] = w[Len(g[q].elems)] BY <1>1, <1>7, <1>8
  <2>2. ArrayText(g, its, q) = its[<<q, Len(g[q].elems)>>] BY <1>1 DEF ArrayText
  <2> QED BY <1>1, <1>5, <2>1, <2>2
<1>10. \A b \in DOMAIN g \ {q} : ArrayText(g, its, b) = ArrayText(h, text, b)
  <2> SUFFICES ASSUME NEW b \in DOMAIN g \ {q} PROVE ArrayText(g, its, b) = ArrayText(h, text, b)
    OBVIOUS
  <2>1. its[<<b, Len(g[b].elems)>>] = text[<<b, Len(g[b].elems)>>] BY <1>7, <1>8
  <2>2. g[b] = h[b] /\ b # NULL BY <1>1
  <2> QED BY <2>1, <2>2 DEF ArrayText
<1> QED BY <1>7, <1>9, <1>10 DEF g, h, e, p, q

\* list_append and table_append: what the tokens are stored as.
LEMMA AppendValueWrites == ASSUME MemoryInv, TextInv, AppendValue, was' = was PROVE TextInv'
<1> DEFINE d == Len(stack) - 1
           u == stack'
           r == root'
           g == heap'
           p == pc'
<1>1. /\ pc = "append" /\ pc \in Parsing /\ UNCHANGED <<tokens, was, key, error, i, work>>
      /\ p \in {"pair", "after"}
  BY DEF AppendValue, Parsing
<1>2. /\ tokens \in Seq(Token) /\ i \in Nat \ {0} /\ i - 1 <= Len(tokens)
  BY LenProperties DEF MemoryInv, Shape, TypeOK
<1>3. /\ d \in Nat /\ Len(u) = d /\ Len(stack) = d + 1
      /\ \A k \in 0 .. d : k < d => /\ Level(u, r, k) = Level(stack, root, k)
                                    /\ Nth(u, k + 1).key = Nth(stack, k + 1).key
      /\ Level(stack, root, d) = Target
      /\ Level(u, r, d).ptr = Moved /\ Level(u, r, d).kind = Target.kind
  BY AppendLevels, AppendTarget
<1>4. Base(0) \in Seq(Shown) /\ work = <<>> BY <1>1, WritingNow
<1>5. PICK text : IsText(heap, {}, text) /\ Writing("append", i, heap, stack, root, key, text)
  BY <1>1, WritingNow
<1>6. PICK its :
        /\ IsText(g, {}, its)
        /\ ArrayText(g, its, Moved)
             = ArrayText(heap, text, Target.ptr) \o ItemText(heap, text, Head(stack))
        /\ \A b \in DOMAIN g \ {Moved} : ArrayText(g, its, b) = ArrayText(heap, text, b)
  BY <1>5, AppendText
<1>7. d = Depth("append", stack) BY DEF Depth, InValue
<1>8. d = Depth(p, u) BY <1>1, <1>3 DEF Depth, InValue
<1>9. ASSUME NEW k \in 0 .. d, k < d
      PROVE  ArrayText(g, its, Level(stack, root, k).ptr) = ArrayText(heap, text, Level(stack, root, k).ptr)
  <2> DEFINE c == Level(stack, root, k)
             place == <<0, k>>
  <2>1. k \in 0 .. Len(stack) BY <1>3
  <2>2. Own(place, c) \subseteq Owners BY <2>1, LevelOwned
  <2>3. place # IF Len(stack) = 1 THEN <<0, 0>> ELSE <<0, Len(stack) - 1>>
    <3>1. Len(stack) # 1 /\ k # Len(stack) - 1 BY <1>3, <1>9
    <3> QED BY <3>1
  <2> HIDE DEF c, place
  <2>4. c.ptr # NULL => c.ptr \in DOMAIN g \ {Moved} BY <2>2, <2>3, AppendElsewhere
  <2> HIDE DEF g
  <2>5. ArrayText(g, its, c.ptr) = ArrayText(heap, text, c.ptr)
    <3>1. CASE c.ptr = NULL BY <3>1 DEF ArrayText
    <3>2. CASE c.ptr # NULL BY <1>6, <2>4, <3>2
    <3> QED BY <3>1, <3>2
  <2> QED BY <2>5 DEF c
<1>10. d # 0 => Level(u, r, d).key = Level(stack, root, d).key
  <2> SUFFICES ASSUME d # 0 PROVE Nth(u, d).key = Nth(stack, d).key BY DEF Level
  <2>1. d - 1 \in 0 .. d /\ d - 1 < d /\ (d - 1) + 1 = d BY <1>3
  <2> HIDE DEF d, u
  <2> QED BY <1>3, <2>1
<1> HIDE DEF d, u, r, g, p
<1>11. SameLower(d, heap, text, stack, root, g, its, u, r) BY <1>3, <1>9 DEF SameLower
<1>12. Level(u, r, d).kind = Level(stack, root, d).kind BY <1>3
<1>13. ArrayText(g, its, Level(u, r, d).ptr)
         = ArrayText(heap, text, Level(stack, root, d).ptr) \o ItemText(heap, text, Head(stack))
  BY <1>3, <1>6
<1>14. d \in Nat BY <1>3
<1>15. Writing(p, i, g, u, r, key, its)
  BY <1>1, <1>2, <1>4, <1>5, <1>7, <1>8, <1>10, <1>11, <1>12, <1>13, <1>14, WriteStored
<1>16. p \in Parsing /\ p # "sep" BY <1>1 DEF Parsing
<1>17. Writing(pc', i', heap', stack', root', key', its) BY <1>1, <1>15 DEF p, g, u, r
<1> QED BY <1>1, <1>4, <1>6, <1>16, <1>17, WritesOn DEF p, g

\* What was written when parse returned stays, and what has been freed is not missed.
LEMMA StillWritten ==
  ASSUME TextInv, UNCHANGED <<tokens, was>>, pc # "scan", pc' \notin Parsing, pc' # "scan",
         NEW text, IsText(heap', Dying', text),
         pc' \in {"unwind", "done", "failed", "returned"} =>
           /\ Written(text) /\ UNCHANGED <<error, i>>
           /\ ArrayText(heap', text, root'.ptr) = ArrayText(heap, text, root.ptr)
  PROVE  TextInv'
<1>1. Base(0)' \in Seq(Shown) BY SameWriting DEF TextInv
<1>2. ASSUME Written(text), UNCHANGED <<error, i>>,
             ArrayText(heap', text, root'.ptr) = ArrayText(heap, text, root.ptr)
      PROVE  Written(text)'
  <2>1. PICK c \in 0 .. Len(tokens) :
          /\ ArrayText(heap, text, root.ptr) = Base(0) \o Seg(0, c)
          /\ error = "none" => c = Len(tokens)
          /\ error = "scan_error" => c = 0
          /\ \A m \in c + 1 .. i - 1 : IsBracket({kKeyValEnd}, m) => OpenAt(m) # {}
    BY <1>2 DEF Written
  <2>2. ArrayText(heap', text, root'.ptr) = Base(0)' \o Seg(0, c)' BY <1>2, <2>1, SameWriting
  <2>3. \A m \in c + 1 .. i' - 1 : IsBracket({kKeyValEnd}, m)' => OpenAt(m)' # {}
    BY <1>2, <2>1, SameWriting
  <2> QED BY <1>2, <2>1, <2>2, <2>3 DEF Written
<1>3. IsText(heap, Dying, text)' OBVIOUS
<1>4. (pc \in {"unwind", "done", "failed", "returned"})' => Written(text)' BY <1>2
<1> QED BY <1>1, <1>3, <1>4 DEF TextInv, Parsing

\* parse returned NULL: every token has been written.
LEMMA DoneWrites == ASSUME MemoryInv, MeaningInv, TextInv, Done, was' = was PROVE TextInv'
<1>1. /\ pc = "pair" /\ pc \in Parsing /\ pc' = "done" /\ stack = <<>> /\ NoneLeft
      /\ UNCHANGED <<tokens, i, key, stack, root, heap, work, error, was>> /\ error = "none"
  BY DEF Done, tree, Parsing, MeaningInv
<1>2. /\ tokens \in Seq(Token) /\ Len(tokens) \in Nat /\ i \in Nat /\ i = Len(tokens) + 1
      /\ i - 1 = Len(tokens)
  <2>1. tokens \in Seq(Token) /\ Len(tokens) \in Nat /\ i \in 1 .. Len(tokens) + 1
    BY LenProperties DEF MemoryInv, Shape, TypeOK
  <2> QED BY <1>1, <2>1 DEF NoneLeft
<1>3. Base(0) \in Seq(Shown) /\ work = <<>> BY <1>1, WritingNow
<1>4. PICK text : IsText(heap, {}, text) /\ Writing("pair", i, heap, stack, root, key, text)
  BY <1>1, WritingNow
<1>5. Depth("pair", stack) = 0
  <2>1. Len(<<>>) = 0 OBVIOUS
  <2> QED BY <1>1, <2>1 DEF Depth, InValue
<1>6. PICK P, E : /\ Spans(P, E, 0, i, heap, text, stack, root)
                  /\ Seg(E[0], i - 1) = <<>>
  BY <1>4, <1>5 DEF Writing, Late
<1>7. /\ P[0] = 0 /\ E[0] \in Nat /\ E[0] <= Len(tokens)
      /\ ArrayText(heap, text, root.ptr) = Base(0) \o Seg(0, E[0])
  <2>1. 0 \in 0 .. 0 OBVIOUS
  <2> QED BY <1>2, <1>6, <2>1 DEF Spans, Level
<1>8. E[0] = Len(tokens) BY <1>2, <1>6, <1>7, SegEmpty
<1>9. Written(text)
  <2>1. Len(tokens) \in 0 .. Len(tokens) /\ \A m \in Len(tokens) + 1 .. i - 1 : FALSE BY <1>2
  <2> QED BY <1>1, <1>7, <1>8, <2>1 DEF Written
<1>10. Dying' = {} BY <1>1, <1>3 DEF Dying
<1> QED BY <1>1, <1>4, <1>9, <1>10, StillWritten DEF Parsing

\* What is left when a string or an array has been freed.
LEMMA FreeText ==
  ASSUME MemoryInv, work # <<>>, Free(Head(work).of.ptr), NEW C, NEW text,
         IsText(heap, Dying, text), DOMAIN heap' \ C \subseteq DOMAIN heap \ Dying
  PROVE  /\ IsText(heap', C, text)
         /\ ArrayText(heap', text, root.ptr) = ArrayText(heap, text, root.ptr)
<1> DEFINE f == Head(work).of
           g == heap'
           place == <<-1, Len(work)>>
<1>1. DOMAIN g = DOMAIN heap \ {f.ptr} /\ \A b \in DOMAIN g : g[b] = heap[b] BY FreeKept
<1>2. Own(place, f) \subseteq Owners BY HeldBlocks
<1>3. ASSUME NEW q, q # place, NEW e, Own(q, e) \subseteq Owners, e.ptr # NULL
      PROVE  e.ptr \in DOMAIN g
  <2> HIDE DEF f, g, place
  <2>1. e.ptr \in DOMAIN heap /\ f.ptr # e.ptr BY <1>2, <1>3, OneOwner
  <2> QED BY <1>1, <2>1
<1>4. \A b \in DOMAIN heap : b \in Nat BY DEF MemoryInv, Shape, TypeOK
<1>5. ASSUME NEW b \in DOMAIN g \ C, NEW n \in 1 .. Len(g[b].elems), g[b].elems[n].ptr # NULL
      PROVE  g[b].elems[n].ptr \in DOMAIN g
  <2> DEFINE e == g[b].elems[n]
             q == <<b, n>>
  <2>1. b \in DOMAIN heap \ Dying /\ g[b] = heap[b] BY <1>1
  <2>2. Own(q, e) \subseteq Owners
    <3>1. n \in 1 .. Len(heap[b].elems) /\ e = heap[b].elems[n] BY <2>1
    <3>2. Own(q, heap[b].elems[n]) \subseteq Owners BY <2>1, <3>1, OwnersAt
    <3> QED BY <3>1, <3>2
  <2>3. q # place
    <3>1. b # -1 BY <1>4, <2>1
    <3> QED BY <3>1
  <2>4. e.ptr # NULL BY <1>5
  <2> HIDE DEF e, q, g, place
  <2>5. e.ptr \in DOMAIN g BY <1>3, <2>2, <2>3, <2>4
  <2> QED BY <2>5 DEF e
<1>6. root.ptr # NULL => root.ptr \in DOMAIN g
  <2>1. Own(<<0, 0>>, root) \subseteq Owners BY HeldBlocks
  <2>2. <<0, 0>> # place OBVIOUS
  <2> HIDE DEF g, place
  <2> QED BY <1>3, <2>1, <2>2
<1>7. ArrayText(g, text, root.ptr) = ArrayText(heap, text, root.ptr)
  <2> HIDE DEF g
  <2> QED BY <1>1, <1>6 DEF ArrayText
<1>8. IsText(g, C, text)
  <2> DEFINE D == Dying
  <2>1. DOMAIN g \ C \subseteq DOMAIN heap \ D /\ IsText(heap, D, text) OBVIOUS
  <2>2. \A b \in DOMAIN g \ C : \A n \in 1 .. Len(g[b].elems) :
          g[b].elems[n].ptr # NULL => g[b].elems[n].ptr \in DOMAIN g
    BY <1>5
  <2> HIDE DEF g, D
  <2> QED BY <1>1, <2>1, <2>2, TextLess
<1> QED BY <1>7, <1>8

\* What waits for its free when the next call has been made.
LEMMA DyingNext ==
  ASSUME work \in Seq(Call), work # <<>>, work' = Tail(work)
  PROVE  /\ Head(work).op = "value_free" => Dying = Dying'
         /\ Head(work).op = "free" => Dying = Dying' \cup {Head(work).of.ptr}
<1>1. Dying' = {work'[n].of.ptr : n \in {m \in DOMAIN work' : work'[m].op = "free"}} BY DEF Dying
<1>2. ASSUME Head(work).op = "value_free" PROVE Dying = Dying'
  <2>1. Dying = {Tail(work)[n].of.ptr : n \in {m \in DOMAIN Tail(work) : Tail(work)[m].op = "free"}}
    BY <1>2, DyingTail
  <2> QED BY <1>1, <2>1
<1>3. ASSUME Head(work).op = "free" PROVE Dying = Dying' \cup {Head(work).of.ptr}
  <2>1. Dying = {Tail(work)[n].of.ptr : n \in {m \in DOMAIN Tail(work) : Tail(work)[m].op = "free"}}
                 \cup {Head(work).of.ptr}
    BY <1>3, DyingTail
  <2> QED BY <1>1, <2>1
<1> QED BY <1>2, <1>3

\* value_free of a string, and free of an array: what is stored stays.
LEMMA FreeWrites ==
  ASSUME MemoryInv, TextInv, FreeString \/ FreeArray, was' = was PROVE TextInv'
<1>1. /\ work # <<>> /\ Free(Head(work).of.ptr) /\ work' = Tail(work) /\ pc' = pc
      /\ UNCHANGED <<tokens, was, i, error, root>> /\ pc \in {"unwind", "freeing"}
      /\ work \in Seq(Call)
      /\ Head(work).op = "value_free" \/ Head(work).op = "free"
  <2>1. /\ work # <<>> /\ Free(Head(work).of.ptr) /\ work' = Tail(work) /\ pc' = pc
        /\ UNCHANGED <<tokens, i, error, root>>
        /\ Head(work).op = "value_free" \/ Head(work).op = "free"
    BY DEF FreeString, FreeArray
  <2>2. pc \in {"unwind", "freeing"} BY <2>1, NextCall
  <2>3. work \in Seq(Call) BY DEF MemoryInv, Shape, TypeOK
  <2> QED BY <2>1, <2>2, <2>3
<1>2. PICK text : IsText(heap, Dying, text) /\ (pc = "unwind" => Written(text))
  BY DEF TextInv
<1>3. /\ Head(work).op = "value_free" => Dying = Dying'
      /\ Head(work).op = "free" => Dying = Dying' \cup {Head(work).of.ptr}
  BY <1>1, DyingNext
<1>4. DOMAIN heap' = DOMAIN heap \ {Head(work).of.ptr} BY <1>1, FreeKept
<1>5. DOMAIN heap' \ Dying' \subseteq DOMAIN heap \ Dying BY <1>1, <1>3, <1>4
<1>6. /\ IsText(heap', Dying', text)
      /\ ArrayText(heap', text, root.ptr) = ArrayText(heap, text, root.ptr)
  BY <1>1, <1>2, <1>5, FreeText
<1> QED BY <1>1, <1>2, <1>6, StillWritten DEF Parsing

\* list_free, kevs_free, and value_free of what owns nothing: what is stored stays.
LEMMA CallsWrite ==
  ASSUME MemoryInv, TextInv, FreeElements \/ FreeNothing, was' = was PROVE TextInv'
<1>1. /\ work # <<>> /\ work \in Seq(Call) /\ Head(work).op = "value_free" /\ pc' = pc
      /\ UNCHANGED <<tokens, was, i, error, root, heap>> /\ pc \in {"unwind", "freeing"}
  BY NextCall DEF FreeElements, FreeNothing, tree, MemoryInv, Shape, TypeOK
<1>2. PICK text : IsText(heap, Dying, text) /\ (pc = "unwind" => Written(text))
  BY DEF TextInv
<1>3. Dying \subseteq Dying'
  <2>1. CASE FreeElements
    <3>1. PICK e, es : e = Head(work).of /\ es = Elems(e.ptr) OBVIOUS
    <3>2. Dying' = Dying \cup {e.ptr} BY <2>1, <3>1, ElementsPending
    <3> QED BY <3>2
  <2>2. CASE FreeNothing BY <1>1, <2>2, DyingNext DEF FreeNothing
  <2> QED BY <2>1, <2>2
<1>4. IsText(heap', Dying', text) BY <1>1, <1>2, <1>3 DEF IsText
<1> QED BY <1>1, <1>2, <1>4, StillWritten DEF Parsing

\* The other steps after parse, which free nothing: what is stored stays.
LEMMA ReleaseWrites ==
  ASSUME MemoryInv, TextInv, Unwind \/ Failed \/ KevsReturn \/ KevsFree \/ KevsFreed, was' = was
  PROVE  TextInv'
<1>1. /\ UNCHANGED <<tokens, was, i, error, heap>>
      /\ pc \in {"unwind", "done", "failed", "returned", "freeing"}
      /\ pc' \in {"unwind", "failed", "returned", "freeing", "freed"}
      /\ pc' \notin {"freeing", "freed"} => root' = root /\ pc # "freeing" /\ pc # "freed"
  BY DEF Unwind, Failed, Kept, KevsReturn, KevsFree, KevsFreed, tree
<1>2. PICK text : /\ IsText(heap, Dying, text)
                  /\ pc \in {"unwind", "done", "failed", "returned"} => Written(text)
  BY DEF TextInv
<1>3. Dying = {} /\ Dying' = {}
  <2>1. work = <<>> BY DEF Unwind, Failed, KevsReturn, KevsFree, KevsFreed, MemoryInv, Shape, Control
  <2>2. \/ work' = <<>>
        \/ \E e : work' = <<ValueFree(e)>>
    BY <2>1 DEF Unwind, FreeOut, Failed, KevsReturn, KevsFree, KevsFreed, tree
  <2>3. Dying = {} BY <2>1 DEF Dying
  <2>4. Dying' = {work'[n].of.ptr : n \in {m \in DOMAIN work' : work'[m].op = "free"}} BY DEF Dying
  <2>5. \A m \in DOMAIN work' : work'[m].op # "free"
    <3>1. CASE work' = <<>> BY <3>1
    <3>2. CASE \E e : work' = <<ValueFree(e)>>
      <4>1. PICK e : work' = <<ValueFree(e)>> BY <3>2
      <4>2. \A m \in DOMAIN work' : work'[m] = ValueFree(e) BY <4>1
      <4>3. ValueFree(e).op = "value_free" BY DEF ValueFree
      <4> QED BY <4>2, <4>3
    <3> QED BY <2>2, <3>1, <3>2
  <2> QED BY <2>3, <2>4, <2>5
<1>4. IsText(heap', Dying', text) BY <1>1, <1>2, <1>3
<1> QED BY <1>1, <1>2, <1>4, StillWritten DEF Parsing

\* While nothing is being freed there is one text the table can stand for.
LEMMA TableText ==
  ASSUME MemoryInv, EndInv, work = <<>>, NEW text, IsText(heap, Dying, text)
  PROVE  /\ Dying = {} /\ PairsText(heap, root) = ArrayText(heap, text, root.ptr)
         /\ ArrayText(heap, text, root.ptr) \in Seq(Shown)
<1>1. Dying = {} BY DEF Dying
<1>2. IsText(heap, {}, text) BY <1>1
<1>3. Sound(heap)
  <2>1. \A b \in DOMAIN heap : heap[b] \in Block BY DEF MemoryInv, Shape, TypeOK
  <2>2. ASSUME NEW b \in DOMAIN heap, NEW n \in 1 .. Len(heap[b].elems), heap[b].elems[n].ptr # NULL
        PROVE  heap[b].elems[n].ptr \in DOMAIN heap
    BY <2>2, ElementsLive
  <2> QED BY <2>1, <2>2 DEF Sound
<1>4. root \in Entry BY DEF MemoryInv, Shape, TypeOK
<1>5. root.ptr # NULL => root.ptr \in DOMAIN heap /\ heap[root.ptr] \in Block
  <2>1. Own(<<0, 0>>, root) \subseteq Owners BY HeldBlocks
  <2> QED BY <1>4, <2>1, HeldElems
<1>6. Nested(heap) BY DEF EndInv
<1>7. PairsText(heap, root) = ArrayText(heap, text, root.ptr) BY <1>2, <1>3, <1>5, <1>6, PairsAre
<1>8. root.ptr # NULL => root.ptr \in DOMAIN heap \ {} /\ heap[root.ptr] \in Block BY <1>5
<1>9. ArrayText(heap, text, root.ptr) \in Seq(Shown) BY <1>2, <1>4, <1>8, TextTypes
<1> QED BY <1>1, <1>7, <1>9

\* Before a token has been read, the table stands for what it stood for before.
LEMMA BaseNow ==
  ASSUME MemoryInv, MeaningInv, EndInv, pc = "scan", NEW text, IsText(heap, Dying, text)
  PROVE  /\ work = <<>> /\ Dying = {} /\ Base(0) \in Seq(Shown)
         /\ ArrayText(heap, text, root.ptr) = Base(0) \o Seg(0, 0)
<1>1. work = <<>> BY DEF MemoryInv, Shape, Control
<1>2. /\ Dying = {} /\ PairsText(heap, root) = ArrayText(heap, text, root.ptr)
      /\ ArrayText(heap, text, root.ptr) \in Seq(Shown)
  BY <1>1, TableText
<1>3. Base(0) = PairsText(heap, root) BY DEF Base, MeaningInv
<1>4. Seg(0, 0) = <<>> BY SegNone
<1>5. Base(0) \in Seq(Shown) /\ Base(0) = ArrayText(heap, text, root.ptr) BY <1>2, <1>3
<1>6. Base(0) \o <<>> = Base(0) BY <1>5, ConcatEmptySeq
<1> QED BY <1>1, <1>2, <1>4, <1>5, <1>6

\* parse is called: nothing has been written.
LEMMA ScanDoneWrites ==
  ASSUME MemoryInv, GrammarInv, MeaningInv, EndInv, TextInv, ScanDone, was' = was PROVE TextInv'
<1>1. /\ pc = "scan" /\ pc' = "pair" /\ pc' \in Parsing /\ i = 1 /\ stack = <<>>
      /\ UNCHANGED <<tokens, i, key, stack, root, heap, work, was>>
  BY DEF ScanDone, tree, GrammarInv, MemoryInv, Shape, Control, Parsing
<1>2. PICK text : IsText(heap, Dying, text) BY DEF TextInv
<1>3. /\ work = <<>> /\ IsText(heap, {}, text) /\ Base(0) \in Seq(Shown)
      /\ ArrayText(heap, text, root.ptr) = Base(0) \o Seg(0, 0)
  BY <1>1, <1>2, BaseNow
<1>4. Depth("pair", <<>>) = 0 BY DEF Depth, InValue
<1>5. 0 .. 0 = {0} /\ 1 .. 0 = {} /\ 1 - 1 = 0 /\ 0 + 1 = 1 /\ 0 \in Nat /\ 0 <= 0 OBVIOUS
<1>6. PICK Z : Z = [k \in {0} |-> 0] OBVIOUS
<1>7. Z[0] = 0 BY <1>6
<1>8. Spans(Z, Z, 0, 1, heap, text, <<>>, root)
  <2>1. Level(<<>>, root, 0) = root BY DEF Level
  <2>2. \A k \in 0 .. 0 :
          /\ Z[k] \in Nat /\ Z[k] <= Z[k] /\ Z[k] <= 1 - 1
          /\ ArrayText(heap, text, Level(<<>>, root, k).ptr) = Base(k) \o Seg(Z[k], Z[k])
    BY <1>3, <1>5, <1>7, <2>1
  <2>3. \A k \in 1 .. 0 : FALSE BY <1>5
  <2> QED BY <1>7, <2>2, <2>3 DEF Spans
<1>9. Seg(Z[0], 1 - 1) = Late("pair", heap, text, <<>>, key)
  <2>1. Seg(0, 0) = <<>> BY SegNone
  <2> QED BY <1>5, <1>7, <2>1 DEF Late
<1>10. Ended("pair", Z[0], 0, 1) BY <1>5, <1>7 DEF Ended
<1>11. Writing("pair", 1, heap, <<>>, root, key, text) BY <1>4, <1>8, <1>9, <1>10 DEF Writing
<1> QED BY <1>1, <1>3, <1>11, WritesOn

\* scan returns an error: nothing has been written.
LEMMA ScanFailedWrites ==
  ASSUME MemoryInv, GrammarInv, MeaningInv, EndInv, TextInv, ScanFailed, was' = was PROVE TextInv'
<1>1. /\ pc = "scan" /\ pc' = "failed" /\ error' = "scan_error" /\ i = 1
      /\ UNCHANGED <<tokens, i, root, heap, work, was>>
  BY DEF ScanFailed, tree, GrammarInv
<1>2. PICK text : IsText(heap, Dying, text) BY DEF TextInv
<1>3. /\ work = <<>> /\ IsText(heap, {}, text) /\ Base(0) \in Seq(Shown)
      /\ ArrayText(heap, text, root.ptr) = Base(0) \o Seg(0, 0)
  BY <1>1, <1>2, BaseNow
<1>4. Dying' = {} BY <1>1, <1>3 DEF Dying
<1>5. Base(0)' \in Seq(Shown) BY <1>1, <1>3, SameWriting
<1>6. ArrayText(heap', text, root'.ptr) = Base(0)' \o Seg(0, 0)' BY <1>1, <1>3, SameWriting
<1>7. Written(text)'
  <2>1. 0 \in 0 .. Len(tokens') BY <1>1, LenProperties DEF MemoryInv, Shape, TypeOK
  <2>2. \A m \in 0 + 1 .. i' - 1 : FALSE BY <1>1
  <2> QED BY <1>1, <1>6, <2>1, <2>2 DEF Written
<1>8. IsText(heap', Dying', text) BY <1>1, <1>3, <1>4
<1>9. IsText(heap, Dying, text)' BY <1>8
<1> QED BY <1>1, <1>5, <1>7, <1>9 DEF TextInv, Parsing

\* The steps of scan, and kevs_parse called again: nothing is written.
LEMMA ScanWrites ==
  ASSUME MemoryInv, TextInv, pc' = "scan", UNCHANGED <<heap, work>> PROVE TextInv'
<1>1. Dying' = Dying BY DEF Dying
<1>2. PICK text : IsText(heap, Dying, text) BY DEF TextInv
<1>3. IsText(heap', Dying', text) BY <1>1, <1>2
<1>4. IsText(heap, Dying, text)' BY <1>3
<1> QED BY <1>4 DEF TextInv, Parsing

\* In the beginning there is no array.
LEMMA TextInit == ASSUME Init PROVE TextInv
<1>1. DOMAIN heap = {} /\ pc = "scan" BY DEF Init, ParserInit
<1>2. \A text : IsText(heap, Dying, text) BY <1>1 DEF IsText
<1> QED BY <1>1, <1>2 DEF TextInv, Parsing

\* Nothing happens: nothing is written.
LEMMA StillWrites == ASSUME MemoryInv, TextInv, UNCHANGED allvars PROVE TextInv'
<1>1. UNCHANGED <<tokens, i, key, stack, root, heap, work, pc, error, was>> BY DEF allvars, vars
<1>2. CASE pc \in Parsing
  <2>1. PICK text : IsText(heap, {}, text) /\ Writing(pc, i, heap, stack, root, key, text)
    BY <1>2, WritingNow
  <2>2. Base(0) \in Seq(Shown) /\ work = <<>> BY <1>2, WritingNow
  <2>3. pc = "sep" => key \in Keys BY DEF TextInv
  <2> QED BY <1>1, <1>2, <2>1, <2>2, <2>3, WritesOn
<1>3. CASE pc = "scan" BY <1>1, <1>3, ScanWrites
<1>4. CASE pc \notin Parsing /\ pc # "scan"
  <2>1. Dying' = Dying BY <1>1 DEF Dying
  <2>2. PICK text : /\ IsText(heap, Dying, text)
                    /\ pc \in {"unwind", "done", "failed", "returned"} => Written(text)
    BY DEF TextInv
  <2>3. IsText(heap', Dying', text) BY <1>1, <2>1, <2>2
  <2> QED BY <1>1, <1>4, <2>2, <2>3, StillWritten
<1> QED BY <1>2, <1>3, <1>4

\* Every step keeps what the arrays under construction stand for the tokens read.
LEMMA TextStep ==
  ASSUME MemoryInv, GrammarInv, MeaningInv, EndInv, TextInv, [Next]_allvars PROVE TextInv'
<1>1. CASE Emit \/ KevsParseAgain
  <2>1. pc' = "scan" /\ UNCHANGED <<heap, work>> BY <1>1 DEF Emit, tree, KevsParseAgain
  <2> QED BY <2>1, ScanWrites
<1>2. CASE ScanDone BY <1>2, ScanDoneWrites DEF ScanDone
<1>3. CASE ScanFailed BY <1>3, ScanFailedWrites DEF ScanFailed
<1>4. CASE KevsReturn BY <1>4, ReleaseWrites DEF KevsReturn
<1>5. CASE Release /\ was' = was
  BY <1>5, ReleaseWrites, FreeWrites, CallsWrite DEF Release
<1>6. CASE Parse /\ was' = was
  <2>1. CASE Done BY <1>6, <2>1, DoneWrites
  <2>2. CASE ParseKey BY <1>6, <2>2, ParseKeyWrites
  <2>3. CASE ParseSeparator BY <1>6, <2>3, ParseSeparatorWrites
  <2>4. CASE ParseList \/ ParseTable
    <3>1. <<kListBegin, "list">> \in {<<kListBegin, "list">>, <<kTableBegin, "table">>} OBVIOUS
    <3>2. <<kTableBegin, "table">> \in {<<kListBegin, "list">>, <<kTableBegin, "table">>} OBVIOUS
    <3> QED BY <1>6, <2>4, <3>1, <3>2, ParseOpenWrites DEF ParseList, ParseTable
  <2>5. CASE ParseString BY <1>6, <2>5, ParseStringWrites
  <2>6. CASE ParseScalar BY <1>6, <2>6, ParseScalarWrites
  <2>7. CASE ParseBadValue BY <1>6, <2>7, ParseBadValueWrites
  <2>8. CASE ParseValueEnd BY <1>6, <2>8, ParseValueEndWrites
  <2>9. CASE ParseLoop BY <1>6, <2>9, ParseLoopWrites
  <2>10. CASE AppendValue BY <1>6, <2>10, AppendValueWrites
  <2>11. CASE ParseAfter BY <1>6, <2>11, ParseAfterWrites
  <2> QED
    BY <1>6, <2>1, <2>2, <2>3, <2>4, <2>5, <2>6, <2>7, <2>8, <2>9, <2>10, <2>11 DEF Parse
<1>7. CASE UNCHANGED allvars BY <1>7, StillWrites
<1> QED BY <1>1, <1>2, <1>3, <1>4, <1>5, <1>6, <1>7 DEF Next

\* When kevs_parse has returned, the tokens that have been written are the first n.
LEMMA WrittenIsFaithful ==
  ASSUME MemoryInv, EndInv, TextInv, pc = "returned",
         NEW before, before = PairsText(was.heap, was.root),
         NEW now, now = PairsText(heap, root), NEW n, n = Len(now) - Len(before)
  PROVE  /\ n \in 0 .. Len(tokens)
         /\ now = before \o [m \in 1 .. n |-> tokens[m].sym]
         /\ error = "none" => n = Len(tokens)
         /\ error = "scan_error" => n = 0
         /\ \A m \in n + 1 .. i - 1 : Brackets({kKeyValEnd}, m, m) = 1 => OpenAt(m) # {}
<1>1. work = <<>> BY DEF MemoryInv, Shape, Control
<1>2. tokens \in Seq(Token) /\ Len(tokens) \in Nat /\ i \in Nat
  <2>1. tokens \in Seq(Token) /\ i \in 1 .. Len(tokens) + 1 BY DEF MemoryInv, Shape, TypeOK
  <2>2. Len(tokens) \in Nat BY <2>1, LenProperties
  <2> QED BY <2>1, <2>2
<1>3. Base(0) = before BY DEF Base
<1>4. before \in Seq(Shown) BY <1>3 DEF TextInv
<1>5. PICK text : IsText(heap, Dying, text) /\ Written(text) BY DEF TextInv
<1>6. now = ArrayText(heap, text, root.ptr) BY <1>1, <1>5, TableText
<1>7. PICK c \in 0 .. Len(tokens) :
        /\ ArrayText(heap, text, root.ptr) = before \o Seg(0, c)
        /\ error = "none" => c = Len(tokens)
        /\ error = "scan_error" => c = 0
        /\ \A m \in c + 1 .. i - 1 : IsBracket({kKeyValEnd}, m) => OpenAt(m) # {}
  BY <1>3, <1>5 DEF Written
<1>8. c \in Nat /\ 0 \in Nat /\ 0 <= c /\ c <= Len(tokens) /\ c - 0 = c BY <1>2
<1>9. Seg(0, c) \in Seq(Shown) /\ Len(Seg(0, c)) = c BY <1>2, <1>8, SegSeq
<1>10. n = c
  <2> DEFINE s == Seg(0, c)
  <2>1. s \in Seq(Shown) /\ Len(s) = c BY <1>9
  <2> HIDE DEF s
  <2>2. Len(before \o s) = Len(before) + Len(s) BY <1>4, <2>1, ConcatProperties
  <2>3. now = before \o s BY <1>6, <1>7 DEF s
  <2>4. Len(before) \in Nat BY <1>4, LenProperties
  <2> QED BY <1>8, <2>1, <2>2, <2>3, <2>4
<1>11. Seg(0, c) = [m \in 1 .. n |-> tokens[m].sym]
  <2>1. Seg(0, c) = [m \in 1 .. c |-> tokens[0 + m].sym] BY <1>8 DEF Seg
  <2>2. \A m \in 1 .. c : 0 + m = m OBVIOUS
  <2> QED BY <1>10, <2>1, <2>2
<1>12. ASSUME NEW m \in n + 1 .. i - 1, Brackets({kKeyValEnd}, m, m) = 1 PROVE OpenAt(m) # {}
  <2>1. m \in Nat \ {0} BY <1>2, <1>8, <1>10
  <2>2. IsBracket({kKeyValEnd}, m) BY <1>12, <2>1, BracketsOne
  <2> QED BY <1>7, <1>10, <2>2
<1> QED BY <1>6, <1>7, <1>10, <1>11, <1>12

\* The table that kevs_parse hands back stands for what it stood for before and the
\* tokens, in their order and with their nesting; after an error for all those of the
\* pairs of the outermost level that were complete, and for no other.
THEOREM TableIsFaithful == Spec => []Faithful
<1>1. Init => MeaningInv /\ GrammarInv /\ EndInv /\ TextInv
  BY MeaningInit, GrammarInit, EndInit, TextInit
<1>2. MemoryInv /\ GrammarInv /\ GrammarInv' /\ MeaningInv /\ [Next]_allvars => MeaningInv'
  BY MeaningStep
<1>3. MemoryInv /\ GrammarInv /\ [Next]_allvars => GrammarInv' BY GrammarStep
<1>4. MemoryInv /\ EndInv /\ [Next]_allvars => EndInv' BY EndStep
<1>5. MemoryInv /\ GrammarInv /\ MeaningInv /\ EndInv /\ TextInv /\ [Next]_allvars => TextInv'
  BY TextStep
<1>6. MemoryInv /\ EndInv /\ TextInv => Faithful
  <2> SUFFICES ASSUME MemoryInv, EndInv, TextInv PROVE Faithful OBVIOUS
  <2> SUFFICES ASSUME pc = "returned" PROVE Faithful BY DEF Faithful
  <2> QED BY WrittenIsFaithful DEF Faithful
<1> QED BY <1>1, <1>2, <1>3, <1>4, <1>5, <1>6, MemoryInvariant, PTL DEF Spec

=============================================================================
