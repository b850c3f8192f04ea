-------------------------------- MODULE Answers -------------------------------
(***************************************************************************)
(* What the lookups and the dump show of the documents that kevs_parse     *)
(* accepts.                                                                *)
(***************************************************************************)
EXTENDS Dump

\* The tokens that begin a value.
Values == {n \in DOMAIN tokens : tokens[n].kind = "value" \/ Brackets(Openers, n, n) = 1}

\* The list or table around a token, by its bracket; 0 is the table of the caller.
Around(n) == IF OpenAt(n) = {} THEN 0 ELSE Max(OpenAt(n))

InList(n) == Around(n) # 0 /\ tokens[Around(n)].sym = kListBegin

\* The kind and the key of the value at n, and how many values stand before n in
\* the list or table p.
KindAt(n) ==
  IF tokens[n].kind = "value"
  THEN IF Class[tokens[n].sym] = "raw" THEN "string" ELSE Class[tokens[n].sym]
  ELSE IF tokens[n].sym = kListBegin THEN "list" ELSE "table"

KeyAt(n) == IF InList(n) THEN NoKey ELSE tokens[n - 2].sym

NumberIn(p, n) == Cardinality({q \in Values : q < n /\ Around(q) = p})

-----------------------------------------------------------------------------

\* The lookup of the value at n, as the given kind, by its key or its place, in what
\* a lookup gave for the list or table around it.
Lookup(outer, n, kind) ==
  IF InList(n) THEN ListLookup(outer, NumberIn(Around(n), n), kind)
  ELSE TableLookup(outer, KeyAt(n), kind)

\* What is found for the value at n, from the table of the caller inwards.
LookedUp ==
  LET found[n \in {0} \cup Values] ==
        IF n = 0 THEN root ELSE Lookup(found[Around(n)], n, KindAt(n)).out
  IN  found

\* The keys of the document in the list or table p.
KeysIn(p) ==
  {tokens[m].sym : m \in {l \in DOMAIN tokens : tokens[l].kind = "key" /\ Around(l) = p}}

\* Once a document is accepted, every value in it is found under the keys and
\* indices that lead to it in the document, as its own kind and as no other,
\* and nothing else is found: no key that the table does not have in the
\* document, no element behind the last one.
LookupsAnswer ==
  pc = "returned" /\ error = "none" =>
    /\ \A n \in Values : \A kind \in Kinds :
         LET r == Lookup(LookedUp[Around(n)], n, kind)
         IN  IF kind # KindAt(n) THEN r.error = "value_is_not_" \o kind
             ELSE /\ r.error = "none" /\ r.out = LookedUp[n]
                  /\ tokens[n].kind = "value" => r.out.data = tokens[n].sym
    /\ \A k \in Keys : TableHas(root, k) <=> k \in OldKeys \cup KeysIn(0)
    /\ \A n \in Values :
         /\ KindAt(n) = "table" => \A k \in Keys : TableHas(LookedUp[n], k) <=> k \in KeysIn(n)
         /\ KindAt(n) = "list" => \A m \in 0 .. Len(tokens) :
              ListGet(LookedUp[n], m).error = "none" <=> m < NumberIn(n, Len(tokens) + 1)

-----------------------------------------------------------------------------

\* The line that a dump should have for the value at n, and those that it should
\* have for the values among the first n tokens.
LineAt(n) ==
  <<KeyAt(n), KindAt(n), IF tokens[n].kind = "value" THEN tokens[n].sym ELSE NoData>>

LinesTo ==
  LET lines[n \in 0 .. Len(tokens)] ==
        IF n = 0 THEN <<>>
        ELSE lines[n - 1] \o (IF n \in Values THEN <<LineAt(n)>> ELSE <<>>)
  IN  lines

\* kevs -dump shows every value of an accepted document, in the document's
\* order, with its key and its kind, behind what the table held before.
DumpInOrder ==
  pc = "returned" /\ error = "none" =>
    Lines(heap, root) = Lines(was.heap, was.root) \o LinesTo[Len(tokens)]

=============================================================================
