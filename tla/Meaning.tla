------------------------------- MODULE Meaning --------------------------------
(***************************************************************************)
(* Which streams of tokens kevs_parse accepts, by a reading of the stream  *)
(* that knows nothing of the parser, its stack, or its heap; and that the  *)
(* table it makes of them stands for them.                                 *)
(***************************************************************************)
EXTENDS KevsParse, FiniteSetsExt

Openers == {kListBegin, kTableBegin}
Closers == {kListEnd, kTableEnd}

Brackets(syms, from, to) ==
  Cardinality({n \in from .. to : tokens[n].kind = "delim" /\ tokens[n].sym \in syms})

\* The lists and tables that are open just before token n, by the index of
\* their opening bracket.
OpenAt(n) ==
  {p \in 1 .. n - 1 :
     /\ Brackets(Openers, p, p) = 1
     /\ \A q \in p .. n - 1 : Brackets(Openers, p, q) > Brackets(Closers, p, q)}

\* The keys that the table had before this call.
OldKeys == {ElemsIn(was.heap, was.root.ptr)[n].key : n \in DOMAIN ElemsIn(was.heap, was.root.ptr)}

\* A key is an identifier that no other key of its table equals, and a value
\* can be read; or else the message about it.
Trouble(n) ==
  LET t == tokens[n]
  IN  CASE t.kind = "key" /\ t.sym \notin ValidKeys -> "key_is_not_a_valid_identifier"
        [] t.kind = "key" /\ t.sym \in ValidKeys
           /\ \/ \E m \in 1 .. n - 1 : tokens[m] = t /\ OpenAt(m) = OpenAt(n)
              \/ OpenAt(n) = {} /\ t.sym \in OldKeys -> "key_is_not_unique_for_current_table"
        [] t.kind = "value" /\ Class[t.sym] = "badString" -> "could_not_normalize_string"
        [] t.kind = "value" /\ Class[t.sym] = "badInteger" -> "value_is_not_an_integer"
        [] OTHER -> "none"

Troubled == {n \in DOMAIN tokens : Trouble(n) # "none"}

\* parse accepts exactly the streams in which every token has a meaning, and
\* otherwise blames the first one that has none; a key may be used again in
\* another table, an enclosing one included, but not in a later document.
AcceptsExactly ==
  pc = "returned" /\ error # "scan_error" =>
    error = IF Troubled = {} THEN "none" ELSE Trouble(Min(Troubled))

-----------------------------------------------------------------------------

\* The elements of the arrays, each with those before it in its array.
Parts(h) == UNION {{b} \X (0 .. Len(h[b].elems)) : b \in DOMAIN h}

\* The tokens that a key, an array, a value, and an element of an array stand for.
KeyText(e) == IF e.key = NoKey THEN <<>> ELSE <<e.key, kKeyValSep>>

ArrayText(h, text, p) == IF p = NULL THEN <<>> ELSE text[<<p, Len(h[p].elems)>>]

ValueText(h, text, e) ==
  CASE e.kind = "list"  -> <<kListBegin>> \o ArrayText(h, text, e.ptr) \o <<kListEnd>>
    [] e.kind = "table" -> <<kTableBegin>> \o ArrayText(h, text, e.ptr) \o <<kTableEnd>>
    [] OTHER            -> <<e.data>>

ItemText(h, text, e) == KeyText(e) \o ValueText(h, text, e) \o <<kKeyValEnd>>

\* The tokens that the first x[2] elements of the array x[1] stand for.
Texts(h) ==
  LET text[x \in Parts(h)] ==
        IF x[2] = 0 THEN <<>>
        ELSE text[<<x[1], x[2] - 1>>] \o ItemText(h, text, h[x[1]].elems[x[2]])
  IN  text

PairsText(h, r) == ArrayText(h, Texts(h), r.ptr)

\* The table kevs_parse hands back stands for what it stood for before and the
\* tokens, in their order and with their nesting; after an error it holds
\* exactly the pairs of the outermost level that were complete before it, and
\* after a scan error nothing new.
Faithful ==
  pc = "returned" =>
    LET before == PairsText(was.heap, was.root)
        now    == PairsText(heap, root)
        n      == Len(now) - Len(before)
    IN  /\ n \in 0 .. Len(tokens)
        /\ now = before \o [m \in 1 .. n |-> tokens[m].sym]
        /\ error = "none" => n = Len(tokens)
        /\ error = "scan_error" => n = 0
        /\ \A m \in n + 1 .. i - 1 : Brackets({kKeyValEnd}, m, m) = 1 => OpenAt(m) # {}

=============================================================================
