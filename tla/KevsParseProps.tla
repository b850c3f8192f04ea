---------------------------- MODULE KevsParseProps ----------------------------
(***************************************************************************)
(* What kevs.py makes of the tokens that kevs_parse has parsed.            *)
(***************************************************************************)
EXTENDS Answers, PyParser

\* What kevs.py reads where kevs.c reads the value of a text.
PyData(d) == IF d = NoData THEN NoData ELSE PyDatum[d]

\* The elements of a list or table in the heap as kevs.py has them, when those of
\* the arrays are known.
PyEntry(lists, e) ==
  [key |-> e.key, kind |-> e.kind, data |-> PyData(e.data),
   elems |-> IF e.kind \in {"list", "table"} /\ e.ptr # NULL THEN lists[e.ptr] ELSE <<>>]

Trees(h) ==
  LET lists[b \in DOMAIN h] ==
        [n \in DOMAIN h[b].elems |-> PyEntry(lists, h[b].elems[n])]
  IN  lists

Tree(h, p) == IF p = NULL THEN <<>> ELSE Trees(h)[p]

\* The tokens that kevs.py accepts and kevs.c does not: a key with a Kelvin sign,
\* "\q" or 1_000.
OnlyPyAccepts ==
  {n \in DOMAIN tokens :
     \/ tokens[n].kind = "key" /\ tokens[n].sym \in PyValidKeys \ ValidKeys
     \/ tokens[n].kind = "value" /\ PyClass[tokens[n].sym] # Class[tokens[n].sym]}

\* The token whose line a message of kevs.c gives.  A bad integer is popped before
\* kevs.c returns.
Stopped == IF error = "value_is_not_an_integer" THEN i - 1 ELSE i

\* The two implementations differ in their conversions alone, whatever kevs.c does
\* with realloc and with its copies of half-built values.  When kevs.c accepts a
\* document kevs.py accepts it, with the same table but for what it reads in the
\* texts.  When kevs.c refuses a token, so does kevs.py, with the same message; or
\* the token is one that only kevs.py accepts, and then kevs.py gets past it.
SameParser ==
  pc = "returned" /\ error # "scan_error" /\ was.root = EmptyTable =>
    IF error # "none" /\ Stopped \in OnlyPyAccepts
    THEN PyParse.pc = "failed" => PyParse.at > Stopped
    ELSE /\ PyParse.pc = IF error = "none" THEN "done" ELSE "failed"
         /\ PyParse.error = error
         /\ error = "none" => PyParse.table = Tree(heap, root.ptr)
         /\ error # "none" => PyParse.at = Stopped

=============================================================================
