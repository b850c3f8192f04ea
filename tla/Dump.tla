--------------------------------- MODULE Dump ---------------------------------
(***************************************************************************)
(* table_dump and list_dump of src/c/util.c: a line for every value, with  *)
(* its key unless it is in a list, its kind, and its text unless it is a   *)
(* list or a table, the lines of which follow.                             *)
(***************************************************************************)
EXTENDS Lookups, Meaning

Line(e) == <<e.key, e.kind, e.data>>

\* Mutant: list_dump does not go into lists.
OnlyTable(e) == e.kind = "table"

HasLines(e) == e.kind \in {"list", "table"}

\* The lines of an element, when those of the arrays are known.
ItemLines(h, lines, e) ==
  <<Line(e)>> \o IF HasLines(e) /\ e.ptr # NULL
                 THEN lines[<<e.ptr, Len(h[e.ptr].elems)>>] ELSE <<>>

\* The lines of the first x[2] elements of the array x[1].
Dumps(h) ==
  LET lines[x \in Parts(h)] ==
        IF x[2] = 0 THEN <<>>
        ELSE lines[<<x[1], x[2] - 1>>] \o ItemLines(h, lines, h[x[1]].elems[x[2]])
  IN  lines

Lines(h, e) == IF e.ptr = NULL THEN <<>> ELSE Dumps(h)[<<e.ptr, Len(h[e.ptr].elems)>>]

=============================================================================
