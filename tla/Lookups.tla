------------------------------- MODULE Lookups -------------------------------
(***************************************************************************)
(* The lookups of src/c/kevs.c: kevs_table_* and kevs_list_*.  They change *)
(* nothing; `out` is what the caller's pointer is set to, a copy of the    *)
(* KevsValue, so that a string, a list or a table is shared with the tree. *)
(* The five functions of each family differ in the kind they ask for.      *)
(***************************************************************************)
EXTENDS Parser, FiniteSetsExt

Kinds == {"string", "integer", "boolean", "list", "table"}

Found(e) == [error |-> "none", out |-> e]
Missing(message) == [error |-> message, out |-> Undefined(NoKey)]

\* kevs_table_has
TableHas(table, k) == \E n \in DOMAIN Elems(table.ptr) : Elems(table.ptr)[n].key = k

\* table_get: the first pair with the key.
TableGet(table, k) ==
  IF TableHas(table, k)
  THEN LET es == Elems(table.ptr) IN Found(es[Min({n \in DOMAIN es : es[n].key = k})])
  ELSE Missing("key_not_found")

\* list_get: indices count from 0.
ListGet(list, n) ==
  IF n >= Len(Elems(list.ptr)) THEN Missing("index_out_of_bounds")
  ELSE Found(Elems(list.ptr)[n + 1])

\* Mutant: the value is handed out whatever its kind.
AnyKind(got, kind) == got

\* value_is, and the assignment to *out.
OfKind(got, kind) ==
  IF got.error = "none" /\ got.out.kind # kind THEN Missing("value_is_not_" \o kind) ELSE got

\* kevs_table_string, kevs_table_int, kevs_table_bool, kevs_table_list,
\* kevs_table_table
TableLookup(table, k, kind) == OfKind(TableGet(table, k), kind)

\* kevs_list_string, kevs_list_int, kevs_list_bool, kevs_list_list,
\* kevs_list_table
ListLookup(list, n, kind) == OfKind(ListGet(list, n), kind)

=============================================================================
