-------------------------------- MODULE Parser --------------------------------
(***************************************************************************)
(* The parser of src/c/kevs.c: parse() and the parse_* functions, and the  *)
(* memory they allocate and free.                                          *)
(*                                                                         *)
(* The recursive descent is made explicit.  Every call of parse_value has  *)
(* an `out` in its caller's frame, a KevsValue together with the key it is *)
(* to be stored under; `stack` holds those of the active calls, innermost  *)
(* first.  `pc` says which function runs next.                             *)
(*                                                                         *)
(* `heap` maps every live block of malloc or realloc to its contents: the  *)
(* elements of a list or table, nothing for a string.  A KevsList or       *)
(* KevsTable is the pointer to its block, NULL before the first append.    *)
(* value_free, list_free and kevs_free run one call at a time on `work`,   *)
(* the calls still to be made.                                             *)
(***************************************************************************)
EXTENDS Delims, Integers, Sequences

CONSTANTS
  Keys,       \* the texts of key tokens
  ValidKeys,  \* those that is_identifier accepts
  Literals,   \* the texts of value tokens
  Class       \* what parse_simple_value makes of each literal

Classes == {"string", "raw", "boolean", "integer", "badString", "badInteger"}

\* The key of an element of a list.
NoKey == "no_key"

ASSUME ParserAssumption ==
  /\ NoKey \notin Keys
  /\ ValidKeys \subseteq Keys
  /\ Class \in [Literals -> Classes]

NoData == "no_data"
NULL   == 0

VARIABLES
  tokens,   \* the token array scan() filled
  i,        \* Parser.i, counted from 1
  key,      \* the key parse_key returned last
  stack,    \* the `out` of every active parse_value, innermost first
  root,     \* *table, the caller's table
  heap,     \* the live blocks and their contents
  fresh,    \* the block the next allocation returns
  work,     \* the calls of value_free and free still to be made
  pc,       \* what runs next
  error,    \* the last message of parse_errorf, or "none"
  overrun   \* parser_expect found no token left

tree == <<key, stack, root, heap, fresh>>
vars == <<tokens, i, key, stack, root, heap, fresh, work, pc, error, overrun>>

Token ==
  [kind : {"key"}, sym : Keys] \cup
  [kind : {"delim"}, sym : Delimiters] \cup
  [kind : {"value"}, sym : Literals]

\* A KevsValue, with the key it has in its table and the text it stands for.
Entry ==
  [key  : Keys \cup {NoKey},
   kind : {"undefined", "string", "integer", "boolean", "list", "table"},
   data : Literals \cup {NoData},
   ptr  : Nat]

Block == [cap : Nat, elems : Seq(Entry)]

\* A pending call: value_free of an entry, or the free of an array once the
\* elements in it are freed.
Call == [op : {"value_free", "free"}, of : Entry]

Errors == {"none", "expected_key_token", "key_is_not_a_valid_identifier",
           "key_is_not_unique_for_current_table", "missing_key_value_separator",
           "expected_value_token", "could_not_normalize_string",
           "value_is_not_an_integer", "missing_key_value_end"}

\* Type correctness: parser_pop never leaves the token array, and a pointer
\* is to a block that was once allocated.
TypeOK ==
  /\ tokens \in Seq(Token)
  /\ i \in 1 .. Len(tokens) + 1
  /\ key \in Keys \cup {NoKey}
  /\ stack \in Seq(Entry)
  /\ root \in Entry
  /\ DOMAIN heap \subseteq 1 .. fresh - 1
  /\ \A b \in DOMAIN heap : heap[b] \in Block
  /\ fresh \in Nat \ {0}
  /\ work \in Seq(Call)
  /\ pc \in {"scan", "pair", "sep", "value", "loop", "after", "end", "append",
             "unwind", "done", "failed", "returned", "freeing", "freed"}
  /\ error \in Errors \cup {"scan_error"}
  /\ overrun \in BOOLEAN

EmptyTable == [key |-> NoKey, kind |-> "table", data |-> NoData, ptr |-> NULL]

\* KevsValue v = {};
Undefined(k) == [key |-> k, kind |-> "undefined", data |-> NoData, ptr |-> NULL]

\* Everything but the tokens and pc when parse() is entered on an empty table.
ParserInit ==
  /\ i = 1
  /\ key = NoKey
  /\ stack = <<>>
  /\ root = EmptyTable
  /\ heap = [b \in {} |-> 0]
  /\ fresh = 1
  /\ work = <<>>
  /\ error = "none"
  /\ overrun = FALSE

-----------------------------------------------------------------------------
(* Helpers.                                                                *)

NoneLeft == i > Len(tokens)

\* parser_expect: with no token left it reports an error, and parse_errorf
\* then reads the line of a token that does not exist.  Every caller either
\* fails at once or goes on to one that does, so that message never stays.
Expect(kind) == ~NoneLeft /\ tokens[i].kind = kind
ExpectDelim(c) == Expect("delim") /\ tokens[i].sym = c
Looked == overrun' = (overrun \/ NoneLeft)

Pop == i' = i + 1

\* parse_errorf and `return false`: every active parse_value frees its out.
Fail(message) == pc' = "unwind" /\ error' = message

\* The innermost list or table, or *table when there is none.
Container == IF stack = <<>> THEN root ELSE Head(stack)

Elems(p) == IF p = NULL THEN <<>> ELSE heap[p].elems

\* The same in another heap.
ElemsIn(h, p) == IF p = NULL THEN <<>> ELSE h[p].elems

\* The current out gets its kind, its text and its block.
Out(kind, data, p) ==
  stack' = <<[Head(stack) EXCEPT !.kind = kind, !.data = data, !.ptr = p]>> \o Tail(stack)

Free(p) == heap' = [b \in DOMAIN heap \ {p} |-> heap[b]]

-----------------------------------------------------------------------------
(* parse_key_value, called by parse and by parse_table_value.              *)

AtPair == pc = "pair" /\ (stack = <<>> => ~NoneLeft)

\* parse returns NULL.
Done ==
  /\ pc = "pair" /\ stack = <<>> /\ NoneLeft
  /\ pc' = "done"
  /\ UNCHANGED <<tokens, i, tree, work, error, overrun>>

\* Mutants: the last key is not compared; the keys of *table are compared
\* whatever table the pair is in.
IsUniqueButLast(k) ==
  \A n \in 1 .. Len(Elems(Container.ptr)) - 1 : Elems(Container.ptr)[n].key # k

IsUniqueInRoot(k) == \A n \in DOMAIN Elems(root.ptr) : Elems(root.ptr)[n].key # k

IsUnique(k) == \A n \in DOMAIN Elems(Container.ptr) : Elems(Container.ptr)[n].key # k

ParseKey ==
  /\ AtPair
  /\ Looked
  /\ IF ~Expect("key") THEN Fail("expected_key_token") /\ UNCHANGED <<i, key>>
     ELSE LET k == tokens[i].sym IN
          IF k \notin ValidKeys
          THEN Fail("key_is_not_a_valid_identifier") /\ UNCHANGED <<i, key>>
          ELSE IF ~IsUnique(k)
          THEN Fail("key_is_not_unique_for_current_table") /\ UNCHANGED <<i, key>>
          ELSE key' = k /\ Pop /\ pc' = "sep" /\ UNCHANGED error
  /\ UNCHANGED <<tokens, stack, root, heap, fresh, work>>

\* The separator, and the KevsValue val that parse_value is to fill.
ParseSeparator ==
  /\ pc = "sep"
  /\ Looked
  /\ IF ExpectDelim(kKeyValSep)
     THEN /\ Pop
          /\ stack' = <<Undefined(key)>> \o stack
          /\ pc' = "value" /\ UNCHANGED error
     ELSE Fail("missing_key_value_separator") /\ UNCHANGED <<i, stack>>
  /\ UNCHANGED <<tokens, key, root, heap, fresh, work>>

-----------------------------------------------------------------------------
(* parse_value.                                                            *)

\* The entry of parse_list_value and parse_table_value.
ParseOpen(bracket, kind) ==
  /\ pc = "value" /\ ExpectDelim(bracket)
  /\ Out(kind, NoData, NULL)
  /\ Pop
  /\ pc' = "loop"
  /\ UNCHANGED <<tokens, key, root, heap, fresh, work, error, overrun>>

ParseList  == ParseOpen(kListBegin, "list")
ParseTable == ParseOpen(kTableBegin, "table")

\* parse_simple_value on a string: the copy is a block of its own.
ParseString ==
  /\ pc = "value" /\ Expect("value") /\ Class[tokens[i].sym] \in {"string", "raw"}
  /\ Out("string", tokens[i].sym, fresh)
  /\ heap' = [b \in DOMAIN heap \cup {fresh} |->
                IF b = fresh THEN [cap |-> 0, elems |-> <<>>] ELSE heap[b]]
  /\ fresh' = fresh + 1
  /\ Pop
  /\ pc' = "end"
  /\ UNCHANGED <<tokens, key, root, work, error, overrun>>

\* parse_simple_value on a boolean or an integer.
ParseScalar ==
  /\ pc = "value" /\ Expect("value") /\ Class[tokens[i].sym] \in {"boolean", "integer"}
  /\ Out(Class[tokens[i].sym], tokens[i].sym, NULL)
  /\ Pop
  /\ pc' = "end"
  /\ UNCHANGED <<tokens, key, root, heap, fresh, work, error, overrun>>

\* parse_simple_value on anything else.  A bad integer is popped before the
\* failure is returned, a bad string is not; str_norm frees its own buffer.
ParseBadValue ==
  /\ pc = "value" /\ ~ExpectDelim(kListBegin) /\ ~ExpectDelim(kTableBegin)
  /\ Looked
  /\ IF ~Expect("value")
     THEN Fail("expected_value_token") /\ UNCHANGED i
     ELSE \/ /\ Class[tokens[i].sym] = "badString"
             /\ Fail("could_not_normalize_string") /\ UNCHANGED i
          \/ /\ Class[tokens[i].sym] = "badInteger"
             /\ Fail("value_is_not_an_integer") /\ Pop
  /\ UNCHANGED <<tokens, tree, work>>

\* Mutant: the semicolon is popped by parse_delim and by its caller.
PopTwice == i' = i + 2

\* parser_pop in parse_delim.
PopDelim == Pop

\* The end of parse_value: parse_delim(';').
ParseValueEnd ==
  /\ pc = "end"
  /\ Looked
  /\ IF ExpectDelim(kKeyValEnd)
     THEN PopDelim /\ pc' = "append" /\ UNCHANGED error
     ELSE Fail("missing_key_value_end") /\ UNCHANGED i
  /\ UNCHANGED <<tokens, tree, work>>

-----------------------------------------------------------------------------
(* The loops of parse_list_value, parse_table_value and parse.             *)

\* Mutant: a table is closed like a list.
CloserOfList == kListEnd

Closer == IF Head(stack).kind = "list" THEN kListEnd ELSE kTableEnd

\* parse_delim of the closing bracket, at the head of an iteration.  A list
\* goes on to parse_value with a new KevsValue, a table to parse_key_value.
ParseLoop ==
  /\ pc = "loop"
  /\ Looked
  /\ IF ExpectDelim(Closer)
     THEN Pop /\ pc' = "end" /\ UNCHANGED stack
     ELSE IF Head(stack).kind = "list"
     THEN stack' = <<Undefined(NoKey)>> \o stack /\ pc' = "value" /\ UNCHANGED i
     ELSE pc' = "pair" /\ UNCHANGED <<i, stack>>
  /\ UNCHANGED <<tokens, key, root, heap, fresh, work, error>>

\* Mutant: the first append allocates nothing.
GrownFrom0(cap) == cap * 2

\* The capacity after a full array is grown.
Grown(cap) == (cap + 1) * 2

\* list_append and table_append on the block p.  A full array is moved by
\* realloc; the old block is gone.
AppendTo(p, e) ==
  LET cap  == IF p = NULL THEN 0 ELSE heap[p].cap
      full == Len(Elems(p)) = cap
      q    == IF full THEN fresh ELSE p
      kept == DOMAIN heap \ (IF full THEN {p} ELSE {})
  IN  /\ heap' = [b \in kept \cup {q} |->
                    IF b = q
                    THEN [cap   |-> IF full THEN Grown(cap) ELSE cap,
                          elems |-> Append(Elems(p), e)]
                    ELSE heap[b]]
      /\ fresh' = IF full THEN fresh + 1 ELSE fresh
      /\ IF Len(stack) = 1
         THEN stack' = <<>> /\ root' = [root EXCEPT !.ptr = q]
         ELSE /\ stack' = <<[stack[2] EXCEPT !.ptr = q]>> \o Tail(Tail(stack))
              /\ UNCHANGED root

\* Mutant: the pair is stored under the key that parse_key returned last.
StoredLastKey(e) == [e EXCEPT !.key = key]

\* KevsKeyValue: the key that was parsed before the value, and the value.
Stored(e) == e

\* parse_value returned true: its out is copied into the enclosing array.
AppendValue ==
  /\ pc = "append"
  /\ AppendTo(IF Len(stack) = 1 THEN root.ptr ELSE stack[2].ptr, Stored(Head(stack)))
  /\ pc' = IF Len(stack) = 1 THEN "pair" ELSE "after"
  /\ UNCHANGED <<tokens, i, key, work, error, overrun>>

\* The closing bracket right after an element.
ParseAfter ==
  /\ pc = "after"
  /\ Looked
  /\ IF ExpectDelim(Closer) THEN Pop /\ pc' = "end" ELSE pc' = "loop" /\ UNCHANGED i
  /\ UNCHANGED <<tokens, tree, work, error>>

-----------------------------------------------------------------------------
(* Freeing.                                                                *)

ValueFree(e) == [op |-> "value_free", of |-> e]
ArrayFree(e) == [op |-> "free", of |-> e]

\* Mutant: parse_value returns false and leaves its out as it is.
FreeNone(e) == <<>>

FreeOut(e) == <<ValueFree(e)>>

\* A parse_value that fails, at any depth, frees its out.
Unwind ==
  /\ pc = "unwind" /\ work = <<>> /\ stack # <<>>
  /\ work' = FreeOut(Head(stack))
  /\ stack' = Tail(stack)
  /\ UNCHANGED <<tokens, i, key, root, heap, fresh, pc, error, overrun>>

\* Mutants: the loop of parse ignores that a pair failed; an error clears the
\* caller's table.
GoesOn  == UNCHANGED <<root, heap>> /\ pc' = "pair"
Cleared == root' = EmptyTable /\ heap' = [b \in {} |-> 0] /\ pc' = "failed"

\* What parse stored in *table so far stays there.
Kept == UNCHANGED <<root, heap>> /\ pc' = "failed"

\* parse returns err_buf.
Failed ==
  /\ pc = "unwind" /\ work = <<>> /\ stack = <<>>
  /\ Kept
  /\ UNCHANGED <<tokens, i, key, stack, fresh, work, error, overrun>>

\* The caller hands the table to kevs_free, after an error too.
KevsFree ==
  /\ pc = "returned"
  /\ work' = <<ValueFree(root)>>
  /\ root' = EmptyTable
  /\ pc' = "freeing"
  /\ UNCHANGED <<tokens, i, key, stack, heap, fresh, error, overrun>>

KevsFreed ==
  /\ pc = "freeing" /\ work = <<>>
  /\ pc' = "freed"
  /\ UNCHANGED <<tokens, i, tree, work, error, overrun>>

\* value_free of a string frees its block.
FreeString ==
  /\ work # <<>> /\ Head(work).op = "value_free" /\ Head(work).of.kind = "string"
  /\ Free(Head(work).of.ptr)
  /\ work' = Tail(work)
  /\ UNCHANGED <<tokens, i, key, stack, root, fresh, pc, error, overrun>>

\* list_free and kevs_free: value_free of every element, then the array.
FreeCalls(e) == [n \in DOMAIN Elems(e.ptr) |-> ValueFree(Elems(e.ptr)[n])] \o <<ArrayFree(e)>>

FreeElements ==
  /\ work # <<>> /\ Head(work).op = "value_free" /\ Head(work).of.kind \in {"list", "table"}
  /\ work' = FreeCalls(Head(work).of) \o Tail(work)
  /\ UNCHANGED <<tokens, i, tree, pc, error, overrun>>

\* free(self->ptr), which may be NULL.
FreeArray ==
  /\ work # <<>> /\ Head(work).op = "free"
  /\ Free(Head(work).of.ptr)
  /\ work' = Tail(work)
  /\ UNCHANGED <<tokens, i, key, stack, root, fresh, pc, error, overrun>>

\* value_free of anything else has nothing to free.
FreeNothing ==
  /\ work # <<>> /\ Head(work).op = "value_free"
  /\ Head(work).of.kind \in {"undefined", "boolean", "integer"}
  /\ work' = Tail(work)
  /\ UNCHANGED <<tokens, i, tree, pc, error, overrun>>

-----------------------------------------------------------------------------

Parse ==
  \/ Done \/ ParseKey \/ ParseSeparator
  \/ ParseList \/ ParseTable \/ ParseString \/ ParseScalar \/ ParseBadValue
  \/ ParseValueEnd \/ ParseLoop \/ AppendValue \/ ParseAfter

Release ==
  \/ Unwind \/ Failed \/ KevsFree \/ KevsFreed
  \/ FreeString \/ FreeElements \/ FreeArray \/ FreeNothing

=============================================================================
