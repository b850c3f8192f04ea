------------------------------ MODULE KevsParse ------------------------------
(***************************************************************************)
(* kevs_parse of src/c/kevs.c: scan(), parse(), and the free of the token  *)
(* array on every path, and the caller's kevs_free.  The caller may parse   *)
(* one document after the other into the same table, after an error and    *)
(* after kevs_free too, and hold on to what the lookups give it.           *)
(*                                                                         *)
(* The scanner is replaced by what it promises: TokenGrammar, which        *)
(* ScannerProps shows the scanner to implement.  Whatever stream of tokens *)
(* it may emit, for any document, is emitted here.                         *)
(***************************************************************************)
EXTENDS Parser, FiniteSets

CONSTANTS
  MaxCalls,   \* bounds the calls of kevs_parse, for TLC
  MaxTokens,  \* bounds the tokens of a document, for TLC,
  MaxTotal,   \* and with those of the documents before it, if there are any,
  MaxMixed,   \* and is smaller for streams that hold another text
  Plain       \* than these

ASSUME BoundsAssumption == {MaxCalls, MaxTokens, MaxTotal, MaxMixed} \subseteq Nat

VARIABLES
  open, want,  \* the state of the grammar
  array,       \* the token array: not allocated yet, live, or freed
  was          \* how many calls and tokens there were before this call of
               \* kevs_parse, and the table and the heap as the caller knew them

allvars == <<vars, open, want, array, was>>

Symbol(t) == IF t.kind = "delim" THEN t.sym ELSE t.kind

G == INSTANCE TokenGrammar WITH
       stream <- [n \in 1 .. Len(tokens) |-> Symbol(tokens[n])]

Init ==
  /\ tokens = <<>>
  /\ pc = "scan"
  /\ ParserInit
  /\ open = <<>> /\ want = "item"
  /\ array = "none"
  /\ was = [calls |-> 0, spent |-> 0, root |-> root, heap |-> heap]

-----------------------------------------------------------------------------

Bound(ts) ==
  IF \E n \in DOMAIN ts : ts[n].kind # "delim" /\ ts[n].sym \notin Plain THEN MaxMixed
  ELSE IF was.calls > 0 THEN MaxTotal ELSE MaxTokens

\* tokens_append
Emit ==
  /\ pc = "scan"
  /\ \E t \in Token : tokens' = Append(tokens, t)
  /\ was.spent + Len(tokens') <= Bound(tokens')
  /\ G!GNext
  /\ array' = "live"
  /\ UNCHANGED <<i, tree, work, pc, error, overrun, was>>

\* scan returns NULL, and parse is called.
ScanDone ==
  /\ pc = "scan" /\ tokens' = tokens /\ G!Accept
  /\ pc' = "pair"
  /\ UNCHANGED <<i, tree, work, error, overrun, array, was>>

\* scan returns an error, right after the token of an empty key or elsewhere.
ScanFailed ==
  /\ pc = "scan" /\ tokens' = tokens /\ G!Stop
  /\ pc' = "failed"
  /\ error' = "scan_error"
  /\ UNCHANGED <<i, tree, work, overrun, array, was>>

\* Mutant: an error returns before the token array is freed.
FreedIfDone(a) == IF a = "live" /\ pc = "done" THEN "freed" ELSE a

\* free(tokens.ptr), which may be NULL.
Freed(a) == IF a = "live" THEN "freed" ELSE a

\* The variable keeps the tokens for the properties.
KevsReturn ==
  /\ pc \in {"done", "failed"}
  /\ pc' = "returned"
  /\ array' = Freed(array)
  /\ UNCHANGED <<tokens, i, tree, work, error, overrun, open, want, was>>

\* kevs_parse once more, with the table as it is and other locals.
KevsParseAgain ==
  /\ pc \in {"returned", "freed"} /\ was.calls + 1 < MaxCalls
  /\ was' = [calls |-> was.calls + 1, spent |-> was.spent + Len(tokens),
             root |-> root, heap |-> heap]
  /\ pc' = "scan"
  /\ tokens' = <<>> /\ i' = 1 /\ key' = NoKey /\ error' = "none"
  /\ open' = <<>> /\ want' = "item" /\ array' = "none"
  /\ UNCHANGED <<stack, root, heap, fresh, work, overrun>>

Next ==
  \/ Emit \/ ScanDone \/ ScanFailed \/ KevsReturn \/ KevsParseAgain
  \/ (Parse \/ Release) /\ UNCHANGED <<open, want, array, was>>

Spec == Init /\ [][Next]_allvars

\* One thread of control, which runs until the table is freed.
FairSpec == Spec /\ WF_allvars(Next)

-----------------------------------------------------------------------------
(* Memory.                                                                 *)

\* The values held outside the heap: by the caller, by the active calls of
\* parse_value, and by the calls of value_free and free still to be made.
Held == <<root>> \o stack \o [n \in 1 .. Len(work) |-> work[n].of]

\* The elements of an array that waits for its free are in `work` already.
Dying == {work[n].of.ptr : n \in {m \in DOMAIN work : work[m].op = "free"}}

Places ==
  {<<NULL, n>> : n \in DOMAIN Held} \cup
  UNION {{<<b, n>> : n \in DOMAIN heap[b].elems} : b \in DOMAIN heap \ Dying}

At(p) == IF p[1] = NULL THEN Held[p[2]] ELSE heap[p[1]].elems[p[2]]

\* Every block has exactly one owner at every moment of parse, of the unwinding
\* after an error at any depth, and of kevs_free: no value_free or realloc
\* leaves a second pointer to a block (a use after free, a double free), and
\* no failure drops the last one (a leak).
Ownership ==
  /\ \A p \in Places : At(p).ptr # NULL => At(p).ptr \in DOMAIN heap
  /\ \A b \in DOMAIN heap : Cardinality({p \in Places : At(p).ptr = b}) = 1

\* An array never holds more than its capacity, and a string never an element.
Capacity == \A b \in DOMAIN heap : Len(heap[b].elems) <= heap[b].cap

\* After kevs_free nothing is left, whether kevs_parse failed, and where.
NothingLeaked ==
  pc = "freed" => heap = [b \in {} |-> 0] /\ root = EmptyTable /\ array # "live"

-----------------------------------------------------------------------------
(* The parser and the grammar.                                             *)

\* What the scanner promises is enough: parse never runs out of tokens, where
\* parse_errorf would read past the array, and of its messages only those
\* about the meaning of a token can be seen.
GrammarSuffices ==
  /\ ~overrun
  /\ error \notin {"expected_key_token", "missing_key_value_separator",
                   "expected_value_token", "missing_key_value_end"}

\* Keys are unique in every table, the one under construction included, since
\* parse_key looks at the table the pair is going to be stored in.
UniqueKeys ==
  \A b \in DOMAIN heap :
    LET es == heap[b].elems
    IN  \A m, n \in DOMAIN es : m # n /\ es[m].key # NoKey => es[m].key # es[n].key

\* What the lookups handed out, a string or a nested list or table, is where
\* and what it was until kevs_free, whatever documents are parsed into the same
\* table in between, and however that ends; only the outermost array may move.
StaysLent ==
  pc \notin {"freeing", "freed"} =>
    \A b \in DOMAIN was.heap \ {was.root.ptr} : b \in DOMAIN heap /\ heap[b] = was.heap[b]

\* kevs_parse and kevs_free return.
Termination == <>(pc = "freed")

=============================================================================
