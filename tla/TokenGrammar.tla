----------------------------- MODULE TokenGrammar -----------------------------
(***************************************************************************)
(* What the scanner promises to the parser: the token stream is, at every  *)
(* moment, a prefix of a sequence of key-value pairs                       *)
(*                                                                         *)
(*    pairs ::= { KEY "=" value ";" }                                      *)
(*    value ::= VALUE | "[" { value ";" } "]" | "{" pairs "}"              *)
(*                                                                         *)
(* and a whole one when the scanner accepts.  This is the language that    *)
(* parse_key_value, parse_list_value and parse_table_value of              *)
(* src/c/kevs.c expect.  The automaton below emits the stream one token at *)
(* a time; it knows nothing of characters.                                 *)
(***************************************************************************)
EXTENDS Delims, Sequences

VARIABLES
  stream,   \* the symbols of the tokens emitted so far
  open,     \* the lists and tables not yet closed, innermost first
  want      \* what may come next

gvars == <<stream, open, want>>

Symbols == {"key", "value"} \cup Delimiters

GTypeOK ==
  /\ stream \in Seq(Symbols)
  /\ open \in Seq({"list", "table"})
  /\ want \in {"item", "sep", "value", "end", "accepted", "stopped"}

GInit == stream = <<>> /\ open = <<>> /\ want = "item"

Within(kind) == open # <<>> /\ Head(open) = kind

\* A value is due: after a separator, or as the next element of a list.
ValueDue == want = "value" \/ (want = "item" /\ Within("list"))

Emit(symbol, next) == stream' = Append(stream, symbol) /\ want' = next

\* A key opens a pair; the emitter may give up right after it.
Key ==
  /\ want = "item" /\ (open = <<>> \/ Within("table"))
  /\ \E next \in {"sep", "stopped"} : Emit("key", next)
  /\ UNCHANGED open

Separator == want = "sep" /\ Emit(kKeyValSep, "value") /\ UNCHANGED open

Simple == ValueDue /\ Emit("value", "end") /\ UNCHANGED open

OpenList == ValueDue /\ Emit(kListBegin, "item") /\ open' = <<"list">> \o open

OpenTable == ValueDue /\ Emit(kTableBegin, "item") /\ open' = <<"table">> \o open

CloseList == want = "item" /\ Within("list") /\ Emit(kListEnd, "end") /\ open' = Tail(open)

CloseTable == want = "item" /\ Within("table") /\ Emit(kTableEnd, "end") /\ open' = Tail(open)

End == want = "end" /\ Emit(kKeyValEnd, "item") /\ UNCHANGED open

\* Only between two pairs of the outermost level may the stream end well.
Accept == want = "item" /\ open = <<>> /\ want' = "accepted" /\ UNCHANGED <<stream, open>>

Stop == want # "accepted" /\ want' = "stopped" /\ UNCHANGED <<stream, open>>

GNext ==
  \/ Key \/ Separator \/ Simple \/ End
  \/ OpenList \/ OpenTable \/ CloseList \/ CloseTable
  \/ Accept \/ Stop

GSpec == GInit /\ [][GNext]_gvars

=============================================================================
