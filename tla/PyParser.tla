------------------------------- MODULE PyParser -------------------------------
(***************************************************************************)
(* The parser of src/py/kevs.py, which has no memory to manage: a method   *)
(* returns a value and leaves self.i where it got to.  errorf reads the    *)
(* line of the current token, and raises when there is none.               *)
(*                                                                         *)
(* Its conversions are not those of kevs.c.  is_letter lowers a character  *)
(* before it looks at it, so that the Kelvin sign is a letter; a string is *)
(* decoded by unicode_escape, which takes \x41, \q and surrogates and      *)
(* reads other characters byte by byte; a number is read by int(val, 0),   *)
(* which takes 1_000, 00, 0X2A and any width.  What it accepts, and the    *)
(* value it reads, are therefore constants of its own.                     *)
(*                                                                         *)
(* The recursive descent is made explicit, as in Parser, by a state that   *)
(* each step maps to the next one:                                         *)
(*   pc         the method that goes on, by the names that Parser has      *)
(*   i          self.i                                                     *)
(*   key        what parse_key returned last                               *)
(*   stack      the Value that each active parse_value is going to return, *)
(*              innermost first, with the key of its KeyValue              *)
(*   table      the local of parse                                         *)
(*   error, at  self.error, and the token it names the line of             *)
(***************************************************************************)
EXTENDS Parser

CONSTANTS
  PyValidKeys,  \* the texts of keys that its is_identifier accepts
  PyClass,      \* what its parse_simple_value makes of each literal
  PyDatum       \* the value it reads there, in terms of the text of which kevs.c
                \* reads that value, if there is one

\* It accepts every key and every text that kevs.c accepts, as a value of the same
\* kind, and others besides; the first character of a text says which kind that is.
ASSUME PyParserAssumption ==
  /\ ValidKeys \subseteq PyValidKeys /\ PyValidKeys \subseteq Keys
  /\ PyClass \in [Literals -> Classes]
  /\ \A l \in Literals :
       \/ PyClass[l] = Class[l]
       \/ Class[l] = "badString" /\ PyClass[l] = "string"
       \/ Class[l] = "badInteger" /\ PyClass[l] = "integer"
  /\ DOMAIN PyDatum = Literals /\ NoData \notin Literals

PyStart ==
  [pc |-> "pair", i |-> 1, key |-> NoKey, stack |-> <<>>, table |-> <<>>,
   error |-> "none", at |-> 0]

\* The value parse_value has not read yet.
PyUndefined(k) == [key |-> k, kind |-> "undefined", data |-> NoData, elems |-> <<>>]

\* errorf, after which every active method returns.
Errorf(s, message) ==
  [s EXCEPT !.pc = "failed", !.at = s.i,
            !.error = IF s.i > Len(tokens) THEN "IndexError" ELSE message]

\* expect and expect_delim.  At the end of the tokens every method that calls
\* them raises, here or at the test that comes next.
PyExpect(s, kind)   == s.i <= Len(tokens) /\ tokens[s.i].kind = kind
PyExpectDelim(s, c) == PyExpect(s, "delim") /\ tokens[s.i].sym = c

\* parse_delim, and the errorf of its caller.
PyDelim(s, c, next, message) ==
  IF PyExpectDelim(s, c) THEN [s EXCEPT !.i = s.i + 1, !.pc = next] ELSE Errorf(s, message)

\* The table that parse_key_value is given.
PyParent(s) == IF s.stack = <<>> THEN s.table ELSE Head(s.stack).elems

\* Mutant: the last entry is not compared.
PyIsUniqueButLast(k, parent) == \A m \in 1 .. Len(parent) - 1 : parent[m].key # k

PyIsUnique(k, parent) == \A m \in DOMAIN parent : parent[m].key # k

\* parse_key, for the next pair of a table; parse returns after the last one.
PyKey(s) ==
  IF s.stack = <<>> /\ s.i > Len(tokens) THEN [s EXCEPT !.pc = "done"]
  ELSE IF ~PyExpect(s, "key") THEN Errorf(s, "expected_key_token")
  ELSE IF tokens[s.i].sym \notin PyValidKeys THEN Errorf(s, "key_is_not_a_valid_identifier")
  ELSE IF ~PyIsUnique(tokens[s.i].sym, PyParent(s))
  THEN Errorf(s, "key_is_not_unique_for_current_table")
  ELSE [s EXCEPT !.i = s.i + 1, !.pc = "sep", !.key = tokens[s.i].sym]

PyPush(s, k) == [s EXCEPT !.stack = <<PyUndefined(k)>> \o s.stack]

\* The separator in parse_key_value, and its call of parse_value.
PySeparator(s) ==
  PyDelim(PyPush(s, s.key), kKeyValSep, "value", "missing_key_value_separator")

\* The token becomes the current value.
PyIs(s, kind, data, next) ==
  [s EXCEPT !.i = s.i + 1, !.pc = next,
            !.stack = <<[Head(s.stack) EXCEPT !.kind = kind, !.data = data]>> \o Tail(s.stack)]

PySimple(s) ==
  IF ~PyExpect(s, "value") THEN Errorf(s, "expected_value_token")
  ELSE LET val   == tokens[s.i].sym
           class == PyClass[val]
       IN  IF class = "badString" THEN Errorf(s, "could_not_normalize_string")
           ELSE IF class = "badInteger" THEN Errorf(s, "value_is_not_an_integer")
           ELSE PyIs(s, IF class = "raw" THEN "string" ELSE class, PyDatum[val], "end")

\* parse_value, up to the entry of parse_list_value or parse_table_value.
PyValue(s) ==
  IF PyExpectDelim(s, kListBegin) THEN PyIs(s, "list", NoData, "loop")
  ELSE IF PyExpectDelim(s, kTableBegin) THEN PyIs(s, "table", NoData, "loop")
  ELSE PySimple(s)

InPyList(s) == Head(s.stack).kind = "list"
PyAtEnd(s)  == PyExpectDelim(s, IF InPyList(s) THEN kListEnd ELSE kTableEnd)

PyClose(s) == [s EXCEPT !.i = s.i + 1, !.pc = "end"]

\* The loops of parse_list_value and parse_table_value: the test at the head of
\* an iteration, and the one after an element.
PyLoop(s) ==
  IF PyAtEnd(s) THEN PyClose(s)
  ELSE IF InPyList(s) THEN [PyPush(s, NoKey) EXCEPT !.pc = "value"]
  ELSE [s EXCEPT !.pc = "pair"]

PyAfter(s) == IF PyAtEnd(s) THEN PyClose(s) ELSE [s EXCEPT !.pc = "loop"]

\* The end of parse_value.
PyEnd(s) == PyDelim(s, kKeyValEnd, "append", "missing_key_value_end")

\* What parse_value or parse_key_value returned is appended by its caller.
PyAppend(s) ==
  LET v == Head(s.stack)
      r == Tail(s.stack)
  IN  IF r = <<>> THEN [s EXCEPT !.pc = "pair", !.stack = r, !.table = Append(s.table, v)]
      ELSE [s EXCEPT !.pc = "after",
                     !.stack = <<[Head(r) EXCEPT !.elems = Append(Head(r).elems, v)]>> \o Tail(r)]

PyNext(s) ==
  CASE s.pc = "pair"   -> PyKey(s)
    [] s.pc = "sep"    -> PySeparator(s)
    [] s.pc = "value"  -> PyValue(s)
    [] s.pc = "loop"   -> PyLoop(s)
    [] s.pc = "after"  -> PyAfter(s)
    [] s.pc = "end"    -> PyEnd(s)
    [] s.pc = "append" -> PyAppend(s)
    [] OTHER           -> s

\* A token takes at most four steps, and the end of parse one.
PySteps == 4 * Len(tokens) + 4

\* parse, step by step, and what it leaves behind.
PyRun ==
  LET run[n \in 0 .. PySteps] == IF n = 0 THEN PyStart ELSE PyNext(run[n - 1])
  IN  run

PyParse == PyRun[PySteps]

=============================================================================
