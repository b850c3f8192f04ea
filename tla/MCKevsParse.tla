----------------------------- MODULE MCKevsParse -----------------------------
(***************************************************************************)
(* Texts for the parser: one of each kind in short documents, two keys and *)
(* two values, a good and a bad one, in longer ones.  Only kevs.py accepts *)
(* one of the keys, one of the strings and one of the integers, and it     *)
(* reads other characters than kevs.c in the string they both accept.      *)
(***************************************************************************)
EXTENDS KevsParseProps

MCKeys        == {"a", "b", "9", "Kelvin"}
MCValidKeys   == {"a", "b"}
MCPyValidKeys == {"a", "b", "Kelvin"}

MCLiterals == {"acute", "raw", "true", "1", "\\q", "1x", "1_000"}

MCClass ==
  [l \in MCLiterals |->
     CASE l = "acute" -> "string" [] l = "raw" -> "raw" [] l = "true" -> "boolean"
       [] l = "1" -> "integer" [] l = "\\q" -> "badString"
       [] l \in {"1x", "1_000"} -> "badInteger"]

MCPyClass ==
  [l \in MCLiterals |->
     CASE l = "\\q" -> "string" [] l = "1_000" -> "integer" [] OTHER -> MCClass[l]]

MCPyDatum == [l \in MCLiterals |-> IF l = "acute" THEN "mojibake" ELSE l]

MCPlain == {"a", "b", "acute", "1x"}

=============================================================================
