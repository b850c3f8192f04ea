------------------------------ MODULE MCStrNorm ------------------------------
(***************************************************************************)
(* Bodies for str_norm, put together from a few pieces, and what becomes   *)
(* of a string in Python.                                                  *)
(***************************************************************************)
EXTENDS StrNormRef, SequencesExt

-----------------------------------------------------------------------------
(* Bodies.                                                                 *)

\* \u and \U and some digits.
U4(a, b, c, d) == <<92, 117, a, b, c, d>>
U8(a, b, c, d, e, f) == <<92, 85, 48, 48, a, b, c, d, e, f>>

Good == {<<48>>, <<195, 169>>, <<240, 159, 150, 150>>} \cup {<<92, e>> : e \in SimpleEscapes}

\* Around every boundary of the encoding; both cases of the digits.
CodePoints ==
  {U4(48, 48, 48, 49), U4(48, 48, 55, 102), U4(48, 48, 56, 48), U4(48, 55, 70, 70),
   U4(48, 56, 48, 48), U4(68, 55, 102, 102), U4(100, 56, 48, 48), U4(68, 70, 70, 70),
   U4(101, 48, 48, 48), U4(70, 70, 70, 102),
   U8(48, 48, 70, 70, 70, 70), U8(48, 49, 48, 48, 48, 48), U8(48, 49, 70, 53, 57, 54),
   U8(49, 48, 102, 102, 102, 102), U8(49, 49, 48, 48, 48, 48),
   U8(48, 48, 48, 48, 52, 49), U8(48, 48, 100, 56, 48, 48)}

\* Escapes cut short, digits that are none, unknown letters.
Broken == {<<92, 117>>, <<92, 117, 48, 48>>, <<92, 85, 48>>, <<92, 120>>, U4(48, 48, 103, 48),
           U4(48, 48, 92, 34), U8(48, 48, 48, 48, 92, 34), U8(48, 48, 48, 48, 71, 48)}

Pieces == Good \cup CodePoints \cup Broken

MCBodies ==
  {b \in {FlattenSeq(ps) : ps \in BoundedSeq(Pieces, 3)} : b = <<>> \/ Last(b) # Backslash}

\* Bytes of which some are no UTF-8.
ByteBodies == BoundedSeq({97, 195, 169, 128, 255}, 4)

-----------------------------------------------------------------------------

\* parse_simple_value of kevs.py: the decoder unicode_escape takes every byte of
\* the text for a character.  Where kevs.c accepts a string it knows the same
\* escape sequences.
PyString == Reading(self, "bytes")[1]

\* readme.md: "Escape sequences are interpreted and replaced in the final
\* string", and the rest of the text is as written, in Python too.
SameInPython == pc = "done" /\ Meaning # Bad => PyString = Meaning

=============================================================================
