------------------------------- MODULE KevsStr -------------------------------
(***************************************************************************)
(* Characters, and the KevsStr helpers of src/c/kevs.c that the scanner is *)
(* built from.                                                             *)
(*                                                                         *)
(* The code handles a KevsStr, a pointer and a length into the document.   *)
(* Here the document is a sequence s of characters, and a slice of it is a *)
(* first index and a length.  Characters are taken up to what the scanner  *)
(* tells apart: Space stands for the two characters of the cutset          *)
(* " \t", Other for every byte that has no meaning to the scanner.         *)
(***************************************************************************)
EXTENDS Delims, Integers, Sequences, FiniteSets, FiniteSetsExt

Space     == "space"
Newline   == "newline"
Backslash == "backslash"
Other     == "other"

Char == Delimiters \cup {kCommentBegin, kStringBegin, kRawStringBegin,
                         Space, Newline, Backslash, Other}

(***************************************************************************)
(* str_index_any and str_index_char: the first index at or after `from` of *)
(* a character of `chars`, 0 where the code returns -1.  The code narrows  *)
(* the index to an int: documents are shorter than INT_MAX here.           *)
(***************************************************************************)
IndexAny(s, from, chars) ==
  LET I == {i \in from .. Len(s) : s[i] \in chars}
  IN  IF I = {} THEN 0 ELSE Min(I)

(* str_trim_left with the cutset `spaces`: where the trimmed slice starts. *)
TrimLeft(s, from) ==
  LET I == {i \in from .. Len(s) : s[i] # Space}
  IN  IF I = {} THEN Len(s) + 1 ELSE Min(I)

\* Mutant: the slice ends before its last character that is no space.
TrimRightShort(s, from, n) ==
  LET I == {k \in 1 .. n : s[from + k - 1] # Space}
  IN  IF I = {} THEN 0 ELSE Max(I) - 1

(* str_trim_right with the cutset `spaces`: the trimmed length of the      *)
(* slice of n characters that starts at `from`.                            *)
TrimRight(s, from, n) ==
  LET I == {k \in 1 .. n : s[from + k - 1] # Space}
  IN  IF I = {} THEN 0 ELSE Max(I)

(* str_count_char on the slice of n characters that starts at `from`.      *)
CountChar(s, from, n, c) ==
  Cardinality({i \in from .. from + n - 1 : s[i] = c})

=============================================================================
