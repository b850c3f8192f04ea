-------------------------------- MODULE ErrBuf --------------------------------
(***************************************************************************)
(* scan_errorf and parse_errorf of src/c/kevs.c, which are alike: three    *)
(* texts (the file and the line, if asked for; the tag; the message) are   *)
(* printed one behind the other into the caller's buffer, and after each   *)
(* an assertion says that it was not cut off.                              *)
(***************************************************************************)
EXTENDS Integers, Sequences

CONSTANTS
  Chars,      \* what messages are made of
  ErrBufLen   \* err_buf_len, which kevs_parse asserts not to be 0

NUL == "nul"

ASSUME ErrBufAssumption == ErrBufLen \in Nat \ {0} /\ NUL \notin Chars

VARIABLES
  buf,     \* the bytes of err_buf
  texts,   \* what this call prints
  text,    \* which of them is next
  ptr,     \* where it goes, as an offset in err_buf
  len,     \* how much room there is
  errorf   \* idle, printing, returned, or aborted by an assertion

errvars == <<buf, texts, text, ptr, len, errorf>>

Cells == 0 .. ErrBufLen - 1

\* With and without errors_with_file_and_line.
Messages == {ts \in Seq(Seq(Chars)) : Len(ts) \in {2, 3}}

ErrTypeOK ==
  /\ buf \in [Cells -> Chars \cup {NUL}]
  /\ texts \in Messages
  /\ text \in 1 .. Len(texts) + 1
  /\ ptr \in Cells
  /\ len \in 1 .. ErrBufLen
  /\ errorf \in {"idle", "printing", "returned", "asserted"}

\* char err_buf[8193] = {};
ErrInit ==
  /\ buf = [c \in Cells |-> NUL]
  /\ texts = <<<<>>, <<>>>> /\ text = 1
  /\ ptr = 0 /\ len = ErrBufLen
  /\ errorf = "idle"

\* A call, with its texts; the buffer may hold an earlier message.
Errorf(ts) ==
  /\ errorf \in {"idle", "returned"}
  /\ texts' = ts /\ text' = 1
  /\ ptr' = 0 /\ len' = ErrBufLen
  /\ errorf' = "printing"
  /\ UNCHANGED buf

\* What snprintf finds room for, besides the NUL.
Room(n) == IF n < len THEN n ELSE len - 1

\* Mutants: the terminator is counted twice; the assertion is off by one.
LeftOne(n) == len - n - 1
FitsExactly(n) == n <= len

Left(n) == len - n
Fits(n) == n < len

\* snprintf, the assertion on its result, and ptr += n, len -= n.
Snprintf ==
  /\ errorf = "printing"
  /\ LET t == texts[text]
         n == Len(t)
     IN  /\ buf' = [c \in Cells |-> IF c \in ptr .. ptr + Room(n) - 1 THEN t[c - ptr + 1]
                                    ELSE IF c = ptr + Room(n) THEN NUL ELSE buf[c]]
         /\ IF Fits(n)
            THEN /\ ptr' = ptr + n /\ len' = Left(n) /\ text' = text + 1
                 /\ errorf' = IF text = Len(texts) THEN "returned" ELSE "printing"
            ELSE errorf' = "asserted" /\ UNCHANGED <<ptr, len, text>>
  /\ UNCHANGED texts

ErrNext == (\E ts \in Messages : Errorf(ts)) \/ Snprintf

ErrSpec == ErrInit /\ [][ErrNext]_errvars

-----------------------------------------------------------------------------

Whole ==
  IF Len(texts) = 2 THEN texts[1] \o texts[2] ELSE texts[1] \o texts[2] \o texts[3]

\* The C string that the buffer holds.
Holds(s) ==
  /\ Len(s) < ErrBufLen
  /\ \A n \in 1 .. Len(s) : buf[n - 1] = s[n]
  /\ buf[Len(s)] = NUL

\* The caller gets the whole message, file, line, tag and text, with nothing
\* left of an earlier and longer one behind it; and one of the three assertions
\* stops the program exactly when message and terminator do not fit.
MessageWhole ==
  /\ errorf = "returned" => Holds(Whole)
  /\ errorf = "asserted" => Len(Whole) >= ErrBufLen

=============================================================================
