------------------------------ MODULE CliProofs -------------------------------
(***************************************************************************)
(* The error buffer, for every size of it and all texts, and the command   *)
(* line, for all arguments, files, messages and answers of the system.     *)
(***************************************************************************)
EXTENDS Cli, SequenceTheorems, TLAPS

-----------------------------------------------------------------------------
(* The error buffer.                                                       *)

\* What the first k of the texts ts amount to.
Printed(ts, k) ==
  IF k = 0 THEN <<>>
  ELSE IF k = 1 THEN ts[1]
  ELSE IF k = 2 THEN ts[1] \o ts[2]
  ELSE ts[1] \o ts[2] \o ts[3]

\* b begins with the text s; c is b with the text t and a NUL behind the first n bytes.
Begins(b, s) == \A n \in 1 .. Len(s) : b[n - 1] = s[n]
Appended(b, c, n, t) ==
  \A k \in Cells : c[k] = IF k \in n .. n + Len(t) - 1 THEN t[k - n + 1]
                           ELSE IF k = n + Len(t) THEN NUL ELSE b[k]

\* The room that is left begins where the texts printed so far end, and they
\* are in the buffer.
PrintingInv ==
  errorf = "printing" =>
    /\ text \in 1 .. Len(texts)
    /\ ptr = Len(Printed(texts, text - 1))
    /\ Begins(buf, Printed(texts, text - 1))

BufInv ==
  /\ ErrTypeOK
  /\ ptr + len = ErrBufLen
  /\ PrintingInv
  /\ MessageWhole

-----------------------------------------------------------------------------

\* One snprintf that is not cut off puts its text behind those before it.
LEMMA Concatenates ==
  ASSUME NEW s \in Seq(Chars), NEW t \in Seq(Chars), NEW b, NEW c2,
         Len(s) + Len(t) < ErrBufLen,
         Begins(b, s), Appended(b, c2, Len(s), t)
  PROVE  Begins(c2, s \o t) /\ c2[Len(s \o t)] = NUL
<1>1. /\ Len(s \o t) = Len(s) + Len(t)
      /\ \A i \in 1 .. Len(s) + Len(t) : (s \o t)[i] = IF i <= Len(s) THEN s[i] ELSE t[i - Len(s)]
  BY ConcatProperties
<1>2. Len(s) \in Nat /\ Len(t) \in Nat /\ ErrBufLen \in Nat
  BY LenProperties, ErrBufAssumption
<1> DEFINE ls == Len(s)
           lt == Len(t)
<1>3. c2[ls + lt] = NUL
  <2>1. ls + lt \in Cells /\ ls + lt \notin ls .. ls + lt - 1
    BY <1>2 DEF Cells
  <2>2. QED
    BY <2>1 DEF Appended
<1>4. ASSUME NEW n \in 1 .. ls + lt PROVE c2[n - 1] = (s \o t)[n]
  <2>1. n - 1 \in Cells
    BY <1>2 DEF Cells
  <2>2. CASE n <= ls
    <3>1. (s \o t)[n] = s[n] /\ n \in 1 .. ls
      BY <2>2, <1>2, <1>1
    <3>2. n - 1 \notin ls .. ls + lt - 1 /\ n - 1 # ls + lt
      BY <2>2, <1>2
    <3>3. QED
      BY <2>1, <3>1, <3>2 DEF Appended, Begins
  <2>3. CASE n > ls
    <3>1. (s \o t)[n] = t[n - ls]
      BY <2>3, <1>2, <1>1
    <3>2. n - 1 \in ls .. ls + lt - 1 /\ (n - 1) - ls + 1 = n - ls
      BY <2>3, <1>2
    <3>3. QED
      BY <2>1, <3>1, <3>2 DEF Appended
  <2>4. QED
    BY <2>2, <2>3, <1>2
<1>5. QED
  BY <1>1, <1>3, <1>4 DEF Begins

\* The texts printed so far, and the next one.
LEMMA PrintedNext ==
  ASSUME NEW ts \in Messages, NEW k \in 1 .. Len(ts)
  PROVE  /\ ts[k] \in Seq(Chars)
         /\ Printed(ts, k - 1) \in Seq(Chars)
         /\ Printed(ts, k) = Printed(ts, k - 1) \o ts[k]
<1>1. Len(ts) \in {2, 3} /\ ts \in Seq(Seq(Chars))
  BY DEF Messages
<1>2. \A n \in 1 .. Len(ts) : ts[n] \in Seq(Chars)
  BY <1>1
<1>3. ts[1] \in Seq(Chars) /\ ts[2] \in Seq(Chars)
  BY <1>1, <1>2
<1>4. <<>> \o ts[1] = ts[1] /\ ts[1] \o ts[2] \in Seq(Chars)
  BY <1>3, ConcatEmptySeq, ConcatProperties
<1>5. /\ Printed(ts, 0) = <<>> /\ Printed(ts, 1) = ts[1] /\ Printed(ts, 2) = ts[1] \o ts[2]
      /\ Printed(ts, 3) = (ts[1] \o ts[2]) \o ts[3]
  BY DEF Printed
<1>6. <<>> \in Seq(Chars)
  OBVIOUS
<1>7. k = 1 \/ k = 2 \/ k = 3
  <2>1. Len(ts) = 2 \/ Len(ts) = 3
    BY <1>1
  <2>2. CASE Len(ts) = 2
    BY <2>2
  <2>3. CASE Len(ts) = 3
    BY <2>3
  <2>4. QED
    BY <2>1, <2>2, <2>3
<1>8. ts[k] \in Seq(Chars)
  BY <1>2
<1> HIDE DEF Printed
<1>9. CASE k = 1
  <2>1. k - 1 = 0
    BY <1>9
  <2>2. Printed(ts, k - 1) = <<>> /\ Printed(ts, k) = ts[1] /\ ts[k] = ts[1]
    BY <2>1, <1>5, <1>9, Zenon
  <2>3. QED
    BY <2>2, <1>3, <1>4, <1>6, Zenon
<1>10. CASE k = 2
  <2>1. k - 1 = 1
    BY <1>10
  <2>2. Printed(ts, k - 1) = ts[1] /\ Printed(ts, k) = ts[1] \o ts[2] /\ ts[k] = ts[2]
    BY <2>1, <1>5, <1>10, Zenon
  <2>3. QED
    BY <2>2, <1>3, Zenon
<1>11. CASE k = 3
  <2>1. k - 1 = 2
    BY <1>11
  <2>2. /\ Printed(ts, k - 1) = ts[1] \o ts[2] /\ Printed(ts, k) = (ts[1] \o ts[2]) \o ts[3]
        /\ ts[k] = ts[3]
    BY <2>1, <1>5, <1>11, Zenon
  <2>3. QED
    BY <2>2, <1>4, <1>8, Zenon
<1>12. QED
  BY <1>7, <1>9, <1>10, <1>11

\* The whole message is all the texts, and as long as any of its beginnings.
LEMMA WholeIsPrinted ==
  ASSUME texts \in Messages
  PROVE  /\ Whole = Printed(texts, Len(texts))
         /\ \A k \in 1 .. Len(texts) : Len(Whole) >= Len(Printed(texts, k))
<1>1. Len(texts) \in {2, 3} /\ texts \in Seq(Seq(Chars))
  BY DEF Messages
<1>2. Whole = Printed(texts, Len(texts))
  BY <1>1 DEF Whole, Printed
<1>3. \A k \in 1 .. Len(texts) : /\ texts[k] \in Seq(Chars) /\ Printed(texts, k - 1) \in Seq(Chars)
                                 /\ Printed(texts, k) = Printed(texts, k - 1) \o texts[k]
  BY PrintedNext
<1>4. ASSUME NEW k \in 1 .. Len(texts), NEW j, j = k - 1
      PROVE  /\ Len(Printed(texts, k)) = Len(Printed(texts, j)) + Len(texts[k])
             /\ Len(texts[k]) \in Nat /\ Len(Printed(texts, j)) \in Nat
             /\ Len(Printed(texts, k)) \in Nat
  <2> DEFINE s == Printed(texts, j)
             t == texts[k]
  <2>1. s \in Seq(Chars) /\ t \in Seq(Chars) /\ Printed(texts, k) = s \o t
    BY <1>3, <1>4, Zenon
  <2> HIDE DEF s, t
  <2>2. Len(s \o t) = Len(s) + Len(t) /\ Len(s) \in Nat /\ Len(t) \in Nat
    BY <2>1, ConcatProperties, LenProperties
  <2>3. Len(s) + Len(t) \in Nat
    BY <2>2
  <2> USE DEF s, t
  <2>4. QED
    BY <2>1, <2>2, <2>3, Zenon
<1>5. CASE Len(texts) = 2
  <2>1. 1 \in 1 .. Len(texts) /\ 2 \in 1 .. Len(texts) /\ 2 - 1 = 1
    BY <1>5
  <2>2. /\ Len(Printed(texts, 2)) = Len(Printed(texts, 1)) + Len(texts[2])
        /\ Len(Printed(texts, 2)) \in Nat /\ Len(Printed(texts, 1)) \in Nat /\ Len(texts[2]) \in Nat
    BY <2>1, <1>4, Zenon
  <2>3. \A k \in 1 .. Len(texts) : k = 1 \/ k = 2
    BY <1>5
  <2>4. QED
    BY <2>2, <2>3, <1>2, <1>5
<1>6. CASE Len(texts) = 3
  <2>1. /\ 1 \in 1 .. Len(texts) /\ 2 \in 1 .. Len(texts) /\ 3 \in 1 .. Len(texts)
        /\ 2 - 1 = 1 /\ 3 - 1 = 2
    BY <1>6
  <2>2. /\ Len(Printed(texts, 3)) = Len(Printed(texts, 2)) + Len(texts[3])
        /\ Len(Printed(texts, 2)) = Len(Printed(texts, 1)) + Len(texts[2])
        /\ Len(Printed(texts, 3)) \in Nat /\ Len(Printed(texts, 2)) \in Nat
        /\ Len(Printed(texts, 1)) \in Nat /\ Len(texts[2]) \in Nat /\ Len(texts[3]) \in Nat
    BY <2>1, <1>4, Zenon
  <2>3. \A k \in 1 .. Len(texts) : k = 1 \/ k = 2 \/ k = 3
    BY <1>6
  <2>4. /\ Len(Printed(texts, 3)) >= Len(Printed(texts, 1))
        /\ Len(Printed(texts, 3)) >= Len(Printed(texts, 2))
        /\ Len(Printed(texts, 3)) >= Len(Printed(texts, 3))
    <3>1. \A a, b, c, d, e \in Nat : b = a + d /\ c = b + e => c >= a /\ c >= b /\ c >= c
      OBVIOUS
    <3>2. QED
      BY <2>2, <3>1, Zenon
  <2>5. Whole = Printed(texts, 3)
    BY <1>2, <1>6, Zenon
  <2>6. QED
    BY <2>3, <2>4, <2>5, <1>2, Zenon
<1>7. QED
  BY <1>1, <1>5, <1>6

-----------------------------------------------------------------------------

LEMMA InitEstablishes == ErrInit => BufInv
<1>1. <<<<>>, <<>>>> \in Messages
  BY DEF Messages
<1>2. QED
  BY <1>1, ErrBufAssumption DEF ErrInit, BufInv, PrintingInv, ErrTypeOK, MessageWhole, Cells

LEMMA ErrorfPreserves ==
  ASSUME BufInv, NEW ts \in Messages, Errorf(ts)
  PROVE  BufInv'
<1>1. Len(ts) \in {2, 3}
  BY DEF Messages
<1>2. Printed(texts', 0) = <<>> /\ text' = 1
  BY DEF Printed, Errorf
<1>3. ErrTypeOK'
  BY <1>1, ErrBufAssumption DEF BufInv, ErrTypeOK, Errorf, Cells
<1>4. PrintingInv'
  <2>1. text' \in 1 .. Len(texts') /\ text' - 1 = 0 /\ ptr' = 0
    <3>1. \A n \in {2, 3} : 1 \in 1 .. n
      OBVIOUS
    <3>2. 1 \in 1 .. Len(ts)
      BY <1>1, <3>1, Zenon
    <3>3. 1 - 1 = 0
      OBVIOUS
    <3>4. texts' = ts /\ text' = 1 /\ ptr' = 0
      BY DEF Errorf
    <3>5. QED
      BY <3>2, <3>3, <3>4, Zenon
  <2>2. Printed(texts', text' - 1) = <<>>
    BY <1>2, <2>1, Zenon
  <2>3. Len(<<>>) = 0 /\ Begins(buf', <<>>)
    BY DEF Begins
  <2>4. QED
    BY <2>1, <2>2, <2>3, Zenon DEF PrintingInv
<1>5. QED
  BY <1>3, <1>4, ErrBufAssumption DEF BufInv, Errorf, MessageWhole

LEMMA SnprintfPreserves ==
  ASSUME BufInv, Snprintf
  PROVE  BufInv'
<1> DEFINE t == texts[text]
           s == Printed(texts, text - 1)
<1>1. /\ texts \in Messages /\ text \in 1 .. Len(texts) /\ texts' = texts
      /\ ptr = Len(s) /\ ptr + len = ErrBufLen /\ ErrBufLen \in Nat
      /\ Begins(buf, s)
      /\ buf \in [Cells -> Chars \cup {NUL}] /\ len \in Nat /\ len >= 1 /\ len <= ErrBufLen
      /\ ptr \in Cells
  BY ErrBufAssumption DEF BufInv, PrintingInv, ErrTypeOK, Snprintf
<1>2. /\ t \in Seq(Chars) /\ s \in Seq(Chars) /\ Len(texts) \in {2, 3}
      /\ Printed(texts, text) = s \o t
  BY <1>1, PrintedNext DEF Messages
<1>3. Whole' = Whole /\ Whole = Printed(texts, Len(texts)) /\ Len(Whole) >= Len(s \o t)
  <2>1. Whole' = Whole
    BY <1>1 DEF Whole
  <2>2. QED
    BY <2>1, <1>1, <1>2, WholeIsPrinted
<1>4. buf' = [c \in Cells |-> IF c \in ptr .. ptr + Room(Len(t)) - 1 THEN t[c - ptr + 1]
                              ELSE IF c = ptr + Room(Len(t)) THEN NUL ELSE buf[c]]
  BY DEF Snprintf
<1>5. /\ IF Fits(Len(t))
         THEN /\ ptr' = ptr + Len(t) /\ len' = Left(Len(t)) /\ text' = text + 1
              /\ errorf' = IF text = Len(texts) THEN "returned" ELSE "printing"
         ELSE errorf' = "asserted" /\ UNCHANGED <<ptr, len, text>>
  BY DEF Snprintf
<1> HIDE DEF t, s
<1>6. Len(t) \in Nat /\ Len(s) \in Nat /\ Len(s \o t) = Len(s) + Len(t) /\ Len(Whole) \in Nat
  <2>1. Len(t) \in Nat /\ Len(s) \in Nat /\ Len(s \o t) = Len(s) + Len(t)
    BY <1>2, ConcatProperties, LenProperties
  <2>2. Whole \in Seq(Chars)
    <3>1. Len(texts) \in 1 .. Len(texts)
      BY <1>1
    <3>2. /\ Printed(texts, Len(texts) - 1) \in Seq(Chars) /\ texts[Len(texts)] \in Seq(Chars)
          /\ Whole = Printed(texts, Len(texts) - 1) \o texts[Len(texts)]
      BY <3>1, <1>1, <1>3, PrintedNext
    <3>3. QED
      BY <3>2, ConcatProperties
  <2>3. QED
    BY <2>1, <2>2, LenProperties
<1>7. Room(Len(t)) \in Nat /\ Room(Len(t)) <= Len(t)
  BY <1>1, <1>6 DEF Room
<1>8. buf' \in [Cells -> Chars \cup {NUL}]
  <2>1. ASSUME NEW c \in Cells, c \in ptr .. ptr + Room(Len(t)) - 1
        PROVE  t[c - ptr + 1] \in Chars
    <3>1. c - ptr + 1 \in 1 .. Len(t)
      BY <2>1, <1>1, <1>6, <1>7 DEF Cells
    <3>2. QED
      BY <3>1, <1>2
  <2>2. QED
    BY <2>1, <1>1, <1>4
<1>9. CASE Fits(Len(t))
  <2>1. /\ Len(t) < len /\ Room(Len(t)) = Len(t)
        /\ ptr' = ptr + Len(t) /\ len' = len - Len(t) /\ text' = text + 1
        /\ errorf' = IF text = Len(texts) THEN "returned" ELSE "printing"
    BY <1>5, <1>9 DEF Fits, Left, Room
  <2>2. Appended(buf, buf', Len(s), t)
    BY <1>1, <1>4, <2>1 DEF Appended
  <2>3. Len(s) + Len(t) < ErrBufLen
    BY <1>1, <1>6, <2>1
  <2>4. Begins(buf', s \o t) /\ buf'[Len(s \o t)] = NUL
    BY <1>1, <1>2, <2>2, <2>3, Concatenates, Zenon
  <2>5. ptr' + len' = ErrBufLen /\ ptr' = Len(s \o t)
    BY <1>1, <1>6, <2>1, SMTT(40)
  <2>6. ErrTypeOK'
    <3>1. ptr' \in Cells /\ len' \in 1 .. ErrBufLen
      BY <1>1, <1>6, <2>1, <2>3 DEF Cells
    <3>2. text' \in 1 .. Len(texts') + 1 /\ texts' \in Messages
      BY <1>1, <1>2, <2>1
    <3>3. QED
      BY <3>1, <3>2, <1>8, <2>1 DEF ErrTypeOK
  <2>7. CASE text = Len(texts)
    <3>1. Whole' = s \o t /\ errorf' = "returned"
      BY <2>7, <1>2, <1>3, <2>1
    <3>2. MessageWhole'
      BY <3>1, <2>3, <2>4, <1>6 DEF MessageWhole, Holds, Begins
    <3>3. QED
      BY <3>1, <3>2, <2>5, <2>6 DEF BufInv, PrintingInv
  <2>8. CASE text # Len(texts)
    <3>1. errorf' = "printing" /\ text' \in 1 .. Len(texts') /\ text' - 1 = text
      <4>1. text \in Int /\ 1 <= text /\ text < Len(texts) /\ Len(texts) \in Int
        BY <2>8, <1>1, <1>2
      <4>2. text + 1 \in 1 .. Len(texts) /\ (text + 1) - 1 = text
        BY <4>1
      <4>3. QED
        BY <2>1, <2>8, <4>2, <1>1, Zenon
    <3>2. Printed(texts', text' - 1) = s \o t
      BY <3>1, <1>1, <1>2
    <3>3. PrintingInv'
      BY <3>1, <3>2, <2>4, <2>5 DEF PrintingInv
    <3>4. QED
      BY <3>1, <3>3, <2>5, <2>6 DEF BufInv, MessageWhole
  <2>9. QED
    BY <2>7, <2>8
<1>10. CASE ~Fits(Len(t))
  <2>1. Len(t) >= len /\ errorf' = "asserted" /\ ptr' = ptr /\ len' = len /\ text' = text
    <3>1. ~(Len(t) < len)
      BY <1>10 DEF Fits
    <3>2. Len(t) >= len
      BY <1>1, <1>6, <3>1
    <3>3. QED
      BY <1>5, <1>10, <3>2, Zenon
  <2>2. Len(Whole') >= ErrBufLen
    <3>1. Whole' = Whole /\ Len(Whole) >= Len(s) + Len(t) /\ Len(Whole) \in Nat
      BY <1>3, <1>6, Zenon
    <3>2. /\ ptr = Len(s) /\ ptr + len = ErrBufLen /\ Len(t) >= len
          /\ Len(s) \in Nat /\ Len(t) \in Nat /\ len \in Nat
      BY <2>1, <1>1, <1>6, Zenon
    <3>3. Len(s) + Len(t) >= ErrBufLen /\ ErrBufLen \in Nat
      BY <3>2
    <3>4. Len(Whole) >= ErrBufLen
      BY <3>1, <3>2, <3>3
    <3>5. QED
      BY <3>1, <3>4, Zenon
  <2>3. ErrTypeOK'
    <3>1. ErrTypeOK
      BY DEF BufInv
    <3>2. QED
      BY <2>1, <3>1, <1>1, <1>8, Zenon DEF ErrTypeOK
  <2>4. QED
    BY <2>1, <2>2, <2>3, <1>1 DEF BufInv, PrintingInv, MessageWhole
<1>11. QED
  BY <1>9, <1>10

\* A step that leaves the variables of this module alone.
LEMMA StutterPreserves ==
  ASSUME BufInv, UNCHANGED errvars
  PROVE  BufInv'
<1>1. /\ buf' = buf /\ texts' = texts /\ text' = text /\ ptr' = ptr /\ len' = len
      /\ errorf' = errorf
  BY DEF errvars
<1>2. Whole' = Whole
  BY <1>1 DEF Whole
<1>3. Holds(Whole)' <=> Holds(Whole)
  BY <1>1, <1>2 DEF Holds
<1>4. ErrTypeOK'
  BY <1>1 DEF BufInv, ErrTypeOK
<1>5. PrintingInv'
  BY <1>1 DEF BufInv, PrintingInv
<1>6. MessageWhole'
  BY <1>1, <1>2, <1>3 DEF BufInv, MessageWhole
<1>7. QED
  BY <1>1, <1>4, <1>5, <1>6 DEF BufInv

\* The buffer that scan_errorf and parse_errorf return holds the whole message,
\* and an assertion fails exactly when it does not fit, whatever the size of
\* the buffer and whatever was in it before.
THEOREM WholeMessages == ErrSpec => []MessageWhole
<1>1. BufInv /\ [ErrNext]_errvars => BufInv'
  BY ErrorfPreserves, SnprintfPreserves, StutterPreserves DEF ErrNext
<1>2. BufInv => MessageWhole
  BY DEF BufInv
<1>3. QED
  BY <1>1, <1>2, InitEstablishes, PTL DEF ErrSpec

-----------------------------------------------------------------------------
(* The command line.                                                       *)

\* How many arguments were consumed.
Taken == Len(argv) - Len(args)

\* What is left is the end of argv, what was consumed are flags and those that
\* were seen; a file was named before anything was opened.
ArgsInv ==
  /\ Taken \in Nat
  /\ \A n \in 1 .. Len(args) : args[n] = argv[Taken + n]
  /\ \A n \in 1 .. Taken : argv[n] \in Flags
  /\ opts = {argv[n] : n \in 1 .. Taken}
  /\ pc # "args" => Current \notin Flags
  /\ pc \notin {"args", "exited"} => Current = "file"

Freeing   == {"free_table", "free_tokens", "free_data"}
InLibrary == {"scan", "parse", "errorf", "report", "dump"}

\* What is held at each point of main and read_file.
Holding ==
  /\ pc \in {"args", "open"} => ~fd /\ live = {}
  /\ pc \in {"fstat", "malloc"} => fd /\ live = {}
  /\ pc = "read" => fd /\ live = {"data"}
  /\ pc = "cleanup" => fd /\ live \subseteq {"data"} /\ (err = "none" => live = {"data"})
  /\ pc \in InLibrary \cup Freeing => ~fd /\ "data" \in live
  /\ pc = "free_tokens" => "table" \notin live
  /\ pc = "free_data" => live = {"data"}

\* Which errors may have happened, and what they make of the exit code.
Failing ==
  /\ pc \in {"args", "open", "fstat", "malloc", "read", "scan", "parse"} => err = "none"
  /\ pc = "cleanup" => err \in ReadErrors \cup {"none"}
  /\ pc = "errorf" => err \in LibErrors
  /\ pc \in {"report", "dump"} \cup Freeing =>
       /\ err \in LibErrors \cup {"none"}
       /\ err # "none" => "abort" \notin opts
  /\ pc \in {"dump"} \cup Freeing => (rc = 0 <=> err = "none" \/ "no_err" \in opts)
  /\ pc \notin {"dump", "exited"} \cup Freeing => rc = 0

\* The buffer and the file, which nobody else has written to, or somebody has,
\* and which st_size tells the length of, or not.
Reading ==
  /\ pc \in {"malloc", "read"} =>
       (writes = 0 /\ sized => size = Len(file)) /\ (~sized => size = 0)
  /\ pc \in InLibrary \/ (pc = "cleanup" /\ err = "none") =>
       Len(data) = size /\ (writes = 0 /\ sized => data = file) /\ (~sized => data = <<>>)

\* How main comes to its end: with the usage, or with a file.
Ending ==
  pc = "exited" =>
    \/ /\ Current \in {"none", "help", "unknown"} /\ ~fd /\ live = {} /\ err = "none"
       /\ rc = 0 <=> Current = "help"
    \/ /\ Current = "file"
       /\ rc = 0 <=> err = "none" \/ (err \in LibErrors /\ "no_err" \in opts)
       /\ err \in LibErrors => "abort" \notin opts
       /\ fd => err = "out_of_memory"
       /\ err \in ReadErrors \/ "free" \in opts => live = {}

CliInv ==
  /\ BufInv /\ TypeOK /\ ArgsInv
  /\ Holding /\ Failing /\ Reading /\ Ending
  /\ pc \in Freeing => "free" \in opts
  /\ DocumentOutlives

-----------------------------------------------------------------------------
(* The arguments.                                                          *)

LEMMA ArgvType == CliInv => argv \in Seq(Arg) /\ args \in Seq(Arg) /\ Len(argv) \in Nat /\ Len(args) \in Nat
  BY CliAssumption, LenProperties DEF CliInv, TypeOK

\* The argument that is looked at, if there is one, is the next of argv.
LEMMA CurrentIsNext ==
  ASSUME CliInv
  PROVE  /\ args = <<>> => Taken = Len(argv) /\ Current = "none"
         /\ args # <<>> => /\ Taken + 1 \in DOMAIN argv /\ Current = argv[Taken + 1]
                           /\ Len(args) >= 1
<1>1. argv \in Seq(Arg) /\ args \in Seq(Arg) /\ Len(argv) \in Nat /\ Len(args) \in Nat
  BY ArgvType
<1>2. CASE args = <<>>
  BY <1>1, <1>2 DEF Taken, Current
<1>3. CASE args # <<>>
  <2>1. Len(args) >= 1
    BY <1>1, <1>3, EmptySeq
  <2>2. args[1] = argv[Taken + 1] /\ Taken \in Nat
    BY <1>1, <2>1 DEF CliInv, ArgsInv
  <2>3. Taken + 1 \in 1 .. Len(argv)
    BY <1>1, <2>1, <2>2 DEF Taken
  <2>4. QED
    BY <1>1, <1>3, <2>1, <2>2, <2>3, HeadTailProperties DEF Current
<1>4. QED
  BY <1>2, <1>3

\* A step that reads no argument.
LEMMA ArgsKept ==
  ASSUME CliInv, UNCHANGED <<args, argv, opts>>,
         pc' # "args" => Current \notin Flags,
         pc' \notin {"args", "exited"} => Current = "file"
  PROVE  ArgsInv'
<1>1. args' = args /\ argv' = argv /\ opts' = opts
  OBVIOUS
<1>2. Taken' = Taken /\ Current' = Current
  BY <1>1 DEF Taken, Current
<1>3. QED
  BY <1>1, <1>2 DEF CliInv, ArgsInv

\* Once an argument was found that is no flag, or none is left, the flags seen
\* are those that were asked for ...
LEMMA AskedIsSeen ==
  ASSUME CliInv, pc # "args", NEW f
  PROVE  Asked(f) <=> f \in opts
<1>1. argv \in Seq(Arg) /\ Len(argv) \in Nat /\ Len(args) \in Nat /\ DOMAIN argv = 1 .. Len(argv)
  BY ArgvType
<1>2. /\ Taken \in Nat /\ Taken <= Len(argv) /\ opts = {argv[n] : n \in 1 .. Taken}
      /\ \A n \in 1 .. Taken : argv[n] \in Flags
      /\ Current \notin Flags
  BY <1>1 DEF CliInv, ArgsInv, Taken
<1>3. ASSUME f \in opts PROVE Asked(f)
  <2>1. PICK n \in 1 .. Taken : argv[n] = f
    BY <1>2, <1>3
  <2>2. n \in DOMAIN argv /\ \A m \in 1 .. n : argv[m] \in Flags
    BY <1>1, <1>2
  <2>3. QED
    BY <2>1, <2>2 DEF Asked
<1>4. ASSUME Asked(f) PROVE f \in opts
  <2>1. PICK n \in DOMAIN argv : argv[n] = f /\ \A m \in 1 .. n : argv[m] \in Flags
    BY <1>4 DEF Asked
  <2>2. n <= Taken
    <3>0. n \in Int /\ n <= Len(argv) /\ Taken \in Nat /\ Len(argv) \in Nat
      BY <1>1, <1>2
    <3>1. SUFFICES ASSUME n > Taken PROVE FALSE
      BY <3>0
    <3>2. args # <<>>
      <4>1. Taken # Len(argv)
        BY <3>0, <3>1
      <4>2. QED
        BY <4>1, CurrentIsNext, Zenon
    <3>3. Taken + 1 \in 1 .. n
      BY <3>1, <1>1, <1>2
    <3>4. argv[Taken + 1] = Current
      BY <3>2, CurrentIsNext
    <3>5. QED
      BY <2>1, <3>3, <3>4, <1>2
  <2>3. QED
    BY <1>1, <1>2, <2>1, <2>2
<1>5. QED
  BY <1>3, <1>4

\* ... and the argument that stopped the loop is the one that decides.
LEMMA CurrentDecides ==
  ASSUME CliInv, pc # "args", NEW a \in {"help", "file"}
  PROVE  IsFor(a) <=> Current = a
<1>1. argv \in Seq(Arg) /\ Len(argv) \in Nat /\ DOMAIN argv = 1 .. Len(argv)
  BY ArgvType
<1>2. /\ Taken \in Nat
      /\ \A n \in 1 .. Taken : argv[n] \in Flags
      /\ Current \notin Flags
  BY DEF CliInv, ArgsInv
<1>3. ASSUME NEW n \in Decisive PROVE n = Taken + 1 /\ Current = argv[n]
  <2>1. n \in 1 .. Len(argv) /\ argv[n] \notin Flags /\ \A m \in 1 .. n - 1 : argv[m] \in Flags
    BY <1>1 DEF Decisive
  <2>2. n > Taken
    BY <1>1, <1>2, <2>1
  <2>3. args # <<>>
    <3>1. n \in Int /\ n <= Len(argv) /\ Taken \in Nat /\ Len(argv) \in Nat
      BY <1>1, <1>2, <2>1
    <3>2. Taken # Len(argv)
      BY <3>1, <2>2
    <3>3. QED
      BY <3>2, CurrentIsNext, Zenon
  <2>4. Current = argv[Taken + 1]
    BY <2>3, CurrentIsNext
  <2>5. n = Taken + 1
    <3>1. SUFFICES ASSUME n > Taken + 1 PROVE FALSE
      BY <2>1, <2>2, <1>1, <1>2
    <3>2. Taken + 1 \in 1 .. n - 1
      BY <3>1, <1>1, <1>2, <2>1
    <3>3. QED
      BY <3>2, <2>1, <2>4, <1>2
  <2>6. QED
    BY <2>4, <2>5
<1>4. ASSUME Current = a PROVE IsFor(a)
  <2>1. args # <<>>
    BY <1>4, CurrentIsNext
  <2>2. Taken + 1 \in DOMAIN argv /\ Current = argv[Taken + 1]
    BY <2>1, CurrentIsNext
  <2>3. Taken + 1 \in Decisive
    BY <1>1, <1>2, <2>2 DEF Decisive
  <2>4. QED
    BY <1>4, <2>2, <2>3 DEF IsFor
<1>5. QED
  BY <1>3, <1>4 DEF IsFor

-----------------------------------------------------------------------------
(* Each step.                                                              *)

LEMMA Starts == Init => CliInv
<1> SUFFICES ASSUME Init PROVE CliInv
  OBVIOUS
<1>1. BufInv
  BY InitEstablishes DEF Init
<1>2. TypeOK
  <2>1. args \in Seq(Arg) /\ data \in Seq(Chars)
    BY CliAssumption DEF Init
  <2>2. QED
    BY <1>1, <2>1 DEF Init, TypeOK, BufInv
<1>3. ArgsInv
  <2>1. argv \in Seq(Arg) /\ args = argv /\ opts = {} /\ pc = "args" /\ Len(argv) \in Nat
    BY CliAssumption, LenProperties DEF Init
  <2>2. Taken = 0
    BY <2>1 DEF Taken
  <2>3. QED
    BY <2>1, <2>2 DEF ArgsInv
<1>4. Holding /\ Failing /\ Reading /\ Ending /\ (pc \in Freeing => "free" \in opts) /\ DocumentOutlives
  BY DEF Init, Holding, Failing, Reading, Ending, Freeing, InLibrary, DocumentOutlives
<1>5. QED
  BY <1>1, <1>2, <1>3, <1>4 DEF CliInv

LEMMA ParseFlagPreserves ==
  ASSUME CliInv, ParseFlag
  PROVE  CliInv'
<1>1. BufInv'
  BY StutterPreserves DEF CliInv, ParseFlag
<1>2. /\ args # <<>> /\ Len(args) >= 1 /\ Taken + 1 \in DOMAIN argv /\ Current = argv[Taken + 1]
      /\ args' = Tail(args) /\ opts' = opts \cup {Current} /\ argv' = argv
      /\ pc = "args" /\ pc' = "args" /\ Current \in Flags
  BY CurrentIsNext DEF ParseFlag, Rest, Current, Flags
<1>3. /\ argv \in Seq(Arg) /\ args \in Seq(Arg) /\ Len(argv) \in Nat /\ Len(args) \in Nat
      /\ args' \in Seq(Arg) /\ Len(args') = Len(args) - 1
      /\ \A n \in 1 .. Len(args) - 1 : args'[n] = args[n + 1]
  BY <1>2, ArgvType, HeadTailProperties
<1>4. TypeOK'
  BY <1>1, <1>2, <1>3 DEF CliInv, BufInv, TypeOK, ParseFlag
<1>5. ArgsInv'
  <2>1. /\ Taken \in Nat /\ \A n \in 1 .. Len(args) : args[n] = argv[Taken + n]
        /\ \A n \in 1 .. Taken : argv[n] \in Flags
        /\ opts = {argv[n] : n \in 1 .. Taken}
    BY DEF CliInv, ArgsInv
  <2>2. Taken' = Taken + 1
    BY <1>2, <1>3 DEF Taken
  <2>3. \A n \in 1 .. Len(args') : args'[n] = argv'[Taken' + n]
    <3>1. SUFFICES ASSUME NEW n \in 1 .. Len(args) - 1 PROVE args'[n] = argv[Taken + 1 + n]
      BY <1>2, <1>3, <2>2
    <3>2. n + 1 \in 1 .. Len(args) /\ Taken + (n + 1) = Taken + 1 + n
      BY <1>3, <2>1
    <3>3. QED
      BY <1>3, <2>1, <3>2
  <2>4. \A n \in 1 .. Taken' : argv'[n] \in Flags
    BY <1>2, <2>1, <2>2
  <2>5. opts' = {argv'[n] : n \in 1 .. Taken'}
    <3>1. 1 .. Taken + 1 = (1 .. Taken) \cup {Taken + 1}
      BY <2>1
    <3>2. opts' = {argv[n] : n \in 1 .. Taken} \cup {argv[Taken + 1]}
      BY <1>2, <2>1, Zenon
    <3>3. {argv[n] : n \in (1 .. Taken) \cup {Taken + 1}}
            = {argv[n] : n \in 1 .. Taken} \cup {argv[Taken + 1]}
      BY Zenon
    <3>4. opts' = {argv[n] : n \in 1 .. Taken + 1}
      BY <3>1, <3>2, <3>3, Zenon
    <3>5. {argv'[n] : n \in 1 .. Taken'} = {argv[n] : n \in 1 .. Taken + 1}
      <4> HIDE DEF Taken
      <4>1. QED
        BY <1>2, <2>2, Zenon
    <3>6. QED
      BY <3>4, <3>5, Zenon
  <2>6. QED
    <3>1. Taken' \in Nat
      BY <2>1, <2>2
    <3>2. pc' = "args"
      BY <1>2
    <3>3. QED
      BY <2>3, <2>4, <2>5, <3>1, <3>2, Zenon DEF ArgsInv
<1>6. Holding' /\ Failing' /\ Reading' /\ Ending' /\ (pc \in Freeing => "free" \in opts)' /\ DocumentOutlives'
  BY <1>2 DEF CliInv, ParseFlag, Holding, Failing, Reading, Ending, Freeing, InLibrary, DocumentOutlives
<1>7. QED
  BY <1>1, <1>4, <1>5, <1>6 DEF CliInv

LEMMA UsagePreserves ==
  ASSUME CliInv, Usage
  PROVE  CliInv'
<1>1. BufInv'
  BY StutterPreserves DEF CliInv, Usage, Exit
<1>2. TypeOK'
  BY <1>1 DEF CliInv, BufInv, TypeOK, Usage, Exit, ReadErrors, LibErrors
<1>3. ArgsInv'
  BY ArgsKept DEF CliInv, ArgsInv, Usage, Exit, Flags
<1>4. Holding' /\ Failing' /\ Reading' /\ Ending' /\ (pc \in Freeing => "free" \in opts)' /\ DocumentOutlives'
  BY DEF CliInv, TypeOK, ArgsInv, Usage, Exit, Current, ReadErrors, LibErrors,
         Holding, Failing, Reading, Ending, Freeing, InLibrary, DocumentOutlives
<1>5. QED
  BY <1>1, <1>2, <1>3, <1>4 DEF CliInv

LEMMA FileArgPreserves ==
  ASSUME CliInv, FileArg
  PROVE  CliInv'
<1>1. BufInv'
  BY StutterPreserves DEF CliInv, FileArg
<1>2. TypeOK'
  BY <1>1 DEF CliInv, BufInv, TypeOK, FileArg, ReadErrors, LibErrors
<1>3. ArgsInv'
  BY ArgsKept DEF CliInv, ArgsInv, FileArg, Flags
<1>4. Holding' /\ Failing' /\ Reading' /\ Ending' /\ (pc \in Freeing => "free" \in opts)' /\ DocumentOutlives'
  BY DEF CliInv, TypeOK, ArgsInv, FileArg, Current, ReadErrors, LibErrors,
         Holding, Failing, Reading, Ending, Freeing, InLibrary, DocumentOutlives
<1>5. QED
  BY <1>1, <1>2, <1>3, <1>4 DEF CliInv

LEMMA OpenPreserves ==
  ASSUME CliInv, Open
  PROVE  CliInv'
<1>1. BufInv'
  BY StutterPreserves DEF CliInv, Open, Exit
<1>2. TypeOK'
  BY <1>1 DEF CliInv, BufInv, TypeOK, Open, Exit, ReadErrors, LibErrors
<1>3. ArgsInv'
  BY ArgsKept DEF CliInv, ArgsInv, Open, Exit, Flags
<1>4. Holding' /\ Failing' /\ Reading' /\ Ending' /\ (pc \in Freeing => "free" \in opts)' /\ DocumentOutlives'
  BY DEF CliInv, TypeOK, ArgsInv, Open, Exit, Current, ReadErrors, LibErrors,
         Holding, Failing, Reading, Ending, Freeing, InLibrary, DocumentOutlives
<1>5. QED
  BY <1>1, <1>2, <1>3, <1>4 DEF CliInv

LEMMA FstatPreserves ==
  ASSUME CliInv, Fstat
  PROVE  CliInv'
<1>1. BufInv'
  BY StutterPreserves DEF CliInv, Fstat
<1>2. TypeOK'
  BY <1>1 DEF CliInv, BufInv, TypeOK, Fstat, Size, ReadErrors, LibErrors
<1>3. ArgsInv'
  BY ArgsKept DEF CliInv, ArgsInv, Fstat, Flags
<1>4. Holding' /\ Failing' /\ Reading' /\ Ending' /\ (pc \in Freeing => "free" \in opts)' /\ DocumentOutlives'
  BY DEF CliInv, TypeOK, ArgsInv, Fstat, Size, Current, ReadErrors, LibErrors,
         Holding, Failing, Reading, Ending, Freeing, InLibrary, DocumentOutlives
<1>5. QED
  BY <1>1, <1>2, <1>3, <1>4 DEF CliInv

LEMMA MallocPreserves ==
  ASSUME CliInv, Malloc
  PROVE  CliInv'
<1>1. BufInv'
  BY StutterPreserves DEF CliInv, Malloc, Exit
<1>2. TypeOK'
  BY <1>1 DEF CliInv, BufInv, TypeOK, Malloc, Exit, ReadErrors, LibErrors
<1>3. ArgsInv'
  BY ArgsKept DEF CliInv, ArgsInv, Malloc, Exit, Flags
<1>4. Holding' /\ Failing' /\ Reading' /\ Ending' /\ (pc \in Freeing => "free" \in opts)' /\ DocumentOutlives'
  <2>1. Holding' /\ DocumentOutlives'
    BY DEF CliInv, TypeOK, Malloc, Exit, Holding, Freeing, InLibrary, DocumentOutlives
  <2>2. Failing' /\ (pc \in Freeing => "free" \in opts)'
    BY DEF CliInv, Malloc, Exit, ReadErrors, LibErrors, Failing, Freeing
  <2>3. Reading'
    BY DEF CliInv, TypeOK, Malloc, Exit, Reading, InLibrary
  <2>4. Ending'
    <3>1. /\ Current' = Current /\ Current = "file" /\ live = {}
          /\ pc' = "exited" => live' = live /\ err' = "out_of_memory" /\ rc' = 1
      BY DEF CliInv, ArgsInv, Holding, Malloc, Exit, Current
    <3>2. QED
      BY <3>1 DEF Ending, ReadErrors, LibErrors
  <2>5. QED
    BY <2>1, <2>2, <2>3, <2>4
<1>5. QED
  BY <1>1, <1>2, <1>3, <1>4 DEF CliInv

LEMMA ReadPreserves ==
  ASSUME CliInv, Read
  PROVE  CliInv'
<1>1. BufInv'
  BY StutterPreserves DEF CliInv, Read, WholeRead
<1>2. TypeOK'
  <2>1. ASSUME NEW nread \in 0 .. (IF size < Len(file) THEN size ELSE Len(file))
        PROVE  SubSeq(file, 1, nread) \in Seq(Chars) /\ Len(SubSeq(file, 1, nread)) = nread
    <3>1. file \in Seq(Chars) /\ size \in Nat /\ Len(file) \in Nat
      BY CliAssumption, LenProperties DEF CliInv, TypeOK
    <3>2. nread \in 0 .. Len(file)
      BY <3>1
    <3>3. QED
      BY <3>1, <3>2, SubSeqProperties
  <2>2. data' \in Seq(Chars)
    BY <2>1 DEF CliInv, TypeOK, Read
  <2>3. QED
    BY <1>1, <2>2 DEF CliInv, BufInv, TypeOK, Read, ReadErrors
<1>3. ArgsInv'
  BY ArgsKept DEF CliInv, ArgsInv, Read, WholeRead, Flags
<1>4. Holding' /\ Failing' /\ Reading' /\ Ending' /\ (pc \in Freeing => "free" \in opts)' /\ DocumentOutlives'
  <2>1. Holding' /\ DocumentOutlives'
    BY DEF CliInv, TypeOK, Read, WholeRead, Holding, Freeing, InLibrary, DocumentOutlives
  <2>2. Failing' /\ (pc \in Freeing => "free" \in opts)'
    BY DEF CliInv, Read, WholeRead, ReadErrors, LibErrors, Failing, Freeing
  <2>3. Reading'
    <3>1. /\ pc = "read" /\ err = "none" /\ pc' = "cleanup" /\ writes' = writes /\ file' = file
          /\ size' = size /\ sized' = sized
          /\ (writes = 0 /\ sized => size = Len(file)) /\ (~sized => size = 0)
          /\ size \in Nat /\ file \in Seq(Chars) /\ Len(file) \in Nat
      BY CliAssumption, LenProperties DEF CliInv, TypeOK, Failing, Reading, Read
    <3>2. SUFFICES ASSUME err' = "none"
                   PROVE  /\ Len(data') = size
                          /\ (writes = 0 /\ sized => data' = file) /\ (~sized => data' = <<>>)
      BY <3>1 DEF Reading, InLibrary
    <3>3. size \in 0 .. Len(file) /\ data' = SubSeq(file, 1, size)
      BY <3>1, <3>2 DEF Read, WholeRead
    <3>4. Len(data') = size
      BY <3>1, <3>3, SubSeqProperties
    <3>5. ASSUME size = Len(file) PROVE data' = file
      BY <3>1, <3>3, <3>5, SubSeqFull
    <3>6. ASSUME size = 0 PROVE data' = <<>>
      BY <1>2, <3>4, <3>6, EmptySeq DEF TypeOK
    <3>7. QED
      BY <3>1, <3>4, <3>5, <3>6
  <2>4. Ending'
    BY DEF CliInv, TypeOK, ArgsInv, Read, WholeRead, Current, ReadErrors, LibErrors,
           Holding, Failing, Freeing, Ending
  <2>5. QED
    BY <2>1, <2>2, <2>3, <2>4
<1>5. QED
  BY <1>1, <1>2, <1>3, <1>4 DEF CliInv

LEMMA CleanupPreserves ==
  ASSUME CliInv, Cleanup
  PROVE  CliInv'
<1>1. BufInv'
  BY StutterPreserves DEF CliInv, Cleanup, Exit, FreedOnError
<1>2. TypeOK'
  BY <1>1 DEF CliInv, BufInv, TypeOK, Cleanup, Exit, FreedOnError, ReadErrors, LibErrors
<1>3. ArgsInv'
  BY ArgsKept DEF CliInv, ArgsInv, Cleanup, Exit, FreedOnError, Flags
<1>4. Holding' /\ Failing' /\ Reading' /\ Ending' /\ (pc \in Freeing => "free" \in opts)' /\ DocumentOutlives'
  BY DEF CliInv, TypeOK, ArgsInv, Cleanup, Exit, FreedOnError, Current, ReadErrors, LibErrors,
         Holding, Failing, Reading, Ending, Freeing, InLibrary, DocumentOutlives
<1>5. QED
  BY <1>1, <1>2, <1>3, <1>4 DEF CliInv

LEMMA WritePreserves ==
  ASSUME CliInv, Write
  PROVE  CliInv'
<1>1. BufInv'
  BY StutterPreserves DEF CliInv, Write
<1>2. TypeOK'
  BY <1>1 DEF CliInv, BufInv, TypeOK, Write, ReadErrors, LibErrors
<1>3. ArgsInv'
  BY ArgsKept DEF CliInv, ArgsInv, Write, Flags
<1>4. Holding' /\ Failing' /\ Reading' /\ Ending' /\ (pc \in Freeing => "free" \in opts)' /\ DocumentOutlives'
  BY DEF CliInv, TypeOK, ArgsInv, Write, Current, ReadErrors, LibErrors,
         Holding, Failing, Reading, Ending, Freeing, InLibrary, DocumentOutlives
<1>5. QED
  BY <1>1, <1>2, <1>3, <1>4 DEF CliInv

LEMMA AbortPreserves ==
  ASSUME CliInv, Abort
  PROVE  CliInv'
<1>1. BufInv'
  BY StutterPreserves DEF CliInv, Abort
<1>2. TypeOK'
  BY <1>1 DEF CliInv, BufInv, TypeOK, Abort, ReadErrors, LibErrors
<1>3. ArgsInv'
  BY ArgsKept DEF CliInv, ArgsInv, Abort, Flags
<1>4. Holding' /\ Failing' /\ Reading' /\ Ending' /\ (pc \in Freeing => "free" \in opts)' /\ DocumentOutlives'
  BY DEF CliInv, TypeOK, ArgsInv, Abort, Current, ReadErrors, LibErrors,
         Holding, Failing, Reading, Ending, Freeing, InLibrary, DocumentOutlives
<1>5. QED
  BY <1>1, <1>2, <1>3, <1>4 DEF CliInv

LEMMA ErrorfReturnsPreserves ==
  ASSUME CliInv, ErrorfReturns
  PROVE  CliInv'
<1>1. BufInv'
  BY StutterPreserves DEF CliInv, ErrorfReturns
<1>2. TypeOK'
  BY <1>1 DEF CliInv, BufInv, TypeOK, ErrorfReturns, ReadErrors, LibErrors
<1>3. ArgsInv'
  BY ArgsKept DEF CliInv, ArgsInv, ErrorfReturns, Flags
<1>4. Holding' /\ Failing' /\ Reading' /\ Ending' /\ (pc \in Freeing => "free" \in opts)' /\ DocumentOutlives'
  BY DEF CliInv, TypeOK, ArgsInv, ErrorfReturns, Current, ReadErrors, LibErrors,
         Holding, Failing, Reading, Ending, Freeing, InLibrary, DocumentOutlives
<1>5. QED
  BY <1>1, <1>2, <1>3, <1>4 DEF CliInv

LEMMA ReportPreserves ==
  ASSUME CliInv, Report
  PROVE  CliInv'
<1>1. BufInv'
  BY StutterPreserves DEF CliInv, Report, OneOnErrorUnlessPassed
<1>2. TypeOK'
  BY <1>1 DEF CliInv, BufInv, TypeOK, Report, OneOnErrorUnlessPassed, ReadErrors, LibErrors
<1>3. ArgsInv'
  BY ArgsKept DEF CliInv, ArgsInv, Report, OneOnErrorUnlessPassed, Flags
<1>4. Holding' /\ Failing' /\ Reading' /\ Ending' /\ (pc \in Freeing => "free" \in opts)' /\ DocumentOutlives'
  BY DEF CliInv, TypeOK, ArgsInv, Report, OneOnErrorUnlessPassed, Current, ReadErrors, LibErrors,
         Holding, Failing, Reading, Ending, Freeing, InLibrary, DocumentOutlives
<1>5. QED
  BY <1>1, <1>2, <1>3, <1>4 DEF CliInv

LEMMA DumpPreserves ==
  ASSUME CliInv, Dump
  PROVE  CliInv'
<1>1. BufInv'
  BY StutterPreserves DEF CliInv, Dump, Exit
<1>2. TypeOK'
  BY <1>1 DEF CliInv, BufInv, TypeOK, Dump, Exit, ReadErrors, LibErrors
<1>3. ArgsInv'
  BY ArgsKept DEF CliInv, ArgsInv, Dump, Exit, Flags
<1>4. Holding' /\ Failing' /\ Reading' /\ Ending' /\ (pc \in Freeing => "free" \in opts)' /\ DocumentOutlives'
  BY DEF CliInv, TypeOK, ArgsInv, Dump, Exit, Current, ReadErrors, LibErrors,
         Holding, Failing, Reading, Ending, Freeing, InLibrary, DocumentOutlives
<1>5. QED
  BY <1>1, <1>2, <1>3, <1>4 DEF CliInv

LEMMA FreeAllPreserves ==
  ASSUME CliInv, FreeAll
  PROVE  CliInv'
<1>1. BufInv'
  BY StutterPreserves DEF CliInv, FreeAll, FreeStep
<1>2. TypeOK'
  <2>1. /\ live' \subseteq live /\ pc' \in {"free_tokens", "free_data", "exited"}
        /\ UNCHANGED <<args, argv, opts, file, sized, writes, size, data, fd, err, rc, shown>>
    BY DEF FreeAll, FreeStep
  <2>2. QED
    BY <1>1, <2>1 DEF CliInv, BufInv, TypeOK
<1>3. ArgsInv'
  BY ArgsKept DEF CliInv, ArgsInv, FreeAll, FreeStep, Flags
<1>4. Holding' /\ Failing' /\ Reading' /\ Ending' /\ (pc \in Freeing => "free" \in opts)' /\ DocumentOutlives'
  <2>1. CASE FreeStep("free_table", "table", "free_tokens")
    <3>1. Holding' /\ DocumentOutlives'
      BY <2>1 DEF CliInv, TypeOK, FreeStep, Holding, Freeing, InLibrary, DocumentOutlives
    <3>2. Failing' /\ Reading' /\ (pc \in Freeing => "free" \in opts)'
      BY <2>1 DEF CliInv, FreeStep, Failing, Reading, Freeing, InLibrary
    <3>3. Ending'
      BY <2>1 DEF CliInv, TypeOK, ArgsInv, FreeStep, Current, LibErrors, ReadErrors,
             Holding, Failing, Freeing, InLibrary, Ending
    <3>4. QED
      BY <3>1, <3>2, <3>3
  <2>2. CASE FreeStep("free_tokens", "tokens", "free_data")
    <3>1. Holding' /\ DocumentOutlives'
      BY <2>2 DEF CliInv, TypeOK, FreeStep, Holding, Freeing, InLibrary, DocumentOutlives
    <3>2. Failing' /\ Reading' /\ (pc \in Freeing => "free" \in opts)'
      BY <2>2 DEF CliInv, FreeStep, Failing, Reading, Freeing, InLibrary
    <3>3. Ending'
      BY <2>2 DEF CliInv, TypeOK, ArgsInv, FreeStep, Current, LibErrors, ReadErrors,
             Holding, Failing, Freeing, InLibrary, Ending
    <3>4. QED
      BY <3>1, <3>2, <3>3
  <2>3. CASE FreeStep("free_data", "data", "exited")
    <3>1. Holding' /\ DocumentOutlives'
      BY <2>3 DEF CliInv, TypeOK, FreeStep, Holding, Freeing, InLibrary, DocumentOutlives
    <3>2. Failing' /\ Reading' /\ (pc \in Freeing => "free" \in opts)'
      BY <2>3 DEF CliInv, FreeStep, Failing, Reading, Freeing, InLibrary
    <3>3. Ending'
      BY <2>3 DEF CliInv, TypeOK, ArgsInv, FreeStep, Current, LibErrors, ReadErrors,
             Holding, Failing, Freeing, InLibrary, Ending
    <3>4. QED
      BY <3>1, <3>2, <3>3
  <2>4. QED
    BY <2>1, <2>2, <2>3 DEF FreeAll
<1>5. QED
  BY <1>1, <1>2, <1>3, <1>4 DEF CliInv

\* The texts of an error, with or without the file and the line.
LEMMA ErrorTexts ==
  ASSUME NEW by \in {"scan", "parse"}, NEW r \in Reports[by], NEW noFile \in BOOLEAN
  PROVE  (IF noFile THEN <<>> ELSE <<Name>>) \o <<Tag(by), r>> \in Messages
<1>1. Name \in Seq(Chars) /\ Tag(by) \in Seq(Chars) /\ r \in Seq(Chars)
  BY CliAssumption
<1> DEFINE prefix  == IF noFile THEN <<>> ELSE <<Name>>
           message == <<Tag(by), r>>
<1>2. message \in Seq(Seq(Chars)) /\ Len(message) = 2
  BY <1>1
<1>3. prefix \in Seq(Seq(Chars)) /\ Len(prefix) \in {0, 1}
  BY <1>1
<1> HIDE DEF prefix, message
<1>4. prefix \o message \in Seq(Seq(Chars)) /\ Len(prefix \o message) = Len(prefix) + Len(message)
  BY <1>2, <1>3, ConcatProperties
<1>5. prefix \o message \in Messages
  <2>1. Len(prefix \o message) \in {2, 3}
    <3>1. Len(prefix) = 0 \/ Len(prefix) = 1
      BY <1>3
    <3>2. Len(prefix \o message) = Len(prefix) + 2
      BY <1>2, <1>4, Zenon
    <3>3. 0 + 2 = 2 /\ 1 + 2 = 3
      OBVIOUS
    <3>4. QED
      BY <3>1, <3>2, <3>3, Zenon
  <2>2. QED
    BY <1>4, <2>1, Zenon DEF Messages
<1>6. QED
  BY <1>5 DEF prefix, message

LEMMA ScanPreserves ==
  ASSUME CliInv, Scan
  PROVE  CliInv'
<1>1. /\ pc = "scan" /\ live' \in {live, live \cup {"tokens"}}
      /\ \/ pc' \in {"report", "parse"} /\ err' = err /\ UNCHANGED errvars
         \/ /\ pc' = "errorf" /\ err' = "scan"
            /\ \E ts \in Messages : Errorf(ts)
      /\ UNCHANGED <<args, argv, opts, file, sized, writes, size, data, fd, rc, shown>>
  <2>1. ("no_file" \in opts) \in BOOLEAN
    OBVIOUS
  <2>2. QED
    BY <2>1, ErrorTexts DEF Scan, Library
<1>2. BufInv'
  BY <1>1, StutterPreserves, ErrorfPreserves DEF CliInv
<1>3. TypeOK'
  BY <1>1, <1>2 DEF CliInv, BufInv, TypeOK, LibErrors
<1>4. ArgsInv'
  BY <1>1, ArgsKept DEF CliInv, ArgsInv
<1>5. Holding' /\ DocumentOutlives'
  BY <1>1 DEF CliInv, TypeOK, Holding, Freeing, InLibrary, DocumentOutlives
<1>6. Failing' /\ (pc \in Freeing => "free" \in opts)'
  BY <1>1 DEF CliInv, LibErrors, Failing, Freeing
<1>7. Reading' /\ Ending'
  BY <1>1 DEF CliInv, Reading, Ending, InLibrary
<1>8. QED
  BY <1>2, <1>3, <1>4, <1>5, <1>6, <1>7 DEF CliInv

LEMMA ParsePreserves ==
  ASSUME CliInv, Parse
  PROVE  CliInv'
<1>1. /\ pc = "parse" /\ live' \in {live, live \cup {"table"}}
      /\ \/ pc' \in {"report"} /\ err' = err /\ UNCHANGED errvars
         \/ /\ pc' = "errorf" /\ err' = "parse"
            /\ \E ts \in Messages : Errorf(ts)
      /\ UNCHANGED <<args, argv, opts, file, sized, writes, size, data, fd, rc, shown>>
  <2>1. ("no_file" \in opts) \in BOOLEAN
    OBVIOUS
  <2>2. QED
    BY <2>1, ErrorTexts DEF Parse, Library
<1>2. BufInv'
  BY <1>1, StutterPreserves, ErrorfPreserves DEF CliInv
<1>3. TypeOK'
  BY <1>1, <1>2 DEF CliInv, BufInv, TypeOK, LibErrors
<1>4. ArgsInv'
  BY <1>1, ArgsKept DEF CliInv, ArgsInv
<1>5. Holding' /\ DocumentOutlives'
  BY <1>1 DEF CliInv, TypeOK, Holding, Freeing, InLibrary, DocumentOutlives
<1>6. Failing' /\ (pc \in Freeing => "free" \in opts)'
  BY <1>1 DEF CliInv, LibErrors, Failing, Freeing
<1>7. Reading' /\ Ending'
  BY <1>1 DEF CliInv, Reading, Ending, InLibrary
<1>8. QED
  BY <1>2, <1>3, <1>4, <1>5, <1>6, <1>7 DEF CliInv

\* A step that changes at most the buffer.
LEMMA MainWaits ==
  ASSUME CliInv, BufInv', UNCHANGED clivars
  PROVE  CliInv'
<1>1. /\ args' = args /\ argv' = argv /\ opts' = opts /\ file' = file /\ sized' = sized
      /\ writes' = writes /\ size' = size /\ data' = data /\ fd' = fd /\ live' = live
      /\ err' = err /\ rc' = rc /\ shown' = shown /\ pc' = pc
  BY DEF clivars
<1>2. TypeOK'
  BY <1>1 DEF CliInv, BufInv, TypeOK
<1>3. ArgsInv'
  BY <1>1, ArgsKept DEF CliInv, ArgsInv
<1>4. Holding' /\ DocumentOutlives' /\ (pc \in Freeing => "free" \in opts)'
  BY <1>1 DEF CliInv, Holding, DocumentOutlives, Freeing, InLibrary
<1>5. Failing' /\ Reading'
  BY <1>1 DEF CliInv, Failing, Reading, Freeing, InLibrary
<1>6. Ending'
  BY <1>1 DEF CliInv, Ending, Current
<1>7. QED
  BY <1>2, <1>3, <1>4, <1>5, <1>6 DEF CliInv

LEMMA FormatPreserves ==
  ASSUME CliInv, Format
  PROVE  CliInv'
<1>1. BufInv'
  BY SnprintfPreserves DEF CliInv, Format
<1>2. QED
  BY <1>1, MainWaits DEF Format

LEMMA IdlePreserves ==
  ASSUME CliInv, UNCHANGED vars
  PROVE  CliInv'
<1>1. UNCHANGED clivars /\ UNCHANGED errvars
  BY DEF vars
<1>2. BufInv'
  BY <1>1, StutterPreserves DEF CliInv
<1>3. QED
  BY <1>1, <1>2, MainWaits

LEMMA EachStepPreserves == CliInv /\ [Next]_vars => CliInv'
<1> SUFFICES ASSUME CliInv, [Next]_vars PROVE CliInv'
  OBVIOUS
<1>1. CASE Step
  BY <1>1, ParseFlagPreserves, UsagePreserves, FileArgPreserves, OpenPreserves, FstatPreserves,
     MallocPreserves, ReadPreserves, CleanupPreserves, ScanPreserves, ParsePreserves,
     FormatPreserves, AbortPreserves, ErrorfReturnsPreserves, ReportPreserves, DumpPreserves,
     FreeAllPreserves, Zenon DEF Step
<1>2. CASE Write
  BY <1>2, WritePreserves
<1>3. CASE UNCHANGED vars
  BY <1>3, IdlePreserves
<1>4. QED
  BY <1>1, <1>2, <1>3 DEF Next

-----------------------------------------------------------------------------

LEMMA CliInvHolds == Spec => []CliInv
<1>1. QED
  BY Starts, EachStepPreserves, PTL DEF Spec

\* The variables of main, read_file and the error buffer keep their types,
\* whatever the arguments, the file, its writer and the system do.
THEOREM CliTypes == Spec => []TypeOK
<1>1. CliInv => TypeOK
  BY DEF CliInv
<1>2. QED
  BY <1>1, CliInvHolds, PTL

\* The exit code is 0 exactly for a request for help, and for a file that was
\* read and is free of errors or was read with -no-err, judged by the whole
\* command line, although main decides it flag by flag.  It is not what the usage
\* text says: a file that cannot be read makes kevs exit with 1 under -no-err too.
THEOREM ExitCodeIsRight == Spec => []ExitCode
<1>1. ASSUME CliInv, pc = "exited"
      PROVE  /\ rc = 0 <=> \/ IsFor("help")
                           \/ IsFor("file") /\ (err = "none" \/ (err \in LibErrors /\ Asked("no_err")))
             /\ err \in LibErrors => ~Asked("abort")
  <2>1. /\ IsFor("help") <=> Current = "help"
        /\ IsFor("file") <=> Current = "file"
        /\ Asked("no_err") <=> "no_err" \in opts
        /\ Asked("abort") <=> "abort" \in opts
    BY <1>1, AskedIsSeen, CurrentDecides
  <2>2. \/ /\ Current \in {"none", "help", "unknown"} /\ err = "none"
           /\ rc = 0 <=> Current = "help"
        \/ /\ Current = "file"
           /\ rc = 0 <=> err = "none" \/ (err \in LibErrors /\ "no_err" \in opts)
           /\ err \in LibErrors => "abort" \notin opts
    BY <1>1 DEF CliInv, Ending
  <2>3. QED
    BY <2>1, <2>2 DEF LibErrors
<1>2. CliInv => ExitCode
  BY <1>1 DEF ExitCode
<1>3. QED
  BY <1>2, CliInvHolds, PTL

\* scan and parse get the file, or as much as it was said to hold, never a part
\* of the buffer that read did not fill.
THEOREM DataIsWhatWasRead == Spec => []DataIsFile
<1>1. CliInv => DataIsFile
  BY DEF CliInv, Reading, InLibrary, DataIsFile
<1>2. QED
  BY <1>1, CliInvHolds, PTL

\* main and read_file give back what they took, whichever call of the system
\* fails: the descriptor, the buffer, and with -free the tokens and the table.
THEOREM EverythingIsReleased == Spec => []NothingHeld
<1>1. ASSUME CliInv, pc = "exited"
      PROVE  /\ fd => err = "out_of_memory"
             /\ err \in ReadErrors \/ Asked("free") => live = {}
  <2>1. Asked("free") <=> "free" \in opts
    BY <1>1, AskedIsSeen
  <2>2. QED
    BY <1>1, <2>1 DEF CliInv, Ending
<1>2. CliInv => NothingHeld
  BY <1>1 DEF NothingHeld
<1>3. QED
  BY <1>2, CliInvHolds, PTL

\* As long as there are tokens or a table, the document they point into is there.
THEOREM DocumentStays == Spec => []DocumentOutlives
<1>1. CliInv => DocumentOutlives
  BY DEF CliInv
<1>2. QED
  BY <1>1, CliInvHolds, PTL

\* What the command line prints of an error is the whole message.
THEOREM CliMessages == Spec => []MessageWhole
<1>1. CliInv => MessageWhole
  BY DEF CliInv, BufInv
<1>2. QED
  BY <1>1, CliInvHolds, PTL

=============================================================================
