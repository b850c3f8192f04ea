--------------------------------- MODULE Cli ---------------------------------
(***************************************************************************)
(* The command line: main() of src/c/cli.c and read_file() of              *)
(* src/c/util.c, with the operating system's answers, and somebody else    *)
(* who may write to the file in the meantime.                              *)
(*                                                                         *)
(* scan and parse are replaced by their outcomes: no error, or a message   *)
(* of some length for ErrBuf; either may leave memory behind, as KevsParse *)
(* shows.                                                                  *)
(***************************************************************************)
EXTENDS ErrBuf

CONSTANTS
  Args,       \* the command lines
  Contents,   \* what may be in the file
  Name,       \* "file:line: " as it is printed
  Reports     \* the messages of scan, and those of parse, which quote the document

Flags   == {"abort", "scan", "dump", "no_err", "free", "no_file"}
Arg     == Flags \cup {"help", "unknown", "file"}
Tag(by) == IF by = "scan" THEN <<"s">> ELSE <<"p">>

ASSUME CliAssumption ==
  /\ Args \subseteq Seq(Arg) /\ Contents \subseteq Seq(Chars)
  /\ Name \in Seq(Chars) /\ Reports \in [{"scan", "parse"} -> SUBSET Seq(Chars)]
  /\ \A by \in {"scan", "parse"} : Tag(by) \in Seq(Chars)

VARIABLES
  args,      \* what is left of argv
  argv,      \* all of it
  opts,      \* the flags that were seen
  file,      \* what is in the file now, or what comes out of the pipe
  sized,     \* does st_size say how much that is
  writes,    \* how often somebody else wrote to it
  size,      \* st_size
  data,      \* the buffer, once it is filled
  fd,        \* is the descriptor open
  live,      \* what is allocated: data, the token array, the table
  err,       \* which call failed, or "none"
  rc,        \* the exit code
  shown,     \* what -dump printed
  pc

clivars == <<args, argv, opts, file, sized, writes, size, data, fd, live, err, rc, shown, pc>>
vars == <<clivars, errvars>>

\* The calls that can fail.  The last two are those of the library.
ReadErrors == {"open", "fstat", "out_of_memory", "read", "short_read"}
LibErrors  == {"scan", "parse"}

TypeOK ==
  /\ ErrTypeOK
  /\ args \in Seq(Arg) /\ argv \in Args /\ opts \subseteq Flags
  /\ file \in Contents /\ sized \in BOOLEAN /\ writes \in Nat /\ size \in Nat /\ data \in Seq(Chars)
  /\ fd \in BOOLEAN /\ live \subseteq {"data", "tokens", "table"}
  /\ err \in ReadErrors \cup LibErrors \cup {"none"}
  /\ rc \in {0, 1} /\ shown \in {"nothing", "tokens", "table"}
  /\ pc \in {"args", "open", "fstat", "malloc", "read", "cleanup", "close", "scan", "parse",
             "errorf", "report", "dump", "free_table", "free_tokens", "free_data",
             "exited", "aborted"}

Init ==
  /\ argv \in Args /\ args = argv /\ opts = {}
  /\ file \in Contents /\ sized \in BOOLEAN /\ writes = 0 /\ size = 0 /\ data = <<>>
  /\ fd = FALSE /\ live = {} /\ err = "none" /\ rc = 0 /\ shown = "nothing"
  /\ pc = "args"
  /\ ErrInit

Exit(code) == pc' = "exited" /\ rc' = code

-----------------------------------------------------------------------------
(* The arguments.                                                          *)

\* args[args_index], while there is one.
Current == IF args = <<>> THEN "none" ELSE Head(args)

\* Mutant: args_index++ is forgotten.
SameArg == args
Rest == Tail(args)

ParseFlag ==
  /\ pc = "args" /\ Current \in Flags
  /\ opts' = opts \cup {Current}
  /\ args' = Rest
  /\ UNCHANGED <<argv, file, sized, writes, size, data, fd, live, err, rc, shown, pc, errvars>>

\* usage() and return: for -help, for an unknown option, without a file.
Usage ==
  /\ pc = "args" /\ Current \in {"none", "help", "unknown"}
  /\ Exit(IF Current = "help" THEN 0 ELSE 1)
  /\ UNCHANGED <<args, argv, opts, file, sized, writes, size, data, fd, live, err, shown, errvars>>

\* The first argument that is no option is the file; the others are ignored.
FileArg ==
  /\ pc = "args" /\ Current = "file"
  /\ pc' = "open"
  /\ UNCHANGED <<args, argv, opts, file, sized, writes, size, data, fd, live, err, rc, shown,
                 errvars>>

-----------------------------------------------------------------------------
(* read_file.                                                              *)

Open ==
  /\ pc = "open"
  /\ \/ fd' = TRUE /\ pc' = "fstat" /\ UNCHANGED <<err, rc>>
     \/ err' = "open" /\ Exit(1) /\ UNCHANGED fd
  /\ UNCHANGED <<args, argv, opts, file, sized, writes, size, data, live, shown, errvars>>

\* st_size of a pipe, of a terminal, and of a file under /proc is 0.
Size == IF sized THEN Len(file) ELSE 0

Fstat ==
  /\ pc = "fstat"
  /\ \/ size' = Size /\ pc' = "malloc" /\ UNCHANGED err
     \/ err' = "fstat" /\ pc' = "cleanup" /\ UNCHANGED size
  /\ UNCHANGED <<args, argv, opts, file, sized, writes, data, fd, live, rc, shown, errvars>>

\* Without memory read_file returns, and does not close the file.
Malloc ==
  /\ pc = "malloc"
  /\ \/ live' = {"data"} /\ pc' = "read" /\ UNCHANGED <<err, rc>>
     \/ err' = "out_of_memory" /\ Exit(1) /\ UNCHANGED live
  /\ UNCHANGED <<args, argv, opts, file, sized, writes, size, data, fd, shown, errvars>>

\* Mutant: whatever was read is the file.
AnyRead(nread) == TRUE
WholeRead(nread) == nread = size

\* One read, of as much as there is, or less.
Read ==
  /\ pc = "read"
  /\ pc' = "cleanup"
  /\ \/ err' = "read" /\ UNCHANGED data
     \/ \E nread \in 0 .. (IF size < Len(file) THEN size ELSE Len(file)) :
          IF WholeRead(nread)
          THEN data' = SubSeq(file, 1, nread) /\ UNCHANGED err
          ELSE err' = "short_read" /\ UNCHANGED data
  /\ UNCHANGED <<args, argv, opts, file, sized, writes, size, fd, live, rc, shown, errvars>>

\* Mutant: the buffer is freed only by the caller.
NotFreed == live
FreedOnError == IF err # "none" THEN live \ {"data"} ELSE live

\* The label cleanup; main gives up if there was an error.
Cleanup ==
  /\ pc = "cleanup"
  /\ live' = FreedOnError
  /\ fd' = FALSE
  /\ IF err # "none" THEN Exit(1) ELSE pc' = "scan" /\ UNCHANGED rc
  /\ UNCHANGED <<args, argv, opts, file, sized, writes, size, data, err, shown, errvars>>

\* Somebody else writes to the file while read_file is at it.
Write ==
  /\ pc \in {"open", "fstat", "malloc", "read"} /\ writes = 0
  /\ file' \in Contents /\ writes' = writes + 1
  /\ UNCHANGED <<args, argv, opts, sized, size, data, fd, live, err, rc, shown, pc, errvars>>

-----------------------------------------------------------------------------
(* The library.                                                            *)

\* Without a character scan does nothing, and without a token parse.
HasInput(by) == IF by = "scan" THEN data # <<>> ELSE "tokens" \in live

\* scan or parse returns, or calls its errorf; what it allocated stays.
Library(by, memory, next) ==
  /\ pc = by
  /\ live' \in {live} \cup (IF HasInput(by) THEN {live \cup {memory}} ELSE {})
  /\ \/ pc' = next /\ UNCHANGED <<err, errvars>>
     \/ /\ HasInput(by)
        /\ err' = by /\ pc' = "errorf"
        /\ \E r \in Reports[by] :
             Errorf((IF "no_file" \in opts THEN <<>> ELSE <<Name>>) \o <<Tag(by), r>>)
  /\ UNCHANGED <<args, argv, opts, file, sized, writes, size, data, fd, rc, shown>>

Scan == Library("scan", "tokens", IF "scan" \in opts THEN "report" ELSE "parse")
Parse == Library("parse", "table", "report")

Format ==
  /\ pc = "errorf" /\ Snprintf
  /\ UNCHANGED clivars

\* An assertion that fails, or the abort() that -abort asks for.
Abort ==
  /\ pc = "errorf" /\ (errorf = "asserted" \/ (errorf = "returned" /\ "abort" \in opts))
  /\ pc' = "aborted"
  /\ UNCHANGED <<args, argv, opts, file, sized, writes, size, data, fd, live, err, rc, shown,
                 errvars>>

ErrorfReturns ==
  /\ pc = "errorf" /\ errorf = "returned" /\ "abort" \notin opts
  /\ pc' = "report"
  /\ UNCHANGED <<args, argv, opts, file, sized, writes, size, data, fd, live, err, rc, shown,
                 errvars>>

-----------------------------------------------------------------------------
(* The rest of main.                                                       *)

\* Mutant: -no-err is forgotten.
OneOnError == IF err # "none" THEN 1 ELSE rc
OneOnErrorUnlessPassed == IF err # "none" /\ "no_err" \notin opts THEN 1 ELSE rc

Report ==
  /\ pc = "report"
  /\ rc' = OneOnErrorUnlessPassed
  /\ pc' = "dump"
  /\ UNCHANGED <<args, argv, opts, file, sized, writes, size, data, fd, live, err, shown, errvars>>

\* Whatever there is is dumped, after an error too.
Dump ==
  /\ pc = "dump"
  /\ shown' = IF "dump" \notin opts THEN "nothing" ELSE IF "scan" \in opts THEN "tokens" ELSE "table"
  /\ IF "free" \in opts THEN pc' = "free_table" /\ UNCHANGED rc ELSE Exit(rc)
  /\ UNCHANGED <<args, argv, opts, file, sized, writes, size, data, fd, live, err, errvars>>

FreeStep(from, memory, to) ==
  /\ pc = from
  /\ live' = live \ {memory}
  /\ pc' = to
  /\ UNCHANGED <<args, argv, opts, file, sized, writes, size, data, fd, err, rc, shown, errvars>>

\* Mutant: the document is freed first.
FreeDataFirst ==
  \/ FreeStep("free_table", "data", "free_tokens")
  \/ FreeStep("free_tokens", "tokens", "free_data")
  \/ FreeStep("free_data", "table", "exited")

\* kevs_free, then the tokens, then the document that both point into.
FreeAll ==
  \/ FreeStep("free_table", "table", "free_tokens")
  \/ FreeStep("free_tokens", "tokens", "free_data")
  \/ FreeStep("free_data", "data", "exited")

-----------------------------------------------------------------------------

Step ==
  \/ ParseFlag \/ Usage \/ FileArg
  \/ Open \/ Fstat \/ Malloc \/ Read \/ Cleanup
  \/ Scan \/ Parse \/ Format \/ Abort \/ ErrorfReturns
  \/ Report \/ Dump \/ FreeAll

Next == Step \/ Write

\* The program runs until it exits; nobody has to write to its file.
Spec == Init /\ [][Next]_vars /\ WF_vars(Step)

-----------------------------------------------------------------------------
(* What kevs does, against the whole command line.                         *)

\* The first argument that is no flag decides; flags behind it do not count.
Decisive == {n \in DOMAIN argv : argv[n] \notin Flags /\ \A m \in 1 .. n - 1 : argv[m] \in Flags}
IsFor(a) == \E n \in Decisive : argv[n] = a
Asked(f) == \E n \in DOMAIN argv : argv[n] = f /\ \A m \in 1 .. n : argv[m] \in Flags

\* kevs exits with 0 exactly if it was asked for help, or if the document was
\* read and is free of errors, or if it was read and -no-err was given.  A file
\* that cannot be read makes it exit with 1, -no-err or not: that is what main
\* does, and not what the usage text says (see NoErrExitsZero).  An error of the
\* document under -abort does not exit at all.
ExitCode ==
  pc = "exited" =>
    /\ rc = 0 <=> \/ IsFor("help")
                  \/ IsFor("file") /\ (err = "none" \/ (err \in LibErrors /\ Asked("no_err")))
    /\ err \in LibErrors => ~Asked("abort")

\* What scan and parse are given is the file, all of it, or, if somebody wrote
\* to it since, as much as it was said to hold; never a part of the buffer that
\* was not read.  Where st_size is 0 whatever there is to read, as of a pipe,
\* they are given an empty document.
DataIsFile ==
  pc \in {"scan", "parse", "errorf", "report", "dump"} =>
    /\ Len(data) = size
    /\ writes = 0 /\ sized => data = file
    /\ ~sized => data = <<>>

\* At exit the descriptor is closed, except without memory, where read_file
\* leaves it open; a read that failed leaves nothing allocated; and with -free
\* nothing is left at all, whichever call failed.
NothingHeld ==
  pc = "exited" =>
    /\ fd => err = "out_of_memory"
    /\ err \in ReadErrors \/ Asked("free") => live = {}

\* Tokens and keys point into the document, which therefore outlives them.
DocumentOutlives == live \cap {"tokens", "table"} # {} => "data" \in live

\* main returns or aborts, whatever the system answers.
Termination == <>(pc \in {"exited", "aborted"})

\* The usage text (cli.c:18) says that it is -abort that makes an error abort.
AbortsOnlyOnRequest == pc = "aborted" => Asked("abort")

\* The usage text (cli.c:21) says that with -no-err kevs exits with 0 even if an
\* error was encountered.
NoErrExitsZero == pc = "exited" /\ IsFor("file") /\ Asked("no_err") => rc = 0

=============================================================================
