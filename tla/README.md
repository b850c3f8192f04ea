# KEVS in TLA+

A verification development of [KEVS](../src/readme.md), a configuration format
(`key = value;`), and of its C library `src/c/kevs.c`.  Line numbers below are
those of that file unless another one is named.

- [The program](#the-program): the inventory, what is hard, what correctness means
- [The modules](#the-modules): how state and actions correspond to the code
- [The runs](#the-runs): what TLC checks, the bounds, the fairness
- [The proofs](#the-proofs): what holds for all values of the constants
- [Findings](#findings)
- [What is left out](#what-is-left-out), and the [plan](#plan)

## The program

`kevs_parse` takes a document, scans it into an array of tokens, parses the
tokens into a tree of tables, lists and values, and frees the tokens.  The caller
reads the tree with the lookups, may parse another document into the same table,
and hands it to `kevs_free`.  The command line `kevs` reads a file, calls the
library, dumps what it got and frees it.  One thread runs all of it; nothing is
persisted; there are no callbacks; the only other actor is whoever writes to the
file while `kevs` reads it.  What is hard here is not interleaving but position
arithmetic, three mutually recursive loops whose tests come in three different
orders, memory that is moved while it is being filled and freed from the middle
of a failed descent, and integers at the end of their type.

| component | code | state | operations | talks to |
|---|---|---|---|---|
| String helpers | 9-175 | none | search, trim, slice, count | used by all |
| Scanner | 457-857 | the rest of the document, the line, the token array | `scan` and the `scan_*` functions | emits tokens for the parser |
| Integer conversion | 177-292 | the number so far | `str_to_int`, `str_to_uint` | called by the parser and by `str_norm` |
| String normalization | 294-455 | index, output buffer | `str_norm`, `ucs_to_utf8` | called by the parser |
| Parser | 498-529, 859-1193 | token index, the tree under construction, the heap | `parse`, `parse_*`, `list_append`, `table_append`, `value_free`, `list_free`, `kevs_free`, `kevs_parse` | reads tokens, returns the tree |
| Error buffer | 543-577, 908-943 | the caller's buffer | `scan_errorf`, `parse_errorf` | called by scanner and parser |
| Lookups | 1195-1356 | none | `kevs_table_*`, `kevs_list_*` | read the tree |
| Command line and file reading | `cli.c`, `util.c` | the arguments left, the flags, the descriptor, the buffer, what is allocated, the exit code | `main`, `read_file`, `table_dump`, `list_dump` | calls the library and the system |
| Python implementation | `src/py/kevs.py`, `src/py/kevs` | as scanner and parser | `scan`, `parse` | independent of the C code |
| Development tool | `scripts/dev.go` | working files, fuzzing corpus | build, test, fuzz | runs programs |
| Unit tests, fuzzer, examples; build files, test data | `unittests.c`, `fuzzer.c`, `example.c`, `examples/`, `testdata/` | none | drivers of the library | call it |

What makes each of them correct:

- **Scanner.** It returns for every document; it loses no text and reads none
  twice; its tokens are ones the parser can use without checking (a quoted token
  is closed, a key is not empty, brackets nest); the line it reports is the line
  it is on; documents written as the readme says are accepted.
- **Integer conversion.** Exactly the numbers that fit are accepted, and they are
  converted exactly, at both ends of the type, although the code tests for
  overflow by doing unsigned arithmetic that may wrap.
- **String normalization.** Escape sequences are replaced by what they stand for,
  in a buffer that is never outgrown, without looking past the slice.
- **Parser.** It accepts exactly the token streams that mean something (keys
  unique in *their* table, values readable), and the tree is the document; every
  block has one owner at each moment, through `realloc` of arrays under
  construction and through failure at any depth; nothing is left after
  `kevs_free`, whether parsing failed or not.
- **Lookups and dumps.** Each value of the document is found under the keys and
  indices that lead to it there, as its own kind and no other; what was handed out
  stays where it is until `kevs_free`, through later calls of `kevs_parse` too.
- **Error buffer.** The caller gets whole messages, of which nothing earlier is
  left; an assertion fails only on a message that does not fit.
- **Command line.** The exit code follows from the whole command line and from which
  call failed, as the usage text says but for a file that cannot be read (see
  [Findings](#findings)); what is parsed is what is in the file; what is allocated or open is
  released, on the error paths as well, and the document outlives what points
  into it.
- **Scanner and parser together.** `parse_errorf` reads the line of the current
  token even when it reports that there is none (916).  Only the scanner's order
  of tokens keeps the parser from getting there: the two agree on a grammar that
  neither states.

The hazards, each at its line, are listed in `PROJECT.json` with the properties
that would catch them.

## The modules

```
Delims ── KevsStr ─┬─ Scanner ─────┬─ ScannerProps ─┬─ MCScanner
   │               │               │                ├─ PyScanner ── MCPyScanner
   │               └─ DocGrammar ──┘                └─ ScannerProofs ── PyScannerProofs
   │                     └─ WellFormedDocs  (for MCScanner)
   ├── TokenGrammar  (what scanner and parser agree on)
   └── Parser ─┬─ KevsParse ── Meaning ─┬─ Answers ── KevsParseProps ── MCKevsParse
               ├─ Lookups ─────── Dump ─┘                  │
               └─ PyParser ────────────────────────────────┘
KevsParse ── ParserProofs ── KevsParseProofs (with Meaning) ── AnswersProofs (with KevsParseProps)
StrToInt ── StrToIntRef ── MCStrToInt,  StrToIntProofs
Utf8 ── StrNorm ── StrNormRef ── MCStrNorm,  StrNormProofs
ErrBuf ── Cli ── MCCli,  CliProofs
```

`ScannerProps` refines `TokenGrammar` (INSTANCE with a refinement mapping), and
`KevsParse` composes the parser with `TokenGrammar` in the place of the scanner:
every stream any document can give rise to is emitted by the grammar, so the
parser is checked against all of them and not against those of some documents.
`Parser`, in turn, takes what `str_norm` and `str_to_int` make of a text as a
constant (`Class`), and what `is_identifier` makes of a key (`ValidKeys`); `StrNorm` and
`StrToInt` are checked on their own.  `Cli`
runs the error buffer of `ErrBuf` and replaces `scan` and `parse` by their
outcomes: no error or some message, and memory left behind or not.

**`KevsStr`.**  A `KevsStr` of the code is a pointer and a length; here the
document is a sequence and a slice of it is a first index and a length.  `Space`
stands for the two characters of the cutset `" \t"`, `Other` for every byte that
means nothing to the scanner.  An index of -1 is 0.

**`Scanner`.**  `pos` and `content` together are `Scanner.content`, `line` and
`tokens` are the fields of those names.  The C functions call each other
recursively; the call stack is explicit: `stack` holds the lists and tables being
scanned and `pc` the function that runs next.  An action is one function or one
alternative of it, with everything it calls that is not recursive:

| action | code |
|---|---|
| `ScanNewline`, `ScanComment` | `scan_newline`, `scan_comment`, with the `scanner_trim_space` before |
| `ScanUnclosed`, `ScanClose`, `AfterItem` | the other tests of the loops of `scan_list_value`, `scan_table_value` |
| `ScanKey`, `ScanSeparator` | `scan_key`, and the separator in `scan_key_value` |
| `ScanListBegin`, `ScanTableBegin` | entry of the two functions |
| `ScanString`, `ScanRawString`, `ScanIntOrBool` | `scan_string_value`, `scan_raw_string`, `scan_int_or_bool_value` |
| `ScanValueEnd` | the `scan_delim` at the end of `scan_value` |
| `Done` | the end of `scan` |

`scan` tests for the end of the document *before* it trims spaces, the two other
loops after; `AtDocumentEnd` and `ScanUnclosed` keep that difference.

**`PyScanner`.**  The scanner of `kevs.py` is that of `kevs.c`, method for method,
but for `scan_string_value`, which finds the closing quote and then *searches* for
the text after it to learn how long the token is.  The module groups `Scanner`'s
actions by the Python methods that perform them and adds `PyScanString`.

**`TokenGrammar`.**  The stream, the brackets open, and what may come next.

**`DocGrammar`.**  Which documents `scan` accepts and what is wrong with the others, with
none of its searches and trims: an automaton that reads one character at a time and has
a mode (where an item may start, in a comment, in a key, ...) and the lists and tables
that are open.  `Verdict` is the message about a document, or `"none"`.  It is a reference
like `TokenGrammar` one level up, and it includes what the code does against its
documentation, an escaped backslash before a quote (see [Findings](#findings)), and what
it does in spite of looking otherwise: spaces at the end of the document are the start of
a key.  `WellFormedDocs` has documents written as the readme writes them, built from
their parts and not by an automaton; `MCScanner` assumes (`WellFormedAccepted`), and TLC
evaluates, that their verdict is `"none"`.

**`Parser` and `KevsParse`.**  `heap` maps live blocks to their contents: the
elements of an array, with its capacity, or a string.  `Entry` is a `KevsValue`
together with its key.  Each active `parse_value` has an `out` in its caller's
frame; `stack` holds them.  `realloc` takes a fresh block and drops the old one,
so that a pointer which was not updated dangles.  The `value_free`, `list_free`
and `free` calls run one at a time from `work`.  `KevsParse` adds the token array
(`array`: not allocated, live or freed; `tokens` itself is kept after the free for
the properties to refer to), the scanner's two ways to end, and the caller:
`KevsFree`, which `fuzzer.c` and `example.c` call after an error as well, and
`KevsParseAgain`, which parses another document into the same table, whether the
last one was accepted or not and whether the table was freed or not.  `kevs.h`
lets the caller do that and the unit tests do not.  `was` is a history variable:
the table and the heap as the caller knew them before this call.

**`Lookups`.**  The `kevs_table_*` and `kevs_list_*` functions as operators on the
tree; a result is an error and what `out` is set to.  The five functions of each
family are one operator that takes the kind asked for.

**`Dump`.**  `table_dump` and `list_dump`: a line for each value is its key, kind
and text; indentation is left out.  `Dumps` gives the lines of the first elements
of every array of a heap, by a recursive function on the places in them.

**`Answers`.**  What lookups and dumps are checked against: which tokens begin a value,
the list or table around each, by its bracket, its key and its number there, all from the
brackets of the stream (`Around`, `KeyAt`, `NumberIn`); `LookedUp` follows the lookups
from the caller's table inwards, and `LinesTo` has the lines that the stream asks for.

**`ErrBuf`.**  `scan_errorf` and `parse_errorf`, which are alike, byte by byte: an
`Errorf` that starts a message of two or three texts, and one `Snprintf` with its
assertion for each text.  The buffer may hold an earlier message.

**`Cli`.**  `main` statement by statement: the loop over the arguments, `read_file`
with each answer the system may give (`Open`, `Fstat`, `Malloc`, `Read`,
`Cleanup`; `Size` is `st_size`, which is 0 for a pipe or a file under `/proc` and not
how much can be read: `sized` says which), the library, the error path with `abort_on_error`, the dump and the
frees.  `Write` is the environment: somebody else changes the file before `read`.

**`Meaning`.**  What the parser is checked against and what its proof is about: the
brackets open before a token, the keys of the table it stands in, and from these
which tokens have a meaning.  It reads the stream from the outside, without a stack.
`Texts` goes the other way, from the arrays of a heap to the tokens that they stand for:
a recursive function on the elements, each with those before it in its array.

**`PyParser`.**  The parser of `kevs.py`, as a function that `KevsParseProps` can run
on the tokens that `KevsParse` has just parsed.  Its conversions are its own and no part
of `Parser`: `PyValidKeys` are the keys that *its* `is_identifier` accepts, `PyClass` is
what *its* `unicode_escape` and `int(val, 0)` make of a text, and `PyDatum` the value they
read.  `PyParserAssumption` relates them to those of `kevs.c` by what the two programs do:
the first character of a text decides the kind of value in both (`kevs.py:385-412`), and
`kevs.py` accepts whatever `kevs.c` accepts, and more: a Kelvin sign in a key, `\x41`,
`\q` and surrogates in a string, `1_000`, `00`, `0X2A` and any width in a number.  The value may be another
one: `PyDatum` says so where the text is not ASCII.  The recursive descent is made explicit here too, by a state that `PyNext`
maps to the next one: the method that goes on, `self.i`, the key that was read last, the
`Value` that each active `parse_value` is going to return, the table, the message and
the token that the message is about.  The values are Python's, with their elements inside
them: there is no heap.  `PyRun` is the state after each number of steps, a recursive
function, and `PyParse` the last one; a token takes at most four steps.  `errorf` with no
token left is the error `IndexError`.

**`StrToInt`.**  One iteration of the digit loop is one action; `U(x)` is
arithmetic modulo `2 * Half`, `S` the conversion to the signed type.  The program
has `Half = 2^63`.  `exact` is a history variable: the number the digits stand for.

`StrToIntRef` says what `readme.md` says of the numbers, over the text as a whole.

**`Utf8`, `StrNorm`.**  Bytes.  One iteration of the loop is one action; `dst` is
what has been appended to the buffer, whose capacity is the length of the slice.
`StrNormRef` says what a body stands for by the readme: a sequence of code points.

Some modules hold definitions under a comment that starts with *Mutant*: a
plausible mistake in the definition that follows.  They are in no specification.
`PROJECT.json` names, for each property of each run, a mutant that violates it.

## The runs

All state is reached from the initial states, without symmetry.  Deadlock is not
an error: every one of these programs returns, and stays returned.

| run | question | properties |
|---|---|---|
| `MCScanner` | any document, and documents the readme allows | `TypeOK`, `NothingLost`, `TokensWellFormed`, `LinesOutsideStrings`, `VerdictIsRight`, `GrammarSpec` (refinement), `Progress`, `Termination` |
| `MCPyScanner` | any document, the Python scanner | `NothingLost`, `SameScanner`, `GrammarSpec`, `Progress` |
| `MCKevsParse` | any token stream, and one after the other into one table | `TypeOK`, `Ownership`, `Capacity`, `NothingLeaked`, `GrammarSuffices`, `UniqueKeys`, `StaysLent`, `AcceptsExactly`, `Faithful`, `LookupsAnswer`, `DumpInOrder`, `SameParser`, `Termination` |
| `MCStrToInt` | numbers around both ends of the type | `TypeOK`, `NoWrap`, `ResultExact`, `RejectsOnlyTooLarge`, `AgreesWithReference` |
| `MCStrNorm` | strings and escapes | `TypeOK`, `InBounds`, `Interprets` |
| `MCCli` | any command line, any failure of the system, a file that changes | `TypeOK`, `ExitCode`, `DataIsFile`, `NothingHeld`, `DocumentOutlives`, `MessageWhole`, `Termination` |
| `MCScannerLines`, `MCScannerEscapes`, `MCPyScannerStrings`, `MCStrNormPy`, `MCCliAbort`, `MCCliNoErr` | see [Findings](#findings) | one each, violated |

What the less obvious properties say:

- `NothingLost`: tokens are disjoint and in order, and each character passed is in
  a token, in a comment, or blank.  Scanner actions append a *trimmed* token and
  advance by the *untrimmed* length.
- `TokensWellFormed` is what `parse_simple_value`, `is_identifier` and `str_norm`
  index into without testing.
- `GrammarSpec` and `GrammarSuffices` are the two halves of the agreement: what
  the scanner emits is in the grammar, and on the grammar the parser never looks
  at a token that is not there and never gives the four messages about the order
  of tokens.
- `Progress`: each step lowers `Measure`, so no loop can stand still.
- `VerdictIsRight`: `scan` returns what `Verdict` says of the document, be it that it is
  accepted or which message is given.  No search runs past the character it should have
  stopped at, whatever stands between, and the layouts that three loops skip, each with
  its tests in an order of its own, are the same three times.
- `SameScanner`: the Python scanner ends a string where the C scanner ends it,
  if the string has no newline and the document ends with one (`SameStringEnd`); and if
  that is so of all strings, it accepts the document, or gives the message, as the C
  scanner does.
- `Ownership`: each live block is pointed to by exactly one value, counting the
  caller's table, the `out` of each active call and the frees still to be made;
  and each pointer is to a live block.  A dangling pointer, a double free and a
  leak all violate it, at the step where they arise.
- `StaysLent`: a string, list or table that a lookup handed out is the same block
  with the same contents until `kevs_free`; only the outermost array, which no
  lookup hands out, may be moved when another document is parsed into the table.
- `AcceptsExactly`: a stream is accepted if each token has a meaning, and else the
  error is about the *first* that has none (`Trouble`), although it is written by
  the innermost of several functions that fail one after the other.  A key is also
  in trouble when the table has it from an earlier document.
- `Faithful` reads the tree back into tokens: the tree is what it was before and
  then the document; after an error, the complete pairs before it.
- `LookupsAnswer` asks every lookup for every value of the document, along the path
  of keys and indices that `OpenAt` gives, as each of the five kinds; and that
  there are no other keys and no elements behind the last.  `DumpInOrder` compares
  the lines of a dump with the values in the order of the stream.
- `SameParser`: the two parsers differ in their conversions alone, although one builds
  values bottom up and the other fills arrays that move.  When `kevs.c` accepts a document
  into an empty table, so does `kevs.py`, with the same keys, kinds and nesting, and with
  the data that its own conversions read (`PyDatum`).  When `kevs.c` refuses a token, either
  `kevs.py` gives the same message about the same token, or the token is one that only
  `kevs.py` accepts (`OnlyPyAccepts`), and then `kevs.py` gets past it: if it fails, it fails
  at a later token.  What it makes of the rest of such a document is not compared with
  anything, `kevs.c` having stopped.  In all other cases the property includes that `parse`
  of `kevs.py` is at its end within `PySteps` steps and never raises `IndexError`.
- `ExitCode` and the operators before it read the command line as a whole
  (`Decisive`: the first argument that is no flag), where the code walks it.  The
  operator says what `main` does; that this is not all that the usage text says of
  `-no-err` is the run `MCCliNoErr`.
- `DataIsFile`: what is parsed is the file if nobody wrote to it, and in any case
  as long as `fstat` said, so that no byte of the buffer is used unread.  Where
  `st_size` is 0 whatever there is to read, it is the empty document.
- `MessageWhole`, like the run `MCCliAbort`, describes builds that keep assertions, as
  `kevs_parse` and the tests are built by default.  The binaries of `release.sh`
  (`ReleaseFast`) have none, and what they do with a message that does not fit is not
  modelled.
- `NothingHeld`, `DocumentOutlives`: descriptor, buffer, tokens and table at exit,
  and the order of the frees, since tokens and keys point into the document.
  `NothingHeld` excuses the one leak that the code has: without memory `read_file`
  leaves the descriptor open.
- `AgreesWithReference` and `Interprets`, like `AcceptsExactly`, compare with
  definitions that are not written like the code: `Number` folds digits,
  `Reading` reads a body from a place on as what stands there, one escape sequence by
  the readme's table or one UTF-8 character, and then the rest, and the properties of
  the parser look at the token stream through `OpenAt`, the brackets that are open at a
  token, found by counting.

### Bounds

| run | bound | why it is enough |
|---|---|---|
| `MCScanner` | every document of up to 3 characters out of 14; behind a prefix `k=`, up to 4 of 7 nesting characters; behind `k=[` up to 6 of 4, behind `k={` up to 5 of 5; up to 5 of 6 string characters; up to 5 of 7 layout characters after a key | A function of the scanner sees at most the next delimiter, the character before it and the innermost bracket. The sets have each pair of delimiters in each context; lists inside lists and tables inside tables close and go on; strings have escapes, escaped backslashes, newlines and the other quote in them |
| | and well-formed documents: one value in all layouts; lists and tables of up to two items with all layouts around each; those nested in each other | an item before and after each place where space is skipped, or not |
| `MCPyScanner` | every document of up to 3 characters; behind `k=`, up to 5 of 5 string characters, with and without a final newline; lists, tables and raw strings of up to 5 | a string, and a rest of up to three characters that occurs in it, with escapes and newlines |
| `MCKevsParse` | `MaxTokens = 13` for one document and `MaxTotal = 12` for two (`MaxCalls`), with 2 keys, a string and a number that is none (`Plain`); the string is one that `kevs.py` reads otherwise | a nested table of two pairs, a pair before a nested table of one, three pairs side by side: each way in which two keys can meet or not, in one document and across two; the capacity goes 0, 2, 6: the third element of a list, or the third pair of a table in the second document, moves an array that owns blocks, while the list is itself under construction in a pair; an error may follow |
| | `MaxMixed = 9` if there are other texts: 4 keys (one an identifier in neither program, one in `kevs.py` only), 7 values: one of each kind, a string and an integer that only `kevs.py` accepts, an integer that neither accepts | two pairs, a pair inside a pair with the same key, a list of two values of which one may be bad: each kind of text occurs alone, after another one, and inside a list or table that already owns a block |
| `MCStrToInt` | `Half = 32`; decimal texts of up to 4 digits, binary up to 7, octal and hexadecimal up to 4, three signs, characters that are no digits | 64 = the range of the unsigned type is passed in each base, and so is 32 with both signs; both overflow tests fire |
| `MCStrNorm` | up to 3 pieces out of 37: plain text, all escapes, code points at each boundary of the encoding, broken escapes | the loop keeps no memory but the index and the buffer |
| `MCCli` | command lines of up to 3 arguments out of 9; files of up to 2 characters, written to once; a buffer of 6 and messages that fit with the file's name, only without it, up to the terminator, or not at all | two flags before the file, a flag behind it, the same flag twice; a file of which `st_size` is the length, and one of which it is 0; a file that shrinks, grows or changes between `fstat` and `read`; each of the three assertions of the buffer passes and fails |

The three limits on tokens only bound the stream in `Emit`; the scanner may fail at any moment,
so that a stream cut off by the bound is one of a document with an error there.

### Fairness

The library is one thread of control that runs until it returns: `FairSpec` is
weak fairness of the whole next-state relation, and nothing finer.  In `Cli` it is
fairness of `Step`, what the program does, and not of `Write`: nobody has to write
to the file.  `Termination` of the scanner, of `kevs_parse` with `kevs_free`, and of
`kevs` is checked under it; a system call that never returns is not modelled.  All
other properties are checked with or without fairness alike.

## The proofs

TLAPS proves the following for every value of the constants: any set of
documents, any width of the integers, any strings.

| module | theorem | says |
|---|---|---|
| `ScannerProofs` | `TypeCorrect` | `Spec => []TypeOK`: `pos` stays in the document, tokens are tokens |
| | `AlwaysForward` | `Spec => Progress` |
| | `ImplementsGrammar` | `Spec => GrammarSpec`: the scanner implements the grammar |
| | `NoTextIsLost`, `TokensAreWellFormed`, `LinesAreRight` | `NothingLost`, `TokensWellFormed`, `LinesOutsideStrings`, for every document |
| | `VerdictsAreRight` | `VerdictIsRight`: every document is accepted, or given its message, as by a reader who takes one character after the other |
| `PyScannerProofs` | `PyAlwaysForward`, `PyImplementsGrammar` | `PySpec => Progress`, `PySpec => GrammarSpec` |
| | `PyLosesNothing`, `PyLinesAreRight` | `NothingLost` and `LinesOutsideStrings` of the Python scanner, for every document |
| | `PyScansAlike` | `SameScanner`: in documents of whole lines with no newline in a string, `kevs.py` ends strings as `kevs.c` does, and accepts and rejects the same |
| `ParserProofs` | `MemoryIsOwned`, `ArraysFit`, `ParserTypes` | `Ownership`, `Capacity`, `TypeOK`, for every document and every session of calls |
| `KevsParseProofs` | `KeysAreUnique`, `LentStays`, `NothingIsLeaked` | `UniqueKeys`, `StaysLent`, `NothingLeaked` |
| | `GrammarIsEnough` | `GrammarSuffices`, for every stream of the grammar |
| | `AcceptedExactly` | `AcceptsExactly`: a stream is accepted if each token has a meaning, and else the error is about the first that has none |
| | `TableIsFaithful` | `Faithful`: the table, read back into tokens, is what it was and then the document; after an error, the pairs that were complete |
| `AnswersProofs` | `LookupsFindAll` | `LookupsAnswer`: in an accepted document the lookups find every value where the document has it, as its own kind and no other, and nothing else |
| | `DumpIsInOrder` | `DumpInOrder`: a dump shows every value of an accepted document, in its order, behind what the table held before |
| | `ParsersAgree` | `SameParser`: for every document parsed into an empty table, `kevs.py` makes the same table as `kevs.c` but for the data its conversions read, or the same error at the same token, or gets past a token that only it accepts |
| `StrToIntProofs` | `TypeCorrect`, `NeverWraps`, `ResultIsExact`, `OnlyTooLargeRejected` | `TypeOK`, `NoWrap`, `ResultExact`, `RejectsOnlyTooLarge` |
| | `AgreesWithReadme` | `AgreesWithReference`: what the loop computes is what the readme says of the text, for texts of every length |
| `StrNormProofs` | `TypeCorrect`, `NeverOutOfBounds` | `TypeOK`, `InBounds` |
| | `InterpretsText` | `Interprets`: `str_norm` fails exactly on the bodies that the readme gives no meaning, and what it returns is the UTF-8 encoding of the meaning |
| | `EncodesUtf8` | `ucs_to_utf8` returns the shortest UTF-8 encoding of each Unicode scalar value |
| `CliProofs` | `WholeMessages` | `ErrSpec => []MessageWhole`, for every size of the buffer and all texts |
| | `CliTypes`, `ExitCodeIsRight`, `DataIsWhatWasRead`, `EverythingIsReleased`, `DocumentStays`, `CliMessages` | `TypeOK`, `ExitCode`, `DataIsFile`, `NothingHeld`, `DocumentOutlives`, `MessageWhole`, for command lines of every length, all files and messages |

**Scanner.**  `TypeOK` is not inductive: `ScanSeparator` consumes a character
without looking, and `AfterItem` tests a frame that must be there.  The
strengthening `IInv` says that the scanner stands at a `=` when a separator is
due, and that a list or table is open after an item.  Each action has a lemma that
it preserves `IInv` and lowers `Measure` (`Forward`); they rest on lemmas about
the searches and trims (the result is the first index, or the
last; it is within the slice).  The refinement reuses `IInv`: each action has a
lemma that it is a step of the grammar or a stutter (`Simulated`), with the
stream mapped by `StreamAppend`.  Here the invariant is what makes the separator
a `=` in the grammar's stream.

**Tokens and lines.**  `NothingLost`, `TokensWellFormed` and `LinesOutsideStrings` are
inductive together with `IInv` (`TInv`).  Two lemmas carry the induction: a step
that consumes only blanks and comments keeps the three (`BlankKeeps`), and so does
one that appends a token with blanks before and after it (`TokenKeeps`); each action
is then shown to be one or the other.  Lines are the delicate part: the newlines
that count are those outside strings, and a token appended now must not change
what counts before it, nor the line of an earlier token.  `LinesSplit` restates the
property through the set `Newlines`, and `LinesGrow` adds the newlines of a step to
it: they lie behind all tokens there are, and behind the start of the new one.  The
length of a quoted token is that of the text up to its closing quote because the
quote is no space (`LexemeSpan`), which is what makes `content[last]` the quote.

**The documents accepted.**  `ReadAlong` says in which mode the reader of `DocGrammar` is
when it has read what the scanner consumed, one mode for each `pc`, with the scanner's
`stack` open.  Two places differ: `scan_comment` stops before the newline, where the reader
is in the comment yet, and `scan_int_or_bool_value` before the semicolon, which may be
the first character of an empty value.  A search is then a stretch of characters
that change nothing (`ReadMore`) and one that does; in a string two modes alternate
(`StringReads`).  When a search fails the reader is stuck at the character found, or at
the end of the document, and the message is the same (`VerdictStuck`, `VerdictInside`).
`Done` needs one thing more: between two pairs of the document the scanner never stands behind
a space, or `scan` would accept what the reader takes for the start of a key.  That the
reader exists, a recursive function on the document, and what it does in a stretch are
inductions by the least counterexample.

**The Python scanner** has the same invariant and reuses the lemmas of every shared
action; `PyScanString` needs one fact of its own, that the rest of the document is
always found (where it stands, if not before), so that the token, wrong as its end
may be, stays in the document.  The
lemmas on text carry over too: what `PyScanString` appends is what it consumes, and the
newlines in it are those of what the token calls a string.  `SameStringEnd` rests on one
fact about the search (`EndAtQuote`): the text searched for ends with a newline, so it has
a first one, and were the text found earlier, that newline would match an earlier one,
which could stand neither in the string nor behind it.  As long as no newline is read in a
string, every step of the Python scanner is therefore one of the other (`PyStringIsString`),
and the verdict is the same.

**The memory of the parser.**  `MemoryInv` is the heart of the other three results
on memory.  Its first part, `Shape`, has the types, what each value of `pc` says of
`stack` and `work` (`Control`), and `Capacity`.  Its second part says that the owners
and the blocks are in one-to-one correspondence (`Once`): an owner is an entry that
holds a pointer, together with its place; a block is its address together with
what it is, a string or an array, since `free` of an array as a string would be as
wrong as a double free.  `Ownership` says the same by counting, which is no form to
prove steps in: a step that pushes a frame moves every entry of the stack to the next
place.  The invariant therefore counts the stack and the calls to be made from the
bottom, where places keep their owners.  While an array is being freed, its elements
are owned by the calls still to be made and no longer by the array (`Dying`).  Each
action has a lemma that it keeps `Shape` (`...Kept`) and one that it keeps the correspondence
(`...Owners`), by one of four facts: an owner that comes with its block
(`OnceNew`), one that goes with it (`OnceGone`), one that moves (`OnceMoved`), several
that move at once (`OnceRenamed`).  `OnceIsOwnership` turns the result into
`Ownership`.

**Keys.**  `UniqueKeys` is not inductive: it says nothing of a key that has been
tested and is not stored yet, and between the two the whole value is parsed, tables
in it included.
`KeysInv` adds that the key of every value under construction is new in the array that
it will be stored in (`KeysNew`).  That no step in between changes that array needs
the owners: the array that grows or moves belongs to the top of the stack and to nobody
else.

**What is lent.**  `LentInv` says that what the caller knew is reached through the
caller's table alone (`Apart`): no frame, no call to be made and no other array points
to it, so neither the unwinding of an error nor `realloc` can reach it.  The array of
the root itself is excepted, as in `StaysLent`.

**Leaks.**  `NothingLeaked` needs more than the owners: in a ring of blocks each has
an owner and nobody can reach one of them.  `EndInv` says that the arrays are nested,
by a rank that falls from a block to its elements (`Nested`); when the table is empty
and no call is left, the block of the highest rank would have no owner (`Outermost`).

**Parser and grammar.**  `GrammarInv` says that there is a sequence of grammar states,
one before each token and one at the end (`Run`), and that the parser's `pc` and stack
are what the grammar had at token `i` (`Follows`, `Matches`).  Each action is shown to
lead from there to what the grammar has at the next `i`; that the alternative in which
the code reports a message about syntax, or runs past the last token, is never the one
the grammar took, is the theorem.

**What the tokens mean.**  `AcceptsExactly` compares a parser that walks the stream with
a stack to definitions that look at the stream as a whole, so the invariant `MeaningInv`
has to say what each frame of the stack stands for.  `Reading` says that there are
brackets `P`, one for each list or table under construction, which are exactly those open
before token `i`, from the outside to the inside (`Opened`; levels are counted from the
outside, where a push leaves them alone), and that the keys of each table under
construction, with the key whose value is being parsed, are those met at its level, and
the old ones at the outermost (`KeysFit`).  Closing a bracket takes the last of `P`: how
many more brackets are opened than closed from each of them on is part of `Opened`.
`Fine` says that no token before `i` is in trouble, and `Verdict` that the outcome is
about the first token that is.  `KeysFit` of the innermost table makes the search of
`parse_key` a question about the stream.

**What the table stands for.**  `Faithful` is about the end; `TextInv` says at every
moment which tokens are where.  `Writing` cuts the tokens read so far into stretches
(`Seg`): for each level of the stack one for the key and opening bracket of its list
or table and one for the elements that are in its array already (`Spans`), and a last
one for the element that is being read, which no array holds yet (`Late`: its key, or
its value too, or all of it with the semicolon).  An append takes the last stretch over
into the array below (`WriteStored`), and the end of a list or table puts two levels
together into one element (`WriteClose`).  `Ended` says that no semicolon behind the
stretch of the outermost level ends a pair of that level, from which the statement about
errors follows: when a function fails, the frames are dropped and the outermost array
is what it was (`Written`).
What an array stands for is not the application of a recursive function here but some
`text` that obeys the equations of `Texts` (`IsText`).  A step that allocates, grows or
moves one array changes `text` at that array only (`TextMore`), because no other array
holds the one that changes, which is again a matter of the owners (`AppendGrows`,
`StringGrows`).  That there is exactly one such text, and `Texts` is it, needs that
arrays are nested (`EndInv`) and is an induction over the rank of a block, and in it over
its elements, both by the least counterexample (`TextsAgree`, `TextsSolve`).

**Where the values are.**  `LookupsAnswer` speaks of all values of the document at the
end; in between, some are in an array, some in a frame, and some are not stored at all.
`PlaceInv` says that there is a function `L` that gives every value read so far, and the
caller's table, its entry, be it in a frame or in an array (`Placing`).  The lists and
tables under construction are the levels of the stack, and their brackets are those open
now (`Opened`, `Leveled`); every other value is the element of the entry of the bracket
around it, at the place that counting the values before it gives (`Lodged`), with the key
that stands two tokens before it (`KeyAhead`); and no array has more elements than that
(`Counted`).  A value that is read extends `L` by one entry, in a frame, and changes
nothing else.  An append (`Storing`, `AppendPlaces`) takes the entry of one value from its
frame to its array, and changes the entry of the list or table it is stored in, whose
array may have moved, both in `L`; that nothing else of `L` changes is again a matter of
the owners.  `Keyed` relates the keys met to the values: every value in a table has a key
ahead of it, and every key a value behind it, but for the key that was just read.  When all tokens
are read, `L` is `Settled`: what is at the bracket around a value is an array that has
the value's entry.  Then `table_get`, which takes the first element with the key, finds
that very entry, since no other in the table has its key (`KeysInv`), and `list_get` the
one at its number (`LookupFinds`); so `LookedUp` is `L`, by the least value where it is
not (`LookedUpIs`).

**What a dump shows.**  `DumpInv` has a list of lines for each level of the stack (`Dumped`):
those of the caller's table first, and for each level those of the one around it, then
the line of the list or table and the lines of the elements in its array.  The last
is what the document asks for up to here.  A value that is read adds one level with one
line (`DumpValue`).  An append moves the lines of the last level into those of the
level around it, and the sum is the same, because the concatenation of sequences is
associative (`DumpStore`).  This needs that the lines of an array depend on what is reached
from it only (`LinesStay`, `LinesAppend`).  That `Dumps`, a recursive function on a heap in
which arrays point to arrays, exists and is the only one that obeys its equations is an
induction over the rank of a block (`DumpsExist`, `DumpsAgree`), as it was for `Texts`.

**The Python parser.**  `PyInv` runs the two programs side by side.  While `parse` of
`kevs.c` is at work, some state of `PyRun` is `PyNow`: the state of `kevs.c` as `kevs.py`
has it, with each array on the stack and in the table replaced by the list of what it holds
(`PyStack`, `Tree`).  Each action of `Parser` is one step of `PyNext` or an error
(`PyGoes`, one lemma for each action).  Two things differ: the conversions and the append.
`PyParserAssumption` is what the proof knows of the conversions.  A key or text that
`kevs.c` accepts is accepted by `kevs.py`, as a value of the same kind; one that `kevs.c`
refuses is refused by `kevs.py` with the same message, or is in `OnlyPyAccepts`
(`OnlyPyIs`), and then `kevs.py` pops it.  From there on only `Past` is claimed, that it
is behind that token, and a lemma for each of its methods says that it stays there
(`PastStays`).  `GoodInv` says that every key that `kevs.c` stores is an identifier for
`kevs.c`, so that a key which only `kevs.py` accepts is in no table yet, and `kevs.py`
cannot refuse it as one that is.  In `kevs.c` it may move the array and leaves the
old copies of the pointer behind, in `kevs.py` it makes one list longer; that only the
tree of the one container changes (`AppendedTree`, `AppendStays`) is again a
matter of the owners, and that there is one tree for each array an induction over the
rank of a block (`TreesExist`, `TreesAgree`).  `PyLatest` bounds the number of steps by
the token and the function that runs, so that the run is never cut off: a function that
reads a token may go on with up to three steps that read none (`Ahead`).  After an error the C functions return one by one and free their values, where
`kevs.py` is done at once; `PyEnds` says that the message and its token are those, until
the end.  `IndexError` is excluded by `GrammarInv` wherever the two give the same message:
an error of `kevs.c` is about a token that there is.

**Integers.**  `IInv` adds the phase of the call to the four properties: which
base is set when.  The heart is `DigitStep`: when `n` is below the cutoff, `n * base`
does not wrap and the sum wraps at most once, so the comparison detects exactly
that; when it is not, `n * base` is already beyond the type.  The only assumption is
`Half >= 8` (a digit must fit; a width of 4 bits is enough).  The reference says what
a text of digits stands for by a recursive function on its length.  That the function
exists and that a longer text never stands for a smaller number are inductions over the
text, made by taking the least counterexample (`LeastNumber`); that `exact` is its value
at the digits read so far then follows the loop, and what the loop does not read, after
an early exit, can only make the number larger or the text wrong.

**Strings.**  `IInv` is `Len(dst) < i` — what has been written never overtakes
what has been read, each escape being longer than its encoding — and the last byte
of the body is no backslash, which keeps the lookahead inside.  That is
`BodiesAssumption`, a promise of the scanner: it is the second conjunct of
`TokensWellFormed`, which is proved.

`Interprets` needs a loop invariant of its own, `Follows`.  The obvious one, that `dst`
is the encoding of what stands before `i`, is false: the loop copies a character byte by
byte, and in the middle of one `dst` is no UTF-8 at all.  `Caught` says it of the next
place `b` between two characters: with the bytes up to `b` added, `dst` is UTF-8, what it
decodes to is what is read before `b`, and the rest of the meaning is read from `b` on.
A byte copied keeps `b`, or, at `b`, moves it behind the next character (`CopyByte`,
`NextCharacter`); a backslash can only stand at `b`, being no part of a character
of several bytes, so an escape sequence starts there (`EscapeStarts`), and moves `b`
behind it (`EscapeReplaced`) or has no meaning (`EscapeBroken`).  This rests on two
facts about UTF-8: an encoding that starts at a place has one end (`CharThere`), and
appending one to UTF-8 text appends its code point to what is decoded (`AppendDecodes`).
That the recursive functions of the
reference exist, and that these facts hold for texts of every length, are inductions
made by taking the least counterexample (`LeastNumber`).  Bodies that are not
UTF-8 are outside of this property; the other theorems hold for them too.

**Error buffer.**  The invariant says that the texts printed so far stand at the
start of the buffer and end at `ptr`, and that `ptr + len` is the size of the
buffer; a text that fits leaves room for at least the terminator, so the next one
starts on it.  The only assumption is that the size is not 0, which `kevs_parse`
asserts.

**Command line.**  `CliInv` has the invariant of the buffer and four parts more.
`ArgsInv`: what is left of `args` is the end of `argv`, and what was consumed are flags,
namely those in `opts`.  `AskedIsSeen` and `CurrentDecides` draw from it that the flags
seen and the argument the loop stopped at are those that `ExitCode`, which reads the
whole of `argv`, speaks of.  `Holding` says what is open and allocated at each `pc`,
`Failing` which errors may have happened there and what the exit code is, and `Reading`
what is known of the data.  `NothingHeld` is not inductive without the last part,
`Ending`: at the exit nothing of the way there is left but the flags and the error.

Constants are assumed to be what their names say (`DocumentsAssumption`,
`TextsAssumption`, `BodiesAssumption`, `HalfAssumption`, `ParserAssumption`,
`PyParserAssumption`, `BoundsAssumption`, `ErrBufAssumption`, `CliAssumption`); TLC evaluates the assumptions
in each run.

**Only model-checked:** `Termination` (liveness is beyond the prover; the part
of it that matters for the scanner, that no step stands still, is `Progress` and is
proved).  Every other property of a passing run is the statement of a theorem.  The
induction theorems of the library take an operator that no backend can instantiate; where
a definition is a recursive function over numbers, positions or blocks, induction by the least
counterexample takes their place, as for `AgreesWithReference`, `Interprets`, `VerdictIsRight`,
`Faithful`, `DumpInOrder` and `SameParser`.  That the readme's documents are those of `DocGrammar`
is evaluated by TLC for the finite set `WellFormed`.

## Findings

- `scan_string_value` does not count the newlines inside an interpreted string,
  which `scan_raw_string` does "to keep line count accurate" (703).  Errors after
  such a string name a line that is too small.  Run `MCScannerLines`; the property
  that does hold is `LinesOutsideStrings`.
- A quote after a backslash never closes a string (677-679), even when the
  backslash is itself escaped.  `"\\"` cannot be written, although the readme lists
  `\\`; in `a = "\\"; b = "x";` the string goes on to the quote of `b`.
  Run `MCScannerEscapes`.
- In Python, a string that holds the text that follows it ends too early
  (`kevs.py:201`, against its own comment in 200).  `k=";";` as a whole document is
  rejected.  Run `MCPyScannerStrings`; `SameStringEnd` is what does hold, and
  explains why files that end with a newline hide it.
- In Python, a string with a character beyond ASCII becomes another one:
  `parse_simple_value` decodes the UTF-8 bytes with `unicode_escape`, which takes
  each byte for a character (`kevs.py:389`).  Run `MCStrNormPy`.
- A message that does not fit the error buffer fails an assertion (935), so a
  document with a key of some 8200 characters aborts `kevs`; by the usage text it is
  `-abort` that does so (`cli.c:18`).  Run `MCCliAbort`; `MessageWhole` is what does
  hold.
- With `-no-err` kevs exits with 1 when the file cannot be read (`cli.c:94-97` comes
  before the only place that looks at the flag, 120); the usage text says "Exit with code 0
  even if an error was encountered" (`cli.c:21`).  Run `MCCliNoErr`; `ExitCode`
  is what does hold.

Observations that no run is about: spaces between the last newline and the end of
the document are an error (`key-value pair is missing separator`), because of the
order of tests at 842-843.  Strings are not tested for UTF-8 (444), which the readme
says they must be.  Without memory, `read_file` leaves the descriptor open
(`util.c:30`; `NothingHeld` allows for it).  The error that is returned is the
caller's buffer and changes when the buffer is used again, where `kevs.h:8` calls
errors static strings.  `\u0000` is replaced by a byte 0 in a string that is returned
without its length (452), so that the caller sees the text before it.  The script `src/py/kevs` exits with 0 after an error with and
without `--no-err`, which by its help text makes the difference.  In Python, a key may
hold the sign of the unit kelvin, U+212A, since `is_letter` lowers a character before it
compares it (`kevs.py:290`), and its lower case is the letter `k`.  In Python, `\x41`, `\q`,
octal escapes and surrogates are strings (`kevs.py:389`), and `1_000`, `00`, `0X2A` and
numbers beyond 64 bits are integers (`kevs.py:413`), all of which `kevs.c` refuses;
`SameParser` takes this into account and does not say that it should be so.  A pipe, a
terminal or a file under `/proc` is read as an empty document, without an error, since
`st_size` is 0 (`util.c:27`).

## What is left out

- The wording of messages: which error is given is modelled, and for the buffer a
  message is a text of some length.
- Failure of `malloc` and `realloc` in the library: the code asserts that they
  succeed, except in `kevs_str_dup` (80), which uses the block without a test.
- Documents of `INT_MAX` characters and more, where indices are narrowed to `int`
  (98).
- The growth of the token array: it is a sequence.
- `is_identifier`: which keys are identifiers is a constant (`ValidKeys`, and `PyValidKeys`
  for that of `kevs.py`).
- Of the Python implementation, what `unicode_escape` and `int(val, 0)` make of a text,
  which are constants (`PyClass`, `PyDatum`; what `unicode_escape` does to text beyond ASCII
  is the run `MCStrNormPy`), the assertion of `--abort`, which raises the message that is
  returned without it, and the script `src/py/kevs`, which only prints.
- Failures of `close` and `printf`, which the code ignores.
- The development tool: its steps are other programs, and its state the files that
  they write.  It removes the fuzzing corpus before the merge that is to replace it
  (`dev.go:221`); nothing in the repository says that the corpus is kept.
- Unit tests, fuzzer, examples and build files: they have no behaviour of their own.

## Plan

Done, in the order of importance: the scanner and its grammar; the parser and its
memory on top of the grammar; integers; strings; sessions of several calls, lookups
and dumps; the error buffer; the command line; the Python parser; the proofs above.

Next: `is_identifier` as a module of its own in the place of `ValidKeys`, in C
and in Python, and the growth of the token array.
