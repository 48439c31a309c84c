# gopapy: specifications, model checking and proofs

gopapy is a Python parser, linter and language server in Go. This directory
holds TLA+ models of the parts of it whose correctness depends on order: shared
parsers, worker pools, the result cache, the language server; of the symbol table
that the whole-file checks rest on; and of what comes before all of them, the two
parsers that turn indentation and tokens into a tree and the writer that turns a
tree back into source; and of `lint --fix`, which changes a tree between the two.
Each model is checked with TLC on small instances. The parser pool, the cached,
parallel lint, the commands over a directory with the cache file and `lint --fix`, the
language server and the symbol table are also proved correct for every size with
TLAPS.

    tlc -workers 2 -config <run>.cfg <module>.tla     a run of PROJECT.json
    tlapm <module>_proofs.tla                         the proofs

## The system

| Component | State | Operations | Interacts with |
|---|---|---|---|
| parser (`parser/`) | `stmtParserPool`, a `sync.Pool` of parsers; per parser an arena, one slice per node type | `ParseFile`, `ParseString` | called by the v2 linter, `dump`, `check`, `bench`, `symbols`, `diag`; the AST it returns points into the arena |
| symbols (`symbols/`) | none between calls | `Build`, `Scope.Resolve` | reads the AST |
| linter (`linter/`) | `Cache`: entries under a mutex, a file | `Lint`, `LintFile`, `LintFiles`, `OpenCache`, `Lookup`, `Store`, `Save` | its workers call `ParseFile` concurrently; processes share the cache file |
| legacy linter (`legacy/linter/`) | the same | the same, `Fix`, noqa suppression | the v1 parser, which has no pool; used by `lint --fix` and the language server |
| language server (`lsp/`) | open documents, configuration per directory, `shuttingDown` | one handler per LSP method | an editor over two pipes, `pyproject.toml`, the legacy linter and fixer |
| command line (`cmd/gopapy/`) | none between runs | `lint`, `check`, `bench`, `unparse`, `dump`, `symbols`, `diag`, `lsp` | worker pools of its own in `check`, `bench`, `unparse --check`; `fixOne` rewrites files in place |
| v1 front end (`lex/`, `legacy/parser/`, `ast/`) | the scanner's and the indentation wrapper's fields during one parse | `lex.NewIndent`, `ParseString`, `ast.FromFile`, `ast.Unparse` | called by `lint --fix`, `unparse`, the language server and the legacy linter |
| cst, legacy/symbols | none between calls | comment attachment, a symbol table over v1's tree | the table is read by the legacy linter and its fixer; otherwise pure |
| diag, formats, internal | none | records, output, code generation | |

What is hard in it, and what correctness means there:

* **Parser pool.** A parser returns to the pool before its caller has looked at
  the AST. No parser may be with two goroutines; a tree under construction must
  not change; a tree in use must not change either.
* **Worker pools.** Results are written without locks and read after a wait;
  channels are bounded. No slot has two writers, the summary is that of a serial
  run, and the pool ends.
* **Cache.** Stat, lookup, read, lint and store interleave with an editor and
  with other runs; Save can fail or die anywhere. No hit is stale, no path gets
  another's diagnostics, and the cache file is whole or absent.
* **Language server.** The editor runs ahead of the server. What was published
  last fits the buffer once everything is read, every request has one answer in
  order, an offered fix fits the buffer it was asked about, and the server ends
  when told to or abandoned.
* **Two front ends.** v1 is a grammar declared to a parser generator over a
  scanner with an indentation wrapper; v2 is a recursive descent over a scanner
  of its own. One file is read by either, depending on the command. They must
  find the same blocks and the same tree, and what the writer writes must read
  back as the tree it wrote.
* **Pure algorithms.** Scopes from bindings, fixes that keep a program's meaning.

`PROJECT.json` lists each hazard with its line and the properties that watch it.

## The modules

### ParserPool, ParseCalls, ParserPool_proofs

`ParserPool` models `ParseFile` and the pool. `pool`, `len`, `grown` and `cell`
are the `sync.Pool`, the slices' lengths, which of its successive arrays a slice
lives in, and what each cell holds: the parse that wrote it last. One slice
stands for all the slices of an arena, which do not influence each other. A
caller is a goroutine: `own` is its variable `p`, `ast` the set of pointers
`arenaAlloc` gave it.

| Action | Code |
|---|---|
| `GetPooled`, `GetFresh` | `Get` finds a parser, which is reset, or returns nil |
| `Allocate` | one `arenaAlloc`, with the growth of the slice when it is full |
| `Finish` | `Put`, then the return of an error or of the AST, on all three exits |
| `Drop` | the caller is done with the AST |
| `Evict` | the garbage collector empties the pool |

A parse that fails has allocated any number of nodes before. A caller in
`Retainers` uses its AST after `ParseFile` returned, as the linter does; any
other drops it at once, as `check` and `bench` do.

`ParseCalls` is the promise alone: a call returns nothing or the nodes of its
source, and they stay. `ParserPool` implements it (`ImplementsParseCalls`, with
`view`, what the pointers show, as the refinement mapping) when `SoleRetainer`
holds: nobody keeps an AST, or the one goroutine there is does.

### LintFiles, LintPooled, LintPooled_proofs

`LintFiles` is a run of `gopapy lint DIR`: the worker pool and `lintOneFile` with
`Stat`, `Lookup`, `ReadFile`, the lint and `Store` as separate steps, the cache,
an editor that changes the files in between, a crash at any point and the next
run. It follows `legacy/linter`, where every parse is private; `linter` has the
same pool and cache. A lint result is the content paired with the configuration.
`during` is a history variable: the contents a path has had since the run began.

`LintPooled` composes `LintFiles` with `ParserPool`, whose callers are the
workers, into the pool of `linter`: `ParseBegin`, `ParseNode` and `ParseEnd` take
the place of the private parse, and `CheckAST` stores the diagnostics of whatever
the pointers show then. With one job it implements `LintFiles`.

### BenchPool, IndexPool, DirCommands, DirCommands_proofs

The pools of `benchCmd` (two bounded channels and a goroutine that closes the
second) and of `checkDir` and `unparseCmd` (one bounded channel and a slice of
results). Every send, receive, close and wait is an action. `DirCommands` is the
dispatch above them: a process runs one command, so one run checks both pools,
and with them `CacheFile`, the loading and saving that `lint` does around its
own pool, and `FixInPlace`, the form of `lint` that has neither.

### CacheFile, CacheFile_proofs

`OpenCache` and `Cache.Save` at the level of the file system: names are links to
inodes, `os.Create` truncates what the name leads to, a process that has the file
open keeps writing to the inode, the encoder writes in two parts. Any step may
fail and any process may die between two of them.

### FixInPlace, FixInPlace_proofs

`lint --fix` over a directory: `collectPyPaths`, the serial loop of `lintCmd` and
the system calls of `fixOne`, each an action that may fail, in processes that may
be killed between any two. `disk[n]` is what is under a name: which save of the
editor it goes back to, whether it has something to fix, and whether its write
came to its end. The names of temporary files are among those that are collected,
as they end in `.py`, and sort first. What a second process may do with them
(read half of one, fix that, rename it into place, and have the first rename the
result over the source) is recorded in `meddled`: `FilesStayWhole` and `SavesStay`
(in `DirCommands` a part of `NothingIsLost`) exclude it and nothing else. An editor's save is lost when it comes between the
read and the rename, as nothing compares the file again before the rename.

### LspServer, LspServer_proofs

The loop of `Serve` and an editor. A handler runs to its end before the next
frame is read, so it is one action; the concurrency is in the pipes. `buffer`,
`shown` and `pending` are the editor's buffers, the diagnostics it shows and the set
of requests it waits for, each known by its id; `docs`, `cfgCache` and `shuttingDown` are the server's
fields; `project` is what the file system says of a directory's configuration.
`hangUp` records how the editor died: between frames, in a header or in a body,
which decides what `readFrame` returns. Once it is gone a write is lost or fails.

### Symbols, Symbols_proofs

`symbols.Build` and, on its table, the checks F401 and F821. Names are
independent, so the table is that of one name: `flags[s]` is its entry in scope
`s`. The recursive walk over the tree is a sequence of actions, one for each
construct that touches a scope or the name, in any order in which the grammar
lets them follow each other, so TLC checks every program within the bounds.
`Resolve` is the second pass. `LookupCapturable` and `ResolvedFrom` are the code's
two lookups, `Owner` is Python's rule, and `reads` the scopes in which Python
evaluates the name; where the code looks up a name in another scope than Python
does (`ParamAnnotation`, `LambdaDefault`) the two differ. `exempt` is what
`futureImportNames` knows of the name: a statement of the module imports it from
`__future__`, and F401 passes over it, also when another statement imports the same
name from elsewhere.

`MirrorsButRelays` compares the table with CPython's classification (`PyFree`, `PyCell`),
which is stated by who owns a name and who reads it, never by the code's lookups. A name
is free in a scope that reads another one's variable and in every function between the
two. Three things are excepted by name, because `resolve` does not do them:

| Predicate | What `resolve` does |
|---|---|
| `Relays` | it looks up the names a scope uses, and so does not mark the functions a variable passes through: in `def f: x = 1; def g: def h: x`, CPython has `x` free in `g` |
| `ReadByBodies` | it does not look up the names that a class body uses, so that a variable which only class bodies read is no cell |
| not `Plain` | it passes over `global` on the way out, never marks a `nonlocal` name as free, and has annotations and a lambda's defaults in another scope, or nowhere |

Comprehensions are scopes here, as they are in the code; CPython since 3.12 inlines all
but generator expressions, and the oracle is CPython's rule for those.

| Action | Code |
|---|---|
| `Read`, `Bind`, `Import`, `AugAssign` | `expr` on a name, `target`, the import statements (from `__future__` or not), `augUse` |
| `NamedExpr` | the walrus, which binds outside of comprehensions |
| `Declare` | `global` and `nonlocal`, with diagnostic S001 |
| `FunctionDef`, `ClassDef`, `Lambda`, `Comprehension`, `Pop` | `push` and `pop` with the flags set on the way |
| `Param`, `ParamAnnotation`, `LambdaDefault` | `params`, and the defaults that `expr` leaves out |
| `Resolve` | `resolve`, after the walk |

### Blocks, Blocks_proofs

The two scanners of lines, each as a function from its fields to the next token,
called until the end of the file or an error. `v2` is `scanner` of `parser/lex.go`
in statement mode: the stack of widths, the number of DEDENTs it owes, the flags
of the end of the file. `v1` is `lex.Indent` over `lex.Scanner`: the stack of
columns, the queue of tokens that wait behind an INDENT or DEDENT. A file is a
sequence of the characters they treat differently. The loops over characters
(`Measure`, `FirstContent`, `SkipSpace`, `SkipBlanks`) and the loop of `Indent.Next`
over physical tokens (`Physical`) are recursive functions of where the scanner is, so
that theorems can be proved about them.

### Syntax, Parser, LegacyParser, Unparse, FrontEnds

`Syntax` has what the others share: tokens, trees (a kind, an operator or name,
children), the results of a parser (`Ok`, `Fail`) and how they are chained. `toks`
is the file.

`Parser` is `parser/parser.go` and `parser/stmt.go`: one operator for each function,
under its name, from a position to a tree and the position behind it. Functions
that are written twice in the code, as the lists with a trailing comma are, share
an operator. `LegacyParser` is `legacy/parser/grammar*.go` with `ast/emit.go` and
`ast/match.go`: one operator for each rule, alternatives in order with `??`, a
repetition that ends where its body no longer matches, as participle reads them,
and beside it the lowering of that rule. `Unparse` is `ast/unparse.go`, from a tree
to the tokens that its text lexes to, with the writer's table of precedences.

`FrontEnds` is `unparseOne` with `--check`: parse, write, parse again, compare.
`Parse` is the action for both parses, of the file and of what was written, and at
both v2 reads the same tokens. What the front ends are known to read
differently is a catalogue of predicates on the trees, so that `FrontEndsAgree`
says that there is no difference beside these:

| Predicate | Difference |
|---|---|
| `CommaDropped` | v1 drops the comma in `a[x,]`, `yield x,`, `for x in a,:`, `x += 1,` |
| `WildcardNamed`, `AsyncGeneric` | v1 drops the wildcard of `_ as x`, and the type parameters of `async def` |
| `ManagedTuple` | `with (a := b, c):` is two managers in v1, as it is a tuple in v2 |
| `ComplexMinus` | the pattern `1 - 2j` is `1 + (-2j)` in v1 |
| `AwaitedPower` | `await x ** 2` awaits the power in v2, in spite of the header of `parser/parser.go` |
| `AliasInSuite` | v2 ends the suite of `if x: type Y = int; z` before `z` |
| `Unread2` | v2 rejects `match - x` and its like as expressions, `for f().x in y`, `with (a, b) as c:` |
| `Unread1` | v1 rejects `x += *y,` and `case *x, y, if g:` |

and `Lost` has what the writer loses: the parentheses of a walrus in a conditional
expression, and those of a tuple that is the only manager of a `with`.

### LegacySymbols, LegacyChecks, LintFix

`LegacySymbols` is `legacy/symbols`: a function from a tree of `LegacyParser` to its
scopes, each the sequence of the places where names occur in it, in the order of the
source. `LegacyChecks` has the checks on the tree and this table: F401, F811, F821,
F841, E711, E712, F632, each under the name of its code. (`Symbols` is about the other
copy of the package and about every program within its bounds; here the program is
one that was parsed, with every construct of the grammar.)

`LintFix` is `FixWithConfig` on one file, from the parse to the lint of what was
written. `enabled` are the codes the configuration selects, `read` the tree as it was
read, `tree` as the passes leave it, `fixed` the codes they say they resolved.

| Action | Code |
|---|---|
| `Parse` | `parser.ParseString`, before the fix and of what it wrote |
| `FixImports` | `fixStmts`, `filterImport`, `filterImportFrom`, by the table of the tree as read |
| `FixDeadStores` | `dropDeadStores`, `scanDeadStoreLiteral`, in every function body |
| `FixComparisons` | the rewriting of `== None` and `== True`, and `fixOne`'s return when nothing was fixed |
| `Write` | `ast.Unparse` |
| `Reread` | `ParseFile` of v2, by the next command that uses it |

The properties judge the passes from outside. `FixKeepsMeaning` runs the body of a
function before and after (`Meaning`: what the world sees of a call, with values as
terms), `FixedFileStands` reads the written tokens with both parsers, `FixAddsNothing`
lints them again, and `ReportedLocalIsUnread` compares F841 with its comment: the
locals of a function or lambda that are bound by an assignment, with one target or
several, or by a walrus, and that nothing reads, be it a scope inside. What the code is
known to do otherwise is named in a predicate, so that each states that there is nothing
beside it:

| Predicate | What `--fix` or F841 does |
|---|---|
| `SeenBetween` | removes `x = 1` before `x = x + 1`, or before a value that calls a function which sees `x` |
| `BareTry` | removes all of a `finally` without handlers: v1 reads a `try` on its own, v2 and Python do not |
| `IsForLiteral` | turns `1 == None` or `x == True` into an `is` with a literal, which F632 then reports |
| an F821 on a removed import | removes an import that only an inner scope reads (`UnusedImports` has the reason) |
| `OnlyInExpression` | the comment names the walrus and lambda bodies, but F841 has no case for either, nor for `x = y = 1`: a local bound in no other way is not reported |
| `ReadByClosure` | F841 reports a local that only a scope inside reads |
| `InRepeated` | `walkScope` counts child scopes anew in every block, and so takes a function for one of the same name in another block before it; nothing is said of its locals. Functions of one name in one block, and the first of several, are not excepted |

### SourceFile

`SourceFile` composes `Blocks`, `FrontEnds` and `LintFix` into what happens to a file.
The layers are handed characters or tokens, so one behaviour looks at one of them;
it extends `Blocks`, whose properties hold of its states as they are, and has
instances of the other two.

## The runs

| Run | Bounds | Shows |
|---|---|---|
| `ParserPoolSerial` | 1 goroutine, 2 parsers, files of 1, 3 and (broken) 2 nodes, arrays of 1, 2, 4 | the promise of `ParseFile` holds for a goroutine on its own |
| `ParserPoolDiscard` | 2 goroutines, same files | exclusive parsers, trees under construction intact |
| `LintRuns` | 2 paths, 1 or 2 workers of 3 wanted, 2 configurations, 3 contents, 1 clock tick | results, no stale hit, slots, termination |
| `LintPooledSerial` | 2 paths, 1 job, 2 parsers | pooled parsers implement private ones |
| `LintPooledParallel` | 2 paths, 2 jobs, no editor | **violated**: diagnostics of another file |
| `DirCommands` | bench: 7 files, 2 workers, channels of 2, up to 3 broken; check: 4 files, 1 allowed; lint: 1 process that saves, 1 that loads, 2 sources, 3 inodes; lint --fix: 2 processes, 1 source, 2 temporary files, 1 save | counts, closing, summary, termination; the cache file is always whole, nothing in it is lost; so are the sources that are fixed |
| `BenchMany` | 10 files, 1 worker, channels of 4, up to 10 broken | **violated**: deadlock |
| `CacheFileTwoWriters` | 2 writers | **violated**: a half-written cache |
| `Lsp` | 3 documents, 2 of one directory and 1 untitled, 2 texts, 2 configurations, 3 messages | diagnostics, answers, fixes, how `Serve` ends |
| `Symbols` | 4 scopes, 3 occurrences of the name | classification, F821, unread imports |
| `SourceFile` | files of four lines with five indentations and seven contents; every template of the grammar with every other in each of its holes; about 3400 files with something to fix or report, under two selections of codes | blocks, agreement of the front ends, round trip; meaning, well-formedness and diagnostics after a fix |
| `UnusedImports` | 3 scopes, 2 occurrences | **violated**: an import that is read is reported |

Why these bounds are enough. Two parsers and two goroutines let each take the
other's; the largest file moves its slice twice, so pointers into three
generations of array exist at once. Two contents of one size make the clock the
only difference between versions, which is the cache's hard case; a run before the
tick and one after it are what a stale entry takes. In `DirCommands` the files exceed what both channels hold, so both senders block: three failures
are `ChanCap + NumCPU - 1`, the most the channel and all workers but one can
hold; with one more and enough files the pool deadlocks, as `BenchMany` shows
with the code's own factor of 4 on one CPU. Two processes are what it takes to
share a temporary name, or to mistake the other's for a source; a source is as good
as two, since the loop takes them one by one and a process that fixes the
temporary file of the other has a second one to do. Three messages are an open and two that overtake what is
on the way back: a change and a request, two requests around an edit of
`pyproject.toml`, or a request on either side of a shutdown. Four scopes are a
function, a class in it, a function in that and the module, the shortest chain in
which a lookup has something to pass over; three occurrences are a read, the
binding it should find and one it should not. In `SourceFile` the four lines allow two
open blocks and a line that closes both, falls between them, continues the line
before or is blank, with the file ending in any of these states. The trees are
all ways to put one construct into another, with and without parentheses (and
every expression into every statement, every pattern into every pattern and
`case`): precedence, and which of two constructs takes a comma, a colon or a
keyword, are relations between neighbours, and each property is one of a construct
in its place. A difference that needs three particular constructs nested in each
other would be missed. The files for `LintFix` are an import in each kind of block
with each way to use its name or not, function bodies of three statements that store,
read, share or rebind one name, comparisons of two operators, and functions in blocks:
a dead store is a relation of two neighbours, and the third statement is what declares
the name shared or reads it afterwards. One selection enables every fix, the other
leaves some out. Symmetry is used for parsers and
callers, which no definition tells apart, and not with liveness properties.

**Deadlock** is checked in every run except `BenchMany`, which states it as a
liveness property that it violates, and the two of `Symbols`, whose walk ends.
In `SourceFile` a scanner or parser that gets nowhere would show as a state that
is not its end.
Where a command ends, a stuttering `Done` stands for the end.

**Fairness.** Weak fairness of every goroutine of a run that is not blocked: Go's
scheduler runs each of them, and a channel operation that stays possible is
taken. For the language server, weak fairness of its loop: it does nothing but
read and handle. Nothing is assumed of users: a run need not start, an editor
need not type, read or answer, and a process need not crash. `SourceFile` and
`Symbols` state no liveness: they are sequential and every call ends or recurses.

## What is proved

`ParserPool_proofs` proves for any goroutines, parsers, files, arena sizes and
growth bound, from the assumptions named in `ParserPool` (a file fits the largest
array, arrays grow, a good file has a node):

| Theorem | States |
|---|---|
| `TypeCorrect` | `Spec => []TypeOK` |
| `ParserIsExclusive` | `Spec => []ExclusiveParser` |
| `ParseStaysIntact` | `Spec => []ParseIntact` |
| `ASTStaysIntact` | `Spec => []ASTIntact`, if `SoleRetainer` |
| `PoolImplementsParseCalls` | `Spec => ImplementsParseCalls`, if `SoleRetainer` |

`ExclusiveParser` alone is not inductive enough for the rest. The inductive
invariant `IInv` adds to types and exclusiveness: who is parsing has a parser and
nobody else has; a slice is never longer than its array; and the pointers of a
tree under construction are exactly the cells its parse has written, each in the
array the slice lived in at that moment and below the length it has now. From
this an append writes a cell nobody points to (`AppendWrites`), and a growth is
never needed beyond the largest array (`RoomToGrow`). The second invariant, for
trees in use (`AInv`), needs of every state that nobody else is calling while a
goroutine uses its AST (`Alone`). `SoleRetainer` is one way to have that
(`SoleIsAlone`), a program that takes turns is another; without it the statement is
false, as `LintPooledParallel` shows in the program that uses the pool. The
refinement is proved step by step: `Allocate` and `Evict` are stuttering steps of
`ParseCalls`.

`LintPooled_proofs` proves of `LintFiles`, for any number of paths, workers, contents,
configurations and clock ticks, with an editor and crashes anywhere, from
`JobsAssumption` and `ContentsAssumption`:

| Theorem | States |
|---|---|
| `TypeCorrect` | `Spec => []TypeOK` |
| `SlotsStayExclusive` | `Spec => []SlotsAreExclusive` |
| `CacheStaysFresh` | `Spec => []CacheNeverStale`, if `FineClock` |
| `ResultsStayCurrent` | `Spec => []ResultsAreCurrent`, if `FineClock` |

`SlotsAreExclusive` is inductive given the types: the channel hands out a path
once, and a report frees the worker that makes it. `CacheNeverStale` is not: it
says nothing of a worker that has a stat or a source in hand and is about to store.
`FreshInv` adds that no time stamp is from the future, that every entry is no
younger than its file, and that an entry, a stat and a source belong to what is
on disk as long as their time stamp is the one on disk. An edit takes a later
stamp, so it can only turn a match into a miss; this is why `lintOneFile` must
stat before it reads, and where `FineClock` is needed. `CurrentInv` adds, for the
results, that the history `during` has what is on disk, that a worker only holds
an entry or a source its path answered to during the run (another worker's `Store`
cannot change the entry, because slots are exclusive), and that a path that was
received has an outcome or a worker on it, so that none is missing when all
workers have left.

It proves of `LintPooled`, for any number of paths, contents, parsers, nodes and
arrays, with an editor and crashes, from the same assumptions and `PooledAssumption`
(of the parsers' constants, what `ParserPool` assumes):

| Theorem | States |
|---|---|
| `PooledImplementsLintFiles` | `SpecPooled => ImplementsLintFiles`, if `OneJob` |
| `PooledResultsStayCurrent` | `SpecPooled => []ResultsAreCurrent`, if `OneJob` and `FineClock` |

`OneJob` says that every choice of `--jobs` comes to one worker. Then only the first
worker is ever at work (`OneWorker`), whoever is parsing parses the source it has in
hand (`ParsesItsSource`), and so `Alone` holds in every state and `AInv` of
`ParserPool_proofs` carries over to the instance inside `LintPooled`. It says that the
pointers show the nodes of that source when the checks run, which makes `CheckAST` the
`Lint` of `LintFiles`. The second theorem follows from the first and from
`ResultsStayCurrent`. With two jobs both are false.

`DirCommands_proofs` proves for any number of files, workers, slots in the channels,
processes, inodes, temporary names and saves, from `DirCommandsAssumption` (numbers are
numbers, and there is a worker and a slot):

| Theorem | States |
|---|---|
| `TypeCorrect` | `Spec => []TypeOK` |
| `ReportsAreAlwaysSerial` | `Spec => []ReportsAreSerial` |
| `NobodySendsOnClosed` | `Spec => []NoSendOnClosed` |
| `NothingGoesUnreported` | `Spec => []FixedOrReported` |
| `NobodyFindsHalfAFile` | `Spec => []FilesStayWhole`, if `SoleWriter` |
| `WhatIsSavedIsLoaded` | `Spec => []SavedIsLoaded`, if `SoleWriter` |
| `SavesAreKept` | `Spec => NothingIsLost`, if `SoleWriter` |

For `bench` the report alone says nothing until the end. `BenchPlaces` says where a
file is: still to be sent, in the channel (which holds the last ones sent, in order,
`BenchOrder`), with one worker, or among the failures, never in two places.
`BenchCount` is the sum that every step keeps: what main has counted and the failures
it has still to see, wherever they are, are all the broken files. At the report the
channels are closed and empty and the workers gone (`BenchClosing`), so nothing is left
to see. `IndexPlaces` is the same for `check`, whose results are slots: an index that
was sent is in the channel, with a worker, or has its verdict.

The other two commands are proved in modules of their own, which `DirCommands_proofs`
instantiates; a command that runs leaves the variables of the others alone.

`CacheFile_proofs` is about `Open` and `Save` with any number of readers and, by
`SoleWriter`, one process that saves. It needs that the inode under the temporary name
is never the cache's own (`NamesApart`), that the writer has that one open and how much
of it is written (`WriterOK`), and that its entries contain those of the cache file
(`WriterAdds`). So a rename puts a file in place that decodes and has at least what was
there. With a second writer `WriterOK` is false, and with it the theorems:
`CacheFileTwoWriters`.

`FixInPlace_proofs` assumes nothing of the processes: any number, all fixing the same
directory. Temporary names are unique among those at work (`TempsOK`). A file that can
be fixed is still to be looked at, in hand, reported, or saved since
(`NothingForgotten`). Until someone has meddled, what is under a temporary name is what
its process made of what it read (`OwnTemps`), and sources are whole
(`SourcesWhole`). For the saves of the editor the point is that only an editor puts
something to fix into a source: so a source that can be fixed is as it was saved last,
and what a process is fixing is the last save unless it is in `since` (`LastSaves`).
The proof corrected the model: a rename whose target is its own temporary name keeps
the file, and only somebody else's temporary file counts for `meddled`. Both are about
a process whose source is a temporary file that is gone before it picks that very name.

`LspServer_proofs` proves for any number of documents, directories, texts,
configurations and messages in the pipes, from `LspAssumption`:

| Theorem | States |
|---|---|
| `TypeCorrect` | `Spec => []TypeOK` |
| `DiagnosticsAlwaysFollow` | `Spec => []DiagnosticsFollowBuffer` |
| `RequestsAreAnsweredInOrder` | `Spec => []AnsweredInOrder` |
| `OffersAlwaysFit` | `Spec => []OffersFitRequest` |
| `NilIsAgreed` | `Spec => []NilOnlyIfAgreed` |

The invariants speak of pipes that are empty, or of answers that have arrived; the
inductive ones speak of what is under way. `WillBe(k, u, text)` says that the server
will have `text` for `u` when it comes to message `k`, by the last edit before it;
`TextsFollow` says that behind the last message this is the buffer, and at a request
for actions the text the editor asked about. `WillShow` is the same of what was
published (`PublishedLast`). A handler takes the first message of one pipe and adds to
the other, which shifts both by one. `ConfigsKnown` says that the configuration an open
document was judged by is in the cache for good, so that later edits of
`pyproject.toml` cannot part two documents of one directory; `IdsOK` says that a
request is known by its id, in the pipes and to the editor. For this the model holds
the requests that are pending as a set, and picks messages out of a pipe by their
places in it.

`Symbols_proofs` proves for programs of any number of scopes and occurrences, from
`SymbolsAssumption`:

| Theorem | States |
|---|---|
| `TypeCorrect` | `Spec => []TypeOK` |
| `TableMirrorsButRelays` | `Spec => []MirrorsButRelays` |
| `UndefinedIsAlwaysUnbound` | `Spec => []UndefinedIsUnbound` |
| `UnreadImportsAreReported` | `Spec => []UnreadImportIsReported` |

The lookups are recursive functions over the tree of scopes, and no induction theorem
is needed for them: scopes are numbers that grow inwards, a set of numbers has a least
one (`FirstOf`), so a function whose value at `t` is given or is that at a smaller
number exists and is unique (`ChainExists`, `ChainUnique`). That gives each lookup its
equation (`CapturableStep`, `FoundStep`, `AroundStep`), and the first scope at which
two of them differ gives the comparison of resolve's search with Python's
(`SearchesAgree`, `NothingFound`). CPython's side speaks of the scopes between a reader
and the owner: `Encloses` climbs from one scope towards another, one step at a time
(`ClimbStep`). The search for an owner climbs the same way, so it ends in a scope around
the reader (`AroundEncloses`), and coming by a scope it ends there, further in, or where
the search from that scope does (`AroundFrom`). Hence in a scope that reads the name
CPython has it free exactly when the variable is another scope's (`FreeInReaders`), which
is what `resolve` asks. The invariant has the meaning of the marks:
`MarksOK` says that Free and Cell are what the lookups on the finished table say. They
were set by lookups on the table before, so `LookupsKept` is needed: the marks are not
among the flags a lookup goes by. For imports it is enough that a use recorded in the
module is a read there (`ModuleReads`), whatever is declared.

`Blocks_proofs` proves for every file, a sequence of the modelled characters of any
length, from `SourcesAssumption`:

| Theorem | States |
|---|---|
| `Invariant` | `Spec => []Inv`, the inductive invariant |
| `TypeCorrect` | `Spec => []TypeOK` |
| `BlocksNest` | `Spec => []BlocksWellFormed` |
| `NoTokenIsLost` | `Spec => []NoTokenLost` |
| `LayersAlwaysAgree` | `Spec => []LayersAgree` |

First the loops. Each of them goes to a later offset or ends (`Descends`), so a
recursive function over offsets exists (`LoopExists`) and what holds where it ends and
is handed back by a round holds everywhere (`LoopInduction`); both come from the fact
that a set of numbers has a first one. That gives each loop its equation and what it
leaves behind (`MeasureIs` to `PhysicalIs`): `Skips(i, k)` says that from `i` to `k`
there is no name or bracket outside of comments, and that `k` is not inside of one.
Then a step: `Step2` and `Step1` say what one token does to a scanner and to what it
has emitted, whatever the token is. The invariant has a part for each scanner.
`Built(out, open, k)` says that `out` is well formed, that `open` of its blocks are not
closed, and that its names and brackets are those before offset `k`. For v2, `open` is
the depth of its stack, and `Flags2` ties its fields to each other and to the last
token: DEDENTs are owed right after one, a line begins after a NEWLINE or at the start,
and the flags of the end of the file go with what was emitted there. Without it a
NEWLINE could follow an INDENT, or a DEDENT the middle of a line. For v1 the same is
said of what was emitted and what waits in the queue taken together. The proof
corrected the model: the end of the file was a `CASE` whose conditions overlap, which
TLC reads from the top and the logic does not (`Star` of `Parser` had the same).

`LayersAlwaysAgree` compares runs of two programs of different step size: v2 emits one
DEDENT a call from a count, v1 has its whole queue at once. From the start of a line the
loops of both come to the same character (`LinesAgree`), and so they do in a line or in
brackets (`PlacesAgree`), by induction from the end of the file backwards. A line's
indentation is a pair of numbers, by tab stops and by bytes (`Level`); `TabConsistent`
says that both numbers order the lines of the file alike (`LevelsAgree`), so stacks
that are `Paired` open and close the same (`ClosesAgree`). `Alike(s, t)` says that the
scanner and the wrapper are in the same place with paired stacks and the same
brackets. The invariant `AgreeInv` keeps the calls of v2 as a set of pairs of a state
and what was emitted by then, and says that v1 mirrors one of them: what v1 has
emitted, with its queue, is what v2 had emitted in a state that is `Alike`, or at its
end (`Mirrors`). One call of v1 with an empty queue takes v2 as many calls as tokens
come of it (`LineRun`, `OwedRun`, `EndRun`), at the end of which they are alike again,
or both have failed (`LineAgrees`, `InLineAgrees`). Form feeds need care: after one v2
counts from zero, v1 only before the first token of a physical line, which is where
indentation is measured (`BothCounts`). `AgreeInv` has an unbounded quantifier, so TLC
checks `LayersAgree` and not the invariant.

Only model-checked:

* All liveness: `PoolsEnd`, `RunEnds`, `ServerStops`. Fairness is defined by `ENABLED`,
  which is out of the prover's reach.
* In `SourceFile`, what is said of `FrontEnds` and `LintFix`. Their parsers, the writer
  and the fixer's passes are recursive operators, about which the prover cannot reason;
  what they return for every file would need an induction over trees.
* The violations, each of which is a behaviour that TLC shows. They are why `OneJob`,
  `SoleWriter` and the exclusion of `meddled` are hypotheses.

## What the checks found

1. `LintPooledParallel`: an AST is valid until any goroutine's next `ParseFile`,
   not only the same goroutine's, as `changelog/0.6.4.md` has it, and `lint` with
   several jobs meets exactly that. Its output is not always that of `--jobs 1`,
   and the wrong diagnostics enter the cache.
2. `BenchMany`: `bench` can deadlock on a directory with many broken files.
3. `CacheFileTwoWriters`: two runs with the same cache path can leave a
   half-written cache file, in spite of the rename. The next run warns and starts
   empty.
4. `UnusedImports`: F401 reports an import that is read only in an inner scope,
   because a use is recorded where it occurs and `resolve` never marks the
   module's entry. `--fix` deletes the import.

The differences between the front ends, and what the writer loses, are listed under
`FrontEnds`; the run checks that the list is complete for its files. They have no run
of their own: the changelog promises identical output for a corpus of fixtures,
which may well avoid all of them.

The comments of the fixer say more than it does, which the exceptions of `LintFix`
record. `legacy/linter/fix.go` says of a dead store that no read of the name can sit
between the two assignments; the value of the second one may read it. It says that a
caller can subtract what was resolved from the diagnostics; a rewritten comparison with
a literal brings an F632 that was not there. `check_f841.go` says that a local bound by
"NamedExpr walrus", or in a lambda body, is flagged when nothing reads it; the code has no
case for either, so `(x := 1)` in a function is never reported, and neither is
`x = y = 1`. It does report a local that only a closure reads, and `import x; del x` loses
the import.

Two smaller ones have no run. With `FineClock = FALSE` the invariant
`CacheNeverStale` of `LintFiles` fails: an edit of equal size within one tick of
the file system's clock keeps the key of a cache entry, which
`legacy/linter/cache.go` rules out. And `symbols/symbols.go:3` says that the output
"mirrors what CPython's `_symtable` module produces": it does not for a name declared
`global` or `nonlocal`, for a function that a variable only passes through, and for a
variable that only class bodies read, which is what `MirrorsButRelays` excepts.

Some hazards of `PROJECT.json` thus lie in what a property excepts, and are known rather
than caught: a second `lint --fix` on the same directory (`meddled`), `x = 1` before
`x = x + 1` (`SeenBetween`), an import whose removal leaves a `try` on its own or an
inner scope without the name, functions of one name in two blocks (`InRepeated`). The
runs show that nothing else goes wrong beside them. Two savers of one cache, one after
the other, are not explored: `DirCommands` has one.

## What is not modelled, and the plan

Not modelled: formats and wording, generated code (`ast/*_gen.go`, `asdlgen`),
argument parsing and the single-file commands, which keep no state and run no
goroutines. In the LSP model the editor sends well-formed parameters or no JSON
at all; pipes do not fill up. `FixInPlace` has no modes or symbolic links (the
rename replaces both: the temporary file has mode 0600), and a crash is that of the
process: `fixOne` does not sync, so a power failure may lose what it wrote.

`Symbols` leaves out type parameters, `__class__` and the sites of a name. The
parsers leave out f-strings and t-strings (`parser/parser.go` from `parseStringAtom`
on, `ast/fstring.go`, `ast/tstring.go`), the values of numbers and strings, positions
and messages; the scanners, the spelling of tokens, carriage returns and vertical
tabs. participle gives up an alternative for good after 96 tokens; the model's
alternatives look as far as they need.

`LegacySymbols` leaves out the flags that `resolve` sets and S001, which no check of
`legacy/linter` reads. F501, F541 and W605 are about the text of strings; noqa needs
comments, which tokens do not carry (a fix ignores noqa: `# noqa: F401` does not keep an
import). `cst` is a string algorithm over line numbers.

Planned, in this order:

1. f-strings as a layer of `SourceFile`: the nested scans of both scanners and the
   writer's choice of quotes.
2. `LintConfig`: discovery, selection, per-file ignores, `configHash`, and the
   spelling of a path under one cache key; noqa and comment attachment.
3. Proofs: one abstract, serial command that `bench`, `check` and the lint implement.

New modules share runs with the ones they compose with, as `DirCommands` does.
