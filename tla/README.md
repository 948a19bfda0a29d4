# A TLA+ model of errtrace

errtrace records the path an error takes while it is returned.  The repository
holds a Go library, which wraps errors and prints their return traces, and a
command, which inserts the wrapping calls into Go source.  This directory models
both: TLA+ modules translated from the code, configurations that check them
with TLC on small instances, and proofs that TLAPS checks for all instances.

`PROJECT.json` lists the runs, the lines each definition models (`map`), the
hazards and the theorems.

## 1. The system

### 1.1 Inventory

| Component | State | Operations | What is hard | What makes it correct |
|---|---|---|---|---|
| arena (`arena.go`) | a `sync.Pool` of slabs; per slab a buffer and `idx` | `Take` | called by any goroutine; no lock around `idx`; the pool may miss, and the collector empties it; memory is reused | one owner per slab and per object; lock freedom |
| wrapping API (`wrap.go`, `errors.go`, `wrap_caller.go`, `wrap` in `errtrace.go`) | the global `_arena`; the `errTrace` objects | `Wrap`, `Wrap2`..`Wrap6`, `New`, `Errorf`, `Caller.Wrap` | an object is filled after its slab went back to the pool | a wrapped error is an immutable record; chains end; `nil` stays `nil` |
| program counters (`internal/pc`, `GetCaller`) | none | `GetCaller`, `GetCallerSkip1` | frame layout, inlining | not modelled |
| `UnwrapFrame`, `buildTraceTree` (`unwrap.go`, `tree.go`) | locals of a recursive call | the walk over an error | chains that mix frames, missing frames and multi-errors; no bound on the loop | a trace for each error in a multi-error; termination |
| tree writer (`tree.go`) | `treeWriter.e`, path slices | `WriteTree` | slices that share arrays; writes that fail half-way | paths stay intact, pipes connect, failures are reported |
| rewriter (`cmd/errtrace/main.go`) | `walker`: function, block, opt-outs, inserts; the name errtrace goes by in the file | `Visit` and its helpers, `parseFile`, `rewriteFile` | nested scopes, literals and defers; running over its own output; imports under other names, blank ones, dots | complete, only errors, once, idempotent; the calls written mean errtrace |
| command (`main.go`: `Run`, `expandPatterns`, `processFile`) | the list of files, files on disk, stdin, what was printed, the exit code | one file after another: read, parse, rewrite, format, write | any of these failing, a write half-way; a file listed twice; `-l`, `-w`, stdin | no file is damaged or skipped without an error; `-l` tells what `-w` does; the output is left alone by the next run |
| toolexec mode (`toolexec.go`) | temporary directory, parsed files, `addLinkName`; the cache of `go build` | version query, package rewrite, original tool | which packages are rewritten; failures between two files; results cached under a version that must tell options and binaries apart | one `go:linkname` per unsafe package; the tool's arguments stay in place; a build gives what its options and its errtrace give |
| `internal/tracetest`, `internal/diff` | none | test helpers | prefixes of line numbers; line numbers of context lines | not modelled |

### 1.2 How the components interact

`Wrap` calls `arena.Take` and fills the object it gets.  The errors form chains
and, through `errors.Join`, trees; `Format` gives such an error to
`buildTraceTree`, which calls `UnwrapFrame` in a loop and itself for the errors
in a multi-error, and the tree goes to the tree writer.  That these walks end
depends on what `Wrap` promises, so it is stated as an invariant of the store of
errors (`ChainsEnd`) and proved from the refinement in section 5.

The command parses a file, walks it to collect inserts, and writes it with the
inserts made; toolexec mode does the same for all files of a package and passes
the results to the compiler.  `go build` runs it: once to ask for a version,
which becomes part of the key its cache is searched by, and, if nothing is cached,
once more to compile.

## 2. Modules

```
ErrorStore  <---- refined by ----  Errors  --- EXTENDS --->  Arena
    ^                                 ^
ErrorStoreProofs <-- INSTANCE -- ErrorsProofs

TraceTree          TreeWriter          Rewriter --- EXTENDS ---> Rewrite
    ^                  ^                   ^
TraceTreeProofs    TreeWriterProofs    RewriterProofs <--- RewriterOutputProofs

MainCmd --- EXTENDS ---> SourceFile    GoBuild --- EXTENDS ---> ToolExec
   ^                                      ^
MainCmdProofs                          ToolExecProofs
```

**Arena.**  `Take` runs as the steps `Call`, `PoolHit` or `PoolMiss`, `NewSlab`,
`TakeFull` or `TakePtr`, `TakeBump`, `PoolPut`, `Return`.  `pc[g]` is the place
in `Take`, `slab[g]` its local variable, `at[g]` the index from which
`slab.take` computed its pointer.  `idx` is read (`TakePtr`) and written
(`TakeBump`) in different steps because nothing in the code makes them one.
`pool` counts how often a slab is pooled, so that pooling it twice would show.
`live` counts how many callers hold an object; `Forget` is the program losing
one.  The environment is the Go runtime: `PoolMiss` is enabled although the pool
has slabs (pools are per P), `PoolDrop` is a collection that clears the pool, and
`Reclaim` frees a slab that nothing points into, after which `NewSlab` may give
the same address out again.

**ErrorStore** is the abstract promise of the wrapping API: `Invoke` with an
error and a call site, `Respond` with a new record that holds exactly these,
`Drop` of a record nothing refers to.  It knows no slabs.

**Errors** is the API over the arena.  Each of the steps
`et := _arena.Take()`, `et.err = err`, `et.pc = callerPC`, `return et` is an
action, interleaved with those of other goroutines.  `stage`, `call` and `et` are
the place, the arguments and the local variable of `wrap`.  `NilCallers` says
whether the program calls `Caller.Wrap` with nil.  `Refines` is
`ErrorStore`'s specification under the mapping: the store is the contents of the
published objects (alive and in no `et`), and a call is pending while `wrap` runs.

**TraceTree.**  `errs` gives each error the methods `UnwrapFrame` and
`buildTraceTree` test for: `TracePC` (absent, with a frame, or with a PC that has
none), and `Unwrap() error` or `Unwrap() []error`.  `calls` is the stack of
`buildTraceTree` calls with its locals; `TakeFrame`, `UnwrapOne`, `UnwrapMany`,
`Child` and `Finish` are the arms of its loop.  The reference, `NodesBelow`,
defines the tree from the comments on `Format` and `traceTree` without that loop.
It and `Frames`, `End` and `UnwrapLoop`, from which it is built, are recursive functions.

**TreeWriter.**  `calls` is the stack of `writeTree` calls.  A path is a Go slice:
an array and a length.  `Appended` is `append`, in place while the array has
room and into a copy of twice the size otherwise.  Arrays are numbered: a new one gets
a number that no active call uses, so that `MaxDepth` of them suffice, and what the
others held is garbage.  `TreesAssumption` says what a tree is: with a node it has the
node's ancestors and the earlier siblings of each of them.  `WriteTrace` draws the
lines of a node by their columns only, and any of its writes may fail.

**Rewrite** and **Rewriter.**  A program is the preorder of its relevant syntax
nodes: functions, literals, defers of literals, blocks, switches with their
clauses, assignments, returns, and the `end` of what was opened.  Expressions are calls of errtrace, other calls,
`nil`, or others; every node has its own line.  `Rewrite` is the walker as
operators on a record `w` (the stack of visitors, the inserts, opt-outs used,
lines logged) and `rewriteFile` as an operator on programs.  The inserts are a bag, so that
making one twice would show.  `Walkers` is the walker after each node, and `Opened` the
nodes that are open there; both are recursive functions on the positions of a program.  `Rewriter` is
the state machine: a file starts as one of `Beginnings`, `Write` adds a node to it,
opted out or not, and `RunTool` walks and rewrites the finished file.  Its properties are stated over scopes
computed from the program, not from the walker's stack, and over what the program does: a naked return
hands out a wrapped error (`HandsOutWrap`) if an errtrace call was assigned to it in a block around
the return and nothing was assigned to it since; what the walker remembers plays no part in that.  `FileAssumption` says that the
beginnings are beginnings of files: one function declaration, each node in it and on a
line of its own; `ReturnsAssumption`, that their returns have no expression, one, or one for
each result: what the compiler admits, and the single value the walker complains of.

**SourceFile** is a file as `parseFile` and `rewriteFile` see it apart from the syntax
tree of its functions: its imports, its identifiers, and for each error it returns the
packages whose `Wrap` it is wrapped in.  Names are numbers, `errtrace` being 1 and
`errtrace2` being 2, because the code tries them in this order.  `ErrtracePkg` is
the name chosen (of the first import in `Usable`, or a free one), `WithImport` the imports with
the new one, `RewriteFile` the whole.  An import knows the run of lines it stands in, because
`Gofmt` sorts each run (`SortImports`) and drops what is there twice, and with that may change
which import is the first.  `InOrder` says that it does not.

**MainCmd** is `Run`.  `pc` is the place in the loop and in `processFile`, `i` the file of
the list `files`, `buf` the source at hand.  The file system is `disk`; `before` keeps what
the files were, to state properties.  `ReadFails`, `ParseFails`, `WriteFails` and the
alternatives in `ListFile`, `Format` and `PrintSource` are the error returns of
`processFile`, which all lead to `Fail`: `Run` logs the error (`stderr`) and goes on.
`Packages` is what `go list` answers.  `CompilesAssumption` says what is asked of the files
for `CallsResolve`: names mean one thing (`Compiles`), and where errtrace already wraps an error, its
call is the outermost and the only one (`WrappedLast`); without that "wrapped once" would be false
of the input.

**ToolExec** is one command that `go build` runs through errtrace.  `phase` is the
function that runs and `next` the argument its loop is at; `parsed`, `force`, `link`,
`temp` and `newArgs` are `parsePkgState`, `unsafeForceImport`, `addLinkName`, the
temporary directory and the new argument list.  A file comes with what `parseFile`
finds in it (which `Rewrite` models): does it import errtrace, is there
anything to insert, does it parse.  Every call of the operating system may fail, a
write half-way.  `object` is what the tool reads at the paths it was given, at the
time it runs.  Import paths and selectors are sequences of tokens, because
`packageSelectorMatch` is about prefixes.

**GoBuild** composes such commands to builds: `ToolExecVersion` fixes the key,
`CacheHit` takes a result, `CacheMiss` starts a command, and `Finish` caches what
succeeded.  Between builds `Change` sets other options or installs another
errtrace.  The reference, `Fresh`, says from the package, the options and the binary
what a build is to give, in one step and without a cache.

Definitions named with an underscore and a short word (`PoolHit_Shared`) and
commented "Variant" are plausible mistakes.  No specification uses them; each
replaces the definition after it to see that a property notices.

## 3. Runs

| Run | Shows | Bounds |
|---|---|---|
| `arena` | types, `SlabExclusive`, `NoAlias`, `CutBelowIdx`, `LockFree` | 3 goroutines of which two may stop for good, 3 slabs of 2 objects, 3 live objects |
| `errors` | `Refines`, `ChainsEnd`, `NoDangling`, `NoNilInside` | 2 goroutines, 2 slabs of 2, 2 live objects, 2 sites, 1 base error |
| `errors_nil` | a counterexample to `NoNilInside` | the same, with nil passed to `Caller.Wrap` |
| `trace_tree` | `EachErrorReported`, `UnwrapLoopAgrees`, `Terminates` | all graphs of 3 errors, multi-errors of up to 2 |
| `trace_tree_multi` | a counterexample to `EachErrorReported` | the same, with multi-errors that have a frame |
| `tree_writer` | `PathsIntact`, `PipesConnected`, `DepthFirst`, `FailureReported` | all trees of up to 8 nodes, messages of 1 or 2 lines |
| `rewriter` | `Idempotent`, `WrappedOnce`, `ErrorsOnly`, `NothingMissed`, `OptoutExact`, `WrapNExists` | all files of 3 nodes in a function of 9 signatures, and of 2 in the second clause of a switch; 1 opt-out, with and without `-no-wrapn` |
| `rewriter_nowrapn` | a counterexample to `NoWrapNObeyed` | the same |
| `rewriter_stale` | a counterexample to `HandsOutWrapped` | all files of 3 nodes in a function with a named error |
| `main_cmd` | `FilesIntact`, `EveryFileProcessed`, `ListAgrees`, `CallsResolve`, `RunAgain`, `GofmtGuards`, `Terminates` | 2 files and stdin, 16 lists of imports, all flags, 7 argument lists |
| `go_build` | `LinkNameOnce`, `SameArguments`, `FreshOutcome` | 2 builds of a package of a flag and 2 files; 6 option settings, 5 binaries |
| `go_build_spaced` | a counterexample to `FreshOutcome` | the same, with a selector that has a blank in it |

Why the bounds are enough:

* Two objects per slab give a slab's three conditions (fresh, in use, full).
  Three slabs let one be pooled, full or reclaimed while others are in use.
  Three goroutines are one more than an exclusion can go wrong with.
  Deadlock is not checked here, because `MaxLive` stops a program that forgets
  nothing; the invariants are proved without these bounds.  There are as many
  slabs as objects may be live, so that a fresh slab can always be had, as in the
  code.
* Three errors make chains with a frame, a gap and a multi-error in any
  order, and an error shared by two parents.
* `append` allocates capacities 1, 2, 4, 8.  A path of three elements is the
  first with spare room, so sharing starts with siblings on level four, which
  trees of five nodes have; eight nodes put further levels and siblings below it.
  A node that is both drawn late and has siblings with descendants is included.
* Three nodes in a function reach a literal or defer with statements in and after
  it, a block between two statements, and a statement in a literal in a defer.  What
  one clause of a switch does to the next takes more nodes: the second clause is a
  beginning of its own.  The signatures
  are the cases of `funcType` and `wrapReturnCall`: none, one and two errors, named
  and unnamed, not last, more than six results, and an `Unwrap` method.
* In `main_cmd` one file takes every form and the other has an error to wrap or does
  not parse, so that a failure comes before or after a success; they are listed
  alone, together, through a pattern, twice, and mixed with stdin.  A file imports nothing,
  another package (alone, in parentheses, or called errtrace as well), or errtrace: as
  it is, under another name, blank, by a dot, or twice: line by line, or in
  parentheses in the order of gofmt, against it, and in two runs, which gofmt does not mix.
* Two files with an argument between them give each order of a file with and
  one without something to insert, and of files that import errtrace and do not; a
  failure at the second file meets a first one that is done.  The paths are one that is
  selected exactly, one below `lib/`, one that only starts with `lib`, and errtrace
  itself, next to a package of the standard library.  One result can be stale after
  one change, so two builds are enough.  The binaries are a commit, two modified
  trees at that commit, an archive without version control, and one that cannot be
  read.  Options and errtrace change between builds only.

The state machines of `TraceTree`, `TreeWriter`, `Rewriter`, `MainCmd` and `GoBuild` stop when their
work is done, so their runs do not check for deadlock.  That `TraceTree` stops
only when it is done is `Terminates`.  `DepthFirst` and `EachErrorReported` are
conditions on the final states as well, and so are `EveryFileProcessed` and `ListAgrees`.

**Fairness.**  `ArenaLiveSpec` assumes weak fairness of the steps of the
goroutines in `Running` only, and of the collector: Go's scheduler runs every
runnable goroutine, and collections recur.  No fairness is assumed of a goroutine
that is not in `Running`: it may stop while it has a slab.  `TraceTree`
and `MainCmd` are sequential code, for which weak fairness of the next step says that it
runs (and that reading, writing and `go list` return, with an error or without).

## 4. Disagreements between the code and its documentation

1. **`Caller.Wrap(nil)`** (`wrap_caller.go:31`) returns a non-nil error around nil,
   where `Wrap` returns nil.  Run `errors_nil`.
2. **Multi-errors with a frame** (`unwrap.go:23`): `errors.Unwrap` returns nil for
   an `Unwrap() []error`, so an error that also has `TracePC` loses what it
   contains.  Run `trace_tree_multi`.
3. **`-no-wrapn` in deferred literals** (`main.go:960`): `x, err = f()` is wrapped by
   `Wrap2` all the same; in toolexec mode for unsafe packages only `Wrap` is
   linked.  Run `rewriter_nowrapn`.
4. **Selectors with blanks** (`toolexec.go:101`): the options are hashed as `%v` prints
   them, which separates list elements by blanks.  After a build with
   `-unsafe-packages "app lib/..."` the corrected `app,lib/...` has the same version,
   and `go build` reuses what it compiled without errtrace.  Run `go_build_spaced`.
5. **Errors "already wrapped"** (`main.go:841`, `903`): a named error that was assigned an
   errtrace call in a block counts as wrapped from then on.  After
   `err = errtrace.Wrap(f()); err = g()` a naked return is left alone and hands
   out the error of `g` unwrapped.  A switch or select is one block, so the assignment
   may even be in another clause, on no way to the return (two nodes more than the
   run's counterexample).  The code calls its logic simplistic; the
   comment at the return says that the errors are wrapped.  Run `rewriter_stale`.
   `NothingMissed` names this case (`Stale`, in the file as its author wrote it) as its only exception.

Not counted as a disagreement: `-w` formats a file even if it has nothing to wrap,
which `-l` ("list files that would be modified") does not announce; `ListAgrees` is
about the rewrite, and leaves the formatting out.

Neither is what becomes of two imports of errtrace (`main.go:392`, `438`): the tool uses the first one,
and then gofmt sorts them.  A file with `errtrace2 "braces.dev/errtrace"` above
`"braces.dev/errtrace"` in parentheses gets calls of `errtrace2`; after gofmt the first import
is `errtrace`, and the next run wraps the calls again.  The test that calls a second run "a no-op"
(`main_test.go:171`) writes with `-format=never`, for which that is right for every file.  `RunAgain`
therefore asks for the imports to be in order only if gofmt ran.  With two imports also a single run wraps
calls by the other name again; `CallsResolve` says "once" only of files with one.

## 5. Proofs

`ErrorsProofs` first proves the invariants of `arena` for any number of goroutines,
slabs and objects.  `ArenaInv` is inductive: `SlabExclusive` is preserved because a
goroutine takes a slab only from the pool or fresh, and a fresh slab is
one into which nothing points.  `NoAlias` needs more: objects handed out lie
below `idx` (`CutBelowIdx`), `at[g] = idx` between the two halves of
`take`, and the slab of a live object is not reclaimed.  The assumptions are
`SlabSize > 0` and that `None` is not a slab.

`ErrorStoreProofs` proves of the abstract store alone that chains end, given that
records, base errors, nil and `NoCall` can be told apart (`Distinct`).
The argument is that a new record wraps something that is already known, and
no known record wraps the new one (`NoDangling`); so a set of records in which each
one wraps another one of the set cannot arise.

Then `ErrorsProofs` connects the two.  `WrapInv` adds to `ArenaInv` how much of its object
each `wrap` has filled (`WrapProgress`) and that no two calls fill the same
one (`OwnEt`).  Each step of `Errors` is at most one step of the arena
(`WrapStepsArena`), so `ArenaInv` carries over.  `WrapRefinesStore` shows that
every step is a step of `ErrorStore` or a stutter: `Enter` is `Invoke`,
`WrapReturn` is `Respond`, `ForgetError` is `Drop`, and the writes between them touch
only an object that is in nobody's hands.  The theorems of
`ErrorStoreProofs` are then instantiated under the refinement mapping, which gives
`WrapChainsEnd` and `WrapNoDangling`.  `WrapNoNilInside` holds under the assumption
`~NilCallers`, and the run `errors_nil` shows that it needs it.

`ToolExecProofs` proves `SameArguments` and `LinkNameOnce` for packages of any number of
files and other arguments, any options and any failures.  The inductive invariant,
`ToolInv`, says how many arguments the loop has passed on (`Progress`), that the path
passed on for a file leads to that file or to its rewrite (`Complete`), and that the
declaration is still to be added exactly if no file was rewritten in unsafe mode
yet, and otherwise can be read through one argument only (`LinkProgress`).
`Complete` is preserved because a rewrite replaces no earlier one, which takes the
assumption `PackagesAssumption` that the files have different names: the TODO at
`toolexec.go:249`.

`MainCmdProofs` first proves what a rewrite makes of a rewritten file
(`RewriteTwice`), for any imports, names and returned errors, if the output parses.  Not
formatted, it stays as it is: the new import is the one the next run finds (`NewImportIsUsed`),
so the name is the same (`SameName`) and every call under it is recognised (`NothingLeft`).
Formatted, it does so too if gofmt keeps the imports of errtrace in order (`InOrder`, which every file has
with one import of errtrace that can be used); otherwise the next rewrite may wrap its calls again, but the one
after that changes nothing, because gofmt's output is in order (`GofmtFile`).  For this the imports
of a file must have a sorted order at all (`SortExists`, `SortedImports`).  The assumption is that a file has finitely many identifiers, so that a free one is found.

The proofs about the command build on it.  `MainInv` is inductive: `Buffer` and `FromStdin` say what
`processFile` holds at each of its steps, `Intact` what a file may have become, and
`Progress` that the files before the current one are dealt with.  A file that is listed twice
is where `RewriteTwice` is needed: it becomes its result or the result of that, and nothing
else however often it is listed (`ResultSettles`, `WritesMade`).
`FilesIntact`, `GofmtGuards` and `EveryFileProcessed` follow for any number of files, any
command line and any failures, assuming that `go list` names files there are
(`ArgsAssumption`).

The last part of `MainCmdProofs` is about what is printed: `PrintInv` says of each entry of `stdout` that it is about a
file that is done with, and is its name only if it has inserts (`Truthful`), and that no file
with inserts was passed over (`NamesPrinted`).  Then `ListAgrees` follows, because
a rewrite always changes a file with inserts (`InsertsChange`), and `RunAgain`, because what was
written or printed is the result for some file, and `RewriteTwice` holds for that.
`CallsResolve` holds for any imports but a dot import that is chosen, for any names and wrapped errors, under
`CompilesAssumption`: a file that can use its import keeps the name, one that cannot gets
a name that was no identifier, and the calls under it are those written and those recognised (`ResultResolves`).
That errors are wrapped once is said of files where errtrace has one name (`OneImport`): calls by another
one are not recognised.

The second part of `ToolExecProofs` proves `FreshOutcome` for any package, options, builds of errtrace and changes
of both between builds, under `VersionsDiffer`: different options print differently, and
executables with the same version have the same code.  The options and executables of
`go_build` satisfy it; those of `go_build_spaced` do not, and there the property fails.
`FreshInv` is inductive: every entry of the cache under the key of some options and executable
is what a build with them is to give (`CacheInv`); the key of the current build is that of
its options (`KeyInv`); and the command is, at each phase, on its way to that result
(`CommandInv`): `parsePkg` has found exactly what is in the files so far (`ParseInv`),
the kind of rewrite is the one `Instrumented` names (`RewriteInv`), the tool reads each file
rewritten exactly if it is to be (`ToolReadsInv`), and a command that fails has a reason
(`ReturnInv`).  That `packageSelectorMatch`, which compares prefixes, selects what the
reference `Selects` says is the lemma `SelectorMatches`, for selectors and paths of any length (`TokensAssumption`).

`TreeWriterProofs` proves every invariant of `tree_writer` for any trees, any depth and any
messages.  The inductive invariant is `DrawInv`.  `PathsIntact` is preserved although arrays are
shared because slices have the lengths of the calls' depths (`StackInv`) and lie
within their arrays (`SlicesInv`): an `append` in place writes one cell past the slice of the innermost call, which is
past every other slice on the stack, and a call that has returned holds its slice no more.
`DepthFirst` follows from what is written at each time: exactly the nodes
left of the next child (`WrittenInv`), in order (`OrderInv`).  For `PipesConnected`,
`LastInv` says that the node drawn last is the earlier sibling of the next one or of an ancestor of
it, so that the bars under it are where the next lines have theirs.  The assumptions are `TreesAssumption` and `BoundsAssumption`.

`TraceTreeProofs` proves that the tree `buildTraceTree` returns is the one the reference
describes, for any number of errors and any graph of them in which an error wraps only
earlier ones.  An error's number bounds how often one can unwrap it, so the recursive definitions
are unfolded by the least number for which one does not exist (`FramesUnfold`, `EndUnfold`,
`NodesUnfold`).  `WalkInv` says what a call still has to find: the frames of its trace followed by
those of `err` are the frames of the error it was given; `ReportInv` says that the nodes
in `tree` together with those the calls will add are the reference's.  `EveryErrorInTheTree` assumes
`~PCMulti`, and the run `trace_tree_multi` shows that it needs to.

`RewriterProofs` proves properties of the walker for files of any length, nested to any
depth.  `VisitEffect` is the lemma about the code: what one node does to the walker depends on the visitor
on top of the stack only, and the inserts it adds are among the `Candidates` of the node.
`StackInv` ties the walker's stack to the program: visitors are those of the
open nodes, and each of them knows the function it stands in (`EnclosingIsInnermost`), the one that
the properties compute from the program.  The rest follows from walks that have this:

* An insert is of a return or a deferred assignment in the right function (`WrapsErrorsOnly`) and its
  `WrapN` exists (`OnlyWrapNThatExist`).
* `WrapsOnce`: two deferred literals that are open at the same assignment assign to errors of different
  functions (`DefersApart`), so their inserts are of different expressions.
* `OptoutsAreExact`: walks with and without opt-outs go through the same stacks, and their
  inserts differ at the lines opted out (`OptoutInv`).

That the file on which this is said is well formed is an invariant of the writing
(`FileInv`, from `FileAssumption` and `ReturnsAssumption`): a return fits the function it stands in
and an assignment is to variables in scope.

`RewriterOutputProofs` is about the output as a program.  The output is the pieces of the nodes put
together (`OutputParts`): node `i` becomes the nodes from `off[i - 1] + 1` to `off[i]`, one node, or
for a return also the assignment or the block before it (`ReturnPiece`).  What is open after a
piece is what is open after its node, moved (`OpenMoved`).  From this:

* `TypeOK` (`TypeCorrect`): a piece closes what it opens and stays on the line of its node.
* `Idempotent` (`NothingWrappedAgain`): by a simulation between the two runs, `RunAgain`, which is
  preserved from node to node.  The visitors of the second run know the same functions and have seen
  no fewer errors wrapped (`Follows`), and each piece leaves nothing to insert: a wrapped expression is a
  call of errtrace, the assignment before a naked return marks its errors as wrapped (`RunAgainAssigned`),
  and in a block the return hands out what the block assigned (`RunAgainInBlock`).
* `NothingMissed` (`NoneMissed`): a return the walker skips is logged and stays logged (`SkippedLogged`);
  what a visitor takes for wrapped was assigned a call of errtrace in its block (`MarkInv`).  Either that call is
  what the return hands out, and then it is in the output too, because the rewrite puts nothing in between that
  replaces it (`MarkMoved`, `KeptInPlace`, `SetsWrappedKept`); or it is not, and the error is `Stale`, the exception the
  property names.  The function and the block a return stands in are those of the file,
  moved (`EnclosingMoved`, `InnermostMoved`).  So every return of a piece is accounted for (`OutputAccounted`).

Every invariant that a passing run checks is thereby a theorem.  Only model-checked are `LockFree` and
`Terminates` (liveness, which is out of the prover's reach), and the counterexamples.

## 6. Not modelled

* `internal/pc`: the layout of stack frames.  A call site is a model value.
* The text of messages, frames and log lines; `slog` and `fmt` integration.
* In the rewriter: expressions beyond the four kinds, results named `_`, and programs
  that do not type-check, other than a single value returned for several.
* Comments at imports (gofmt keeps duplicates that have one), and names from `errtrace10` on, which gofmt
  sorts before `errtrace2`.
* Names declared in the other files of a package, and names that a local declaration
  hides in part of a file.
* Position arithmetic of inserts: two inserts are told apart by node and expression.
* In toolexec mode: two files with the same base name (a TODO in the code), the
  names of test variants of packages, two binaries that cannot be read (they share
  a version), and arguments that are not for toolexec mode.
* In the command: `-h` and bad flags, the hint on a terminal, and the paths shown.
* `internal/tracetest` and `internal/diff`: pure functions on text that only tests call.
* The composition of `ErrorStore`, `TraceTree` and `TreeWriter` to `Format`: the second and
  third are checked for every small error and tree, a superset of what the first makes.

## 7. Plan

What could come next, in this order:

1. **TraceText**: `MustClean` and `Diff` against reference definitions: a line number
   that is a prefix of another one, and the numbers of context lines when fewer than three
   lines agree.
2. **FormatPath**: `Format` as the composition of `TraceTree` and `TreeWriter`, with
   errors taken from `ErrorStore`.
