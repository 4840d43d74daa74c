# Formal model of the Starlark interpreter

This directory holds TLA+ specifications of the Go implementation of Starlark in
`src/`, the TLC configurations that check them on small instances, and TLAPS
proofs of the results that matter for instances of any size.

## 1. The system

A program is scanned (`syntax/scan.go`), parsed (`syntax/parse.go`), resolved
(`resolve/resolve.go`) and then executed by a tree-walking evaluator (`eval.go`)
on values (`value.go`, `int.go`, `hashtable.go`) with a library of built-in
functions (`library.go`).  A file may load other files through a hook of its
thread; `repl/repl.go` and `example_test.go` hold the loaders.

| Component | State it keeps | Operations | Hard behaviour | What makes it correct |
|---|---|---|---|---|
| Hash table (`hashtable.go`) | array of bucket chains, insertion-ordered doubly-linked list through the entries, length, iterator count, frozen flag | insert, lookup, delete, clear, grow, freeze, iterate/Next/Done; popitem, setdefault, update on top | deletion at either end of the list, growth in the middle of an insertion, overflow buckets, hash zero, calls during an iteration, freezing during an iteration, comparison that fails | the list visits the used entries once and in insertion order; iterators see the table they started on; a frozen table is never written; each call answers as an ordered map does |
| Concurrent loader (`example_test.go`, `cache`) | entries (owner, result, ready channel), one waits-for edge per thread of loading | get, cycleCheck, doLoad | goroutines racing on an entry, lock-free reads of a graph that changes, blocking on a channel | one execution per module, results complete before they are read and never changed, cycles reported, calls return |
| Sequential loaders (`example_test.go`, `repl.MakeLoad`) | a map with placeholders for loads in progress | load | failure inside a nested load | one execution per module, every cycle is reported |
| Collections (`value.go`, list methods in `library.go`, `+=` in `eval.go`) | a heap of aliased lists, tuples, dicts, functions; frozen flags and iterator counts | mutators, freeze, iterate, unpacking assignment | cyclic data, mutation through an alias while iterating or unpacking, freezing in the middle of an iteration | a frozen value reaches only frozen values; no structural change during iteration |
| Comparison (`value.go`) | none | Equal, Compare, Hash | depth limit, int and float, NaN and infinities, tuples | equal keys hash alike; the orders are orders |
| Integers, slices, ranges (`int.go`, `eval.go`, `library.go`) | none | floored division, slice bounds, range length, equality, membership | negative steps, bounds out of range, 32-bit limits | agree with the reference definitions in `doc/spec.md` |
| Evaluator (`eval.go`) | stack of frames, locals, globals, control-flow errors | statements, expressions, calls, comprehensions | break, continue and return as errors, recursion check, partial globals on failure | control leaves exactly one construct; no function is active twice |
| Argument binding (`eval.go`, `setArgs`) | locals of the new frame | positional, keyword, `*args`, `**kwargs`, defaults | combinations of all of them | each parameter is bound exactly once or an error is reported |
| Built-ins (`library.go`) | none of their own | see above; strings | | |
| Resolver (`resolve/resolve.go`) | stack of blocks with their bindings, pending uses, loop count | bind, use, resolve of blocks and functions | uses before bindings, free variables through several functions | each use gets the binding of the innermost block that has one; indices are in range |
| Scanner (`syntax/scan.go`) | indentation stack, pending indents, nesting depth | nextToken | end of file inside a block, blank and comment lines, numbers | INDENT and OUTDENT balance; no character is lost or read twice |
| Quoting (`syntax/quote.go`) | none | quote, unquote | which escapes can be left out | unquote undoes quote |
| Parser (`syntax/parse.go`) | current token | recursive descent, precedence climbing | optional commas, `not in`, operators that do not associate | accepts the sentences of the grammar in its comments and no others |
| REPL (`repl/repl.go`) | the shared channel of interrupts, one context and goroutine per item | rep | an interrupt between two items | an interrupt cancels the item that runs |

The evaluator calls the resolver and the parser once per file, the collections on
every operation, and the loaders through `Thread.Load`; a loader calls the
evaluator (`ExecFile`) for each module.  Two threads share only frozen values (the
globals of loaded modules) and the loader's cache.

The walker, the struct extension, the test support and the command line are listed
in `PROJECT.json` with the reason why they are left out.

## 2. Modules

| Module | Role |
|---|---|
| `Hashtable` | `hashtable.go` and the dict operations composed of its calls |
| `OrderedDict` | what it promises: an insertion-ordered map with iterators |
| `HashtableDict` | what a user of the table sees of it: the refinement mapping to `OrderedDict` |
| `MCHashtable` | a small instance of the two |
| `Induction` | induction and recursion over the naturals, without an operator as a parameter |
| `HashtableProofs` | types, inductive invariant and safety of `Hashtable`; it implements `OrderedDict` |
| `LoadCache` | the concurrent loader of `example_test.go` |
| `LoadOnce` | what it promises: every module executed at most once |
| `MCLoadCache` | load graphs of three modules |
| `Collections` | the heap of aliased values, mutation, iteration, freezing, globals and `Exec` |
| `MCCollections` | small instances of it |
| `LoadCacheProofs` | types, inductive invariant and safety of `LoadCache`; it implements `LoadOnce`; its answers are true of the load graph |
| `CollectionsProofs` | types, inductive invariant, freezing, sharing and loops of `Collections` |
| `Literals` | characters; numbers, escapes, `quote` and `unquote` |
| `Scanner` | `nextToken` over a text, with the layout a text stands for |
| `Grammar` | the trees, and all sentences of a tree by the grammar in the comments of `parse.go` |
| `Parser` | the recursive-descent parser |
| `Resolver` | the resolver's walk over any program, with the scopes a program stands for |
| `MCFrontend` | texts, trees and programs for the three of them |
| `Interp` | statements, calls, errors, recursion check, `MakeLoad` and the items of a session |
| `Calls` | `evalArgs` and `setArgs` |
| `Slices` | `slice`, `indices`, `range` |
| `Strings` | searching, splitting and formatting of strings (extends `Slices` for the bounds) |
| `Compare` | comparison and hashing |
| `Interrupts` | contexts and goroutines of the REPL |
| `MCEvaluator` | the last six together, on a small instance |
| `InterpProofs` | inductive invariant of `Interp` and what follows from it |
| `OperationsProofs` | `Calls` and `Slices` compute what their properties say, for any operands |
| `ResolverProofs` | inductive invariant of the resolver, its walk and the loop over the pending uses: scopes, closures, parameters, branches |
| `ScannerProofs` | `quote`, `scanString` and `unquote` on any value; the tokens of any text without string literals |

`Hashtable` promises `OrderedDict`, and `LoadCache` promises `LoadOnce`; both are checked
by refinement.  `Collections` and `Interp` are two views of `eval.go`: the first
follows the heap and lets a program be any sequence of operations, the second follows
control and leaves the values out.  `Resolver` gives to `Interp` what the front end lets
pass (`Stray`, no loop at the top level), to `Calls` the order of the parameters
(`ParamsFirst`).

### Hashtable

`table` holds the Go fields: a bucket chain is one sequence whose length is a
multiple of `BucketSize` (a bucket linked by `next` is the following stretch); an
entry's address is its chain and position; the `**entry` pointers `prevLink` and
`tailLink` are the address of the entry whose `next` they point to, or
`HeadLink` for `&ht.head`.  `SetLink` is the store through such a pointer, so the
aliasing on which `insert` and `delete` rely is in the model.  `Place` is the tail
of `insert`: the *last* unused entry of the chain is taken, as in the code, where
each unused entry overwrites the note of the one before.  `Grow` reinserts the
old list.  The keys are abstract: `HashOf`, `Rep` (equality classes) and `Deep`
(keys on which `Equal` exceeds its depth).  `PopItem`, `SetDefault` and `Update`
run several calls in one step, as nothing can come between them.
`frozenVals` is a history of the calls of `Freeze`.

`HashtableDict` adds the variable `view`, the list of keys and values that the table stands
for, set at each step from the links of the table as they are then: so TLC walks
the list once a step.  That the variable is only a shadow is `ViewIsShadow`.

The sixteen-bit and larger hashes, the value `Value.Hash` of each type, and
`dump` are abstracted.  `itercount` has no upper bound in the model; it is bounded
by the number of iterators `Iter`.

### LoadCache

A thread is a top-level `Load` with its `cycleChecker`.  `pc` names the next
atomic operation: `"get"` is the critical section of `get`, `"own"` the store of
the owner, `"owner"` and `"waitsFor"` the two loads in the loop of `cycleCheck`,
`"setWaitsFor"`, `"wait"` and `"clearWaitsFor"` the three statements after it,
`"exec"` a step of `ExecFile`, and `"disown"`, `"close"`, `"return"` the end of
the branch that created the entry.  Nested loads run on the same goroutine; the
stack of `doLoad`s of a thread is `top[t]` and the chain of `caller`, as a module
is executed once at most.  `stmt[m]` counts the load statements of `m` that
have succeeded.  A file is its sequence of loads (`deps`), after which it
succeeds or, in `Broken`, fails.  The load graph is an input, fixed for a
behaviour.  `loader` is a history variable for the properties.

Sequential consistency of the atomic operations is what `sync/atomic` gives in
Go.  `globals` and `err` are plain fields; that they are never read while they
may be written is the property `ReadsComplete`.

### Collections

`heap` maps addresses to lists, dicts, tuples and functions (a bound method is a
function with its receiver), with the fields `frozen` and `itercount` of the Go
structs; `home` is a history of who made the value.  A *Module* is one execution of a
file; several run at once and every step of one may come between two of another,
as goroutines do.  A running program may take any step on values that it *can get
hold of* (`Access`): those it made, the globals of the modules that are done, and
what can be reached from either through collections, closures and the globals that a
function uses when it is called.  So a program is not a fixed text but any sequence of
operations, which is more than a real program can do.

`stack[m]` holds what is in progress: the iterators between `Iterate` and `Done`, the
unpacking `a, b = x` between two of its targets, and `x[i] += y` between the
reading of `x[i]` and the store.  What the program does meanwhile is any other step.
`Mutable` is `checkMutable(verb, true)` and the guards of `hashtable.go`; `Assignable`
is `checkMutable(verb, false)`, all that `List.SetIndex` asks for.  `Iterate` counts an
iterator unless the value is frozen, and `Leave` (the deferred `Done`) uncounts it
unless the value is frozen *then*.  `FreezeEdges` is where `Freeze` passes the call on:
it stops at lists and dicts that are frozen already.  A dict is its keys and values in
insertion order; `Hashtable` has its details.

Equality of keys is identity, numbers and strings are atoms, hashing of tuples (which
may be keys in the code when their elements may) is left out, and so are user-defined
types (`starlarkstruct`) and sets, whose table is that of a dict.

### The front end

`Scanner` takes a step per pass over the label `start` of `nextToken`: a token is
returned, or a blank line, a comment, a continuation or the end of a block is
skipped.  `sc` holds the fields of the Go struct.  Letters, digits and the
characters that matter to the layout are themselves; the decoding of UTF-8 and the value
of a number are left to Go's library.  `LayoutExact` compares the NEWLINE, INDENT and
OUTDENT tokens with the logical lines of the text, which are defined without a stack;
`TokensExact` says that tokens cover the visible characters, once each and as far as they
can; `QuoteRoundTrip` that `quote` is undone by the scanner and `unquote`.  `Scanned`,
`Unescaped` and `Written` are the loops of `scanString`, `unquote` and `quote` as functions of the
position; `Passed`, `Piece` and `EscapeAt` are one turn of them.

`Parser` has one operator per method of the Go parser, from a list of tokens to a tree
and the tokens left, so a panic of the code (`in.errorf`) is an answer.  It is not
checked against itself but against `Grammar`, which enumerates the sentences of a tree as
the comments above each method state them (`ParserComplete`: each of them is parsed, into
that tree) and accepts what the parser accepts (`ParserSound`, for edits of sentences by
one token).  `Grammar` follows the comments except in four places, where the code
accepts less or more than they say, each marked there: `not not x` is refused
(`parse.go:538-541`), `loop_variables` take no trailing comma (`parse.go:187`, `199`), the
lower bound in `x[a, b:c]` may be a tuple without parentheses, and an indented block
without statements would be accepted, which the scanner never produces.

`Resolver` takes a program as the sequence of its events: an identifier used or bound, a
block opened or closed, a parameter, a branch.  Every sequence that some program has is a
behaviour.  `r` holds the blocks with their bindings, pending uses and memoized free
variables.  `LexicalScope` and `ClosuresExact` go back to the text: the variable that an
occurrence denotes is found from the declarations of all blocks once the program is
complete, and then looked for along the indices that the resolver has assigned.

### Interp

A step is one move of the recursion of `exec`, `eval`, `evalCall` and `Function.Call`.
`frames` is the stack of the thread; `posn` is the Go field of that name; `doing` is the
Go stack within the frame: the loops, calls and the load that have begun and not ended.
Which operation comes next is a free choice among those the syntax allows, so
the behaviours are those of all programs within `MaxOps` operations per frame.
Positions are numbered by the order in which a frame begins its operations.
`signal` is the Go error on its way up: one of the three sentinels, an error of a Go function,
or an `EvalError`, whose `frame`, in the code a pointer, is represented by what
`Backtrace` would find there: the positions of the frames popped since (`posns`) and of
those still on the stack.

`Calling` sets `posn` when the arguments have been evaluated, with their calls.
`Method` is the optimized path of `evalCall`, which does not.  A builtin may call
functions back (`sorted` with a key), which leaves `posn` alone.  `UnwindCall` is
`wrapError`, `UnwindFunction` the end of `Function.Call` by an error, `UnwindFor` the loop that
takes break and continue.
All calls of the model come from the interpreter or its builtins.  A Go program that calls
`starlark.Call` on a function directly is outside it: the sentinel of a stray break or continue
would reach that program as it is (`eval.go:1750`).

`Load` puts the running execution on `loaders` and begins one in a new thread, as
`MakeLoad` does; `cache` has its placeholders.  A session is a sequence of items in one
thread, or one item for a main file.  The main file is not in the loader's
cache, so a module that loads it executes it once more, as any module.
Exec's freezing of globals is part of `Collections`.

### Interrupts

An item's context is `done` when `cancel` has been called.  `Interrupt` is `os/signal`:
it drops a signal if the channel, of capacity one, is full.  `Receive` and `Exit` are the two cases of
the goroutine's `select`; both may be ready.  `Interrupt` is not possible while the
terminal is being read, where Control-C is a character (comment at `repl.go:78`).

### Calls, Slices, Strings, Compare

These are pure functions, applied to one input per behaviour.  What they answer is compared with
definitions made another way: sets of indices for slices and ranges, claims of arguments on
parameters for calls, places of occurrences and grammars for strings, and for
comparison the mathematical value that a Starlark value denotes, with the laws that
the operators have to obey among any three values.

A call whose `*` is applied to what cannot be iterated, or whose `**` is applied to what is
no dict or has a key that is no string, ends in the error of the first such argument
(`Refused`, `Refusal`).  A number in a format field is what `strconv.Atoi` takes for one: digits,
leading zeros and a `+` included (`Numeral`, `Number`).

Where the code departs from the specification of the language, the models do as the code
does, and the properties that hold make no claim:

* `!=` of an int and a NaN (`value.go:1010`), an infinite float on the left of an int
  (`value.go:1029-1035`), ranges of one element and different steps (`library.go:916`), and
  `in` of a range for a fraction (`eval.go:1210`) are left open by `ComparisonsCoherent` and
  `SlicesExact`.  `ComparisonsAsDocumented` says what the documents say of the four, and the run
  `comparisons_documented` finds it violated (see below).
* Where `rsplit` cuts when its separator overlaps itself is left open by `StringsExact`: the code
  joins again what `split` has cut (`library.go:1929`), so the cuts are not the rightmost, which
  `doc/spec.md:3771-3772` promises.  For all other separators the two agree.
* `not not x`, which `doc/spec.md` allows and the parser refuses, is not among the sentences of
  `Grammar` (see The front end).

Some of what it does is only not what one would expect, and the definitions say so:

* A keyword that is repeated through `**` and goes to `**kwargs` silently keeps the last value
  (`eval.go:1833`).
* `find` of the empty string with the end before the start answers the start;
  `"".splitlines()` has one empty line; a format without
  conversions accepts any operand of `%` that is no tuple; a conversion with a key advances
  the index of those without (`eval.go:2044`).
* `\x` takes a sign for the first of its two digits (`quote.go:171`).

## 3. What is checked

| Run | Instance | Shows |
|---|---|---|
| `hashtable` | five keys (two that collide, one respelt, one with hash zero nested too deeply, one unhashable), two values, two iterators, buckets of one entry, load factor 2 | `Threaded`, `IteratorSeesSnapshot`, `FreezeIsDeep`, `ItercountIsActive`, `FrozenNeverWritten`, the inductive invariant `IInv`, and the refinement of `OrderedDict`, over every sequence of calls |
| `loadcache` | two threads, every graph of three modules with at most two loads each (self-loads, duplicates and cycles included), one broken module | `DuplicateSuppression`, `ReadsComplete`, `PublishedIsFinal`, `AnswerSound`, `EdgesMatchThreads`, the inductive invariant `AnswerInv`, the refinement of `LoadOnce` |
| `loadcache_live` | three threads, three graphs (an acyclic one, one with a self-loop and a module loaded twice, one with a two-module cycle) | calls return; a cycle error means a cycle, when no other thread loads the same modules |
| `loadcache_deadlock` | two modules that load each other, two threads | a violation: both threads wait for ever |
| `collections` | one execution, two addresses holding lists or dicts of at most two elements, two nested loops | `LoopsCounted`, `LoopLengthFixed`, `FrozenNeverWritten` |
| `collections_shared` | two executions, three addresses holding lists or functions of one element | `FrozenClosed`, `SharedIsFrozen`, and the invariant `IInv` of the proofs |
| `collections_unpack` | one execution, lists | a violation: an unpacking assignment reads beyond the end |
| `loadcache_falsecycle` | an acyclic graph, two threads | a violation: a cycle is reported |
| `frontend` | texts of three lines with brackets, comments, continuations and tabs, of four lines with every indentation; numbers of four characters, operators of three, quoted strings of three; every construct of the grammar over two atoms, and statements nested twice, with every edit of some by one token; programs of three or four identifiers in four blocks, three deep, in three dialects | `LayoutExact`, `TokensExact`, `QuoteRoundTrip`, `ParserComplete`, `ParserSound`, `LexicalScope`, `ClosuresExact`, `ParamsFirst`, `StrayNeedsNestedDef` |
| `scanner_end` | a block in a block, and five ways to end the text | a violation: an internal error |
| `evaluator` | two functions, one nested in a loop, of two and one operations, two modules that load anything, two items of two operations; two items at the REPL and three interrupts; and every input of the tables in `MCEvaluator` | `ControlContained`, `BacktraceExact`, `LoadsExact`, `Terminates`, `InterruptReaches`, `CallBinding`, `SlicesExact`, `StringsExact`, `ComparisonsCoherent` |
| `comparisons_documented` | an infinity, an int, a NaN, two ranges of one element and a fraction, in every order | a violation: four comparisons differ from the language specification |

Bounds.  With buckets of one entry and load factor 2, the second colliding key
needs an overflow bucket and the third makes the table grow, so every branch of
`insert`, `delete`, `grow` and `freeze` is reached with few keys.  Two iterators
are enough for one to end while the other pins the table.  Three modules are
enough for a cycle entered at two ends, a diamond and a module that fails below
another; two threads for every conflict between two operations, three for a
thread that meets the edges of two others.  In `collections`, two values may hold each
other and themselves, so every shape of aliasing of two is there, and two loops over
one value or over two; the outermost place may instead be an assignment in
progress (`MaxDepth` bounds the nesting, `MaxLen` the length of a collection).  In
`collections_shared` three addresses make a chain from a published function through
a list to what another execution holds; loops, which `collections` covers, are left out
(`MaxDepth` is 0), so of `IInv` the conjuncts about loops hold trivially there; `Invariance` proves
them for any depth.  In `evaluator` two functions are enough to come back to the first through the
second, through a builtin or in an argument, and two modules for a cycle of loads and for a
module that is asked for again after it has failed; two operations let a frame fail at
another place than it has called from.  `MaxDepth` of `Interp` is never reached: without
recursion there are no more frames than functions and one.  It keeps finite what a mutant makes
of the check for recursion.  Two items suffice for a goroutine that outlives its item.  `MaxInt32`
is 7, so that integers out of range are small; `Recursion` is 4 where the code has 10.  Four characters
hold every way in which two separators, or a field and a brace, can touch.  The REPL
and the interpreter run side by side in one specification without
sharing a variable, so that one run checks both; an operation of the pure modules is
the only step of its behaviour.  There is no state constraint: all
state spaces are finite by themselves.  `CHECK_DEADLOCK FALSE` in the loader runs:
the deadlock of two threads is a finding and has a run of its own.

Fairness.  `FairSpec` assumes weak fairness of each thread's steps: a goroutine
that can run is eventually run by the Go scheduler.  Nothing else is assumed; in
particular a receive from a channel that is never closed is never enabled.
In `evaluator`, `WF` of the interpreter's step says that a thread, which never waits for
another, goes on; which step it takes is not constrained, so `Terminates` holds for every
program and not by luck.  `InterruptsFairness` is weak fairness of each goroutine of the REPL, again
the scheduler's.  Nothing makes the user type or an item end.

### What the loader does not do

The comments on `cache` and `cycleCheck` promise deadlock detection, and that an
error means a cyclic graph.  Both hold for one thread at a time.  With several
threads,

* `get` checks and then sets its own waits-for edge, in two steps.  Two threads
  that load `m1` and `m2`, which load each other, may both find no path and then
  both wait (`NoWaitCycle`, run `loadcache_deadlock`).  A third thread's
  `cycleCheck` would then walk round the cycle of the two for ever; so
  `Returns` is stated for graphs whose cycles are within reach of one thread only.
* `cycleCheck` reads an owner edge and then the waits-for edge of that owner.  In
  between the owner may have finished the module, gone on, and begun to wait for
  a module of the reader (`CycleMeansCyclic`, run `loadcache_falsecycle`).  The
  graph is acyclic; the error is cached.  `LoadOnce` therefore allows the
  outcome "cycle" for any load of a module that has been started.

### What the scanner does at the end of a file

`nextToken` closes all blocks at the end of the text and means to keep the bottom of its
stack; `indentstk[1:]` keeps everything else (`scan.go:516`).  That is harmless unless two
blocks are open and the last line, without a newline, has only blanks or a comment: the
scanner then answers a NEWLINE first, computes the column once more, and pops until the
stack is empty (`BlocksClosed`, run `scanner_end`).  `LayoutExact` states for which texts
this happens, and that it happens for no others.

### What interrupts do

An interrupt that is sent while an item executes may be taken by the goroutine of an
earlier item that has not run since that item ended; it is lost.  One that is sent between two
items may stay in the channel and cancel the next one.  `InterruptReaches` says what is
left of the comment at `repl.go:43`: once those goroutines have gone, which they do, an interrupt
reaches the item that executes.

### What unpacking does

`Indexable` (`value.go:177`) says that `Index` is called with `0 <= i < Len()`.
`assignSequence` compares the length with the number of targets once and then, between
two calls of `Index`, evaluates the expressions in a target, for which nothing keeps
the list from being shortened: `a[x.pop()], b = x` (`IndexInRange`, run
`collections_unpack`).  The Go slice expression panics.

### What comparisons do

The final state of `comparisons_documented` has the verdicts of `inf`, `1`, `nan`, `range(1, 2)`,
`range(1, 3, 2)` and `1.5` with each other, by position, and among them all four departures:

* `1 == nan` and `1 != nan` are both False, while `!=` is the negation of `==` (`doc/spec.md:1756-1757`);
* `inf < 1` is True and `inf > 1` False, while the infinities are greater or less than all
  finite numbers (`doc/spec.md:473-474`; a TODO at `testdata/float.star:144` knows it);
* `range(1, 2) == range(1, 3, 2)` is False, while both denote `[1]` (`doc/spec.md:3045-3047`, the
  comment at `library.go:914`, `testdata/builtins.star:96`);
* `1.5 in range(1, 2)` is True, while no member is equal to 1.5 (`doc/spec.md:3054-3056`).

`ComparisonsCoherent` and `SlicesExact` hold of everything else that they are given.

## 4. What is proved

`HashtableProofs` holds for any keys, values, hashes and notion of
equality, any bucket size and load factor, and any finite set of iterators.
`HashtableAssumption` says that, and that keys which are equal (`Rep`) hash alike, which
`ComparisonsCoherent` checks of the built-in types, and are nested alike.

* `TypeCorrect`, `Invariant`: `IInv` is inductive.  Its core is `Linked`: there is a sequence
  of addresses, without repetition, that holds exactly the used entries, such that `head` and each
  `next` lead to the following one and each `prevLink` and `tailLink` back to the
  link that leads there.  A property of the walk from `head` alone would not survive
  `delete`, which goes through `prevLink`.  `Filled` says that an entry is on the chain of
  its hash, `Apart` that no search stops at two entries (so `Grow`, which does not
  compare keys of different hash, loses none), `CursorOK` where in the list each iterator
  stands.  The calls are reduced to three effects on the list, which is extended, shortened
  or has a value replaced; growth is an iterated extension of an empty table.
* `ListThreaded`, `IteratorsSeeSnapshots`, `FreezingIsDeep`, `ItercountCounts`,
  `FrozenIsReadOnly` follow.
* `Refinement` (`ImplementsOrderedDict`): each call on the table is the call of the same name
  on the ordered map, with the same answer; `Grow` is a stutter within it.  It is
  proved of `ViewSpec`, the table with the shadow `view`; `ViewIsShadow` says that `ViewSpec` is
  `Spec` for who does not look at it.

`LoadCacheProofs` holds for all finite or infinite sets of threads and modules and for every set of load graphs; the one assumption,
`LoadCacheAssumption`, types the constants.

* `Typing`, `Invariance`: `TypeOK /\ IInv` is inductive.  The types alone are
  not: a step that follows `top[t]`, `cursor[t]` or `other[t]` needs it to be set.
  `IInv` describes the stack of executions of each thread (`TopFrame`,
  `LowerFrames`), entries that have no execution yet (`NewEntry`, `Unstarted`), what is
  known of each module (`Progress`, `Justified`) and the edges.  There is one
  lemma per action, with one step per conjunct.
* `ExecutedOnce` (`DuplicateSuppression`): an execution belongs to the thread whose
  `get` created the entry, by `TopFrame`.
* `ReadsAfterReady` (`ReadsComplete`), `PublishedOnce` (`PublishedIsFinal`): results are
  written only for the top frame before its close and for suspended frames, none
  of which is ready.
* `Edges` (`EdgesMatchThreads`): a thread has a waits-for edge exactly from its store to its clearing, and an
  entry an owner edge exactly while it is being readied (`Readied`), to the thread that does it: a
  loader that never set the owner would violate it, as would one that never cleared it.
* `Refinement` (`ImplementsLoadOnce`): creating an entry maps to `Start`, `Close` to
  `Finish`, a return to a top-level call to `Reply`, every other step to a stutter.
  The load that `Start` needs is the statement at which the frame below stands;
  that an outcome is justified is `Justified`; that cycleCheck never answers
  "cycle" to a top-level call is `Unstarted`.

* `AnswerInvariant`: `AnswerInv` adds to that invariant what the answers rest on.
* `AnswersAreSound` (`AnswerSound`): that no module which succeeds is on a cycle needs the order in
  which they finished.  `InTurn` keeps it without a clock: of every set of modules
  that have succeeded, one loads none of the others.  A module on a cycle that had succeeded would
  give a set without such a one.  `FailureMet` follows the cause of a failure down
  to a broken module.
* `CyclesAloneAreReal` (`CycleMeansCyclicAlone`): a thread that shares no module finds only itself as
  an owner (`MeetsNobody`), and from a module it owns the callers lead up to the one
  that it executes (`Stacked`, stated over sets that are closed upwards), so the module that it
  wants needs, and is needed by, that one.

`CollectionsProofs` holds for any set of addresses and atoms, any bounds and any finite
set of executions.  `CollectionsAssumption` says that addresses, atoms and indices do
not coincide, and that executions are finitely many: loops over a value are
counted.

* `Typing`, `Invariance`: `IInv` is inductive.  The twenty-five actions are first
  reduced to eight effects (`Effects`): a value is made, one's own value that is not
  frozen is written, a loop is entered or left, something else is put on or taken
  off the stack, a global is set, a value is frozen, the execution ends.  The invariant
  is then proved once per effect.
* `FrozenDeep` (`FrozenClosed`) and `NoSharing` (`SharedIsFrozen`) speak of
  reachability and are not inductive.  `SharingInv` says that there is a set `S` that
  holds all that is frozen and from which no reference leads out (`Solid`), and a set `P`
  of what is published, closed too, such that each running execution's values,
  globals and unfinished assignments refer to its own values and to `P` only
  (`Published`).  `Freeze` adds what it reaches to `S`, the end of an execution adds what
  its globals reach to `P`; no other step changes either set.  `AccessBound`: what an
  execution can get hold of is in `P` or its own.
* `FrozenFinal` (`FrozenNeverWritten`): every effect that writes does so to a
  value that `Mutable` or `Assignable` has let pass, or to a count that `Iterate` and
  `Leave` change only when the value is not frozen.
* `Counting` (`LoopsCounted`), `LoopLength` (`LoopLengthFixed`): entering and leaving a
  loop changes the finite set `Loops` by one element; nothing thaws, so a
  count abandoned by a loop left after freezing is never looked at again.  A length
  changes only where the count is zero, that is where no loop is.

`InterpProofs` holds for any set of functions and modules, any choice of stray functions among
them and any bounds.  `InterpAssumption` says that the top level is no function and the session no
module.

* `InterpInvariant`: `InterpInv` is inductive, and none of its parts is by itself.  Every frame but the
  innermost is in a call that has been made, its last construct, and its `posn` is the position of that
  call (`InCall`): so when an EvalError is raised, the positions found in the frames are those
  of the calls in progress, and popping a frame moves one of them to `posns`.  No code is
  twice in a stack, and the outermost frame is the top level, which has no loops (`Stack`): so a sentinel
  is always that of a function, even if stray.  For the loader: the executions that wait are
  at a load statement of their top level, the modules in progress are distinct, and the
  session is the outermost of them only.
* `ControlStaysContained`, `BacktraceIsExact`, `LoadsAreExact` follow.
* `NoRecursionAnywhere`: the check of `Function.Call` looks at one thread, while a load begins another;
  as load statements are allowed at the top level only, no function is active in a thread that waits.

`ResolverProofs` holds for any names, dialects and parameter lists and for programs
of any size, the bounds of the runs being any numbers.  `ResolverAssumption` types the constants and
says that the builtins which the resolver may find unsupported are universal names.

* `ResolverInvariant`: `ResolverInv` is inductive.  During the walk it is `Walked`.  The constructs that
  are open are a path in the tree of blocks (`Nested`); a binding leads to a local of its
  container that is a binding occurrence of that name in that block (`LocalsBound`); the uses
  in the containers around the walk wait, and all others are settled, that is local or
  handed on (`UsesKept`): it is this that makes a use before its binding come out right.
  `resolve` and the loops that leave a block or bind parameters are the same facts step by step.  Once the
  walk is over (`Ended`), the loop over the pending uses keeps `Looped`: each block
  still has the bindings that it had, or has memoized one that leads, by the free variables of
  the functions on the way, to the block that declares the name (`Reach`).
* `ScopesAreLexical` (`LexicalScope`): the cell at which the indices arrive is a recursion up the
  closures, the scope that the program means one up the blocks; `Reach` relates them.
* `ClosuresAreExact` (`ClosuresExact`): a free variable is entered by a lookup on its way from a use
  within the function to a home outside it, once; each such use has been looked up.
* `ParamsAreFirst` (`ParamsFirst`): when the parameters are bound the function has no locals yet, and
  without an error each takes the next slot; locals are only appended after.
* `BranchesNeedNestedDef` (`StrayNeedsNestedDef`): the counter of loops, which is not reset at a function,
  is the number of loops that are open.  Without errors these are in functions, so a loop that
  is open outside the function of a branch has another function around it, in which that one is nested.

`OperationsProofs` is about the pure modules.  `SlicesAssumption` types the operands; those of `range`
are ints that `AsInt32` has taken, as the code has checked by then.  `CallsAssumption` says of a function
that its parameters have different names and its defaults are values of the last of them, which the
resolver sees to.

* `SlicesAreExact` (`SlicesExact`): the loop of `slice` makes a progression of `TurnsAre` many indices,
  which an induction over what is left shows in either direction.  Each clamping of a start or an end, the
  end before the first element and bounds that cross included, gives a progression that covers (`Covers`)
  the set which the bounds mean; a progression that covers a set is a bijection to it, and the
  property's count follows.  For ranges the length by Go's division is the number of those turns
  (`RangedExact`), and membership of whole numbers is a quotient without remainder, for steps of either
  sign.  Two ranges of the same elements agree in start and, when there are two elements, in step;
  nothing is claimed of those that have one.
* `CallsBind` (`CallBinding`): an argument of no use makes the call fail (`RefusalIs`).  For the others the inductive fact is `BoundSoFar`.  After k keyword arguments without an
  error, a parameter is marked as defined if and only if an argument by position or one of the k
  names is for it, there is one such, its local holds that argument, and the dict has what is meant of the
  rest (`MeantDict`, by `DictSetMeant`); with an error, an argument has no place or a place that is
  taken, and what follows cannot mend it.  `ClaimsAre` relates this to the cardinalities of the property,
  `DefaultsBound` to the parameters that are left.

`ScannerProofs` holds for values and texts of any length over any characters.  `CodeAssumption` says that bytes which
quote writes in octal have a code below 256, different ones different codes.  `ScannerAssumption` says of a text
that comes with a value that it is the literal which `quote` makes of that value, in one of the
two forms; that a text is a sequence of characters; and that the letters of a name are no digits and
none of the other characters the scanner looks for (`Special`).

* `QuotesRoundTrip` (`QuoteRoundTrip`): what `quote` writes at a position is one of five things
  (`WrittenCases`): a character that needs no escape there, two quotation marks of a triple-quoted literal
  that another character follows, a backslash with a character that makes no escape of it, a
  letter or three octal digits after a backslash.  A downward induction over the positions
  shows that the scanner, whatever number of quotation marks it has just seen, goes on to the end of what is
  written (`ScannedWritten`), so that the closing marks are the first that it stops at; another that
  `unquote` makes of it what is left of the value (`UnescapedWritten`).  Both need the
  next character but one: a quotation mark goes unescaped because one of the two after it is
  something else, a backslash because of what it is followed by.  The literal is then one token
  (`StringEndQuoted`) and has that value (`UnquoteQuoted`); the invariant of the scanner is
  `ReadWhole`: it has read nothing, the literal, or the end after it, at column 0.
* `TokensAreExact` (`TokensExact`): the inductive invariant is `TokensSoFar`.  Of a text without quotes, the
  tokens returned so far are those of the visible characters before the position of the scanner, in
  order, each spelt as its kind must be and of full length (`Cover`, `Exact`), and no comment goes on at that
  position (`Quiet`).  `TokensExact` alone is not inductive: it says nothing before the end, and whether a
  character is visible depends on a comment that began before.  A step either skips characters
  that belong to no token (`SilentStep`) or returns the token that `Lex` finds, which `LexExact` shows
  exact: words by `WordExact`, operators by `OperatorExact`, brackets and the other single characters
  by `SingleExact`, numbers by `NumberExact`.  The last is the hard one.  `IsInt` and `IsFloat` describe a
  number by a split into digits, fraction and exponent, `scanNumber` reads on as long as it can and
  decides the kind late; the proof moves both to positions in the text (`IntAt`, `FloatAtIs`) and compares
  them case by case.  With the mutant that does not know `//=`, the proof of `OperatorExact` fails.

Induction over data is done without an operator as a parameter, in `Induction`: `LeastNatural`,
which is the library's `WFMin` for the order of the naturals, gives `SetInduction` and
`BoundedInduction` for sets, and from these `Recursion`: a recursion over `0..n` whose steps are a
function has a solution, and only one. `Descent` is the same for a recursion that goes by a rank, as
that of the scanner by what is left of the text, and `DownwardInduction` for facts about it. A
definition such as the list behind `head` is then its recursion equation.

Only model-checked: the liveness properties `Returns`, `Terminates` and `InterruptReaches`
(liveness is out of the prover's reach); `LayoutExact`, which compares the stack of indentations with
the logical lines of a text (a proof would need an induction over its blocks, and was not attempted); `ParserComplete`, `ParserSound`,
`ComparisonsCoherent` and `StringsExact`, which compare two algorithms over trees, texts or values
nested to a depth and are written with `RECURSIVE` operators, that the prover does not take; and
the five violations.

## 5. Not modelled, and the plan

Not modelled:

* Attributes, the values of unary and binary operators other than comparison and `%` of strings, and the
  loops of comprehensions.  They compute on values and raise errors as `Fail` does; a comprehension's
  loop is within an expression, where no sentinel can arise.  A predeclared name `PACKAGE_NAME`
  makes a lookup answer the error of a builtin as it is (`eval.go:162-167`), without a position.
* Arithmetic of integers, which is that of `math/big`, and of floats.  A float of 2^63 passes the test
  in `finiteFloatToInt` (`int.go:206`), and its conversion is left to the processor.  Builds of 32
  bits, where `range` may overflow (`library.go:841`), are not considered.
* The built-in functions that convert or test a single value, and `UnpackArgs`.
* The struct extension, the walker over trees, the command and the test support.
* The text of errors and the printing of values.  (The name that `tokenNames` has for a closing brace is
  `]`, `scan.go:132`; only messages show it.)

Left of the plan, in this order:

1. That `MakeLoad` implements `LoadOnce`, as the concurrent cache does: there, every cycle that is
   reported is one.
2. `UnpackArgs`, with optional parameters and variadic rests.
3. The sorted records of `starlarkstruct`: merging, lookup and comparison.
4. Comprehensions in `Interp`, with their iterators.
