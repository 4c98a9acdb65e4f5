# A verification development for CHN 1.1

CHN is a scripting language in C: a lexer, a parser, a compiler to bytecode, a stack machine
and a generational collector, all in `src/v1.1/`, with a C++ layer in `src/memory/`. (Paths
below are relative to the repository's `src/` directory; line numbers refer to `src/v1.1/`.)
The program is single-threaded. What makes it hard is not parallelism but

- a collector that suspends a mark, lets the script run and resumes it,
- a compiler that counts stack slots and try blocks along the *text* of a program while the
  machine meets them along its *control flow*: jumps, unwinding and tail calls,
- tables (interned strings, dicts, imports, TLS connections) whose entries come and go in
  orders nobody listed,
- one-shot initialisation that is done twice (`gc_init`, imports, the REPL's virtual machines).

The development consists of TLA+ modules, configurations with which TLC checks them on small
instances, and theorems checked by TLAPS. `PROJECT.json` is its index: components, runs, the
source lines behind every definition, the hazards and what covers them, a mutation for every
property that shows the property can fail, and the places where the code and its documentation
disagree.

## 1. Inventory

| Component | State | Operations | Modules |
|---|---|---|---|
| collector (`gc.c`) | object list, object headers (colour, generation, age), gray stack, `marking`, counters and thresholds | allocate, write barrier, `gc_step`, `gc_collect`, sweep | `HeapGraph`, `HeapSpec`, `ChnGC`, `ChnGCProofs` |
| intern table (`gc.c`) | slots: never used, tombstone or string | `gc_string`, `intern_find`, `intern_insert`, `intern_evict` | `ChnTexts`, `ChnStrings`, `ChnTableProofs` |
| dicts (`gc.c`, `vm.c`) | entries, count, capacity | set, get, delete, grow, merge | `ChnTexts`, `MapSpec`, `ChnDict`, `ChnTableProofs` |
| machine (`vm.c`) | frames, value stack, try stack, globals | instructions, methods, `vm_throw_error` | control: `ControlSpec`, `ChnVM`, `ChnVMProofs`; values: `ChnValues`, `ChnMethods`, `ChnMachine` |
| code generator (`compiler.c`) | locals in scope, open loops, code emitted | one function per construct, folding, peephole pass | control: `ChnCompiler`; expressions, functions, structs: `ChnEval` |
| lexer, parser, trees (`lexer.c`, `parser.c`, `ast.c`) | position, two tokens, panic mode | a function per construct | `ChnLexer`, `ChnParser`, `ChnFront` |
| import resolution (`main.c`) | paths imported, nested compilations, table of imported functions | `do_import`, `compile_and_import`, `try_import_cco`, `load_cco_deps` | `ChnImports`, `ChnImportsProofs` |
| bytecode files and function registry (`bytecode.c`, `func.c`) | files, registry | write, read, link references | `ChnBytecode`, `ChnBytecodeProofs` |
| REPL, guards, error messages, `chn file` (`memory/`, `error.c`, `main.c`) | lines, history, a heap and a machine per line, the source that messages quote | read, execute, release | `ChnSession`, `ChnSessionProofs` |
| network natives (`native_net.c`) | descriptors, table of TLS connections | listen, accept, connect, receive, close, HTTP | `ChnNet`, `ChnNetProofs` |
| other natives (`native.c`) | - | text, mathematics, JSON | `ChnNatives`; files, processes and time are not modelled |
| `src/v1.0/` | the previous version | - | not modelled: not built |

Each `...Proofs` module holds the theorems about the module it is named for (`ChnTableProofs`
those about both hash tables); `CommonLemmas` has the lemmas several of them need: probing modulo
the size of a table visits every slot once, loops written as recursive functions have the values
their turns give them, and joining sequences of sequences (`FlattenSeq`) does what one expects.

`ChnRun` composes lexer, parser, code generator, machine, methods and natives, and
`ChnMeaning` says what a program means without them.

How they interact:

- The compiler calls `gc_string` for every constant and hands chunks to the machine, directly
  or through a bytecode file. It registers functions in `func.c`'s append-only table, from
  which the machine resolves names and the collector takes roots (their constants).
- The machine allocates, stores (with or without a write barrier) and calls `gc_step` at the
  instruction `OP_GC_SAFEPOINT`, which the compiler puts at the head of loops. No allocation
  collects, so objects a native has in hand are safe until the next safepoint.
- The sweep calls `intern_evict` for every string it frees: the intern table is weak.
- Dicts rely on the intern table (keys are compared by address when stored).
- An import runs the whole compiler again, from inside the compiler, through a callback
  (`chn_import_handler`).

What correctness means for each:

- *collector*: nothing a script can reach is freed; garbage goes; a mark ends.
- *intern table*: it never refers to a freed string, finds every string it holds, and equal
  texts are one object.
- *dicts*: a map from texts to values, whatever was stored, deleted and moved before.
- *machine and compiler*: every local is in the slot the code uses; the handlers installed are
  those of the try blocks in progress; errors go to the innermost one; limits are kept.
- *imports*: what is imported is loaded once, compilation ends, and importers get the functions.
- *front end*: a text has one reading, the longest tokens and the grouping of the parser's levels, and
  what is read is all of the text.
- *evaluation*: the code at every level does what the tree says, in its order.
- *bytecode*: what is read back is the program that was written.
- *REPL*: a line's values are not used after their heap is gone.
- *TLS table*: no connection in two slots, none lost on a failed handshake.

`PROJECT.json` lists the hazards behind these at their lines.

## 2. Plan

Order of work, most important behaviour first:

1. **Collector** (done): abstract heap, detailed collector, refinement, proofs.
2. **Control** (done): abstract control, machine, compiler, a program family; the machine proved.
3. **Tables** (done): intern table; dict against a map; both proved.
4. **Imports** (done, proved): source files, function files and bundles over graphs of files with
   cycles, diamonds and missing files.
5. **Bytecode files** (done): written and read whole or torn, minified or plain, linked.
6. **Sessions** and **network** (done, proved): what is borrowed and given back.
7. **From text to result** (done): lexer, parser, code generator and machine on values, against
   the meaning of the tree.
8. **Theorems** (done): the invariants and refinements of the seven components above that are
   written without recursive operators, `ChnBytecode` included, are proved (sections 3 to 9).
   Section 12 says what is left to TLC, and why.

`ChnVM` never reads how an image was made and `ChnCompiler` never reads a machine state;
`MCChnVM` composes them. `ChnGC` and `ChnVM` meet only at safepoints: `ChnVM` leaves out
values, `ChnGC` leaves out control (any store, load or drop may come next), so each is the
other's most general environment and they need no common state. `ChnStrings` takes the sweep
of `ChnGC` as "some set of unreachable strings goes", and `ChnDict` takes from `ChnStrings` how
many objects one text may have (`Copy`). `ChnMachine` has values and no handlers, `ChnVM`
handlers and no values: an error ends the former's program and is any error to the latter.

## 3. The collector

`HeapGraph` defines what is reachable. `HeapSpec` is the contract: a script allocates, follows
and changes references between things it holds, and only unreachable objects vanish by
themselves. `ChnGC` is `gc.c` together with the operations of the machine that touch the heap.

| Code | Model |
|---|---|
| object list, `Obj` header | `heap`, `color`, `gen`, `age` |
| items and entries | `refs[o]`, a set: positions and multiplicity are left out |
| stack, globals, frames, constants | `roots` |
| `gc.gray`, `gc.marking` | `gray` (popped in any order), `marking` |
| the C stack inside `gc_step` and `gc_collect` | `pc`, `budget` |
| `gray_push`, `trace_obj`, `GC_WRITE_BARRIER`, `mark_vm_roots`, `sweep_generation` | operators of the same names |
| `gc_step` | `step_resume`, `step_collect`, `step_start`, then `trace_next`* and `step_suspend` or `step_finish` |
| `gc_collect` | `trace_next`*, `collect_finish` |
| `gc_string`, `gc_array`, `gc_dict`, `gc_arr_push`, `gc_dict_set`, `gc_dict_delete`, `OP_ARRAY_SET`, `METHOD_POP`, `OP_ARRAY_INDEX`, `OP_POP` | actions of these names (`array_set`, `arr_pop`, `array_index`, `drop_root`) |

A trace step per object is finer than the code needs (nothing runs during a trace loop) and
lets the invariants be stated inside it. `liveAtMark` is a history variable.

`GrowsWhileMarking` says whether the script may take new references (allocate, load, find an
interned string) while a mark is suspended. The code allows it. The runs show that this is
exactly where it goes wrong:

- **`gc_quiet`**: one object per step, so marks are suspended everywhere, and a script that
  stores and drops but takes no new reference meanwhile. Nothing reachable is freed
  (`NoLiveObjectFreed`), marks start from white objects (`MarkStartsClean`), the tri-colour
  invariant holds (`TriColor`), sweeps leave no floating garbage beyond one cycle
  (`SweepIsExact`), an old object dies in a major collection only and promotion takes exactly the
  promotion age (`OldDiesInMajorOnly`), marks end (`MarkCompletes`) and `HeapSpec` is implemented.
- **`gc_racing`** (violated): a suspended mark and a script that does anything. An object
  allocated or loaded during the suspension is white and a root; roots were marked once, when
  the mark began; the sweep frees it. Pushing 60000 elements with the real constants shows the
  same as a use after free.

*Bounds.* One array, one dict and one string give every pair of kinds as container and element,
cycles included (an array may contain itself and the dict, and conversely); the promotion age
is 1 (4 in the code), every second collection is a major one (12), thresholds are 0 and 2
objects (1 MB and 16 MB), so that every safepoint may start a mark and both kinds of collection
occur. `StepSize` is 1 (512), so that every mark is suspended wherever it can be. The theorems
below have no such bounds; they also cover the script without restrictions when a step is as
large as the heap.

*Fairness.* `FairSpec` has weak fairness of the collector's loop (C code runs to its end) and
of safepoints (a script that keeps looping meets the safepoint at the head of its loop). A
script that stops needs no mark to end; for it nothing is promised, and deadlock is therefore
not checked: a script may stop.

*Not in the model*: pins (no caller), `gc_pressure_hint` (no caller), the remembered set
(never filled), `major_pending` (never set), string slabs (never filled), statistics.

### What is proved

`ChnGCProofs`, for every set of objects and all tuning constants:

| Theorem | States |
|---|---|
| `TypeCorrect` | `TypeOK` |
| `Generations` | `OldDiesInMajorOnly`; no assumption on the script |
| `Inductive` | the inductive invariant `IInv` |
| `Safety` | `NoLiveObjectFreed` |
| `MarkMeetsWhite` | `MarkStartsClean` |
| `MarkIsSound` | `TriColor` |
| `SweepExactness` | `SweepIsExact` |
| `Refinement` | `ImplementsHeapSpec` |

Assumptions: the three kinds of objects are disjoint and finitely many, the constants are
positive (`KindsAssumption`, `TuningAssumption`), and, from `Inductive` on, `Regime`:
the script takes no reference while a mark is suspended, or a step covers the heap. Without
`Regime` the theorem is false, as `gc_racing` shows.

Why an invariant stronger than `NoLiveObjectFreed` is needed: it says nothing about colours,
and the sweep frees by colour. `IInv` adds

- `TriColor`: roots are queued or traced, and traced objects refer to no white one; when the
  gray stack is empty the black objects are closed under references, so they contain all that
  is reachable, and the white ones may go;
- `GrayIsQueued`: gray objects are exactly those on the gray stack, so "gray stack empty"
  means "no gray object";
- `MarkStartsClean`: without it an object black from the mark before would not be traced;
- `HeapIsSound`: there is a set of allocated objects, closed under references, with all roots;
  during a mark it is the set reachable when the mark began, which bounds what may be marked
  (`SweepIsExact`);
- `FreeIsBlank`, `StringsAreLeaves`: an address handed out again is white and refers to
  nothing, and a string never refers to anything;
- `PcMatchesMark`, `CollectIsAtomic`: who runs agrees with `marking`, and `gc_collect` is never
  suspended;
- `MarksAreWhole`: in the second case of `Regime`, what is left to trace never exceeds what is
  left of the budget, so that a mark is never suspended at all.

`ReachableIsLeast` (reachability is the least closed set) is the only fact about graphs used.
The proofs have one lemma per action of the code. `MarkCompletes` is model-checked only:
liveness under fairness is outside what these provers do.

## 4. The machine and the compiler

`ControlSpec` is the contract of calls and try blocks: activations nest, a block belongs to the
activation that entered it, an error goes to the innermost block still open or ends the program.
`ChnVM` is the machine: `frames`, `frame_count`, `stack_top`, `try_stack` are the fields of
`VM`; values are left out, so a conditional jump may go either way and an operator may fail.
`op_plain` stands for all instructions that only change the height of the stack, `op_raises` for
all run-time errors; each of the others has an action of its own. `vm_throw_error`
keeps its detail: the frame found by unwinding gets the handler's address but keeps its
function, and a full stack makes an error fatal.

`ChnCompiler` is the code generator as functions from syntax trees to code: every statement,
calls and tail calls, locals and scopes, short-circuit operators, the peephole pass and the
optimisations that change control at levels 0 to 2. With each instruction it records what the
compiler had in mind (`depth`, `open`, `bind`), which the machine ignores and the properties
compare with what the machine does:

- `SlotsMatchStack`: the height of the stack is the one counted at compile time, so every local
  is where the code looks for it;
- `HandlersMatchScopes`: the try stack is that of the try blocks in progress;
- `ImplementsControlSpec`: calls, returns and errors are those of `ControlSpec`, with the try
  blocks an activation is in read off the program, not off the try stack. The three limits are
  in it too: what the machine refuses at a limit is an error like any other.

The programs (`MCChnVM`): a top level with a loop that calls `f` and may throw, `f`, whose body
is any statement of a family nested up to twice (calls, locals, jumps and throws inside every
pair of constructs) between a local and its use, and `g`, which throws or returns; 1219
different images over the three levels.

- **`vm_tame`**: all programs without the patterns below; the three properties hold.

The patterns left out are named by `Flaws`, and `Allowed` lets them in again: `leaves_try`
(`break`, `continue`, `return` and tail calls out of a try body leave its handler installed);
`unpopped` and `skips_local` (a local declared directly in the body of a `foreach`, `switch` or
`try`, or jumped over by a `break` or `continue`, separates slots and stack); `under_subject`
(the local in the default case of a `switch` is counted without the subject below it);
`loses_pop` (the peephole pass deletes a POP that other code jumps to); `illegal` marks what the
compiler rejects. Each was seen in the real program; README.md:940 ("a parallel try-frame stack
tracks active error handlers") and README.md:946 ("the compiler tracks open scopes, resolves
local variables by slot index") say nothing of them.

*Bounds.* `MaxStack` 14, `MaxCallDepth` 4 and `MaxTryDepth` 2 (`MAX_STACK`, `MAX_CALL_DEPTH`,
`MAX_TRY_DEPTH`) are small enough for recursion and nested blocks to reach all three, at
different moments, with and without handlers. A program ends, so deadlock is not checked.

*Assumptions and gaps.* `OP_CALL` finds the callee the compiler pushed, which holds as long as
`SlotsMatchStack` does. Try blocks at top level (their error is stored but not popped), nested
functions and captured variables are not in the family (but in that of section 10). Dict and
string operators, methods and natives have the stack effect of the operators modelled.
`ChnCompiler` is recursive over syntax trees and therefore checked, not proved.

### What is proved

`ChnVMProofs`, for any set of programs with any number of functions, any code and any three
limits:

| Theorem | States |
|---|---|
| `SlotsAreCounted` | `SlotsMatchStack` |
| `HandlersAreExact` | `HandlersMatchScopes` |
| `MachineImplementsControl` | `ImplementsControlSpec` |

The assumption is what the machine trusts its compiler with: every program is `WellAnnotated`,
that is, each instruction and its successors agree on the slots and the handlers in use, a
function begins with its arguments and no handler, a catch clause begins with the error above the
slots of its `try`, and known calls have the right number of arguments. It is a condition on code,
not on runs. `ImagesAssumption` in `MCChnVM` has TLC evaluate it: all 1219 images of `vm_tame` meet
it. It tells them from the others: of the programs with one of the `Flaws` that the compiler
accepts, all break it when TLC evaluates it on them, but for `loses_pop` at level 0, where the
peephole pass does not run, and 8 of the 51 programs with `under_subject` alone. So the compiler is
checked against the condition on a family of programs, and the machine is proved against it for all programs.

The invariant, `VMInv`, says while a program runs:

- `Stacked`: each frame is at an instruction of its function's chunk, only the first runs the top
  level, and the frames lie on the value stack without gaps: a frame's base is its caller's base
  plus the slots the caller's next instruction counts. `SlotsMatchStack` speaks of the running
  frame only; after a return or an unwinding another frame is the running one.
- `Handled`: the try stack is ordered by frames, and what it holds for frame `i` is one
  contiguous block that equals, handler by handler, the `open` of the instruction that frame goes
  on with. The order is needed because the machine pops the top handler without looking whose it
  is.

Both are predicates of plain values (`Running(im, fr, n, top, ts)`), so that going on, entering or
leaving a try block, unwinding, calling, returning and calling in tail position are lemmas
without primes (`GoesOn`, `HandlerPushed`, `Takes`, `Unwinds`, `Enters`, `Returns`, `Reenters`);
one lemma per action of the machine then uses one of them, for the invariant and for the
refinement at once.

## 5. Strings and dicts

`ChnTexts` has what both tables know of a string: its text, which of the objects of that text it
is, and its hash.

`ChnStrings`: `intern` is `gc.intern` (a slot is `Unused`, `Tombstone` or a string object),
`objects` the strings on `gc.objects`, `constants` those the program's constants refer to,
`held` those the running program refers to. A string object is its text and a number, so that
two objects of one text are two. Actions: `constant` (the compiler, or the reader of a bytecode
file, calls `gc_string`), `run_chunk` and `run_cco_file` (the two ways a program starts:
`vm_init`, which calls `gc_init`, and `vm_init_no_gc`), `string`, `push_constant`, `drop`, and
`sweep`, which frees any set of unreachable strings and evicts them.

- **`strings`**: `InternFinds` (no entry refers to a freed string, and no string is hidden by an
  eviction or the reuse of a slot), `OnePerTextInHeap` (one object per text, up to a full table).

The heap is not all a program can see: one run from source has constants made before `gc_init`,
the table has forgotten them, and a computed string of the same text is another object
(README.md:76 says "identical strings share one allocation"). Dicts compare keys by address when
they store, so that such a text can be stored twice; the dict's runs have one object per text.

*Bounds.* Three texts in three slots: the table can be full, tombstones must be reused, and all
probes collide and wrap. (The real capacity is a power of two, which only makes `%` a mask.)
Two objects per text are as many as can exist: one in the heap, one among the constants of a
program run from source.

*Proved* (`ChnTableProofs`), for any texts, hash function and capacity: `StoredIsFound`, which is
`InternFinds`; and, for at most as many texts as the table has slots, `EachTextOnce`, which is
`OnePerTextInHeap`. The hypothesis is the code's: a full table takes no more strings (they then
exist twice). The invariant `TableInv` is that a string is in one slot and that the search for its
text arrives there, over slots that were never emptied back to `Unused`; an eviction leaves a
tombstone, over which a search goes on. That searches meet every slot exactly once is
`ProbesDiffer` and `ProbesReach` of `CommonLemmas`.

`ChnDict`: `entries` (indexed from 0, an entry without a key being `Empty`) and `count`. Probing
is written as "the first turn at which the search stops" (`FirstOf`); `PlaceFor` compares
objects, `Found` compares texts, as `gc_dict_set` and `gc_dict_get` do. The loops of `dict_grow`
and of a merge are recursive functions of the entries they have passed. `MapSpec` is the contract.

- **`dict`**: with interned keys and a script that deletes a key only where a run of probes
  ends, `KeysAreFound` (no entry hidden, none double), `ImplementsMapSpec`, and `TypeOK`, whose
  last conjunct keeps an empty slot so that the unbounded loop in `gc_dict_set` ends.
- **`dict_delete`** (violated): deleting anywhere. The slot is emptied and the search for keys
  stored behind it ends there.

*Bounds.* Five texts, of which two hash alike and runs wrap around; a first capacity of 2
instead of 8 makes the table grow twice. A merge's other dict has at most one pair; more pairs
are more of the same stores. The hash function is a constant.

*Proved* (`ChnTableProofs`), for any texts, hashes, values and first capacity from 2 on:

| Theorem | States |
|---|---|
| `StoresEnd` | `TypeOK`, with the empty slot at which the loop of `gc_dict_set` ends (for finitely many texts) |
| `EntriesAreFound` | `KeysAreFound` |
| `DictImplementsMap` | `ImplementsMapSpec` |

Hypotheses: one object per text (`OneCopy`; `EachTextOnce` is why a script that makes its own
strings has no other keys), and deletions only where a run of probes ends (`~DeletesAnywhere`;
`dict_delete` shows that entries get lost without it). The invariant is `DictInv`: the table is
`Sound` (the search for an entry's text arrives at the entry over taken slots, and no text has two
entries), `count` is the number of taken slots, at most three quarters of them are taken, and the
capacity is the first one doubled a number of times. `KeysAreFound` alone is not inductive: it does
not say that the slots passed are taken, which is what a store and a delete may not change. That
growing keeps every pair is proved by induction over the slots moved (`MovedBelow`), and that a merge
overlays the other dict likewise; both loops store through one lemma, `PutStores`.

## 6. Imports

`ChnImports`: `imported` is the list `imported_files`, `stack` the compilations nested on the C
stack (`compile_and_import` runs the compiler inside the compiler; `load_cco_deps` reads a
bundle's dependencies with a compiler of its own), each with its table of imported functions.
The actions are the cases of `do_import` and `try_import_cco` and the ends of compilations.
A path is a file and the number of "./" in front of it: `resolve_path` prepends the importer's
directory and nothing is normalised. `crash` is the C stack exhausted.

- **`imports`**: `OnlyProgramTwice`: without "./", no source or function file that is imported is
  loaded twice, and the dependencies of no bundle are; only the program can be compiled a second
  time, and no more often. `ImportsEnd`: then compilation ends whatever cycles there are.
  `ImportersKnow`: an importer gets the functions of every bundle it imports, and of every file if
  the program names each once. With "./" (also part of this run) neither of the first two holds:
  a file that imports itself as "./f" is compiled again at every level until the stack is full.
  And a file that two importers name is known only to the one that came first, or to those whose
  compilation is nested in one that knows it: hence the condition in `ImportersKnow`.
README.md:676 promises "each file is loaded at most once per program run. circular imports are
detected and blocked." It is contradicted in three ways, the first without "./": `run_source_file` compiles
the program without putting it into `imported_files`, so that in the plain cycle in which the
program imports `s` and `s` the program, the program is compiled a second time within its own
compilation (`loads`, which counts all compilations and reads of a file, is 2 for it: this is what
`OnlyProgramTwice` allows, and all it allows); `try_import_cco` reads the functions of a bundle again for each
source file that imports it; and files spelled with "./" are not recognised.

`loads` and `opened` (how often the dependencies of a bundle were loaded) are history variables:
nothing in the code depends on them.

*Bounds.* Four files, one of any kind, and 1872 ways to import each other, each with and
without "./": cycles through one, two and three files and through the program itself, files
named twice by one importer and by two. `MaxFuncs` 2 (512) is reached; `MaxImported` 8 (256)
is the two entries a file needs, so that the list does not overflow: when it does, files are
loaded again. `MaxNesting` 5 is one more than there are files.

*Fairness.* Weak fairness of the next step: the compiler is a C function that runs on.

*Proved* (`ChnImportsProofs`), for any files and any graph of imports: `WhatIsImportedIsKnown`, which is
`ImportersKnow`, without assumption; and `OnlyTheProgramIsCompiledTwice`, which is `OnlyProgramTwice`, if
`2 * Cardinality(File) <= MaxImported`: a file can be in the list of imported files twice (once when its
import begins and once as itself), so that this is what keeps the list from overflowing, the case in
which the code forgets. The invariant `ImportInv` says that nested compilations are each of the file
the one around it has come to, that what a compilation has passed it knows (`Known`), and, for
programs that name each file once, that a file was loaded only if the statement that names it has
been reached (`OncePerStatement`): without this, an import skipped because the file was loaded
elsewhere could not be excluded.

*Not in the model*: the search for bare names in library directories (it ends in the same
tests), aliases, visibility, and what is recorded for writing a bundle.

## 7. Bytecode files

`ChnBytecode`: `disk` has the pieces of each file as they were written, `registry` is
`func_registry`. A process starts from a source file, a program or a bundle, loads its imports
and its own code, and ends; between processes files are written, with or without minification,
and a write may stop after any piece (`write_cut_off`). Code is a sequence of bytes: an opcode
and as many operands as the *machine* reads (`OperandBytes`); `opcode_extra` is how many the
*writer* believes it has, and constants are renumbered and masked as `bytecode.c` does. A constant
is a number, a text or a reference to a function, in memory by identity and in a file by name.

- **`bytecode`**: `CodeKeepsMeaning` (after renumbering, the removal of equal constants, masking
  and back, each instruction the machine meets has its operand and its constant),
  `BackReferencesLinked` (a reference to a function registered before reaches it, whatever else
  is in the registry, unless the name was taken), `TornFilesRefused` (a file cut short is not
  taken for one, except a bundle cut behind its header, which reads as empty: the checksum is
  looked at only if more than the header is there), `ExportsOffered` (a bundle offers the exports of
  all units, a name once).

References that are not back are not linked: `rb_const_minified` looks a function up while the
constants of another are read (`bytecode.c:561`), and a function is registered after its own
constants (653). So a function that refers to itself has nil where it had itself, or a function of
its name registered before (as `api2` has in this run), and one read before a function that it calls
has nil for that: an exported function of a bundle that calls a private one when the bundle is
imported (`bc_read_cco` reads the exported ones first), and a private one that calls an exported one,
as `core` does `tool`, when the bundle is run (`bc_read_cco_entry` reads the others first). Programs that
recurse run from source and fail when compiled, though README.md:820 says a compiled program "can
be executed directly". This is why `BackReferencesLinked` speaks of references back only.

*Bounds.* Ten functions whose references go back, ahead, to themselves, to other units and to
imports, with constants that occur twice and operands that look like opcodes; three files. A
registry of 7 (`MAX_REGISTRY`, 512) is full for some orders of loading and not for others.
Three writes let a file be torn, rewritten and read beside another.

*Proved* (`ChnBytecodeProofs`), for any functions, programs, renaming and size of the registry,
and any number of writes and processes:

| Theorem | States | Assumes |
|---|---|---|
| `TornFilesAreRefused` | `TornFilesRefused` | - |
| `MeaningIsKept` | `CodeKeepsMeaning` | - |
| `ExportsAreOffered` | `ExportsOffered` | - |
| `ReferencesBackAreLinked` | `BackReferencesLinked` | `NamesAreClear` |

All of them rest on what the compiler hands over: a function's code consists of whole instructions
and an `OP_CONST` has the index of one of its constants (`FunctionAssumption`), and a file's kind goes
with its path (`ProgramAssumption`). `NamesAreClear` is about the programs, not about what is done
with them: a private function, whose name may be shortened, is used only by functions of the files
that have it, which are one; of two functions of one name that a function uses, both or none are
private; and no program imports its own file. TLC evaluates it for the instance. Without it the
theorem is false, as the code is: a file written with shortened names and one written without do
not find each other's private functions.

The invariant `Inv` relates memory to disk through `W`, what was last written to each path. What is
at a path are pieces of what was written there (`DiskInv`: perhaps not all, and nobody remembers
how many), a running process has opened its file (`JobInv`), and each function of the registry was
loaded from a function stored at a path the process may import, *when just those before it in the
registry were registered*, or was compiled by the process (`Origins`). The properties alone are
not inductive: they do not say where a function came from, nor what it could find when it was read.
That the registry a function was read into is a prefix of the one there is now (`RegistryGrows`) is
what makes references back independent of all that is loaded later, a full registry included.

Under the invariant there are two arguments about code. `CodeComesBack`: the walk of the writer
over a function's bytes meets the instructions that the machine meets (`InstructionsWalk`,
`InstructionsApart`), so that patching changes operands of `OP_CONST` and nothing else
(`PatchMoves`); the pool without duplicates has a constant equal to each of the old ones
(`DedupKeeps`, `PoolHasAll`), and equal constants other than functions are the same constant; keys
cancel. `LookupFinds`: a name all whose bearers are one function is resolved to it. For files,
`OpenFacts` and `WrittenFacts` say what is known of a file that could be opened. `NamesOnce` and
`FlattenHasAll` are about what a bundle offers.

*Not in the model*: line tables, printing a file, bundles that import bundles (`ChnImports`).

## 8. Sessions

`ChnSession` is a process from its start to its end: the loop of `Repl.cpp`, which reads lines
until brackets balance and executes them, or `chn file`. Every text goes through parser,
imports, compiler and machine; each takes buffers, objects and a chunk, and `guards` is the
stack of what the C++ scopes will release. `heap` is the collector's list, `registry` the
constants of registered functions (which are roots for ever), `source` the pointer the messages
quote, `lost` what is on no list any more. An error may come at each stage.

- **`session`**: `RootsAreAlive` (no root of a running program was freed), `SourceAlive` (a
  message never quotes a source that was freed, and after an import that failed it quotes the
  importer's), `FreedOnce`, `LineLeavesNothing` (after any text, by whatever way it ended, the
  heap, chunk, buffers, guards and open imports are gone), `HistoryKept` (the newest of the lines
  that are not blank, over several processes: a blank line inside a text of several lines is part
  of the text's entry, is saved, and is not loaded again).
- **`session_state`** (violation): README.md:837 says "state persists between lines within the same
  session", and shows `let x = 10` used in the next line. `StatePersists` asks only that what the
  variables of a text hold is not freed when the next prompt comes. TLC's counterexample reads a
  text, runs it, allocates an object that a variable then holds, and returns: the guards of
  `execute` free the heap. The next text has a compiler and a machine of its own, so that in the
  real program it cannot name the variable either. `LineLeavesNothing` is what those guards are for,
  and holds because of the same code: the two cannot both hold.

`Careful` keeps the user from what is known to leave pointers behind, each seen in the real
program: a run-time error of `chn file` quotes the source that `run_source_file` has freed
(`main.c:319`, `error.c:28`); `:dis`, or a text that fails to compile after constants were made,
frees constants of functions already registered, which a later collection marks (`gc.c:357`).
Memory that runs out while a line is compiled ends the process, not the line. Imported files stay
marked as imported, so that importing one again in a later line brings nothing.

`globals` are the objects that variables of the running program hold; they are roots beside the
constants of functions. A line is what its brackets add up to (-1, 0, 1), or `Blank`.

*Bounds.* Two files that import or fail, four lines, four objects, a history of 2 (500).
`session_state` needs one text, one file and three objects.

*Proved* (`ChnSessionProofs`), for any number of lines, files and objects:

| Theorem | States | Assumes |
|---|---|---|
| `NothingFreedTwice` | `FreedOnce` | - |
| `NothingLeftBehind` | `LineLeavesNothing` | - |
| `DiagnosticsQuoteLiveText` | `SourceAlive` | `Careful` |
| `EarlierConstantsAlive` | `RootsAreAlive` | `Careful` |
| `HistoryIsKept` | `HistoryKept` | - |

`ObjectInv` numbers the objects without gaps, so that a new one is no other's. `GuardInv` relates the
stack of guards to what is in memory: in the loop, heap and chunk always have a guard that has
not run; while a text is compiled, the texts in memory are those of the guards and of the
imports nested in it, each with one owner and the importer's older than the imported file's.
`RootInv` says that the constants of registered functions are off the list by the time it
is freed or collected, and that nothing a running program's variables hold was freed. Without `Careful` the third and the fourth theorem are false, in the ways
listed above. `HistoryInv` says of the history in memory, while a process runs, and of the file, from
one process to the next, that they are the newest of all lines that are not blank and as many as `kHistoryMax`, or
all. It has to speak of the file too, which no property looks at, and of a text of several lines,
which is one entry in memory and becomes as many as its lines that are not blank when it is loaded.

## 9. Network

`ChnNet`: a native is a sequence of stages named for the functions it calls, each with what it
releases when it fails. Descriptors, `SSL` and `SSL_CTX` objects are numbered and reused as the
kernel and the allocator do. The HTTP exchange is modelled read by read, against a peer that
sends when it likes, in pieces, and may hang up; an answer is a sequence of the marks its parser
looks for.

- **`net`**: `NothingLeaks` (between calls everything open is the script's or a slot's, and
  nothing of a slot was freed), `SlotsOwnTheirs` (also during calls), `AnswerIsTrue` (a reported
  answer begins like the one sent, and is all of it if the end of the stream ended it),
  `NothingMissed` (`tls_recv` returns nothing only if neither the wire nor the TLS library has
  anything), `CallsEnd`.

*Fairness.* Weak fairness of `Native`, the steps of the process itself, its timeouts included;
none of the peer. So `CallsEnd` leaves out the natives that shake hands and https: they have no
timeout, and a silent peer holds them for ever.

*Proved* (`ChnNetProofs`), for any number of slots, descriptors and records: `NothingIsLeaked`
(`NothingLeaks`), `SlotsAreDisjoint` (`SlotsOwnTheirs`), `NoDataMissed` (`NothingMissed`) and
`AnswersAreTrue` (`AnswerIsTrue`), with no assumption. The invariant `NetInv` gives every descriptor, `SSL` and `SSL_CTX` exactly one owner: the
script, a slot, or the call in progress, which owns what the stages behind it have taken
(`Taken`). `StagesOrderly`, a fact about the tables of stages (`net_dispatch`), says that a stage that
fails releases just that; it is where a forgotten `close` would show. For `AnswersAreTrue`, `AnswerInv` adds
that no more was read than was sent and no more sent than the whole answer; the rest is about
parsing (`AnswerIsSent`): the status line, the headers and the body of a beginning of an answer are
beginnings of those of the answer, and the status is all of it.

*Known limits, as modelled*: https reports success with status 0 when it read nothing; requests
longer than 4096 bytes are cut; texts end at their first NUL; a wait with pending TLS data still
takes all its time; a line of the loop that ends loses its handles while the slots stay taken.
Timeouts are taken to be not negative (a negative one waits for ever).

*Bounds.* Three descriptors beyond the terminal's, two slots (64), a buffer of 7 for answers of 5
and 7 marks, so that both fit and overflow; a request sent in two pieces.

## 10. From text to result

`ChnLexer` and `ChnParser` are `lexer.c` and `parser.c` on real text: the parser's state is a
lexer position and two tokens, its functions have the code's names, and the trees are
`[kind, toks, kids]`. The functions that call each other in the code do so through one recursive operator,
`rule`; the eleven levels of binary operators, each a function that calls the next one, are climbed
from the tightest. `ChnEval` is the code generator for everything but control statements
beyond blocks and functions (those are `ChnCompiler`'s): constant folding, operators, assignments,
calls, lambdas, f-strings, methods, natives, nested functions and their captured variables,
structs, exports and the entry. `ChnMachine` is `vm_run` on values; `ChnValues`, `ChnMethods`
and `ChnNatives` are the operators, methods and natives. `ChnMeaning` is independent of all this
but for the operators on values: what a tree means, operand by operand. `ChnFront` states what a
reading of a text is; `ChnRun` takes a text from its characters to the end of its run.

- **`run`**:
  `TokensAreLongest` (every token is the longest lexeme at its place, by a definition of lexemes
  that does not scan); `DepthsAgree` (the loop's bracket counting finds a text finished exactly
  when the lexer's tokens do, for texts without the differences below); `TreesComeBack` (a tree
  printed with as few brackets as the levels of operators allow is read back as itself);
  `AcceptedIsKept` (what is accepted without error is all in the tree, in its order: neither
  the backtracking for lambdas nor an early end of a statement drops a token);
  `EvaluationAgrees` (output, error, globals, heap and an empty stack are what the tree means);
  `LawsHold` (laws between the methods: what is found is there, what is split is joined, what is
  inserted is cut); `JsonComesBack`.

*Bounds.* All texts of up to four of twelve characters, and of up to five of the ten that begin, end
or resemble comments, strings, escapes and exponents, apostrophes included: five is the length of
the shortest text in which an exponent without digits hides the beginning of a comment in front
of a bracket, `0e--(`. All sequences of two of 24 tokens at
twelve places (three at the first), printed trees of two levels; programs with every operator between
operands that have effects or fail, pairs of operators of different levels, calls, lambdas,
functions in functions, structs and entries: 448,567 states. Levels 0 and 2 (1 folds a subset).
`MAX_PARAMS` is 2 (64) so that it can be passed; `MAX_CALL_DEPTH` 12 is enough for every program
but those that recurse without end, which reach it. `Stride` 60 instructions are one step of
TLC; nothing runs in between.

*Where the documentation says otherwise.* The properties say what the code does. The README, or a
comment, says something else in these places; the programs `Otherwise` of `MCChnRun`, one for each,
are among the laws of `LawsHold`, so that the run confirms the left column:

| Code | Documentation |
|---|---|
| `replace` changes every occurrence (`vm.c:311`) | README.md:609: "replace first occurrence" |
| `slice` of a text takes a start and an end (`vm.c:776`) | README.md:611: "slice(start, len)" |
| `has` is false of a key that holds nil | README.md:537: "true if key exists" |
| `fill(v, n)` makes an array of n times v, and leaves its own as it is (`vm.c:1018`) | README.md:500: `fill(v)`, "fill all slots with value" |
| `/* */` is skipped like a comment, over lines too (`lexer.c:55`), and `//` begins one | README.md:240: "there are no block comments" |
| `a < 1 < 1` and `a < b in c` are accepted and group to the left (`parser.c:868`) | parser.c:867: "only one comparison operator is allowed per expression (no chaining)" |

The modules were also compared with the program itself, built from the sources: tokens and trees
of 49,406 texts, and the output, errors and results of some 5,600 runs at `-O0` and `-O2`, with no
difference but two that the model leaves out: the order in which a dict prints its entries, and
the rounding of the 14th digit of a number.

*Conditions in the properties*, each for a thing the real program does:

- `SafeToOptimize`: at levels 1 and 2 `!!5` is 5; a POP that is the target of a jump is removed
  (`a && 1;` in a function);
- `FStringsAreTexts`: the parts of an f-string are added, so that `f"{1}{2}"` is 3 and a single
  part is the value itself; a `{` inside a hole is counted and its `}` is not;
- `CapturesNothing`: lambdas do not capture (`a -> b -> a + b`), names they do not know become
  globals, and the captured locals of nested functions are globals, shared by all activations;
- `JsonTame`: `json_stringify` writes one level of nesting and escapes nothing in dicts;
- `DefaultsAreTame`: a second `default` takes the place of the first,
  after `default:` a word that begins no statement is read again without end (`parser.c:681`);
  `f(1)(2)` is two statements; a text that ends in a backslash inside a string is read beyond its
  end;
- `Told`, `SlashComment`, `CutComment`: an apostrophe opens a string only for `scan_depth`; a comment
  that begins with `//` is one only for the lexer; and in an exponent without digits, `0e--(`, the
  lexer takes the first `-` into its error token, while `scan_depth` sees a `--` comment, which hides
  the bracket. The lexer reports an error for the first and the last.

Further known limits, as modelled: `for (let i = 0; ; i++)` is rejected (627-637); a list of
lambda parameters is not limited by `MAX_PARAMS` (1323); an expression body that begins with `{`
is a dict; `d.k = v` has the dict as its value; arrays have no `slice` (README.md:515); `.map`,
`.filter`, `.reduce`, `.any` and `.all` always fail (README.md:463 shows them); the arguments of `.length` are not evaluated; the number of
a method's arguments is not checked; a struct's defaults stand in for nil arguments only, since
the number of arguments is; bitwise operators work on 64 bits (README.md:314: 32); a native has at most
16 arguments.

*Not in the model*: floating-point arithmetic beyond exact fractions, input, the natives for
files, processes, time and the environment; `ChnNatives` has those that the programs call.

## 11. Disagreements between code and documentation

`PROJECT.json` has the exact quotes under `findings`.

| Run | Code | Documentation |
|---|---|---|
| `gc_racing` | roots are marked once per mark; `gc_arr_push` has no barrier and the others act for old containers only | "write barriers keep inter-generational references consistent" |
| `dict_delete` | `gc_dict_delete` empties the slot in the middle of a run | `has(key)`: "true if key exists" |
| `session_state` | each text of the loop has a heap, a compiler and a machine of its own, freed at its end | "state persists between lines within the same session" |

Sections 4 to 10 name others, as the conditions under which a property holds: that the program can be
compiled twice (6), that references of a function to itself or ahead come back as nil (7), and
methods, comments and comparisons (the table in section 10).

## 12. What is checked only, and what is not modelled

With TLC alone, for the instances given above:

- *Liveness*: `MarkCompletes`, `ImportsEnd`, `CallsEnd`. Fairness is about `ENABLED`, which the
  provers do not handle.
- *Recursion over data*: `ChnCompiler`, `ChnParser`, `ChnEval`, `ChnMachine`, `ChnMeaning`, `ChnFront`
  and `ChnRun` are recursive in syntax trees and values, with recursive operators as the code has
  recursive functions, of which the provers know nothing. The properties of `run` are theirs, and
  that the compiler's programs are `WellAnnotated` (section 4) is one of these.

Not modelled:

- Files, processes, time, random numbers, the environment and input: system calls.
- Floating-point rounding, and the printing of numbers to their last digit.
- Messages: their wording, columns and carets. That they quote a source in memory is modelled.
- The search for libraries in directories, aliases of imports, protected functions called from
  elsewhere, and what is recorded for writing bundles of imports.
- Line tables, disassembly, printing of trees and files, timing, the terminal.
- `src/v1.0/`: the earlier version, not built.

## 13. Running the checks

    tlc -workers 2 -config GCQuiet.cfg ChnGC.tla                (also GCRacing)
    tlc -workers 2 -config VMTame.cfg MCChnVM.tla
    tlc -workers 2 -config Strings.cfg MCChnStrings.tla
    tlc -workers 2 -config Dict.cfg MCChnDict.tla               (also DictDelete)
    tlc -workers 2 -config Imports.cfg MCChnImports.tla
    tlc -workers 2 -config Bytecode.cfg MCChnBytecode.tla
    tlc -workers 2 -config Session.cfg ChnSession.tla           (also SessionState)
    tlc -workers 2 -config Net.cfg MCChnNet.tla
    tlc -workers 2 -config Run.cfg MCChnRun.tla
    tlapm ChnGCProofs.tla       (also ChnVMProofs, ChnTableProofs, ChnImportsProofs, CommonLemmas,
                                 ChnBytecodeProofs, ChnSessionProofs, ChnNetProofs)

The largest run has 2.2 million distinct states (`session`); each takes under three minutes.
Definitions whose comment starts with "Mutant:" are not part of the specifications: each is the
form a definition would take after a plausible mistake in the code, and one is known to violate
each property of each passing run.
