----------------------------- MODULE ChnSession ------------------------------
(***************************************************************************)
(* What a script borrows and who gives it back (src/memory/Repl.cpp,       *)
(* RAII.cpp, MemoryHandler.cpp, src/v1.1/main.c, error.c): the source      *)
(* text, the heap of its strings, its chunk and its machine, in the loop   *)
(* that reads, compiles and runs one text after another in one process,    *)
(* and in "chn file". What outlives a text is the registry of functions,   *)
(* the list of imported files, the pointer to the source that diagnostics  *)
(* show, and the history of the lines entered.                             *)
(*                                                                         *)
(* Objects and buffers are numbered as they are made. A line of input is   *)
(* its balance of brackets (one kind of bracket stands for three), or 2    *)
(* for an :ast, 3 for a :dis and 4 for a blank line.                       *)
(***************************************************************************)
EXTENDS Integers, FiniteSets, SequencesExt

CONSTANTS
    File,           \* files that texts import
    Entry,          \* how processes are started: "repl", "file"
    Careful,        \* users stay clear of what is known to leave dangling pointers
    kHistoryMax,    \* lines of history kept
    MaxLines,       \* lines read and files run, in all
    MaxObjects      \* constants and strings of the scripts

VARIABLES
    entry,      \* how this process was started
    pc,         \* prompt, parsing, compiling, failing, compiled, running, unwinding, ended
    mode,       \* what is done with the text: run, ast, dis
    lines,      \* lines read
    multi_buf,  \* the lines of an unfinished text
    guards,     \* what is to be released, the innermost last
    buffers,    \* source texts in memory
    made,       \* how many there ever were
    source,     \* g_source_code
    saved,      \* the same of the importers of the file being compiled, outermost first
    shown,      \* the text the last diagnostic quoted was "live" or "freed"
    heap,       \* gc.objects
    lost,       \* objects that are allocated and on no list
    freed,      \* objects that were freed
    registry,   \* the texts that are constants of registered functions
    chunk,      \* those of the top-level code
    globals,    \* the texts that top-level variables hold, or held when the last script ended
    imported,   \* imported_files
    history,    \* g_history, an entry for each text
    histfile,   \* lines of ~/.chn_history
    recorded    \* all lines that went into the history and were not lost by a crash

input == <<lines, multi_buf>>
text == <<buffers, made, source, saved, shown>>
memory == <<heap, lost, freed, registry, chunk, globals>>
past == <<history, histfile, recorded>>
vars == <<entry, pc, mode, input, guards, text, memory, imported, past>>

ASSUME SessionAssumption == /\ kHistoryMax \in Nat \ {0} /\ MaxLines \in Nat /\ MaxObjects \in Nat
                            /\ Careful \in BOOLEAN /\ Entry \subseteq {"repl", "file"}

Objects == heap \cup lost \cup freed
NewObject == Cardinality(Objects) + 1
CanAllocate == Cardinality(Objects) < MaxObjects

Blank == 4
TextLine == (-1..1) \cup {Blank}

NonBlank(s) == FlattenSeq([i \in 1..Len(s) |-> IF s[i] = Blank THEN <<>> ELSE <<s[i]>>])

\* history_load: the last lines that are not blank, each an entry of its own.
LastOf(s, n) == SubSeq(s, IF Len(s) > n THEN Len(s) - n + 1 ELSE 1, Len(s))
history_load(file) ==
    LET last == LastOf(NonBlank(file), kHistoryMax) IN [i \in 1..Len(last) |-> <<last[i]>>]

\* Mutant: the oldest entries are kept.
OldestKept(h) == SubSeq(h, 1, IF Len(h) > kHistoryMax THEN kHistoryMax ELSE Len(h))

\* The entries history_save writes, line by line.
KeptEntries(h) == LastOf(h, kHistoryMax)
history_save(h) == FlattenSeq(KeptEntries(h))

NewProcess(e, file) ==
    /\ entry' = e /\ pc' = "prompt" /\ mode' = "run" /\ multi_buf' = <<>> /\ guards' = <<>>
    /\ buffers' = {} /\ made' = 0 /\ source' = 0 /\ saved' = <<>> /\ shown' = "live"
    /\ heap' = {} /\ lost' = {} /\ freed' = {} /\ registry' = {} /\ chunk' = {} /\ globals' = {}
    /\ imported' = {} /\ history' = history_load(file)

Init ==
    /\ entry \in Entry /\ pc = "prompt" /\ mode = "run" /\ lines = 0 /\ multi_buf = <<>> /\ guards = <<>>
    /\ buffers = {} /\ made = 0 /\ source = 0 /\ saved = <<>> /\ shown = "live"
    /\ heap = {} /\ lost = {} /\ freed = {} /\ registry = {} /\ chunk = {} /\ globals = {}
    /\ imported = {} /\ history = <<>> /\ histfile = <<>> /\ recorded = <<>>

----------------------------------------------------------------------------
(* The collector and the diagnostics                                       *)

\* Mutant: the machine is set up without a new heap (vm_init_no_gc).
KeepsHeap(h) == h

\* gc_init forgets what is on the list, and frees none of it.
HeapAfterInit(h) == {}
gc_init ==
    /\ heap' = HeapAfterInit(heap)
    /\ lost' = lost \cup (heap \ HeapAfterInit(heap))
    /\ UNCHANGED <<freed, registry, chunk>>

\* Mutant: the list is left as it was.
ListKept(h) == h

\* What gc_free_all leaves on the list it freed.
HeapAfterFree(h) == {}
gc_free_all ==
    /\ freed' = freed \cup heap
    /\ heap' = HeapAfterFree(heap)

\* print_diagnostic quotes a line of the source.
Quoting(s, bs) == IF s = 0 \/ s \in bs THEN "live" ELSE "freed"
print_diagnostic == shown' = Quoting(source, buffers)

----------------------------------------------------------------------------
(* Reading                                                                 *)

Sum(s) == FoldLeft(LAMBDA a, b : IF b = Blank THEN a ELSE a + b, 0, s)

history_push(e) ==
    /\ history' = IF history # <<>> /\ Last(history) = e THEN history ELSE Append(history, e)
    /\ recorded' = IF history # <<>> /\ Last(history) = e THEN recorded ELSE recorded \o e
    /\ UNCHANGED histfile

Malloc(owned) == [i \in 1..Len(owned) |-> [kind |-> "malloc", of |-> owned[i]]]

\* Mutant: only the machine's guard frees the heap.
without_cleanup(owned) == Malloc(owned)

ExecuteGuards(owned) == Malloc(owned) \o <<[kind |-> "defer", of |-> 0]>>

\* execute: the copy of the text, the heap, and, from :load, the buffer of the file around it.
execute(m, load) ==
    LET owned == IF load THEN <<made + 1, made + 2>> ELSE <<made + 1>> IN
    /\ mode' = m /\ pc' = "parsing"
    /\ made' = Last(owned) /\ buffers' = buffers \cup ToSet(owned)
    /\ guards' = ExecuteGuards(owned)
    /\ source' = Last(owned)
    /\ gc_init /\ UNCHANGED globals
    /\ UNCHANGED <<entry, saved, shown, imported>>

AtPrompt == entry = "repl" /\ pc = "prompt" /\ lines < MaxLines

\* A line of a text that has brackets open, or is the whole of it. No text begins with a blank one.
read_text(d) ==
    /\ AtPrompt /\ (d = Blank => multi_buf # <<>>)
    /\ lines' = lines + 1
    /\ LET src == Append(multi_buf, d) IN
       \/ /\ Sum(src) > 0
          /\ multi_buf' = src
          /\ UNCHANGED <<entry, pc, mode, guards, text, memory, imported, past>>
       \/ /\ Sum(src) < 0
          /\ multi_buf' = <<>>
          /\ UNCHANGED <<entry, pc, mode, guards, text, memory, imported, past>>
       \/ /\ Sum(src) = 0
          /\ multi_buf' = <<>>
          /\ history_push(src)
          /\ execute("run", FALSE)

\* :ast, :dis and :load are looked for only where a text begins.
read_snippet(m) ==
    /\ AtPrompt /\ multi_buf = <<>>
    /\ lines' = lines + 1 /\ UNCHANGED multi_buf
    /\ history_push(<<IF m = "ast" THEN 2 ELSE 3>>)
    /\ execute(m, FALSE)

execute_file ==
    /\ AtPrompt /\ multi_buf = <<>>
    /\ lines' = lines + 1 /\ UNCHANGED <<multi_buf, past>>
    /\ execute("run", TRUE)

reset ==
    /\ AtPrompt /\ multi_buf = <<>>
    /\ lines' = lines + 1
    /\ freed' = freed \cup heap /\ heap' = {} /\ globals' = {}
    /\ UNCHANGED <<entry, pc, mode, multi_buf, guards, text, lost, registry, chunk, imported, past>>

\* quit, or the end of the input, whatever was begun.
quit ==
    /\ entry = "repl" /\ pc = "prompt"
    /\ pc' = "ended"
    /\ histfile' = history_save(history)
    /\ UNCHANGED <<entry, mode, input, guards, text, memory, imported, history, recorded>>

\* chn file: read_file, compile_source.
run_source_file ==
    /\ entry = "file" /\ pc = "prompt" /\ lines < MaxLines
    /\ pc' = "parsing" /\ lines' = lines + 1
    /\ made' = made + 1 /\ buffers' = {made'} /\ source' = made'
    /\ guards' = <<[kind |-> "malloc", of |-> made']>>
    /\ UNCHANGED <<entry, mode, multi_buf, saved, shown, memory, imported, past>>

\* Another process, by the same user.
restart(e) ==
    /\ pc = "ended" /\ lines < MaxLines
    /\ NewProcess(e, histfile)
    /\ UNCHANGED <<lines, histfile, recorded>>

----------------------------------------------------------------------------
(* Compiling                                                               *)

parser_parse ==
    /\ pc = "parsing"
    /\ \/ /\ pc' = "unwinding" /\ print_diagnostic
       \/ /\ pc' = IF mode = "ast" THEN "unwinding" ELSE "compiling"
          /\ UNCHANGED shown
    /\ UNCHANGED <<entry, mode, input, guards, buffers, made, source, saved, memory, imported, past>>

Stays(p) == pc = p /\ UNCHANGED <<entry, pc, mode, input, guards>>

\* A function with a text among its constants is registered, in this file or an imported one.
func_register ==
    /\ Stays("compiling") /\ CanAllocate
    /\ Careful => mode # "dis"
    /\ heap' = heap \cup {NewObject} /\ registry' = registry \cup {NewObject}
    /\ UNCHANGED <<text, lost, freed, chunk, globals, imported, past>>

\* compile_and_import: a file imported before, by this text or an earlier one, is not compiled.
compile_and_import(f) ==
    /\ Stays("compiling") /\ f \notin imported
    /\ imported' = imported \cup {f}
    /\ saved' = Append(saved, source)
    /\ made' = made + 1 /\ buffers' = buffers \cup {made'} /\ source' = made'
    /\ UNCHANGED <<shown, memory, past>>

\* Mutant: the importer's source is not restored.
SourceKept(before) == source

\* error_init(pf,ps) at the end of compile_and_import.
SourceRestored(before) == before

\* The imported file's text is freed and its importer's made the source again.
import_done ==
    /\ Stays("compiling") /\ saved # <<>>
    /\ buffers' = buffers \ {source} /\ source' = SourceRestored(Last(saved)) /\ saved' = Front(saved)
    /\ UNCHANGED <<made, shown, memory, imported, past>>

compile_error ==
    /\ pc = "compiling" /\ pc' = "failing"
    /\ Careful => heap = {}
    /\ print_diagnostic
    /\ UNCHANGED <<entry, mode, input, guards, buffers, made, source, saved, memory, imported, past>>

\* Each importer reports the import that failed, and fails.
import_failed ==
    /\ Stays("failing") /\ saved # <<>>
    /\ buffers' = buffers \ {source} /\ source' = SourceRestored(Last(saved)) /\ saved' = Front(saved)
    /\ shown' = Quoting(source', buffers')
    /\ UNCHANGED <<made, memory, imported, past>>

compile_failed ==
    /\ pc = "failing" /\ saved = <<>> /\ pc' = "unwinding"
    /\ UNCHANGED <<entry, mode, input, guards, text, memory, imported, past>>

\* The top-level code has a text too.
compile_done ==
    /\ pc = "compiling" /\ saved = <<>> /\ CanAllocate
    /\ pc' = "compiled"
    /\ heap' = heap \cup {NewObject} /\ chunk' = {NewObject}
    /\ UNCHANGED <<entry, mode, input, guards, text, lost, freed, registry, globals, imported, past>>

----------------------------------------------------------------------------
(* Running: vm_init clears the variables                                   *)

\* execute guards the chunk, and the machine if the text is run.
vm_run ==
    /\ entry = "repl" /\ pc = "compiled"
    /\ IF mode = "dis"
       THEN /\ pc' = "unwinding"
            /\ guards' = Append(guards, [kind |-> "ChunkGuard", of |-> 0])
            /\ UNCHANGED memory
       ELSE /\ pc' = "running"
            /\ guards' = guards \o <<[kind |-> "ChunkGuard", of |-> 0], [kind |-> "VMGuard", of |-> 0]>>
            /\ gc_init /\ globals' = {}
    /\ UNCHANGED <<entry, mode, input, text, imported, past>>

\* run_source_file frees the text, then run_chunk sets up the machine.
run_chunk ==
    /\ entry = "file" /\ pc = "compiled" /\ pc' = "running"
    /\ buffers' = buffers \ {guards[1].of}
    /\ guards' = <<[kind |-> "VMGuard", of |-> 0]>>
    /\ gc_init /\ globals' = {}
    /\ UNCHANGED <<entry, mode, input, made, source, saved, shown, imported, past>>

\* A string of the script, which a variable may come to hold.
allocate ==
    /\ Stays("running") /\ CanAllocate
    /\ heap' = heap \cup {NewObject} /\ globals' \in {globals, {NewObject}}
    /\ UNCHANGED <<text, lost, freed, registry, chunk, imported, past>>

\* mark_vm_roots goes through the variables and the constants of all registered functions and of
\* the chunk.
Roots == registry \cup chunk \cup globals
gc_collect ==
    /\ Stays("running")
    /\ heap' = heap \cap Roots /\ freed' = freed \cup (heap \ Roots)
    /\ UNCHANGED <<text, lost, registry, chunk, globals, imported, past>>

\* An error nobody caught is reported, with the line of the source.
error_runtime ==
    /\ pc = "running" /\ pc' = "unwinding"
    /\ Careful => entry = "repl"
    /\ print_diagnostic
    /\ UNCHANGED <<entry, mode, input, guards, buffers, made, source, saved, memory, imported, past>>

\* The script ends, or ChnMemoryError leaves vm_run and is caught.
vm_returns ==
    /\ pc = "running" /\ pc' = "unwinding"
    /\ UNCHANGED <<entry, mode, input, guards, text, memory, imported, past>>

\* Out of memory where nobody catches the error: the loop's history is not saved.
oom ==
    /\ pc \in {"parsing", "compiling"} \/ (entry = "file" /\ pc = "running")
    /\ pc' = "ended"
    /\ recorded' = histfile
    /\ UNCHANGED <<entry, mode, input, guards, text, memory, imported, history, histfile>>

----------------------------------------------------------------------------
(* Unwinding                                                               *)

\* The destructor of the innermost guard.
release ==
    /\ pc = "unwinding" /\ guards # <<>>
    /\ LET g == Last(guards) IN
       /\ guards' = Front(guards)
       /\ \/ /\ g.kind = "malloc"
             /\ buffers' = buffers \ {g.of}
             /\ UNCHANGED memory
          \/ /\ g.kind \in {"VMGuard", "defer"}
             /\ gc_free_all
             /\ UNCHANGED <<buffers, lost, registry, chunk, globals>>
          \/ /\ g.kind = "ChunkGuard"
             /\ chunk' = {}
             /\ UNCHANGED <<buffers, heap, lost, freed, registry, globals>>
    /\ UNCHANGED <<entry, pc, mode, input, made, source, saved, shown, imported, past>>

\* Back to the prompt, or to the shell.
execute_returns ==
    /\ pc = "unwinding" /\ guards = <<>>
    /\ pc' = IF entry = "repl" THEN "prompt" ELSE "ended"
    /\ UNCHANGED <<entry, mode, input, guards, text, memory, imported, past>>

----------------------------------------------------------------------------

Reading == \/ \E d \in TextLine : read_text(d)
           \/ \E m \in {"ast", "dis"} : read_snippet(m)
           \/ execute_file \/ reset \/ quit \/ run_source_file
           \/ \E e \in Entry : restart(e)
Compiling == \/ parser_parse \/ func_register \/ import_done \/ compile_error \/ import_failed
             \/ \E f \in File : compile_and_import(f)
             \/ compile_failed \/ compile_done
Running == vm_run \/ run_chunk \/ allocate \/ gc_collect \/ vm_returns \/ error_runtime \/ oom
Next == Reading \/ Compiling \/ Running \/ release \/ execute_returns

Spec == Init /\ [][Next]_vars

----------------------------------------------------------------------------
(* Properties                                                              *)

\* A collection of a later text marks the constants of all functions of earlier ones, besides its
\* own constants and variables: none of them was freed, when its text ended or by an earlier
\* collection (mark_vm_roots, execute).
RootsAreAlive == pc = "running" => Roots \cap freed = {}

\* A diagnostic quotes a source text that is in memory, in the file it is about or, when an
\* import failed, in its importer (error_init, compile_and_import, execute).
SourceAlive == shown = "live"

\* The machine's guard and the deferred one both free the heap: nothing is freed twice, or once it
\* was lost.
FreedOnce == heap \cap freed = {} /\ heap \cap lost = {} /\ lost \cap freed = {}

\* However a text ends, by its last statement or by an error at any stage, the guards of execute
\* give back all it took, and the next prompt finds no object on the list, no text and no open
\* import of it. What its variables hold is given back as well: see StatePersists.
LineLeavesNothing ==
    pc = "prompt" => heap = {} /\ buffers = {} /\ guards = <<>> /\ saved = <<>> /\ chunk = {}

\* What the README says of the loop (README.md:837): state persists between lines within the same
\* session, as x of "let x = 10" for the next line. execute compiles each text by itself, for a
\* machine of its own, and its guards free the heap.
StatePersists == entry = "repl" /\ pc = "prompt" => globals \cap freed = {}

\* Of the lines that are not blank the history has the newest, at least kHistoryMax of them, after
\* any number of sessions, texts of several lines included. A blank line of such a text is saved,
\* and not loaded (history_load, history_save).
HistoryKept ==
    LET h == NonBlank(FlattenSeq(history))
        r == NonBlank(recorded)
    IN  pc # "ended" => IsSuffix(h, r) /\ (Len(h) >= kHistoryMax \/ h = r)
=============================================================================
