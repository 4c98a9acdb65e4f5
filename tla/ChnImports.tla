----------------------------- MODULE ChnImports -----------------------------
(***************************************************************************)
(* How CHN 1.1 resolves imports while it compiles (src/v1.1/main.c): an    *)
(* import statement runs the whole compiler again, on the file imported,   *)
(* in the middle of the importer's compilation; files already imported are *)
(* skipped.                                                                *)
(*                                                                         *)
(* A file is remembered by the path it was reached by, and a path is not   *)
(* normalised: the directory of the importer's path goes in front of the   *)
(* name imported, so "./f.chn" in a file reached by "./g.chn" is           *)
(* "././f.chn". A path is modelled by its file and the number of its "./". *)
(* Each file has one exported function, named here after the file.         *)
(***************************************************************************)
EXTENDS Naturals, Sequences, FiniteSets

CONSTANTS
    File, Main,
    Programs,       \* each says of what kind the files are, what they import, and how
    MaxImported,    \* MAX_IMPORTED
    MaxFuncs,       \* MAX_FUNCS
    MaxNesting      \* compilations the C stack has room for

\* "source": a .chn file. "functions": a .function or .chn2 file. "bundle": a .cco file,
\* imported by imp::lib, whose imports are the bundles it depends on. "missing": no such file.
Kinds == {"source", "functions", "bundle", "missing"}

ASSUME ImportsAssumption ==
    /\ Main \in File /\ IsFiniteSet(File)
    /\ MaxImported \in Nat /\ MaxFuncs \in Nat /\ MaxNesting \in Nat \ {0}
    /\ \A p \in Programs :
          /\ p.kind \in [File -> Kinds] /\ p.kind[Main] = "source"
          /\ p.imports \in [File -> Seq(File)]
          /\ p.dotted \in BOOLEAN       \* are source and function files imported as "./f"?
          /\ \A b \in File : p.kind[b] = "bundle" =>
                \A k \in DOMAIN p.imports[b] : p.kind[p.imports[b][k]] \in {"bundle", "missing"}

VARIABLES
    prog,
    imported,   \* imported_files
    stack,      \* the compilations in progress, the innermost last
    loads,      \* history: how often each file was compiled or read
    opened,     \* history: how often the dependencies of each bundle were loaded
    status      \* "run", "ok", "error", or "crash" when the C stack is exhausted

vars == <<prog, imported, stack, loads, opened, status>>

\* The compilation of f, reached by a path with n "./": its first done imports are behind
\* it, and the functions of the files in table are known to it.
Compiler(f, n, table) == [file |-> f, dots |-> n, done |-> 0, table |-> table]

\* run_source_file compiles the program, and does not enter it in the list.
Init ==
    /\ prog \in Programs
    /\ imported = <<>>
    /\ stack = <<Compiler(Main, 0, <<>>)>>
    /\ loads = [f \in File |-> IF f = Main THEN 1 ELSE 0]
    /\ opened = [f \in File |-> 0]
    /\ status = "run"

----------------------------------------------------------------------------
(* The compilation in progress and the file it imports next                *)

C == stack[Len(stack)]
Kind(f) == prog.kind[f]
AtEnd == C.done = Len(prog.imports[C.file])
Running == status = "run"
Imports(f) == Running /\ ~AtEnd /\ prog.imports[C.file][C.done + 1] = f

\* resolve_path. Bundles are named without "./", by bundles from the first directory on.
PathOf(f) ==
    <<f, IF Kind(C.file) = "bundle" THEN 0
         ELSE IF prog.dotted /\ Kind(f) # "bundle" THEN C.dots + 1 ELSE C.dots>>

already_imported(p) == \E k \in 1..Len(imported) : imported[k] = p

\* Mutant: the entry last made is overwritten.
mark_overwrites(p) == imported' = <<p>>

\* A path is remembered with and without its extension, a bundle's with it; when the list
\* is full nothing is.
mark_imported(p) ==
    LET marks == imported \o (IF Kind(p[1]) = "bundle" THEN <<p>> ELSE <<p, p>>)
    IN  imported' = SubSeq(marks, 1, IF Len(marks) <= MaxImported THEN Len(marks) ELSE MaxImported)

HasRoom(table) == Len(table) < MaxFuncs

\* The functions of f, left out if the table is full.
With(table, f) == IF HasRoom(table) THEN Append(table, f) ELSE table

\* The rest of compilation s after the import of f.
After(s, f) == [s EXCEPT !.done = @ + 1, !.table = With(@, f)]

Skip == stack' = [stack EXCEPT ![Len(stack)].done = @ + 1]
Loaded(f) == loads' = [loads EXCEPT ![f] = @ + 1]
Opened(f) == opened' = [opened EXCEPT ![f] = @ + 1]
Learn(f) == stack' = [stack EXCEPT ![Len(stack)] = After(@, f)]

\* The importer's compilation goes on with what f has to offer.
Resume(f) ==
    stack' = [SubSeq(stack, 1, Len(stack) - 1) EXCEPT ![Len(stack) - 1] = After(@, f)]

\* Compile f, or the dependencies of bundle f, inside the compilation in progress.
Nest(c) ==
    IF Len(stack) < MaxNesting
    THEN stack' = Append(stack, c) /\ UNCHANGED status
    ELSE status' = "crash" /\ UNCHANGED stack

----------------------------------------------------------------------------
(* do_import                                                               *)

\* Mutant: files whose compilation is in progress are not skipped.
SkippedWhenDone(f) ==
    already_imported(PathOf(f)) /\ \A k \in 1..Len(stack) : stack[k].file # f

\* Mutant: a bundle is skipped like any file.
SkippedBundlesToo(f) == already_imported(PathOf(f))

\* A file is skipped if its path was imported; a bundle, only as another's dependency.
Skipped(f) ==
    /\ already_imported(PathOf(f))
    /\ Kind(f) = "bundle" => Kind(C.file) = "bundle"

import_known(f) ==
    /\ Imports(f) /\ Skipped(f)
    /\ Skip
    /\ UNCHANGED <<prog, imported, loads, opened, status>>

\* Nothing can be found: an error, unless a bundle depends on it.
import_missing(f) ==
    /\ Imports(f) /\ ~Skipped(f) /\ Kind(f) = "missing"
    /\ IF Kind(C.file) = "bundle" THEN Skip /\ UNCHANGED status
                                  ELSE status' = "error" /\ UNCHANGED stack
    /\ UNCHANGED <<prog, imported, loads, opened>>

import_functions(f) ==
    /\ Imports(f) /\ ~Skipped(f) /\ Kind(f) = "functions"
    /\ mark_imported(PathOf(f))
    /\ Loaded(f) /\ Learn(f)
    /\ UNCHANGED <<prog, opened, status>>

\* compile_and_import: the new compilation begins with what its importer knows.
import_source(f) ==
    /\ Imports(f) /\ ~Skipped(f) /\ Kind(f) = "source"
    /\ mark_imported(PathOf(f))
    /\ Loaded(f)
    /\ Nest(Compiler(f, PathOf(f)[2], C.table))
    /\ UNCHANGED <<prog, opened>>

\* try_import_cco, second time: the functions are read again for this importer.
import_bundle_again(f) ==
    /\ Imports(f) /\ ~Skipped(f) /\ Kind(f) = "bundle" /\ already_imported(PathOf(f))
    /\ Loaded(f) /\ Learn(f)
    /\ UNCHANGED <<prog, imported, opened, status>>

\* try_import_cco, first time: its dependencies are loaded, with a compiler of their own.
import_bundle(f) ==
    /\ Imports(f) /\ ~Skipped(f) /\ Kind(f) = "bundle" /\ ~already_imported(PathOf(f))
    /\ mark_imported(PathOf(f))
    /\ Opened(f)
    /\ Nest(Compiler(f, 0, <<>>))
    /\ UNCHANGED <<prog, loads>>

\* After the dependencies, the bundle itself is read.
bundle_done ==
    /\ Running /\ AtEnd /\ Kind(C.file) = "bundle"
    /\ Loaded(C.file) /\ Resume(C.file)
    /\ UNCHANGED <<prog, imported, opened, status>>

\* The end of compile_and_import: here a full table is an error.
source_done ==
    /\ Running /\ AtEnd /\ Kind(C.file) = "source" /\ Len(stack) > 1
    /\ IF HasRoom(stack[Len(stack) - 1].table)
       THEN Resume(C.file) /\ UNCHANGED status
       ELSE status' = "error" /\ UNCHANGED stack
    /\ UNCHANGED <<prog, imported, loads, opened>>

program_done ==
    /\ Running /\ AtEnd /\ Len(stack) = 1
    /\ status' = "ok"
    /\ UNCHANGED <<prog, imported, stack, loads, opened>>

Next ==
    \/ \E f \in File :
          \/ import_known(f) \/ import_missing(f) \/ import_functions(f)
          \/ import_source(f) \/ import_bundle(f) \/ import_bundle_again(f)
    \/ bundle_done \/ source_done \/ program_done

Spec == Init /\ [][Next]_vars

\* The compiler is a C function: it goes on until it returns.
FairSpec == Spec /\ WF_vars(Next)

----------------------------------------------------------------------------
(* Properties                                                              *)

\* Is every file named by at most one import statement, and the program by none?
Statements == UNION {{<<f, k>> : k \in DOMAIN prog.imports[f]} : f \in File}
Named(st) == prog.imports[st[1]][st[2]]
NamedOnce ==
    \A a, b \in Statements : Named(a) # Main /\ (Named(a) = Named(b) => a = b)

\* No path being spelled with "./", no source or function file that is imported is loaded twice, and the
\* dependencies of no bundle are, whatever imports them, however often and in whatever cycles
\* (already_imported, mark_imported). The program is the exception: it is compiled once more when
\* something imports it, since run_source_file does not mark it, though README.md:676 says "each file
\* is loaded at most once per program run", circular imports included. A bundle's own functions are
\* read for each importer anew, and where a path is spelled with "./" the same file has as many
\* spellings as there are importers.
OnlyProgramTwice ==
    ~prog.dotted => \A f \in File :
        IF Kind(f) = "bundle" THEN opened[f] <= 1
        ELSE loads[f] <= (IF f = Main THEN 2 ELSE 1)

\* When an import statement is behind it, an importer knows the functions imported: those of
\* a bundle whatever else imported it before, those of any file in a program that names
\* each once. A full table may leave them out, and a file still being compiled has none yet.
ImportersKnow ==
    \A k \in 1..Len(stack) : \A i \in 1..stack[k].done :
        LET f == prog.imports[stack[k].file][i] IN
        \/ f \in {stack[k].table[j] : j \in 1..Len(stack[k].table)}
        \/ ~HasRoom(stack[k].table)
        \/ Kind(stack[k].file) = "bundle"
        \/ \E j \in 1..k : stack[j].file = f
        \/ Kind(f) # "bundle" /\ ~NamedOnce

\* Without "./", imports come to an end, in cycles too: skipping the files whose
\* compilation is in progress keeps the C stack from running out.
ImportsEnd == ~prog.dotted ~> status \in {"ok", "error"}
=============================================================================
