----------------------------- MODULE ChnBytecode -----------------------------
(***************************************************************************)
(* Compiled code on disk (src/v1.1/bytecode.c, func.c): programs (.chn2),  *)
(* function files (.function) and bundles (.cco) are written piece by      *)
(* piece, perhaps not to the end, and read back into a process whose       *)
(* registry of functions grows with all that is loaded. A function in      *)
(* memory refers to others by address, a file does by name.                *)
(*                                                                         *)
(* A function of the compiler has an id and the fields of Function; what   *)
(* is loaded remembers in "of" which function it was (history). Code is    *)
(* a sequence of bytes, offsets counted from 1, constants from 0. Bundles  *)
(* here import nothing.                                                    *)
(***************************************************************************)
EXTENDS Naturals, SequencesExt

CONSTANTS
    Function,       \* id -> [name, exported, public, consts, code]
    Programs,       \* what can be written where: [path, kind, units, imports]
    Rename,         \* minify_rename: name -> name
    MaxRegistry,    \* MAX_REGISTRY
    MaxWrites       \* how many files are written

None == "none"
Id == DOMAIN Function

\* A unit is a source file compiled: [funcs, main, entry], its functions in the compiler's
\* order, its main code, and whether it declares the entry.

VARIABLES
    disk,       \* the pieces of each file, <<>> if it is not there
    writing,    \* [path, todo]: the pieces not yet written
    writes,     \* files begun
    registry,   \* func_registry
    todo,       \* imports the running process has still to load
    job,        \* [path, kind] it then runs
    offered,    \* names of the functions imported, in the order of the table imports
    entry,      \* its main code, if that was read: <<>> or <<code>>
    outcome     \* the BCResult of the last file read

vars == <<disk, writing, writes, registry, todo, job, offered, entry, outcome>>
process == <<registry, todo, job, offered, entry, outcome>>

Idle == [path |-> None, todo |-> <<>>]
NoJob == [path |-> None, kind |-> None]

Paths == {p.path : p \in Programs}

Init ==
    /\ disk = [p \in Paths |-> <<>>]
    /\ writing = Idle /\ writes = 0
    /\ registry = <<>> /\ todo = <<>> /\ job = NoJob
    /\ offered = <<>> /\ entry = <<>> /\ outcome = "ok"

----------------------------------------------------------------------------
(* Operands                                                                *)

\* Opcodes by the operands they take: OP_CONST, other u16 or two u8, u16 and u8, none.
OP_CONST == 0
OP_JUMP == 1
OP_INPUT == 2
OP_POP == 3

Byte == 0..255

\* Mutant: the third operand byte is forgotten.
opcode_extra_of_two == [op \in Byte |-> IF op = OP_POP THEN 0 ELSE 2]

\* What the writer skips after an opcode.
opcode_extra ==
    [op \in Byte |-> IF op \in {OP_CONST, OP_JUMP} THEN 2 ELSE IF op = OP_INPUT THEN 3 ELSE 0]

\* What the machine reads after an opcode (READ_U16, READ_BYTE).
OperandBytes ==
    [op \in Byte |-> CASE op \in {OP_CONST, OP_JUMP} -> 2 [] op = OP_INPUT -> 3 [] OTHER -> 0]

\* The offsets of the instructions of code, if extra operands are taken after an opcode.
\* next[n]: where the first of them begins that does not begin in the first n bytes.
Instructions(code, extra) ==
    LET next[n \in 0..Len(code)] ==
            IF n = 0 THEN 1
            ELSE LET m == next[n - 1] IN IF n < m THEN m ELSE n + 1 + extra[code[n]]
    IN  {i \in 1..Len(code) : next[i - 1] = i}

----------------------------------------------------------------------------
(* Constants                                                               *)

\* <<"num", n>>, <<"text", t>> or <<"func", id>>; functions are compared by name.
const_eq(a, b) ==
    IF a[1] = "func" /\ b[1] = "func" THEN Function[a[2]].name = Function[b[2]].name ELSE a = b

InPool(c, pool) == \E j \in 1..Len(pool) : const_eq(c, pool[j])

\* kept[n]: the pool after the first n constants.
dedup_constants(consts) ==
    LET kept[n \in 0..Len(consts)] ==
            IF n = 0 THEN <<>>
            ELSE LET pool == kept[n - 1]
                 IN  IF InPool(consts[n], pool) THEN pool ELSE Append(pool, consts[n])
    IN  kept[Len(consts)]

\* Where the constant at k ends up (both from 1).
remap(consts, k) ==
    LET pool == dedup_constants(consts)
    IN  CHOOSE j \in 1..Len(pool) : const_eq(consts[k], pool[j])

patch_const_ops(code, consts) ==
    LET at == {i \in Instructions(code, opcode_extra) : code[i] = OP_CONST /\ i + 2 <= Len(code)}
    IN  [i \in 1..Len(code) |->
            IF i - 1 \in at THEN remap(consts, code[i] + 1) - 1 ELSE code[i]]

\* stream_xor and string_xor: what is masked with one key is read with the same.
Masked(key, v) == [key |-> key, value |-> v]
Unmasked(key, m) == IF m.key = key THEN m.value ELSE "garbage"

----------------------------------------------------------------------------
(* What the compiler hands over                                            *)

IsConstant(c) ==
    /\ c = <<c[1], c[2]>>
    /\ c[1] \in {"num", "text"} \/ (c[1] = "func" /\ c[2] \in Id)

\* A function's code is made of whole instructions, and OP_CONST has the index of a constant.
ASSUME FunctionAssumption ==
    \A f \in Id : LET F == Function[f] IN
        /\ F.name \in DOMAIN Rename /\ F.exported \in BOOLEAN /\ F.public \in BOOLEAN
        /\ F.code \in Seq(Byte) /\ F.consts \in Seq(Range(F.consts))
        /\ \A k \in 1..Len(F.consts) : IsConstant(F.consts[k])
        /\ \A i \in Instructions(F.code, OperandBytes) :
              /\ i + OperandBytes[F.code[i]] <= Len(F.code)
              /\ F.code[i] = OP_CONST => F.code[i + 1] < Len(F.consts)

IsUnit(u) ==
    /\ u.funcs \in Seq(Id) /\ u.main \in Id /\ u.entry \in BOOLEAN

\* The extension of its path says what a file is; only bundles have several units.
ASSUME ProgramAssumption ==
    /\ MaxRegistry \in Nat /\ MaxWrites \in Nat
    /\ \A p \in Programs :
          /\ p.path # None /\ p.kind \in {"program", "functions", "bundle"}
          /\ p.units \in Seq(Range(p.units)) /\ p.units # <<>> /\ p.imports \in Seq(Paths)
          /\ \A k \in 1..Len(p.units) : IsUnit(p.units[k])
          /\ p.kind # "bundle" => Len(p.units) = 1
          /\ \A q \in Programs : p.path = q.path => p.kind = q.kind

----------------------------------------------------------------------------
(* Writing                                                                 *)

Private(f) == ~Function[f].exported /\ ~Function[f].public
Renamed(f, minify) == minify /\ Private(f)
StoredName(f, minify) == IF Renamed(f, minify) THEN Rename[Function[f].name] ELSE Function[f].name

\* Mutant: a reference is renamed without looking at who may use the name.
RefRenamedAlways(f, minify) == IF minify THEN Rename[Function[f].name] ELSE Function[f].name

\* The name of function f in a constant.
RefName(f, minify) == IF Renamed(f, minify) THEN Rename[Function[f].name] ELSE Function[f].name

\* Mutant: a string's key is taken from its constant before duplicates went.
StringKeyBefore(seed, consts, k) ==
    Append(seed, Min({i \in 1..Len(consts) : remap(consts, i) = k}))

StringKey(seed, consts, k) == Append(seed, k)

StoredConst(c, key, minify) ==
    CASE c[1] = "num" -> c
      [] c[1] = "text" -> <<"text", Masked(key, c[2])>>
      [] c[1] = "func" -> <<"ref", RefName(c[2], minify)>>

\* wb_codeobj. The key of everything in a function is its name as stored; main code, and all
\* code when names are kept, has none.
wb_codeobj(of, name, seed, exported, consts, code, minify) ==
    LET pool == IF minify THEN dedup_constants(consts) ELSE consts IN
    [of |-> of, name |-> name, seed |-> seed, exported |-> exported,
     consts |-> [k \in 1..Len(pool) |->
                    StoredConst(pool[k], IF seed = <<>> THEN <<>> ELSE StringKey(seed, consts, k), minify)],
     code |-> Masked(seed, IF minify THEN patch_const_ops(code, consts) ELSE code)]

StoredFunction(f, minify) ==
    wb_codeobj(f, StoredName(f, minify), IF minify THEN <<StoredName(f, minify)>> ELSE <<>>,
               Function[f].exported, Function[f].consts, Function[f].code, minify)
StoredFunctions(fs, minify) == [i \in 1..Len(fs) |-> StoredFunction(fs[i], minify)]
StoredMain(f, minify) ==
    wb_codeobj(f, "<module>", <<>>, FALSE, Function[f].consts, Function[f].code, minify)

\* The elements of s that are in S, in their order.
Among(s, S) ==
    LET upto[n \in 0..Len(s)] ==
            IF n = 0 THEN <<>> ELSE upto[n - 1] \o (IF s[n] \in S THEN <<s[n]>> ELSE <<>>)
    IN  upto[Len(s)]

Exported(fs) == Among(fs, {f \in Id : Function[f].exported})
Internal(fs) == Among(fs, {f \in Id : ~Function[f].exported})

Section(t, items) == [type |-> t, items |-> items]

\* flush_chno: header with the checksum of the payload, directory of sections, payload.
flush_chno(sections) == <<[type |-> "header", payload |-> sections], [type |-> "directory"]>> \o sections

bc_write_program(p, minify) ==
    LET u == p.units[1] IN
    flush_chno(<<Section("imports", p.imports),
                 Section("funcs", StoredFunctions(u.funcs, minify)),
                 Section("main", <<StoredMain(u.main, minify)>>)>>)

bc_write_functions(p, minify) ==
    flush_chno(<<Section("funcs", StoredFunctions(Exported(p.units[1].funcs), minify))>>)

StoredUnit(u, minify) ==
    [type |-> "unit",
     funcs |-> StoredFunctions(Exported(u.funcs), minify),
     internal |-> StoredFunctions(Internal(u.funcs), minify),
     main |-> IF u.entry THEN <<StoredMain(u.main, minify)>> ELSE <<>>]

EntryUnit(us) == {k \in 1..Len(us) : us[k].entry /\ \A j \in 1..k-1 : ~us[j].entry}

bc_write_cco(p, minify) ==
    LET units == [k \in 1..Len(p.units) |-> StoredUnit(p.units[k], minify)] IN
    <<[type |-> "bundle", payload |-> units, entry_unit |-> EntryUnit(p.units)]>> \o units

Written(p, minify) ==
    CASE p.kind = "program" -> bc_write_program(p, minify)
      [] p.kind = "functions" -> bc_write_functions(p, minify)
      [] p.kind = "bundle" -> bc_write_cco(p, minify)

\* fopen(path, "wb") empties the file that was there.
write_file(p, minify) ==
    /\ writing = Idle /\ job = NoJob /\ writes < MaxWrites
    /\ writing' = [path |-> p.path, todo |-> Written(p, minify)]
    /\ disk' = [disk EXCEPT ![p.path] = <<>>]
    /\ writes' = writes + 1
    /\ UNCHANGED process

write_piece ==
    /\ writing # Idle
    /\ disk' = [disk EXCEPT ![writing.path] = Append(@, Head(writing.todo))]
    /\ writing' = IF Len(writing.todo) = 1 THEN Idle ELSE [writing EXCEPT !.todo = Tail(@)]
    /\ UNCHANGED <<writes, process>>

\* The compiler is interrupted, or fwrite fails: nobody looks at its result.
write_cut_off ==
    /\ writing # Idle
    /\ writing' = Idle
    /\ UNCHANGED <<disk, writes, process>>

----------------------------------------------------------------------------
(* Opening                                                                 *)

\* Mutant: a payload is accepted if what is there is the beginning of it.
PayloadBegins(header, rest) == IsPrefix(rest, header.payload)

\* A checksum belongs to one payload.
adler32_matches(header, rest) == rest = header.payload

chno_open(pieces) ==
    CASE pieces = <<>> -> "truncated"
      [] pieces # <<>> /\ pieces[1].type # "header" -> "magic"
      [] Len(pieces) = 1 /\ pieces[1].type = "header" -> "truncated"
      [] Len(pieces) > 1 /\ pieces[1].type = "header" ->
            IF adler32_matches(pieces[1], SubSeq(pieces, 3, Len(pieces))) THEN "ok" ELSE "checksum"

\* The checksum is looked at only if something follows the header.
cco_open(pieces) ==
    CASE pieces = <<>> -> "truncated"
      [] pieces # <<>> /\ pieces[1].type # "bundle" -> "magic"
      [] Len(pieces) = 1 /\ pieces[1].type = "bundle" -> "ok"
      [] Len(pieces) > 1 /\ pieces[1].type = "bundle" ->
            IF adler32_matches(pieces[1], Tail(pieces)) THEN "ok" ELSE "checksum"

chno_section(pieces, t) ==
    LET found == {i \in DOMAIN pieces : pieces[i].type = t}
    IN  IF found = {} THEN <<>> ELSE pieces[Min(found)].items

----------------------------------------------------------------------------
(* Reading                                                                 *)

Named(reg, name) == {i \in 1..Len(reg) : reg[i].name = name}
func_lookup(reg, name) ==
    IF Named(reg, name) = {} THEN <<"nil">>
    ELSE <<"func", reg[CHOOSE i \in Named(reg, name) : \A j \in Named(reg, name) : i <= j].of>>

rb_const_minified(c, key, reg) ==
    CASE c[1] = "num" -> c
      [] c[1] = "text" -> <<"text", Unmasked(key, c[2])>>
      [] c[1] = "ref" -> func_lookup(reg, c[2])

\* rb_codeobj, but for the registration.
Loaded(o, reg) ==
    [of |-> o.of, name |-> o.name, exported |-> o.exported,
     consts |-> [k \in 1..Len(o.consts) |->
                    rb_const_minified(o.consts[k], IF o.seed = <<>> THEN <<>> ELSE Append(o.seed, k), reg)],
     code |-> Unmasked(o.seed, o.code)]

\* How many functions are registered of n that are read: a full registry is not reported.
func_register(n) == IF n <= MaxRegistry THEN n ELSE MaxRegistry

\* rb_codeobj for each of os: a function is registered after its constants are read, so that
\* those before it are there to be found and it is not itself.
RegistryAfter(reg, os) ==
    LET all == reg \o os
    IN  [i \in 1..func_register(Len(all)) |->
            IF i <= Len(reg) THEN reg[i] ELSE Loaded(all[i], SubSeq(all, 1, i - 1))]

\* Mutant: a name of two units is offered twice.
OfferedAll(names, o) == Append(names, o.name)

\* Of functions of one name in a bundle the first is offered.
OfferedOnce(names, o) == IF Contains(names, o.name) THEN names ELSE Append(names, o.name)

NewNames(os) ==
    LET upto[n \in 0..Len(os)] == IF n = 0 THEN <<>> ELSE OfferedOnce(upto[n - 1], os[n])
    IN  upto[Len(os)]

Units(pieces) == Tail(pieces)
ExportedOf(us) == FlattenSeq([k \in 1..Len(us) |-> us[k].funcs])

\* bc_read_cco: in each unit the exported functions come first.
bc_read_cco(reg, us) ==
    RegistryAfter(reg, FlattenSeq([k \in 1..Len(us) |-> us[k].funcs \o us[k].internal]))

\* bc_read_cco_entry: here the others do. Afterwards what is offered would be registered, and
\* is already.
bc_read_cco_entry(reg, us) ==
    RegistryAfter(reg, FlattenSeq([k \in 1..Len(us) |-> us[k].internal \o us[k].funcs]))

----------------------------------------------------------------------------
(* Processes                                                               *)

Quiet == writing = Idle /\ job = NoJob
Fresh(path, kind, reg, imports) ==
    /\ job' = [path |-> path, kind |-> kind]
    /\ registry' = reg /\ todo' = imports
    /\ offered' = <<>> /\ entry' = <<>>

\* A function as it comes from the compiler.
Compiled(f) ==
    [of |-> f, name |-> Function[f].name, exported |-> Function[f].exported,
     consts |-> Function[f].consts, code |-> Function[f].code]

\* chn x.chn: k of the functions of its unit are declared above its imports; the compiler fails
\* if they are too many for the registry.
run_source_file(p, k) ==
    /\ Quiet /\ p.kind = "program" /\ k <= MaxRegistry
    /\ Fresh(None, "source", [i \in 1..k |-> Compiled(p.units[1].funcs[i])], p.imports)
    /\ outcome' = "ok"
    /\ UNCHANGED <<disk, writing, writes>>

\* chn x.chn2: bc_read_imports, then the imports, whatever comes of them, then the program.
run_chn2_file(p) ==
    /\ Quiet /\ p.kind = "program"
    /\ outcome' = chno_open(disk[p.path])
    /\ IF outcome' = "ok" THEN Fresh(p.path, "program", <<>>, chno_section(disk[p.path], "imports"))
       ELSE UNCHANGED <<registry, todo, job, offered, entry>>
    /\ UNCHANGED <<disk, writing, writes>>

run_cco_file(p) ==
    /\ Quiet /\ p.kind = "bundle"
    /\ outcome' = cco_open(disk[p.path])
    /\ IF outcome' = "ok" THEN Fresh(p.path, "bundle", <<>>, <<>>)
       ELSE UNCHANGED <<registry, todo, job, offered, entry>>
    /\ UNCHANGED <<disk, writing, writes>>

\* What importing the file of these pieces does to the process.
Import(os, reg) ==
    /\ registry' = reg
    /\ offered' = offered \o os

\* do_import, for compiled code of each kind.
do_import ==
    /\ job # NoJob /\ todo # <<>>
    /\ job.kind = "source" => outcome = "ok"
    /\ LET pieces == disk[Head(todo)] IN
       IF pieces # <<>> /\ pieces[1].type = "bundle"
       THEN /\ outcome' = cco_open(pieces)
            /\ IF outcome' # "ok" THEN UNCHANGED <<registry, offered>>
               ELSE Import(NewNames(ExportedOf(Units(pieces))),
                           bc_read_cco(registry, Units(pieces)))
       ELSE /\ outcome' = chno_open(pieces)
            /\ IF outcome' # "ok" THEN UNCHANGED <<registry, offered>>
               ELSE LET fs == chno_section(pieces, "funcs")
                        ex == Among(fs, {o \in ToSet(fs) : o.exported})
                    IN  Import([i \in 1..Len(ex) |-> ex[i].name], RegistryAfter(registry, fs))
    /\ todo' = Tail(todo)
    /\ UNCHANGED <<disk, writing, writes, job, entry>>

\* The process ends.
Gone ==
    /\ job' = NoJob /\ todo' = <<>>
    /\ registry' = <<>> /\ offered' = <<>> /\ entry' = <<>> /\ outcome' = "ok"
    /\ UNCHANGED <<disk, writing, writes>>

\* A source file's import that fails ends the process; a program's does not.
import_refused ==
    /\ job.kind = "source" /\ outcome # "ok"
    /\ Gone

bc_read_program ==
    /\ job.kind = "program" /\ todo = <<>> /\ entry = <<>>
    /\ LET pieces == disk[job.path]
           reg == RegistryAfter(registry, chno_section(pieces, "funcs"))
       IN  /\ registry' = reg
           /\ entry' = <<Loaded(chno_section(pieces, "main")[1], reg)>>
    /\ outcome' = "ok"
    /\ UNCHANGED <<disk, writing, writes, todo, job, offered>>

read_cco_entry ==
    /\ job.kind = "bundle" /\ entry = <<>> /\ outcome = "ok"
    /\ LET pieces == disk[job.path]
           before == {k \in 1..Len(Units(pieces)) : \A e \in pieces[1].entry_unit : k <= e}
           reg == bc_read_cco_entry(<<>>, SubSeq(Units(pieces), 1, Cardinality(before)))
           mains == UNION {ToSet(Units(pieces)[e].main) :
                              e \in pieces[1].entry_unit \cap DOMAIN Units(pieces)}
       IN  /\ registry' = bc_read_cco_entry(<<>>, Units(pieces))
           /\ entry' = IF mains = {} THEN <<>>
                       ELSE <<Loaded((CHOOSE m \in mains : TRUE), reg)>>
           /\ outcome' = IF mains = {} THEN "cco" ELSE "ok"
    /\ UNCHANGED <<disk, writing, writes, todo, job, offered>>

\* The program ran, or was refused.
exit ==
    /\ job # NoJob /\ todo = <<>>
    /\ job.kind = "source" \/ entry # <<>> \/ outcome # "ok"
    /\ Gone

Next ==
    \/ \E p \in Programs :
          \/ \E minify \in BOOLEAN : write_file(p, minify)
          \/ \E k \in 0..Len(p.units[1].funcs) : run_source_file(p, k)
    \/ write_piece \/ write_cut_off
    \/ \E p \in Programs : run_chn2_file(p) \/ run_cco_file(p)
    \/ do_import \/ import_refused \/ bc_read_program \/ read_cco_entry \/ exit

Spec == Init /\ [][Next]_vars

----------------------------------------------------------------------------
(* Properties                                                              *)

\* Functions and main code read from a file by the running process.
InMemory == ToSet(registry) \cup ToSet(entry)

\* Each instruction of g, as the machine reads it, has the operands it was compiled with, and a
\* constant the value it had. Whether references are right is the question of BackReferencesLinked.
KeepsMeaning(g) ==
    LET f == Function[g.of] IN
    /\ Len(g.code) = Len(f.code)
    /\ \A i \in Instructions(f.code, OperandBytes) :
          /\ g.code[i] = f.code[i]
          /\ f.code[i] # OP_CONST =>
                \A b \in 1..OperandBytes[f.code[i]] : g.code[i + b] = f.code[i + b]
          /\ f.code[i] = OP_CONST =>
                LET was == f.consts[f.code[i + 1] + 1]
                IN  was[1] # "func" => g.consts[g.code[i + 1] + 1] = was

\* Renumbering constants, dropping duplicates and masking code and texts leave the meaning of
\* all code alone (wb_codeobj, patch_const_ops, rb_codeobj).
CodeKeepsMeaning == \A g \in InMemory : KeepsMeaning(g)

\* Does the reference from g at instruction i reach the function it was compiled for?
Target(g, i) == Function[g.of].consts[Function[g.of].code[i + 1] + 1]
References(g) ==
    {i \in Instructions(Function[g.of].code, OperandBytes) :
        Function[g.of].code[i] = OP_CONST /\ Target(g, i)[1] = "func"}
Reaches(g, i) == g.consts[g.code[i + 1] + 1] = Target(g, i)

\* The functions f has among its constants.
Uses(f) == {h \in Id : \E k \in DOMAIN Function[f].consts : Function[f].consts[k] = <<"func", h>>}

\* The functions written to the file of program p.
InFile(p) ==
    UNION {{f \in ToSet(p.units[k].funcs) : p.kind = "functions" => Function[f].exported} :
              k \in DOMAIN p.units}

\* Under what BackReferencesLinked is true of all programs. Of two functions of one name that
\* a function uses (one of them by an alias), both or none are renamed. A function that may be
\* renamed is used only in the files that have it, which are one: files written with different
\* settings name it differently. No program imports its own file.
NamesAreClear ==
    /\ \A f \in Id : \A g, h \in Uses(f) :
          Function[g].name = Function[h].name => (Private(g) <=> Private(h))
    /\ \A p, q \in Programs : \A f \in InFile(p), g \in InFile(q) :
          f \in Uses(g) /\ Private(f) => p.path = q.path
    /\ \A p \in Programs : p.path \notin ToSet(p.imports)

\* Did a function of another file or unit take the name of registry[j] before?
NameTaken(j) == \E h \in 1..Len(registry) :
    registry[h].name = registry[j].name /\ registry[h].of # registry[j].of

\* A reference back, to a function registered before the referring one was read, reaches that
\* function and no other, in the same file or another, unless two functions bear its name
\* (func_lookup, minify_rename). A reference of a function to itself, or ahead, does not: what it
\* refers to is registered later (rb_const_minified), so that a program that recurses fails once
\* compiled, though README.md:820 has it "executed directly".
BackReferencesLinked ==
    \A i \in 1..Len(registry) : \A r \in References(registry[i]) : \A j \in 1..i-1 :
        registry[j].of = Target(registry[i], r)[2] /\ ~NameTaken(j) => Reaches(registry[i], r)

\* The file that is read next, or from which the main code was.
Complete(path) ==
    LET pieces == disk[path] IN
    /\ pieces # <<>>
    /\ SubSeq(pieces, IF pieces[1].type = "header" THEN 3 ELSE 2, Len(pieces)) = pieces[1].payload

HeaderOnly(path) == Len(disk[path]) = 1 /\ disk[path][1].type = "bundle"

\* A file whose writing was cut off is not taken for a file, but for a bundle that was cut
\* right behind its header: that one is empty (chno_open, cco_open).
TornFilesRefused ==
    [][/\ do_import /\ outcome' = "ok" => Complete(Head(todo)) \/ HeaderOnly(Head(todo))
       /\ job = NoJob /\ job'.path # None => Complete(job'.path) \/ HeaderOnly(job'.path)]_vars

\* Importing a whole bundle offers the names its units export, each once (bc_read_cco).
ExportsOffered ==
    [][do_import /\ outcome' = "ok" /\ Complete(Head(todo)) /\ disk[Head(todo)][1].type = "bundle" =>
        LET new == SubSeq(offered', Len(offered) + 1, Len(offered'))
            us == Units(disk[Head(todo)])
        IN  /\ ToSet(new) = UNION {{o.name : o \in ToSet(us[k].funcs)} : k \in 1..Len(us)}
            /\ IsInjective(new)]_vars

=============================================================================
