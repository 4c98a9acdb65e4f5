-------------------------------- MODULE ChnRun -------------------------------
(***************************************************************************)
(* A text from the lexer to the end of its run: what main.c does with a    *)
(* file, one component after the other (run_source_file). The texts of     *)
(* ChnFront stop at their tree: what their statements do is ChnCompiler's  *)
(* and ChnVM's. Programs are compiled and run.                             *)
(***************************************************************************)
EXTENDS ChnFront, ChnMachine, ChnMeaning

CONSTANTS
    Programs,   \* texts that are compiled and run
    Laws,       \* those of them that end with "let z = ..." and say what must be true
    OptLevels,  \* -O0, -O1, -O2
    Stride      \* instructions in a step

VARIABLES
    opt,        \* the level of optimization, -1 for a text that is only read
    compiled,   \* what the compiler makes of the tree
    machine     \* the machine

run_vars == <<vars, opt, compiled, machine>>

RunInit ==
    /\ \/ Init /\ opt = -1
       \/ source \in Programs /\ written = NULL /\ Unread /\ opt = 0
    /\ compiled = compiler_init(0) /\ machine = vm_init(compiled)

front == Next /\ UNCHANGED <<opt, compiled, machine>>

compile ==
    /\ phase = "tree" /\ opt >= 0 /\ ~had_error /\ phase' = "code"
    /\ opt' \in OptLevels
    /\ compiled' = compiler_compile(tree, opt') /\ machine' = vm_init(compiled')
    /\ UNCHANGED <<source, written, tokens, tree, had_error, stuck>>

\* Some instructions: fewer states to look at. A program that does not compile is not run.
execute ==
    /\ phase = "code" /\ ~compiled.err
    /\ machine' = vm_run(machine, compiled.functions, Stride)
    /\ phase' = IF machine'.e # "" \/ machine'.halted THEN "end" ELSE "code"
    /\ UNCHANGED <<source, written, tokens, tree, had_error, stuck, opt, compiled>>

RunNext == front \/ compile \/ execute
RunSpec == RunInit /\ [][RunNext]_run_vars

-----------------------------------------------------------------------------
(* Properties                                                              *)

\* No two negations in a row, and nothing jumps to a POP behind a constant: peephole_optimize takes
\* both for the code of one expression.
SafeToOptimize(code) ==
    \A i \in 1..(Len(code) - 1) :
        /\ code[i] # <<"UNARY", "!">> \/ code[i + 1] # <<"UNARY", "!">>
        /\ code[i][1] = "CONST" /\ code[i + 1][1] = "POP" =>
                \A j \in DOMAIN code : code[j][1] \in Jumps => code[j][2] # i + 1
AllSafe(C) == SafeToOptimize(C.code) /\ \A f \in DOMAIN C.functions : SafeToOptimize(C.functions[f].code)
OptimizedSafely == opt >= 1 => AllSafe(compile_program(tree, opt))

RECURSIVE Nodes(_)
Nodes(n) == {n} \cup UNION {Nodes(n.kids[i]) : i \in DOMAIN n.kids}
NodesOf(n, kinds) == {m \in Nodes(n) : m.kind \in kinds}

\* The parts of an f-string are added: the sum is their text when one of the first two is a text.
FStringsAreTexts ==
    \A n \in NodesOf(tree, {"FString"}) :
        LET parts == FStringParts(FStringValue(n.toks[1]), 1, "")
        IN  parts = <<>> \/ \E i \in DOMAIN parts : i <= 2 /\ ~parts[i][1]

\* A function inside of another one uses none of its names: it would not find them.
FunctionKinds == {"Lambda", "LambdaBlock"} \cup FuncDecls
CapturesNothing ==
    \A f \in NodesOf(tree, FunctionKinds) : \A g \in NodesOf(f, FunctionKinds) \ {f} :
        LET names == Range(Parameters(f)) \cup {d.toks[1] : d \in NodesOf(f, {"LetDecl", "VarDecl", "ArrayDecl", "DictDecl"})}
        IN  Range(Yield(g)) \cap names \subseteq Range(Parameters(g))

\* Functions are told apart by the machine only.
Erased(v) == IF IsA(v, "function") THEN <<"function">> ELSE v
ErasedHeap(h) == [i \in DOMAIN h |-> [x \in DOMAIN h[i][2] |-> Erased(h[i][2][x])]]

Agrees(S) ==
    /\ machine.out = S.out /\ machine.e = S.e
    /\ ErasedHeap(machine.h) = ErasedHeap(S.h)
    /\ \A i \in DOMAIN compiled.globals :
            LET name == compiled.globals[i][1]
            IN  name \in DOMAIN S.g => Erased(machine.globals[i]) = Erased(S.g[name])
    /\ machine.e = "" => machine.stack = <<>>

\* Whatever the level of optimization, the code of a program writes what the program means, leaves
\* the same globals and the same heap, and ends with the same error or none; and every statement
\* leaves the stack as it found it. (Folding, jumps around operands, tail calls, the frames' places
\* on one stack and the peephole each could be wrong for some tree only.)
EvaluationAgrees ==
    phase = "end" /\ OptimizedSafely /\ FStringsAreTexts /\ CapturesNothing => Agrees(Meaning(tree))

Global(name) == machine.globals[global_find(compiled, name)]
Succeeds ==
    /\ phase = "tree" => ~had_error
    /\ phase = "code" => ~compiled.err
    /\ phase = "end" => machine.e = "" /\ Global("z") = BOOL_VAL(TRUE)

\* The methods and the native functions agree with each other: a text is what its parts are joined
\* to, what is found is there, what is inserted is what is cut, sorting loses nothing, and so on, for
\* each of the Laws. (README.md describes the methods one by one, and the tests call each of them
\* with one or two arguments.) Where the README says something else, the laws are of what the code
\* does: replace changes all occurrences and not the first (README.md:609), slice has a start and an
\* end and not a length (611), has is false of a key that holds nil (537), and fill(v) does not
\* fill with v (500). Programs for these are among the Laws.
LawsHold == opt >= 0 => Succeeds \/ source \notin Laws

\* What JSON can say of a value here: no container in a container, no function, and in a dict no
\* character that would have to be escaped.
JsonPlain(v) == vtype(v) \in {"string", "number", "bool", "nil"}
NothingToEscape(s) == \A i \in 1..Len(s) : At(s, i) \notin {"\"", "\\"}
JsonTame(h, v) ==
    CASE IsA(v, "array") -> \A i \in DOMAIN Held(h, v) : JsonPlain(Held(h, v)[i])
      [] IsA(v, "dict") -> \A k \in DOMAIN Held(h, v) :
                LET x == Held(h, v)[k]
                IN  NothingToEscape(k) /\ JsonPlain(x) /\ (IsA(x, "string") => NothingToEscape(x[2]))
      [] OTHER -> JsonPlain(v)
SameValue(h, v, w) == vtype(v) = vtype(w) /\ IF JsonPlain(v) THEN v = w ELSE Held(h, v) = Held(h, w)

Calling(id, arg) == Node("NativeCall", <<id>>, <<arg>>)
RoundTrip == Node("LetDecl", <<"z">>, <<Calling("0x600", Calling("0x601", Node("Ident", <<"r">>, <<>>)))>>)

\* A value that JSON can say comes back from its text (README.md: "json"): json_parse undoes what
\* json_stringify escapes, and finds the ends of items, keys and entries.
JsonComesBack ==
    phase = "end" /\ Last(tree.kids) = RoundTrip /\ JsonTame(machine.h, Global("r")) =>
        machine.e = "" /\ SameValue(machine.h, Global("r"), Global("z"))
=============================================================================
