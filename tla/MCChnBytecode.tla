--------------------------- MODULE MCChnBytecode ---------------------------
(***************************************************************************)
(* Instances of ChnBytecode: a bundle of two units, a function file and a  *)
(* program that imports both. Private functions of different units share a *)
(* name, functions refer to themselves, ahead, back and to imports, code   *)
(* has operands that look like opcodes, and constants occur twice.         *)
(***************************************************************************)
EXTENDS ChnBytecode, TLC

Num == <<"num", 1>>
Text == <<"text", "t">>
Ref(f) == <<"func", f>>

Fun(name, exported, consts, code) ==
    [name |-> name, exported |-> exported, public |-> FALSE, consts |-> consts, code |-> code]
Const(k) == <<OP_CONST, k, 0>>
All(n) == FlattenSeq([k \in 1..n |-> Const(k - 1)])
Input == <<OP_INPUT, 0, 0, 0>>

MCFunction ==
    ("api" :> Fun("api", TRUE, <<Num, Num, Ref("help")>>, Input \o Const(1) \o Const(2))) @@
    ("help" :> Fun("help", FALSE, <<Text, Text, Num>>, Const(0) \o <<OP_POP>> \o Const(1) \o Const(2))) @@
    ("mainA" :> Fun("<module>", FALSE, <<Ref("api"), Num>>, All(2))) @@
    ("api2" :> Fun("api", TRUE, <<Ref("api2")>>, All(1))) @@
    ("core" :> Fun("core", FALSE, <<Text, Ref("tool"), Ref("api2")>>, All(3))) @@
    ("help2" :> Fun("help", FALSE, <<Num, Ref("core"), Num, Text>>, <<OP_JUMP, 0, 0>> \o All(4))) @@
    ("tool" :> Fun("tool", TRUE, <<Text, Ref("api2")>>, All(2))) @@
    ("mainB" :> Fun("<module>", FALSE, <<Ref("help2"), Ref("tool")>>, All(2))) @@
    ("own" :> Fun("own", FALSE, <<Ref("tool"), Text, Text>>, Const(2) \o Const(0))) @@
    ("mainP" :> Fun("<module>", FALSE, <<Ref("own"), Ref("own"), Ref("api"), Num>>, Input \o All(4)))

UnitA == [funcs |-> <<"api", "help">>, main |-> "mainA", entry |-> TRUE]
UnitB == [funcs |-> <<"api2", "core", "help2", "tool">>, main |-> "mainB", entry |-> TRUE]
UnitC == [UnitA EXCEPT !.entry = FALSE]
UnitP == [funcs |-> <<"own">>, main |-> "mainP", entry |-> FALSE]

File(path, kind, units, imports) == [path |-> path, kind |-> kind, units |-> units, imports |-> imports]
MCPrograms ==
    {File("lib", "bundle", <<UnitA, UnitB>>, <<>>),
     File("lib", "bundle", <<UnitC, UnitB>>, <<>>),
     File("fns", "functions", <<UnitB>>, <<>>),
     File("prog", "program", <<UnitP>>, <<"lib", "fns">>)}

MCRename ==
    [x \in {"api", "help", "core", "<module>", "tool", "own"} |->
        IF x = "<module>" THEN x ELSE "_m" \o x]

ASSUME InstanceIsClear == NamesAreClear
=============================================================================
