------------------------------- MODULE ChnEval -------------------------------
(***************************************************************************)
(* Expressions and straight-line statements: how they are folded,          *)
(* compiled (compile_expr and what it calls) and optimized                 *)
(* (src/v1.1/compiler.c). Statements that branch, loop or catch are        *)
(* ChnCompiler's, and imports ChnImports'.                                 *)
(*                                                                         *)
(* An instruction is a sequence: its name and its operands. Operators have *)
(* one instruction each in the code: here it is BINARY or UNARY with the   *)
(* operator, and every instruction that pushes a constant is CONST. A jump *)
(* goes to the index of an instruction. Indices count from 1.              *)
(***************************************************************************)
EXTENDS ChnParser, ChnNatives

-----------------------------------------------------------------------------
(* Folding                                                                 *)

\* A number that was computed has its value in place of a spelling.
IsNumeral(n) == n.kind \in {"Number", "Folded"}
NumeralValue(n) == IF n.kind = "Number" THEN NumberValue(n.toks[1]) ELSE n.toks[1]
Folded(v) == Node("Folded", <<v>>, <<>>)

Foldable(op, l, r) ==
    /\ op \in {"+", "-", "*", "/", "%", "**"} /\ IsNumeral(l) /\ IsNumeral(r)
    /\ op \in {"/", "%"} => NumeralValue(r)[2] # 0

Fold2(n) ==
    IF Foldable(n.toks[1], n.kids[1], n.kids[2])
    THEN Folded(OfNumbers(n.toks[1], NumeralValue(n.kids[1]), NumeralValue(n.kids[2])))
    ELSE n

\* From the leaves on, but only through operators on numbers.
RECURSIVE ast_fold_constants(_)
ast_fold_constants(n) ==
    LET folded == [n EXCEPT !.kids = [i \in DOMAIN @ |-> ast_fold_constants(@[i])]]
    IN  CASE n.kind = "Binary" /\ n.toks[1] # "??" -> Fold2(folded)
          [] n.kind = "Unary" /\ n.toks[1] = "-" ->
                IF IsNumeral(folded.kids[1]) THEN Folded(Minus(NumeralValue(folded.kids[1]))) ELSE folded
          [] OTHER -> n

FuncDecls == {"FuncDecl " \o v \o a : v \in Visibilities, a \in {"", " async", " entry"}}
FoldsInto == {"Program", "Block", "LetDecl", "VarDecl", "Lambda", "LambdaBlock", "CallExpr", "If", "While", "DoWhile",
              "For", "Return", "ExprStmt", "Assign", "Print", "Call"} \cup FuncDecls
RECURSIVE fold_all(_)
fold_all(n) ==
    IF n.kind \notin FoldsInto THEN n
    ELSE [n EXCEPT !.kids = [i \in DOMAIN @ |-> fold_all(ast_fold_constants(@[i]))]]

-----------------------------------------------------------------------------
(* The compiler's state: the code of the current chunk, the names of the   *)
(* globals and whether they are "let", the names of the locals, the        *)
(* functions, whether it is inside of one, and of one that has others      *)
(* inside (has_captures), the level of optimization, and had_error.        *)

compiler_init(opt) ==
    [code |-> <<>>, globals |-> <<>>, locals |-> <<>>, functions |-> <<>>, in_function |-> FALSE,
     has_captures |-> FALSE, opt |-> opt, err |-> FALSE]

emit(C, ins) == [C EXCEPT !.code = Append(@, ins)]
emit_all(C, code) == [C EXCEPT !.code = @ \o code]
emit_const(C, v) == emit(C, <<"CONST", v>>)
CompileError(C) == [C EXCEPT !.err = TRUE]

\* A jump from the end of C's code, patched when what it jumps over is there, up to the end of D's.
emit_jump(C, op) == emit(C, <<op, 0>>)
patch_jump(C, D) == LET at == Len(C.code) + 1 IN [D EXCEPT !.code[at] = <<@[1], Len(D.code) + 1>>]

local_find(C, name) == IF C.in_function THEN SelectLastInSeq(C.locals, LAMBDA l : l = name) ELSE 0
global_find(C, name) == SelectInSeq(C.globals, LAMBDA g : g[1] = name)
function_find(C, name) == SelectInSeq(C.functions, LAMBDA f : f.name = name)

emit_load(C, name) ==
    CASE local_find(C, name) > 0 -> emit(C, <<"GET_LOCAL", local_find(C, name)>>)
      [] local_find(C, name) = 0 /\ global_find(C, name) > 0 -> emit(C, <<"GET_VAR", global_find(C, name)>>)
      [] OTHER -> CompileError(C)

\* A function with others inside of it keeps the global of a local's name, too, which they may use.
emit_store(C, name) ==
    LET l == local_find(C, name)
        g == global_find(C, name)
        copy == IF C.has_captures /\ g > 0 THEN << <<"GET_LOCAL", l>>, <<"SET_VAR", g>>, <<"POP">> >> ELSE <<>>
    IN  CASE l > 0 -> emit_all(C, << <<"SET_LOCAL", l>> >> \o copy)
          [] l = 0 /\ g > 0 -> emit(C, <<"SET_VAR", g>>)
          [] OTHER -> CompileError(C)

global_define(C, name, is_let) ==
    LET i == global_find(C, name)
    IN  IF i = 0 THEN [C EXCEPT !.globals = Append(@, <<name, is_let>>)]
        ELSE IF C.globals[i][2] # is_let THEN CompileError(C) ELSE C

-----------------------------------------------------------------------------
(* f-strings                                                               *)

\* Where the hole that begins at i ends: at a "}" outside of parentheses and brackets, or at one of
\* them that closes nothing. A "{" in it opens what no "}" closes.
RECURSIVE HoleEnd(_, _, _)
HoleEnd(s, i, depth) ==
    LET c == At(s, i)
        d == IF c \in {"(", "[", "{"} THEN depth + 1 ELSE IF c \in {")", "]"} THEN depth - 1 ELSE depth
    IN  IF c = "" \/ (c = "}" /\ depth = 0) \/ d < 0 THEN i ELSE HoleEnd(s, i + 1, d)

\* The parts from i on, <<is it a hole, its text>>; seg is the text read since the last hole.
RECURSIVE FStringParts(_, _, _)
FStringParts(s, i, seg) ==
    LET text == IF seg = "" THEN <<>> ELSE << <<FALSE, seg>> >>
        e == HoleEnd(s, i + 1, 0)
    IN  CASE i > Len(s) -> text
          [] i <= Len(s) /\ Two(s, i) \in {"{{", "}}"} -> FStringParts(s, i + 2, seg \o At(s, i))
          [] i <= Len(s) /\ At(s, i) = "{" /\ At(s, i + 1) # "{" ->
                text \o << <<TRUE, SubSeq(s, i + 1, e - 1)>> >> \o FStringParts(s, IF At(s, e) = "}" THEN e + 1 ELSE e, "")
          [] OTHER -> FStringParts(s, i + 1, seg \o At(s, i))

\* The expression in a hole: a number, what the parser makes of it, or else a name.
TreeOrName(r, text) == IF r.p.err \/ r.n = NULL THEN Node("Ident", <<text>>, <<>>) ELSE r.n
HoleTree(text) ==
    CASE NumeralEnd(text, 1) > Len(text) /\ text # "" -> Folded(strtod(text, 1))
      [] OTHER -> TreeOrName(expr(parser_init(Tokens(text))), text)

compiletime_typeof(n) ==
    CASE IsNumeral(n) -> "number" [] n.kind \in {"String", "FString"} -> "string" [] n.kind = "Bool" -> "bool"
      [] n.kind \in {"Nil", "Null"} -> "nil" [] OTHER -> ""

-----------------------------------------------------------------------------
(* Expressions                                                             *)

\* compile_stmt of a statement, compile_expr of an expression.
RECURSIVE compile_node(_, _)

RECURSIVE compile_all(_, _), compile_items(_, _), compile_pairs(_, _), compile_parts(_, _, _)
KeyOf(pair) == IF At(pair.toks[1], 1) = "\"" THEN StringValue(pair.toks[1]) ELSE pair.toks[1]
CompilePair(C, pair) ==
    emit(emit(compile_node(emit_const(emit(C, <<"DUP">>), STRING_VAL(KeyOf(pair))), pair.kids[1]), <<"DICT_SET">>), <<"POP">>)
compile_pairs(C, ps) == IF ps = <<>> THEN C ELSE compile_pairs(CompilePair(C, Head(ps)), Tail(ps))
compile_items(C, ns) == IF ns = <<>> THEN C ELSE compile_items(emit(compile_node(C, Head(ns)), <<"ARRAY_PUSH">>), Tail(ns))
compile_all(C, ns) == IF ns = <<>> THEN C ELSE compile_all(compile_node(C, Head(ns)), Tail(ns))

\* The parts of an f-string from the i-th on, each added to those before it.
PartTree(p) == IF p[1] THEN HoleTree(p[2]) ELSE Folded(STRING_VAL(p[2]))
compile_parts(C, parts, i) ==
    IF i > Len(parts) THEN C
    ELSE LET plus == IF i = 1 THEN <<>> ELSE << <<"BINARY", "+">> >>
         IN  compile_parts(emit_all(compile_node(C, PartTree(parts[i])), plus), parts, i + 1)

NoParts == << <<FALSE, "">> >>
compile_fstring(C, s) ==
    LET parts == FStringParts(s, 1, "") IN compile_parts(C, IF parts = <<>> THEN NoParts ELSE parts, 1)

\* Mutant: the left operand stays below the right one.
and_without_pop(C, n) ==
    LET l == compile_node(C, n.kids[1])
        Right(D) == patch_jump(l, compile_node(D, n.kids[2]))
    IN  CASE n.toks[1] = "&&" -> Right(emit_jump(l, "JUMP_IF_FALSE"))
          [] n.toks[1] = "||" -> Right(emit_jump(l, "JUMP_IF_TRUE"))
          [] OTHER -> emit(compile_node(l, n.kids[2]), <<"BINARY", n.toks[1]>>)

CompileBinary(C, n) ==
    LET l == compile_node(C, n.kids[1])
        nil == emit(l, <<"JUMP_IF_NIL", Len(l.code) + 3>>)
        Right(D) == compile_node(emit(D, <<"POP">>), n.kids[2])
        Folds == C.opt >= 1 /\ Foldable(n.toks[1], n.kids[1], n.kids[2])
    IN  CASE Folds -> emit_const(C, NumeralValue(Fold2(n)))
          [] ~Folds /\ n.toks[1] = "&&" -> patch_jump(l, Right(emit_jump(l, "JUMP_IF_FALSE")))
          [] ~Folds /\ n.toks[1] = "||" -> patch_jump(l, Right(emit_jump(l, "JUMP_IF_TRUE")))
          [] ~Folds /\ n.toks[1] = "??" -> patch_jump(nil, Right(emit_jump(nil, "JUMP")))
          [] OTHER -> emit(compile_node(l, n.kids[2]), <<"BINARY", n.toks[1]>>)

\* The first jump goes behind the second one.
CompileTernary(C, n) ==
    LET c == compile_node(C, n.kids[1])
        yes == compile_node(emit(emit_jump(c, "JUMP_IF_FALSE"), <<"POP">>), n.kids[2])
        no == patch_jump(c, emit_jump(yes, "JUMP"))
    IN  patch_jump(yes, compile_node(emit(no, <<"POP">>), n.kids[3]))

Call(C, args) == emit(compile_all(C, args), <<"CALL", Len(args)>>)
CompileCall(C, n) ==
    LET name == n.toks[1]
        f == function_find(C, name)
    IN  CASE f > 0 -> IF C.functions[f].arity # Len(n.kids) THEN CompileError(C)
                      ELSE Call(emit_const(C, FUNC_VAL(f)), n.kids)
          [] OTHER -> Call(emit_load(C, name), n.kids)

\* The locals of the function around it become globals, if there are none of their names: it finds
\* those, not its own.
Captured(C) ==
    IF ~C.in_function THEN C.globals
    ELSE FoldLeft(LAMBDA g, l : IF \E i \in DOMAIN g : g[i][1] = l THEN g ELSE Append(g, <<l, FALSE>>), C.globals, C.locals)

\* And so do its own parameters if there are functions inside of it.
CapturedParam(C, name) ==
    LET D == global_define(C, name, FALSE)
    IN  emit_all(D, << <<"GET_LOCAL", local_find(D, name)>>, <<"DUP">>, <<"DEF_VAR", global_find(D, name)>>, <<"POP">> >>)

\* Where the body of function f is compiled: its code is added to what f has.
BeginFunction(C, f, params, captures) ==
    LET D == [C EXCEPT !.code = Append(C.functions[f].code, <<"GC_SAFEPOINT">>),
                       !.locals = params, !.in_function = TRUE, !.has_captures = captures]
    IN  IF captures THEN FoldLeft(CapturedParam, D, params) ELSE D

\* Back from there: E is where the body was compiled, C where the function is.
EndFunction(C, f, E) ==
    [E EXCEPT !.functions[f].code = E.code, !.code = C.code, !.locals = C.locals,
              !.in_function = C.in_function, !.has_captures = C.has_captures]

FunctionNamed(name, visibility, arity) == [name |-> name, visibility |-> visibility, arity |-> arity, code |-> <<>>]
ReturnNil(C) == emit(emit_const(C, NIL_VAL), <<"RETURN">>)

CompileLambda(C, n) ==
    LET f == Len(C.functions) + 1
        D == [C EXCEPT !.functions = Append(@, FunctionNamed("__lambda_", "private", Len(n.toks))), !.globals = Captured(C)]
        B == BeginFunction(D, f, n.toks, FALSE)
        E == IF n.kind = "Lambda" THEN emit(compile_node(B, n.kids[1]), <<"RETURN">>)
             ELSE ReturnNil(compile_node(B, n.kids[1]))
    IN  emit_const(EndFunction(D, f, E), FUNC_VAL(f))

CompileUnary(C, n) ==
    LET known == compiletime_typeof(n.kids[1])
    IN  IF n.toks[1] = "typeof" /\ C.opt >= 1 /\ known # "" THEN emit_const(C, STRING_VAL(known))
        ELSE emit(compile_node(C, n.kids[1]), <<"UNARY", n.toks[1]>>)

\* The method "length" is an instruction of its own: its arguments are not evaluated.
CompileMethod(C, n) ==
    CASE n.toks[1] \notin MethodNames -> CompileError(C)
      [] n.toks[1] = "length" -> emit(compile_node(C, n.kids[1]), <<"ARRAY_LEN">>)
      [] OTHER -> emit(compile_all(C, n.kids), <<"METHOD_CALL", n.toks[1], Len(n.kids) - 1>>)

Increased(C, name) ==
    emit_store(emit(emit_const(emit_load(C, name), NUMBER_VAL(1)), <<"BINARY", "+">>), name)

compile_expr(C, n) ==
    LET k == n.kids  w == n.toks
    IN  CASE C.err \/ n = NULL -> C
          [] ~C.err /\ n.kind \in {"Number", "Folded"} -> emit_const(C, NumeralValue(n))
          [] ~C.err /\ n.kind = "String" -> emit_const(C, STRING_VAL(StringValue(w[1])))
          [] ~C.err /\ n.kind = "FString" -> compile_fstring(C, FStringValue(w[1]))
          [] ~C.err /\ n.kind = "Bool" -> emit_const(C, BOOL_VAL(w[1] = "true"))
          [] ~C.err /\ n.kind \in {"Nil", "Null"} -> emit_const(C, NIL_VAL)
          [] ~C.err /\ n.kind = "ArrayLit" -> compile_items(emit(C, <<"ARRAY_NEW">>), k)
          [] ~C.err /\ n.kind = "DictLit" -> compile_pairs(emit(C, <<"DICT_NEW">>), k)
          [] ~C.err /\ n.kind = "Ident" -> emit_load(C, w[1])
          [] ~C.err /\ n.kind = "Assign" -> emit_store(compile_node(C, k[1]), w[1])
          [] ~C.err /\ n.kind = "CompoundAssign" ->
                emit_store(emit(compile_node(emit_load(C, w[1]), k[1]), <<"BINARY", SubSeq(w[2], 1, Len(w[2]) - 1)>>), w[1])
          [] ~C.err /\ n.kind = "PreInc" -> Increased(C, w[2])
          [] ~C.err /\ n.kind = "PostInc" -> emit(Increased(emit_load(C, w[1]), w[1]), <<"POP">>)
          [] ~C.err /\ n.kind = "Ternary" -> CompileTernary(C, n)
          [] ~C.err /\ n.kind = "Binary" -> CompileBinary(C, n)
          [] ~C.err /\ n.kind = "Unary" -> CompileUnary(C, n)
          [] ~C.err /\ n.kind = "NativeCall" -> emit(compile_all(C, k), <<"NATIVE", NativeId(w[1]), Len(k)>>)
          [] ~C.err /\ n.kind = "Call" -> CompileCall(C, n)
          [] ~C.err /\ n.kind = "CallExpr" -> Call(compile_node(C, k[1]), Tail(k))
          [] ~C.err /\ n.kind = "MethodCall" -> CompileMethod(C, n)
          [] ~C.err /\ n.kind = "Index" -> emit(compile_all(C, k), <<"ARRAY_INDEX">>)
          [] ~C.err /\ n.kind = "IndexSet" -> emit(compile_all(C, k), <<"ARRAY_SET">>)
          [] ~C.err /\ n.kind = "FieldAccess" -> emit(emit_const(compile_node(C, k[1]), STRING_VAL(w[1])), <<"DICT_GET">>)
          [] ~C.err /\ n.kind = "FieldSet" ->
                emit(compile_node(emit_const(compile_node(C, k[1]), STRING_VAL(w[1])), k[2]), <<"DICT_SET">>)
          [] ~C.err /\ n.kind \in {"Lambda", "LambdaBlock"} -> CompileLambda(C, n)
          [] ~C.err /\ n.kind = "Await" -> emit(compile_node(C, k[1]), <<"AWAIT">>)
          [] OTHER -> CompileError(C)

-----------------------------------------------------------------------------
(* Statements                                                              *)

CompileDecl(C, n) ==
    LET D == compile_node(C, n.kids[1])
        name == n.toks[1]
        Local(E) == [E EXCEPT !.locals = Append(@, name)]
        Define(E, is_let) == LET F == global_define(E, name, is_let) IN emit(F, <<"DEF_VAR", global_find(F, name)>>)
    IN  CASE ~C.in_function -> Define(D, n.kind = "LetDecl")
          [] C.in_function /\ C.has_captures /\ n.kind \in {"LetDecl", "VarDecl"} ->
                Define(emit(Local(D), <<"DUP">>), FALSE)
          [] OTHER -> Local(D)

\* A call of a function of this file that is returned takes over the frame.
CompileReturn(C, n) ==
    LET e == n.kids[1]
        f == IF C.opt >= 2 /\ e.kind = "Call" THEN function_find(C, e.toks[1]) ELSE 0
        call == compile_all(emit_const(C, FUNC_VAL(f)), e.kids)
    IN  CASE ~C.in_function -> CompileError(C)
          [] C.in_function /\ e = NULL -> ReturnNil(C)
          [] OTHER -> IF f > 0 /\ C.functions[f].arity = Len(e.kids) THEN emit(call, <<"CALL_TAIL", Len(e.kids)>>)
                      ELSE emit(compile_node(C, e), <<"RETURN">>)

\* Nothing may follow a statement that leaves.
Unreachable(stmts) ==
    \E i \in DOMAIN stmts : i < Len(stmts) /\ stmts[i].kind \in {"Return", "Break", "Continue"}

\* Whether there is a function inside: looked for where one would usually be.
RECURSIVE has_nested_func(_)
has_nested_func(n) ==
    \/ n.kind \in {"Lambda", "LambdaBlock"} \cup FuncDecls
    \/ /\ n.kind \in {"Block", "If", "While", "Foreach", "Return", "LetDecl", "VarDecl", "Assign", "Call"}
       /\ \E i \in DOMAIN n.kids : n.kids[i] # NULL /\ has_nested_func(n.kids[i])

\* A declaration's.
VisibilityOf(n) == CHOOSE v \in Visibilities : \E a \in {"", " async", " entry"} : n.kind = "FuncDecl " \o v \o a

\* Functions can be called before they are declared, and so can structs: their constructors.
RECURSIVE prescan_stmt(_, _)
prescan_stmt(C, n) ==
    LET Add(vis, arity) == IF function_find(C, n.toks[1]) > 0 THEN C
                           ELSE [C EXCEPT !.functions = Append(@, FunctionNamed(n.toks[1], vis, arity))]
    IN  CASE n.kind \in FuncDecls -> Add(VisibilityOf(n), Len(n.toks) - 1)
          [] n.kind = "StructDecl" -> Add("public", Len(n.kids))
          [] n.kind = "Export" /\ n.kids # <<>> -> prescan_stmt(C, n.kids[1])
          [] OTHER -> C

\* Locals of the function around that were made globals for this one are globals without a name
\* afterwards.
CompileFuncDecl(C, n) ==
    LET params == Tail(n.toks)
        D == prescan_stmt(C, n)
        f == function_find(D, n.toks[1])
        F == [D EXCEPT !.globals = Captured(D), !.functions[f].visibility = VisibilityOf(n)]
        B == BeginFunction(F, f, params, has_nested_func(n.kids[1]))
        E == EndFunction(F, f, ReturnNil(compile_node(B, n.kids[1])))
        Kept(i) == i <= Len(C.globals) \/ E.globals[i][1] \notin Range(C.locals)
    IN  [E EXCEPT !.globals = [i \in DOMAIN @ |-> IF Kept(i) THEN @[i] ELSE <<"", FALSE>>]]

\* A dict with the fields, each from the parameter of its name or, when that is nil, its default.
StructField(C, e, i, d) ==
    LET given == emit_all(C, << <<"GET_LOCAL", d>>, <<"CONST", STRING_VAL(C.locals[i])>>, <<"GET_LOCAL", i>> >>)
        nil == emit(given, <<"JUMP_IF_NIL", Len(given.code) + 3>>)
        default == patch_jump(nil, compile_node(emit(emit_jump(nil, "JUMP"), <<"POP">>), e))
    IN  emit_all(IF e.kind \in {"Null", "Nil"} THEN given ELSE default, << <<"DICT_SET">>, <<"SET_LOCAL", d>>, <<"POP">> >>)

RECURSIVE StructFields(_, _, _)
StructFields(C, fields, i) ==
    IF i > Len(fields) THEN C
    ELSE StructFields(StructField(C, fields[i].kids[1], i, Len(fields) + 1), fields, i + 1)

CompileStructDecl(C, n) ==
    LET D == prescan_stmt(C, n)
        f == function_find(D, n.toks[1])
        B == BeginFunction(D, f, [i \in DOMAIN n.kids |-> n.kids[i].toks[1]], FALSE)
        fields == StructFields(emit([B EXCEPT !.locals = Append(@, "__struct_d")], <<"DICT_NEW">>), n.kids, 1)
    IN  EndFunction(D, f, emit_all(fields, << <<"GET_LOCAL", Len(n.kids) + 1>>, <<"RETURN">> >>))

CompileExport(C, n) ==
    LET D == IF n.kids = <<>> THEN C ELSE compile_node(C, n.kids[1])
        f == function_find(D, IF n.kids = <<>> THEN n.toks[1] ELSE n.kids[1].toks[1])
    IN  IF f = 0 \/ D.functions[f].visibility = "private" THEN CompileError(D) ELSE D

StatementKinds ==
    FuncDecls \cup {"LetDecl", "VarDecl", "ArrayDecl", "DictDecl", "ExprStmt", "Print", "Throw", "Return", "Block", "StructDecl", "Export"}
compile_stmt(C, n) ==
    CASE C.err \/ n = NULL -> C
      [] ~C.err /\ n.kind \in {"LetDecl", "VarDecl", "ArrayDecl", "DictDecl"} -> CompileDecl(C, n)
      [] ~C.err /\ n.kind = "ExprStmt" -> emit(compile_node(C, n.kids[1]), <<"POP">>)
      [] ~C.err /\ n.kind = "Print" -> emit(compile_all(C, n.kids), <<"PRINT", Len(n.kids)>>)
      [] ~C.err /\ n.kind = "Throw" -> emit(compile_node(C, n.kids[1]), <<"THROW">>)
      [] ~C.err /\ n.kind = "Return" -> CompileReturn(C, n)
      [] ~C.err /\ n.kind = "Block" -> IF Unreachable(n.kids) THEN CompileError(C) ELSE compile_all(C, n.kids)
      [] ~C.err /\ n.kind \in FuncDecls -> CompileFuncDecl(C, n)
      [] ~C.err /\ n.kind = "StructDecl" -> CompileStructDecl(C, n)
      [] ~C.err /\ n.kind = "Export" -> CompileExport(C, n)
      [] OTHER -> CompileError(C)

compile_node(C, n) == IF n.kind \in StatementKinds THEN compile_stmt(C, n) ELSE compile_expr(C, n)

\* The code of the top level is that of "entry main" if there is one: nothing else may be there then
\* but declarations.
Entries == {"FuncDecl " \o v \o " entry" : v \in Visibilities}
CompileTop(C, stmts) ==
    LET entries == SelectSeq(stmts, LAMBDA s : s.kind \in Entries)
        others == SelectSeq(stmts, LAMBDA s : s.kind \notin Entries)
        declares == \A i \in DOMAIN others : others[i].kind \in FuncDecls \cup {"StructDecl", "Import", "Export"}
    IN  IF entries = <<>> \/ (Len(entries) = 1 /\ declares)
        THEN compile_all(C, IF entries = <<>> THEN stmts ELSE others \o entries[1].kids[1].kids)
        ELSE CompileError(C)

Jumps == {"JUMP", "JUMP_IF_FALSE", "JUMP_IF_TRUE", "JUMP_IF_NIL"}
Safepoints(code, i) == [code EXCEPT ![i] = <<"GC_SAFEPOINT">>, ![i + 1] = <<"GC_SAFEPOINT">>]

\* A jump to a jump goes where that one goes, 32 times at most.
RECURSIVE Threaded(_, _, _)
Threaded(code, t, visited) ==
    IF visited < 32 /\ t <= Len(code) /\ code[t][1] = "JUMP" /\ code[t][2] # t
    THEN Threaded(code, code[t][2], visited + 1) ELSE t

\* A constant that is popped, two negations, and jumps to jumps; what jumps into the pairs is not
\* looked at.
RECURSIVE peephole_optimize(_, _)
peephole_optimize(code, i) ==
    CASE i >= Len(code) -> code
      [] i < Len(code) /\ code[i][1] = "CONST" /\ code[i + 1][1] = "POP" ->
            peephole_optimize(Safepoints(code, i), i + 2)
      [] i < Len(code) /\ code[i] = <<"UNARY", "!">> /\ code[i + 1] = <<"UNARY", "!">> ->
            peephole_optimize(Safepoints(code, i), i + 2)
      [] i < Len(code) /\ code[i][1] \in Jumps ->
            peephole_optimize([code EXCEPT ![i] = <<@[1], Threaded(code, @[2], 0)>>], i + 1)
      [] OTHER -> peephole_optimize(code, i + 1)

\* The compiler's state after a program, before it is optimized and after.
compile_program(n, opt) ==
    LET program == IF opt >= 1 THEN fold_all(n) ELSE n
    IN  emit(CompileTop(FoldLeft(prescan_stmt, compiler_init(opt), program.kids), program.kids), <<"HALT">>)

Optimized(C) ==
    IF C.err \/ C.opt = 0 THEN C
    ELSE [C EXCEPT !.code = peephole_optimize(@, 1),
                   !.functions = [f \in DOMAIN @ |-> [@[f] EXCEPT !.code = peephole_optimize(@, 1)]]]
compiler_compile(n, opt) == Optimized(compile_program(n, opt))
=============================================================================
