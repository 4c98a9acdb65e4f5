------------------------------ MODULE ChnMeaning -----------------------------
(***************************************************************************)
(* What a program means, said of its tree and without code, stack or       *)
(* frames: every operand is evaluated from left to right, "&&", "||", "??" *)
(* and "?:" evaluate what they need, a function sees its parameters, what  *)
(* it declares, and the globals, and an error ends everything. ChnRun      *)
(* compares the compiler and the machine with it.                          *)
(*                                                                         *)
(* S is the state of the evaluation: the heap, the globals, the locals     *)
(* (both by name), the declared functions by name, what was written, the   *)
(* error, whether the function has returned, whether there is one around,  *)
(* and the value. A function is its tree.                                  *)
(***************************************************************************)
EXTENDS ChnEval

Known(d, name, v) == [x \in DOMAIN d \cup {name} |-> IF x = name THEN v ELSE d[x]]
Value(S, v) == [S EXCEPT !.v = v]
Stopped(S) == S.e # "" \/ S.returned
\* The result of an operation.
Result(S, r) == IF r.e # "" THEN [S EXCEPT !.e = r.e] ELSE [S EXCEPT !.h = r.h, !.v = r.v]

Load(S, name) == Value(S, IF name \in DOMAIN S.l THEN S.l[name] ELSE S.g[name])
Store(S, name) == IF name \in DOMAIN S.l THEN [S EXCEPT !.l = Known(@, name, S.v)] ELSE [S EXCEPT !.g = Known(@, name, S.v)]

\* Of a statement or an expression.
RECURSIVE Eval(_, _), EvalAll(_, _, _), EvalSeq(_, _)

\* What follows T unless there was an error or a return.
Going(T, next) == IF Stopped(T) THEN T ELSE next

\* The values of expressions, behind those in vs, from left to right.
EvalAll(S, ns, vs) ==
    LET T == Eval(S, Head(ns)) IN IF ns = <<>> THEN [s |-> S, vs |-> vs] ELSE EvalAll(T, Tail(ns), Append(vs, T.v))
EvalSeq(S, ns) == IF ns = <<>> THEN S ELSE EvalSeq(Eval(S, Head(ns)), Tail(ns))

Parameters(f) ==
    CASE f.kind \in FuncDecls -> Tail(f.toks)
      [] f.kind = "StructDecl" -> [i \in DOMAIN f.kids |-> f.kids[i].toks[1]]
      [] OTHER -> f.toks

\* A struct's dict in S.v, with a default for what is nil.
RECURSIVE Constructed(_, _, _)
Constructed(S, fields, vs) ==
    LET field == Head(fields)
        T == IF IsA(Head(vs), "nil") THEN Eval(S, field.kids[1]) ELSE Value(S, Head(vs))
    IN  IF fields = <<>> THEN S
        ELSE Going(T, Constructed(Value([T EXCEPT !.h = gc_dict_set(@, S.v, field.toks[1], T.v)], S.v), Tail(fields), Tail(vs)))

\* A call of f, whose body begins with its parameters and ends with a value or nil.
Applied(S, f, vs) ==
    LET tree == f[2]
        names == Parameters(tree)
        before == [S EXCEPT !.within = TRUE,
                            !.l = [x \in Range(names) |-> vs[SelectLastInSeq(names, LAMBDA p : p = x)]]]
        T == CASE tree.kind = "Lambda" -> Eval(before, tree.kids[1])
               [] tree.kind = "StructDecl" -> Constructed(Result(before, New(S.h, "dict", <<>>)), tree.kids, vs)
               [] OTHER -> Eval(Value(before, NIL_VAL), tree.kids[1])
        v == IF tree.kind \in {"Lambda", "StructDecl"} \/ T.returned THEN T.v ELSE NIL_VAL
    IN  IF ~IsA(f, "function") \/ Len(Parameters(f[2])) # Len(vs) THEN [S EXCEPT !.e = "type"]
        ELSE [T EXCEPT !.l = S.l, !.within = S.within, !.returned = FALSE, !.v = v]

\* The array or dict in S.v with the elements, or entries, behind what is there.
RECURSIVE Filled(_, _)
Filled(S, kids) ==
    LET n == Head(kids)
        T == IF n.kind = "Pair" THEN Eval(S, n.kids[1]) ELSE Eval(S, n)
        h == IF n.kind = "Pair" THEN gc_dict_set(T.h, S.v, KeyOf(n), T.v) ELSE SetHeld(T.h, S.v, Append(Held(T.h, S.v), T.v))
    IN  IF kids = <<>> THEN S ELSE Going(T, Filled([T EXCEPT !.h = h, !.v = S.v], Tail(kids)))

\* The text of an f-string is that of its parts, one after the other.
Added(S, T) == Going(T, Value(T, STRING_VAL(S.v[2] \o val_to_str(T.h, T.v))))
RECURSIVE FStringText(_, _)
FStringText(S, parts) ==
    IF parts = <<>> \/ Stopped(S) THEN S ELSE FStringText(Added(S, Eval(S, PartTree(Head(parts)))), Tail(parts))

EvalBinary(S, n) ==
    LET op == n.toks[1]
        T == Eval(S, n.kids[1])
        U == Eval(T, n.kids[2])
        needed == CASE op = "&&" -> is_truthy(T.h, T.v) [] op = "||" -> ~is_truthy(T.h, T.v) [] OTHER -> IsA(T.v, "nil")
    IN  Going(T, IF op \notin {"&&", "||", "??"} THEN Going(U, Result(U, BinaryOp(U.h, op, T.v, U.v)))
                 ELSE IF needed THEN U ELSE T)

\* The declared function of this name, or else what the variable holds.
Callee(S, name) == IF name \in DOMAIN S.f THEN Value(S, <<"function", S.f[name]>>) ELSE Load(S, name)

EvalCall(S, n) ==
    LET A == EvalAll(S, n.kids, <<>>)
        length == n.kind = "MethodCall" /\ n.toks[1] = "length"
        T == IF length THEN Eval(S, n.kids[1]) ELSE A.s
    IN  Going(T, CASE n.kind = "Call" -> Applied(T, Callee(S, n.toks[1]).v, A.vs)
                   [] n.kind = "CallExpr" -> Applied(T, A.vs[1], Tail(A.vs))
                   [] n.kind = "NativeCall" -> Result(T, native_dispatch(T.h, NativeId(n.toks[1]), A.vs))
                   [] OTHER -> Result(T, IF length THEN array_len(T.h, T.v)
                                         ELSE method_call(T.h, A.vs[1], n.toks[1], Tail(A.vs))))

Increase(S, name) == LET r == BinaryOp(S.h, "+", Load(S, name).v, NUMBER_VAL(1))
                     IN  IF r.e # "" THEN [S EXCEPT !.e = r.e] ELSE Store(Value(S, r.v), name)

\* T is after the first operand of n, A after all of them.
Expression(S, n) ==
    LET k == n.kids  w == n.toks
        T == Eval(S, k[1])
        A == EvalAll(S, k, <<>>)
        h == A.s.h  vs == A.vs
        Sum == Result(T, BinaryOp(T.h, SubSeq(w[2], 1, Len(w[2]) - 1), Load(S, w[1]).v, T.v))
    IN  CASE Stopped(S) -> S
          [] ~Stopped(S) /\ n.kind = "Number" -> Value(S, NumberValue(w[1]))
          [] ~Stopped(S) /\ n.kind = "Folded" -> Value(S, w[1])
          [] ~Stopped(S) /\ n.kind = "String" -> Value(S, STRING_VAL(StringValue(w[1])))
          [] ~Stopped(S) /\ n.kind = "FString" ->
                FStringText(Value(S, STRING_VAL("")), FStringParts(FStringValue(w[1]), 1, ""))
          [] ~Stopped(S) /\ n.kind = "Bool" -> Value(S, BOOL_VAL(w[1] = "true"))
          [] ~Stopped(S) /\ n.kind \in {"Nil", "Null"} -> Value(S, NIL_VAL)
          [] ~Stopped(S) /\ n.kind = "ArrayLit" -> Filled(Result(S, New(S.h, "array", <<>>)), k)
          [] ~Stopped(S) /\ n.kind = "DictLit" -> Filled(Result(S, New(S.h, "dict", <<>>)), k)
          [] ~Stopped(S) /\ n.kind = "Ident" -> Load(S, w[1])
          [] ~Stopped(S) /\ n.kind = "Assign" -> Going(T, Store(T, w[1]))
          [] ~Stopped(S) /\ n.kind = "CompoundAssign" -> Going(T, Going(Sum, Store(Sum, w[1])))
          [] ~Stopped(S) /\ n.kind = "PreInc" -> Increase(S, w[2])
          [] ~Stopped(S) /\ n.kind = "PostInc" -> Value(Increase(S, w[1]), Load(S, w[1]).v)
          [] ~Stopped(S) /\ n.kind = "Ternary" -> Going(T, Eval(T, IF is_truthy(T.h, T.v) THEN k[2] ELSE k[3]))
          [] ~Stopped(S) /\ n.kind = "Binary" -> EvalBinary(S, n)
          [] ~Stopped(S) /\ n.kind = "Unary" -> Going(T, Result(T, UnaryOp(T.h, w[1], T.v)))
          [] ~Stopped(S) /\ n.kind \in {"Call", "CallExpr", "NativeCall", "MethodCall"} -> EvalCall(S, n)
          [] ~Stopped(S) /\ n.kind = "Index" -> Going(A.s, Result(A.s, array_index(h, vs[1], vs[2])))
          [] ~Stopped(S) /\ n.kind = "IndexSet" -> Going(A.s, Result(A.s, array_set(h, vs[1], vs[2], vs[3])))
          [] ~Stopped(S) /\ n.kind = "FieldAccess" -> Going(T, Result(T, dict_get(T.h, T.v, w[1])))
          [] ~Stopped(S) /\ n.kind = "FieldSet" -> Going(A.s, Result(A.s, dict_set(h, vs[1], w[1], vs[2])))
          [] ~Stopped(S) /\ n.kind = "Await" -> T
          [] OTHER -> Value(S, <<"function", n>>)

Statement(S, n) ==
    LET name == n.toks[1]
        T == Eval(S, n.kids[1])
        A == EvalAll(S, n.kids, <<>>)
        line == [i \in DOMAIN A.vs |-> print_value(A.s.h, A.vs[i])]
    IN  CASE Stopped(S) -> S
          [] ~Stopped(S) /\ n.kind \in {"LetDecl", "VarDecl", "ArrayDecl", "DictDecl"} ->
                Going(T, IF T.within THEN [T EXCEPT !.l = Known(@, name, T.v)] ELSE [T EXCEPT !.g = Known(@, name, T.v)])
          [] ~Stopped(S) /\ n.kind = "ExprStmt" -> T
          [] ~Stopped(S) /\ n.kind = "Print" -> Going(A.s, [A.s EXCEPT !.out = Append(@, line)])
          [] ~Stopped(S) /\ n.kind = "Throw" -> Going(T, [T EXCEPT !.e = val_to_str(T.h, T.v)])
          [] ~Stopped(S) /\ n.kind = "Return" ->
                IF n.kids[1] = NULL THEN [Value(S, NIL_VAL) EXCEPT !.returned = TRUE] ELSE Going(T, [T EXCEPT !.returned = TRUE])
          [] ~Stopped(S) /\ n.kind = "Block" -> EvalSeq(S, n.kids)
          [] ~Stopped(S) /\ n.kind \in FuncDecls -> [S EXCEPT !.f = Known(@, name, n)]
          [] OTHER -> S

Eval(S, n) == IF n.kind \in StatementKinds THEN Statement(S, n) ELSE Expression(S, n)

\* What is declared at the top can be called from the beginning; "entry main" is what runs if there is
\* one.
Declarations(n) ==
    {n.kids[i] : i \in {j \in DOMAIN n.kids : n.kids[j].kind \in FuncDecls \cup {"StructDecl"}}}
    \cup {n.kids[i].kids[1] : i \in {j \in DOMAIN n.kids : n.kids[j].kind = "Export" /\ n.kids[j].kids # <<>>}}
Meaning(n) ==
    LET f == [x \in {d.toks[1] : d \in Declarations(n)} |-> CHOOSE d \in Declarations(n) : d.toks[1] = x]
        entry == {d \in Declarations(n) : d.kind \in Entries}
        start == [h |-> <<>>, g |-> <<>>, l |-> <<>>, f |-> f, out |-> <<>>, e |-> "", returned |-> FALSE,
                  within |-> FALSE, v |-> NIL_VAL]
    IN  EvalSeq(start, IF entry = {} THEN n.kids ELSE (CHOOSE d \in entry : TRUE).kids[1].kids)
=============================================================================
