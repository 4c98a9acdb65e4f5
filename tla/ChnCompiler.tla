------------------------------ MODULE ChnCompiler ------------------------------
(***************************************************************************)
(* The code generator of CHN (src/v1.1/compiler.c): statements and         *)
(* expressions to the chunks ChnVM executes. A source construct is a tuple *)
(* headed by its kind; literals are all one, since ChnVM leaves values     *)
(* out. What is not here: dict and string literals, methods and natives    *)
(* (stack effects like those of bin and call), nested functions and        *)
(* lambdas, and imports.                                                   *)
(*                                                                         *)
(* x is the compiler's state in a function: main unless in_function, the   *)
(* names of C->locals in slot order in scope, and opt, its opt_level. d is *)
(* the number of stack slots in use. While code is put together, a jump's  *)
(* operand is its distance; emit_jump and patch_jump, which go back to     *)
(* fill it in, are Linked at the end.                                      *)
(***************************************************************************)
EXTENDS Integers, Sequences, FiniteSetsExt

LOCAL Slotless == -1        \* ChnVM's NoSlot

Ins(op, n, d) == [op |-> op, n |-> n, f |-> "", bind |-> Slotless, depth |-> d, open |-> <<>>]
Op(op, d) == Ins(op, 0, d)
Pop(d) == Op("POP", d)
Calling(op, f, n, d) == [Ins(op, n, d) EXCEPT !.f = f]

\* The value code leaves on the stack is the local of this slot.
Binding(code, slot) == [code EXCEPT ![1].bind = slot]

----------------------------------------------------------------------------
(* Variables                                                               *)

Slots(x, v) == {i \in 1..Len(x.scope) : x.scope[i] = v}

\* The innermost local of this name.
local_find(x, v) == Max(Slots(x, v)) - 1

emit_load(v, x, d) ==
    IF Slots(x, v) # {} THEN Ins("GET_LOCAL", local_find(x, v), d) ELSE Op("GET_VAR", d)
emit_store(v, x, d) ==
    IF Slots(x, v) # {} THEN Ins("SET_LOCAL", local_find(x, v), d) ELSE Op("SET_VAR", d)

local_define(x, v) == [x EXCEPT !.scope = Append(@, v)]

----------------------------------------------------------------------------
(* Expressions: one value pushed                                           *)

\* && and ||: the left value decides, or is dropped for the right one.
ShortcutCode(a, b, d) == a \o <<Ins("JUMP_IF", Len(b) + 2, d + 1), Pop(d + 1)>> \o b

CoalCode(a, b, d) ==
    a \o <<Ins("JUMP_IF", 2, d + 1), Ins("JUMP", Len(b) + 2, d + 1), Pop(d + 1)>> \o b

TernaryCode(c, a, b, d) ==
    c \o <<Ins("JUMP_IF", Len(a) + 3, d + 1), Pop(d + 1)>> \o a
      \o <<Ins("JUMP", Len(b) + 2, d + 1), Pop(d + 1)>> \o b

RECURSIVE compile_expr(_, _, _)

RECURSIVE Args(_, _, _)
Args(es, x, d) ==
    IF es = <<>> THEN <<>> ELSE compile_expr(Head(es), x, d) \o Args(Tail(es), x, d + 1)

RECURSIVE Elements(_, _, _)
Elements(es, x, d) ==
    IF es = <<>> THEN <<>>
    ELSE Append(compile_expr(Head(es), x, d), Op("ARRAY_PUSH", d + 1)) \o Elements(Tail(es), x, d)

compile_expr(e, x, d) ==
    CASE e[1] = "num" -> <<Op("CONST", d)>>
      [] e[1] = "var" -> <<emit_load(e[2], x, d)>>
      [] e[1] = "array" -> <<Op("ARRAY_NEW", d)>> \o Elements(e[2], x, d + 1)
      [] e[1] = "assign" -> Append(compile_expr(e[3], x, d), emit_store(e[2], x, d + 1))
      [] e[1] = "compound" -> <<emit_load(e[2], x, d)>> \o compile_expr(e[3], x, d + 1)
                              \o <<Op("BINOP", d + 2), emit_store(e[2], x, d + 1)>>
      [] e[1] = "post_inc" -> <<emit_load(e[2], x, d), emit_load(e[2], x, d + 1),
                                Op("CONST_1", d + 2), Op("BINOP", d + 3),
                                emit_store(e[2], x, d + 2), Pop(d + 2)>>
      [] e[1] = "not" -> Append(compile_expr(e[2], x, d), Op("NOT", d + 1))
      [] e[1] = "bin" -> IF x.opt >= 1 /\ e[2][1] = "num" /\ e[3][1] = "num"
                         THEN <<Op("CONST", d)>>    \* folded
                         ELSE compile_expr(e[2], x, d) \o compile_expr(e[3], x, d + 1)
                              \o <<Op("BINOP", d + 2)>>
      [] e[1] = "shortcut" -> ShortcutCode(compile_expr(e[2], x, d), compile_expr(e[3], x, d), d)
      [] e[1] = "coal" -> CoalCode(compile_expr(e[2], x, d), compile_expr(e[3], x, d), d)
      [] e[1] = "ternary" -> TernaryCode(compile_expr(e[2], x, d), compile_expr(e[3], x, d),
                                         compile_expr(e[4], x, d), d)
      [] e[1] = "call" ->        \* a named function
            <<Op("CONST", d)>> \o Args(e[3], x, d + 1)
            \o <<Calling("CALL", e[2], Len(e[3]), d + 1 + Len(e[3]))>>
      [] e[1] = "call_value" ->  \* a variable holding a function
            <<emit_load(e[2], x, d)>> \o Args(e[3], x, d + 1)
            \o <<Calling("CALL", "?", Len(e[3]), d + 1 + Len(e[3]))>>

----------------------------------------------------------------------------
(* Statements: code, and the scope after it                                *)

Compiled(code, x) == [code |-> code, scope |-> x.scope]

\* The slots in use after b, which started with d of them and scope x.
Height(b, x, d) == d + Len(b.scope) - Len(x.scope)
Scope(b, x) == [x EXCEPT !.scope = b.scope]

\* Make the jumps of this kind still to be patched go to index k of code.
patch(code, kind, k) ==
    [i \in DOMAIN code |-> IF code[i].op = kind
                           THEN [code[i] EXCEPT !.op = "JUMP", !.n = k - i] ELSE code[i]]
pop_ctx_patch_breaks(code) == patch(code, "BREAK", Len(code) + 1)
patch_continues(code, k) == patch(code, "CONTINUE", k)

\* One POP for each local of b beyond x's.
pop_scope(b, x, d) ==
    [i \in 1..(Len(b.scope) - Len(x.scope)) |-> Pop(Height(b, x, d) + 1 - i)]

\* Back to the start of the loop whose code so far, n instructions, this one follows.
emit_loop(n, d) == <<Op("GC_SAFEPOINT", d), Ins("JUMP", -(n + 1), d)>>
Looped(code, d) == code \o emit_loop(Len(code), d)

IfCode(c, then, else, d) ==
    c \o <<Ins("JUMP_IF", Len(then) + 3, d + 1), Pop(d + 1)>> \o then
      \o <<Ins("JUMP", Len(else) + 2, d), Pop(d + 1)>> \o else

\* Condition, body and what follows it (post); d slots before the loop, left after body.
LoopCode(c, body, post, d, left) ==
    Append(Looped(c \o <<Ins("JUMP_IF", Len(body \o post) + 4, d + 1), Pop(d + 1)>>
                    \o body \o post, left), Pop(d + 1))

WhileCode(c, body, d) == pop_ctx_patch_breaks(patch_continues(LoopCode(c, body, <<>>, d, d), 1))

ForCode(c, body, post, d) ==
    pop_ctx_patch_breaks(patch_continues(
        LoopCode(c, body, Append(post, Pop(d + 1)), d, d), Len(c) + Len(body) + 3))

DoWhileCode(body, c, d) ==
    pop_ctx_patch_breaks(patch_continues(
        Looped(body \o <<Op("GC_SAFEPOINT", d)>> \o c
               \o <<Ins("JUMP_IF", 3, d + 1), Pop(d + 1), Ins("JUMP", 4, d), Pop(d + 1)>>, d),
        Len(body) + 1))

\* The array and the index, and in a function the variables, take slots first onwards.
ForeachInit(iterable, vars, y, first, d) ==
    IF y.main
    THEN iterable \o <<Op("SET_VAR", d + 1), Pop(d + 1),
                       Op("CONST_0", d), Op("SET_VAR", d + 1), Pop(d + 1)>>
    ELSE Binding(iterable, first) \o <<Ins("SET_LOCAL", first, d + 1)>>
         \o Binding(<<Op("CONST_0", d + 1)>>, first + 1) \o <<Ins("SET_LOCAL", first + 1, d + 2)>>
         \o [i \in 1..Len(vars) |-> [Op("NIL", d + 1 + i) EXCEPT !.bind = first + 1 + i]]

ForeachTest(y, d) ==
    <<emit_load("__fe_idx", y, d), emit_load("__fe_arr", y, d + 1),
      Op("ARRAY_LEN", d + 2), Op("BINOP", d + 2)>>

SetTo(v, y, d) == <<emit_store(v, y, d + 1), Pop(d + 1)>>

ForeachStep(vars, y, d) ==
    (IF Len(vars) = 1 THEN <<>> ELSE <<emit_load("__fe_idx", y, d)>> \o SetTo(vars[1], y, d))
    \o <<emit_load("__fe_arr", y, d), emit_load("__fe_idx", y, d + 1), Op("ARRAY_INDEX", d + 2)>>
    \o SetTo(vars[Len(vars)], y, d)
    \o <<emit_load("__fe_idx", y, d), Op("CONST_1", d + 1), Op("BINOP", d + 2)>>
    \o SetTo("__fe_idx", y, d) \o <<Op("GC_SAFEPOINT", d)>>

\* The locals of the body stay on the stack until the loop is over.
ForeachCode(init, vars, body, x, y, d, h) ==
    init \o pop_ctx_patch_breaks(patch_continues(
                LoopCode(ForeachTest(y, h), ForeachStep(vars, y, h) \o body.code, <<>>,
                         h, Height(body, x, d)), 1))
         \o (IF x.main THEN <<>> ELSE pop_scope(body, x, d))

CaseCode(v, b, x, d) ==
    <<Op("DUP", d + 1)>> \o v
    \o <<Op("EQ", d + 3), Ins("JUMP_IF", Len(b.code) + 4, d + 2), Pop(d + 2), Pop(d + 1)>>
    \o b.code \o <<Op("BREAK", Height(b, x, d)), Pop(d + 2)>>

\* The code of a try body: its handler is ahead by its length and two instructions.
Guarded(code, d) ==
    [i \in DOMAIN code |->
        [code[i] EXCEPT !.open = <<[off |-> Len(code) + 2 - i, depth |-> d]>> \o @]]

\* The error, on top of d slots, is the next local after the body's, or a global.
TryCode(body, catch, d, h) ==
    <<Ins("PUSH_HANDLER", Len(body) + 3, d)>> \o Guarded(Append(body, Op("POP_HANDLER", h)), d)
    \o <<Ins("JUMP", Len(catch) + 1, h)>> \o catch

CatchCode(v, b, e, y, d) ==
    <<emit_store(v, e, d + 1)>> \o b.code
    \o (IF y.main THEN <<>> ELSE pop_scope(b, y, d))

RECURSIVE compile_stmt(_, _, _)
RECURSIVE compile_block(_, _, _)

\* A block: its locals stay in scope after it.
Before(s, rest) == [rest EXCEPT !.code = s.code \o @]
BlockAfter(s, ss, x, d) == Before(s, compile_block(ss, Scope(s, x), Height(s, x, d)))
compile_block(ss, x, d) ==
    IF ss = <<>> THEN Compiled(<<>>, x)
    ELSE BlockAfter(compile_stmt(Head(ss), x, d), Tail(ss), x, d)

\* A block and the pop_scope after it.
Popped(b, x, d) == b.code \o pop_scope(b, x, d)
Scoped(ss, x, d) == Popped(compile_block(ss, x, d), x, d)

\* The locals of the initialisation stay in scope after the loop.
ForAfter(init, s, y, d) ==
    Compiled(init.code \o ForCode(compile_expr(s[3], y, d), Scoped(s[5], y, d),
                                  compile_expr(s[4], y, d), d), y)

foreach_scope(x, vars) ==
    IF x.main THEN x ELSE [x EXCEPT !.scope = @ \o <<"__fe_arr", "__fe_idx">> \o vars]

ForeachIn(s, vars, x, y, d, h) ==
    ForeachCode(ForeachInit(compile_expr(s[3], x, d), vars, y, Len(x.scope), d),
                vars, compile_block(s[4], y, h), x, y, d, h)

\* Cases compare a copy of the subject, which is dropped before the body of a case
\* and after the default body. A case's locals stay in scope after it.
RECURSIVE compile_cases(_, _, _)
CasesAfter(v, b, cs, x, d) ==
    Before([code |-> CaseCode(v, b, x, d)], compile_cases(cs, Scope(b, x), Height(b, x, d)))
compile_cases(cs, x, d) ==
    IF cs = <<>> THEN Compiled(<<>>, x)
    ELSE CasesAfter(compile_expr(Head(cs)[1], x, d + 2), compile_block(Head(cs)[2], x, d),
                    Tail(cs), x, d)

SwitchCode(subject, cases, default, x, d) ==
    [default EXCEPT !.code = pop_ctx_patch_breaks(
        subject \o cases.code \o @ \o <<Pop(Height(default, x, d) + 1)>>)]
SwitchAfter(s, cases, x, d) ==
    SwitchCode(compile_expr(s[2], x, d), cases,
               compile_block(s[4], Scope(cases, x), Height(cases, x, d) + 1), x, d)

\* The locals of the try body stay in scope after it.
TryAfter(body, s, e, y, d, h) ==
    Compiled(TryCode(body.code, CatchCode(s[3], compile_block(s[4], e, d + 1), e, y, d), d, h), y)
TryWith(body, s, x, y, d) ==
    TryAfter(body, s, IF x.main THEN y ELSE local_define(y, s[3]), y, d, Height(body, x, d))

\* At level 2, a call of a named function is not returned from.
compile_return(e, x, d) ==
    IF x.opt >= 2 /\ e[1] = "call"
    THEN <<Op("CONST", d)>> \o Args(e[3], x, d + 1)
         \o <<Calling("CALL_TAIL", e[2], Len(e[3]), d + 1 + Len(e[3]))>>
    ELSE Append(compile_expr(e, x, d), Op("RETURN", d + 1))

compile_let(s, x, d) ==
    IF x.main THEN Compiled(Append(compile_expr(s[3], x, d), Op("DEF_VAR", d + 1)), x)
    ELSE Compiled(Binding(compile_expr(s[3], x, d), Len(x.scope)), local_define(x, s[2]))

compile_stmt(s, x, d) ==
    CASE s[1] = "let" -> compile_let(s, x, d)
      [] s[1] = "expr" -> Compiled(Append(compile_expr(s[2], x, d), Pop(d + 1)), x)
      [] s[1] = "print" ->
            Compiled(Append(Args(s[2], x, d), Ins("PRINT", Len(s[2]), d + Len(s[2]))), x)
      [] s[1] = "if" -> Compiled(IfCode(compile_expr(s[2], x, d), Scoped(s[3], x, d),
                                        Scoped(s[4], x, d), d), x)
      [] s[1] = "while" -> Compiled(WhileCode(compile_expr(s[2], x, d), Scoped(s[3], x, d), d), x)
      [] s[1] = "do_while" ->
            Compiled(DoWhileCode(Scoped(s[2], x, d), compile_expr(s[3], x, d), d), x)
      [] s[1] = "for" ->
            LET init == compile_stmt(s[2], x, d)
            IN  ForAfter(init, s, Scope(init, x), Height(init, x, d))
      [] s[1] = "foreach" ->
            LET y == foreach_scope(x, s[2])
            IN  Compiled(ForeachIn(s, s[2], x, y, d, Height(y, x, d)), x)
      [] s[1] = "switch" -> SwitchAfter(s, compile_cases(s[3], x, d), x, d)
      [] s[1] = "try" ->
            LET body == compile_block(s[2], x, d) IN TryWith(body, s, x, Scope(body, x), d)
      [] s[1] = "throw" -> Compiled(Append(compile_expr(s[2], x, d), Op("THROW", d + 1)), x)
      [] s[1] = "break" -> Compiled(<<Op("BREAK", d)>>, x)
      [] s[1] = "continue" -> Compiled(<<Op("CONTINUE", d)>>, x)
      [] s[1] = "return" -> Compiled(compile_return(s[2], x, d), x)
      [] s[1] = "block" -> compile_block(s[2], x, d)

----------------------------------------------------------------------------
(* Chunks                                                                  *)

Constants == {"CONST", "CONST_0", "CONST_1", "NIL"}
Targeting == {"JUMP", "JUMP_IF", "PUSH_HANDLER"}

\* Distances become offsets.
Linked(code) ==
    [i \in DOMAIN code |->
        [code[i] EXCEPT !.n = IF code[i].op \in Targeting THEN i + @ ELSE @,
                        !.open = [k \in DOMAIN @ |-> [@[k] EXCEPT !.off = i + @]]]]

MaxThreading == 32

\* Where a jump to offset k ends up after n more unconditional ones.
RECURSIVE threaded(_, _, _)
threaded(code, k, n) ==
    IF n < MaxThreading /\ k <= Len(code) /\ code[k].op = "JUMP" /\ code[k].n # k
    THEN threaded(code, code[k].n, n + 1) ELSE k

\* A constant pushed and popped and a double negation become safepoints, and jumps to
\* jumps go straight to their end, from offset i on.
RECURSIVE peephole_optimize(_, _)
peephole_optimize(code, i) ==
    IF i >= Len(code) THEN code
    ELSE IF \/ code[i].op \in Constants /\ code[i + 1].op = "POP"
            \/ code[i].op = "NOT" /\ code[i + 1].op = "NOT"
    THEN peephole_optimize(
            [code EXCEPT ![i].op = "GC_SAFEPOINT", ![i + 1].op = "GC_SAFEPOINT",
                         ![i + 1].depth = code[i].depth], i + 2)
    ELSE IF code[i].op \in {"JUMP", "JUMP_IF"}
    THEN peephole_optimize([code EXCEPT ![i].n = threaded(code, @, 0)], i + 1)
    ELSE peephole_optimize(code, i + 1)

FunctionCode(b, params) ==
    <<Op("GC_SAFEPOINT", Len(params))>> \o b.code
    \o <<Op("NIL", Len(b.scope)), Op("RETURN", Len(b.scope) + 1)>>

compile_function(params, body, opt) ==
    FunctionCode(compile_block(body, [main |-> FALSE, scope |-> params, opt |-> opt],
                               Len(params)), params)

compile_main(body, opt) ==
    Append(compile_block(body, [main |-> TRUE, scope |-> <<>>, opt |-> opt], 0).code,
           Op("HALT", 0))

Chunk(arity, code, opt) ==
    [arity |-> arity, code |-> IF opt >= 1 THEN peephole_optimize(Linked(code), 1)
                                           ELSE Linked(code)]

\* A program: its functions [params, body] by name, "main" being the top-level code.
compiler_compile(prog, opt) ==
    [f \in DOMAIN prog |->
        Chunk(Len(prog[f].params),
              IF f = "main" THEN compile_main(prog[f].body, opt)
                            ELSE compile_function(prog[f].params, prog[f].body, opt), opt)]
==============================================================================
