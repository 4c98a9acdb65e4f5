------------------------------ MODULE ChnMachine -----------------------------
(***************************************************************************)
(* The virtual machine on the code of ChnEval (vm_run, src/v1.1/vm.c, one  *)
(* turn of its loop): a stack of values, frames that share it, the globals,*)
(* the heap and what was written. Errors end the run: none is caught here  *)
(* (ChnVM's handlers are). The collector, which a safepoint calls, takes   *)
(* nothing away that is reachable (ChnGC).                                 *)
(***************************************************************************)
EXTENDS ChnEval

CONSTANT MAX_CALL_DEPTH     \* frames

\* A frame has its code, the index of its next instruction, and where its locals begin.
Frame(code, base) == [code |-> code, ip |-> 1, base |-> base]

vm_init(C) ==
    [stack |-> <<>>, frames |-> <<Frame(C.code, 0)>>, globals |-> [g \in DOMAIN C.globals |-> NIL_VAL],
     h |-> <<>>, out |-> <<>>, e |-> "", halted |-> FALSE]

Deep(M) == Len(M.stack)
TopOf(M) == M.stack[Deep(M)]
ArgsAt(M, n) == SubSeq(M.stack, Deep(M) - n + 1, Deep(M))
Push(M, v) == [M EXCEPT !.stack = Append(@, v)]
Drop(M, n) == [M EXCEPT !.stack = SubSeq(@, 1, Len(@) - n)]
Raise(M, kind) == [M EXCEPT !.e = kind]
Goto(M, i) == [M EXCEPT !.frames[Len(M.frames)].ip = i]

\* The result of an operation replaces its n operands.
Replace(M, n, r) == IF r.e # "" THEN Raise(M, r.e) ELSE [Push(Drop(M, n), r.v) EXCEPT !.h = r.h]

\* Why a value cannot be called with n arguments, or "".
CallError(functions, f, n) ==
    CASE ~IsA(f, "function") -> "type"
      [] IsA(f, "function") /\ functions[f[2]].arity # n -> "type"
      [] OTHER -> IF functions[f[2]].code = <<>> THEN "runtime" ELSE ""

OP_CALL(M, functions, n) ==
    LET f == M.stack[Deep(M) - n]
        error == CallError(functions, f, n)
    IN  CASE error # "" -> Raise(M, error)
          [] error = "" /\ Len(M.frames) >= MAX_CALL_DEPTH -> Raise(M, "stack")
          [] OTHER -> [M EXCEPT !.frames = Append(@, Frame(functions[f[2]].code, Deep(M) - n))]

\* The arguments move to where the locals of the frame were; the frame runs the other function.
OP_CALL_TAIL(M, functions, n) ==
    LET f == M.stack[Deep(M) - n]
        error == CallError(functions, f, n)
        frame == Last(M.frames)
    IN  IF error # "" THEN Raise(M, error)
        ELSE [M EXCEPT !.stack = SubSeq(@, 1, frame.base) \o ArgsAt(M, n),
                       !.frames = Append(Front(@), Frame(functions[f[2]].code, frame.base))]

\* The value, and nothing else of the frame, takes the place of the function that was called.
OP_RETURN(M) ==
    LET base == Last(M.frames).base
    IN  [M EXCEPT !.frames = Front(@), !.stack = Append(SubSeq(@, 1, IF base > 0 THEN base - 1 ELSE 0), TopOf(M)),
                  !.halted = Len(M.frames) = 1]

\* One instruction.
dispatch(M0, functions) ==
    LET frame == Last(M0.frames)
        ins == frame.code[frame.ip]
        op == ins[1]
        M == Goto(M0, frame.ip + 1)
        v == TopOf(M)
        at(k) == M.stack[Deep(M) - k]
        JumpIf(b) == IF b THEN Goto(M, ins[2]) ELSE M
    IN  CASE op = "CONST" -> Push(M, ins[2])
          [] op = "POP" -> Drop(M, 1)
          [] op = "DUP" -> Push(M, v)
          [] op = "GET_VAR" -> Push(M, M.globals[ins[2]])
          [] op = "DEF_VAR" -> Drop([M EXCEPT !.globals[ins[2]] = v], 1)
          [] op = "SET_VAR" -> [M EXCEPT !.globals[ins[2]] = v]
          [] op = "GET_LOCAL" -> Push(M, M.stack[frame.base + ins[2]])
          [] op = "SET_LOCAL" -> [M EXCEPT !.stack[frame.base + ins[2]] = v]
          [] op = "BINARY" -> Replace(M, 2, BinaryOp(M.h, ins[2], at(1), v))
          [] op = "UNARY" -> Replace(M, 1, UnaryOp(M.h, ins[2], v))
          [] op = "JUMP" -> JumpIf(TRUE)
          [] op = "JUMP_IF_FALSE" -> JumpIf(~is_truthy(M.h, v))
          [] op = "JUMP_IF_TRUE" -> JumpIf(is_truthy(M.h, v))
          [] op = "JUMP_IF_NIL" -> JumpIf(IsA(v, "nil"))
          [] op = "CALL" -> OP_CALL(M, functions, ins[2])
          [] op = "CALL_TAIL" -> OP_CALL_TAIL(M, functions, ins[2])
          [] op = "RETURN" -> OP_RETURN(M)
          [] op = "ARRAY_NEW" -> Replace(M, 0, New(M.h, "array", <<>>))
          [] op = "ARRAY_PUSH" -> Drop([M EXCEPT !.h = SetHeld(@, at(1), Append(Held(@, at(1)), v))], 1)
          [] op = "ARRAY_INDEX" -> Replace(M, 2, array_index(M.h, at(1), v))
          [] op = "ARRAY_SET" -> Replace(M, 3, array_set(M.h, at(2), at(1), v))
          [] op = "ARRAY_LEN" -> Replace(M, 1, array_len(M.h, v))
          [] op = "METHOD_CALL" -> Replace(M, ins[3] + 1, method_call(M.h, at(ins[3]), ins[2], ArgsAt(M, ins[3])))
          [] op = "DICT_NEW" -> Replace(M, 0, New(M.h, "dict", <<>>))
          [] op = "DICT_SET" -> Replace(M, 3, dict_set(M.h, at(2), at(1)[2], v))
          [] op = "DICT_GET" -> Replace(M, 2, dict_get(M.h, at(1), v[2]))
          [] op = "NATIVE" -> Replace(M, ins[3], native_dispatch(M.h, ins[2], ArgsAt(M, ins[3])))
          [] op = "PRINT" ->
                Drop([M EXCEPT !.out = Append(@, [i \in 1..ins[2] |-> print_value(M.h, at(ins[2] - i))])], ins[2])
          [] op = "THROW" -> Raise(M, val_to_str(M.h, v))
          [] op = "HALT" -> [M EXCEPT !.halted = TRUE]
          [] OTHER -> M     \* GC_SAFEPOINT, AWAIT

\* The machine after n instructions, or when it stops.
RECURSIVE vm_run(_, _, _)
vm_run(M, functions, n) ==
    IF n = 0 \/ M.e # "" \/ M.halted THEN M ELSE vm_run(dispatch(M, functions), functions, n - 1)
=============================================================================
