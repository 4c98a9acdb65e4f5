------------------------------- MODULE ChnVM -------------------------------
(***************************************************************************)
(* The call, try and value stacks of CHN's virtual machine (src/v1.1/vm.c) *)
(* executing compiled code. Values are left out: a conditional jump may go *)
(* either way and an operator may raise an error whenever some operands    *)
(* make it; what remains of the value stack is its height.                 *)
(*                                                                         *)
(* A chunk is a sequence of instructions, one element each whatever their  *)
(* width in bytes. An instruction carries, besides its operands, what the  *)
(* compiler had in mind when it emitted it: depth, the stack slots of the  *)
(* frame in use before it, open, the handlers of the try blocks around it, *)
(* and bind, the slot of the local variable whose value is computed from   *)
(* it on. The machine does not read these three: the properties compare    *)
(* them with what it does.                                                 *)
(***************************************************************************)
EXTENDS Integers, Sequences

CONSTANTS
    Images,         \* the programs: each maps its functions, main too, to [arity, code]
    MaxStack,       \* MAX_STACK
    MaxCallDepth,   \* MAX_CALL_DEPTH
    MaxTryDepth     \* MAX_TRY_DEPTH

ASSUME LimitsAssumption ==
    MaxStack \in Nat \ {0} /\ MaxCallDepth \in Nat \ {0} /\ MaxTryDepth \in Nat

NoSlot == -1        \* no local is bound at this instruction
Dynamic == "?"      \* the callee is the value of a variable

VARIABLES
    img,            \* the program loaded
    frames,         \* frames[1..MaxCallDepth]: those above frame_count are left over
    frame_count,
    stack_top,
    try_stack,
    status          \* "run", "ok" (VM_OK) or "error" (VM_RUNTIME_ERROR)

vars == <<img, frames, frame_count, stack_top, try_stack, status>>

Functions == DOMAIN img
Code(f) == img[f].code

FRAME == frames[frame_count]
Current == Code(FRAME.code)[FRAME.off]

\* vm_run: one frame for the top-level chunk.
Init ==
    /\ img \in Images
    /\ frames = [i \in 1..MaxCallDepth |->
                    [fn |-> "main", code |-> "main", off |-> 1, base |-> 0]]
    /\ frame_count = 1
    /\ stack_top = 0
    /\ try_stack = <<>>
    /\ status = "run"

----------------------------------------------------------------------------
(* Errors                                                                  *)

Last(s) == s[Len(s)]
Front(s) == SubSeq(s, 1, Len(s) - 1)

\* Mutant: the handler pushed first is taken.
Outermost == try_stack[1]

Innermost == Last(try_stack)

\* Unwind to the innermost handler and push the error. The frame found there gets the
\* handler's address and keeps its function.
unwind_to(tf) ==
    /\ stack_top' = tf.stack_top + 1
    /\ frame_count' = tf.frame_count
    /\ frames' = [frames EXCEPT ![tf.frame_count].code = tf.code,
                                ![tf.frame_count].off = tf.off]
    /\ UNCHANGED status

\* Every run-time error and every throw: a full stack leaves no room for the error. What
\* is left on the stacks of a program that ends in an error is left out.
vm_throw_error ==
    /\ IF try_stack = <<>> \/ Innermost.stack_top >= MaxStack
       THEN /\ status' = "error"
            /\ UNCHANGED <<frames, frame_count, stack_top, try_stack>>
       ELSE /\ try_stack' = Front(try_stack)
            /\ unwind_to(Innermost)
    /\ UNCHANGED img

----------------------------------------------------------------------------
(* Instructions                                                            *)

Pushing == {"CONST", "NIL", "CONST_0", "CONST_1", "DUP", "GET_VAR", "GET_LOCAL", "ARRAY_NEW"}
Popping == {"POP", "DEF_VAR"}
Keeping == {"SET_VAR", "SET_LOCAL", "NOT", "GC_SAFEPOINT"}
Folding == {"EQ", "ARRAY_PUSH"}              \* one value out of two
Raising == {"BINOP", "ARRAY_INDEX", "ARRAY_LEN"} \* operators that check their operands

Pops(i) ==
    CASE i.op \in Pushing \cup Keeping -> 0
      [] i.op \in Popping \cup {"ARRAY_LEN"} -> 1
      [] i.op \in Folding \cup {"BINOP", "ARRAY_INDEX"} -> 2

Pushes(i) == IF i.op \in Pushing \cup Folding \cup Raising THEN 1 ELSE 0

\* The values an instruction insists on finding on the stack.
Needs(i) ==
    CASE i.op \in {"CALL", "CALL_TAIL"} -> i.n + 1
      [] i.op \in {"POP", "RETURN"} -> 1
      [] i.op = "BINOP" -> 2
      [] OTHER -> 0

Plain == Pushing \cup Popping \cup Keeping \cup Folding \cup Raising \cup {"PRINT"}

\* The running frame goes on at offset k of its function's chunk.
Goto(k) == frames' = [frames EXCEPT ![frame_count].off = k, ![frame_count].code = FRAME.fn]
Advance == frames' = [frames EXCEPT ![frame_count].off = @ + 1]

Execute(op) == status = "run" /\ Current.op = op /\ stack_top >= Needs(Current)

\* Popping an empty stack yields nil and leaves it empty; PRINT does not pop.
PopFrom(h, n) == IF h >= n THEN h - n ELSE 0

op_plain ==
    /\ \E op \in Plain : Execute(op)
    /\ Current.op \in Pushing => stack_top < MaxStack
    /\ stack_top' = IF Current.op = "PRINT" THEN stack_top - Current.n
                    ELSE PopFrom(stack_top, Pops(Current)) + Pushes(Current)
    /\ Advance
    /\ UNCHANGED <<img, frame_count, try_stack, status>>

\* A push beyond the stack, an operand of the wrong type, a division by zero, an index
\* out of bounds, a constant that the chunk of the running function does not have,
\* too few values.
op_raises ==
    /\ status = "run"
    /\ \/ Current.op \in Pushing /\ stack_top >= MaxStack
       \/ Current.op \in Raising
       \/ Current.op = "CONST" /\ FRAME.code # FRAME.fn
       \/ stack_top < Needs(Current)
    /\ vm_throw_error

op_jump ==
    /\ Execute("JUMP")
    /\ IF Current.n > Len(Code(FRAME.fn))
       THEN vm_throw_error
       ELSE Goto(Current.n) /\ UNCHANGED <<img, frame_count, stack_top, try_stack, status>>

\* JUMP_IF_FALSE, JUMP_IF_TRUE, JUMP_IF_NIL: the value stays on the stack.
op_jump_if ==
    /\ Execute("JUMP_IF")
    /\ \/ Advance /\ UNCHANGED <<img, frame_count, stack_top, try_stack, status>>
       \/ IF Current.n > Len(Code(FRAME.fn))
          THEN vm_throw_error
          ELSE Goto(Current.n) /\ UNCHANGED <<img, frame_count, stack_top, try_stack, status>>

Callees(i) ==
    IF i.f = Dynamic THEN {f \in Functions \ {"main"} : img[f].arity = i.n} ELSE {i.f}

op_call ==
    /\ Execute("CALL")
    /\ \/ /\ frame_count < MaxCallDepth
          /\ \E f \in Callees(Current) :
                frames' = [frames EXCEPT
                    ![frame_count].off = @ + 1,
                    ![frame_count + 1] = [fn |-> f, code |-> f, off |-> 1,
                                          base |-> stack_top - Current.n]]
          /\ frame_count' = frame_count + 1
          /\ UNCHANGED <<img, stack_top, try_stack, status>>
       \/ /\ frame_count >= MaxCallDepth \/ Current.f = Dynamic
          /\ vm_throw_error

\* Mutant: the callee stays on the stack.
callee_left(h, base) == (IF h > base THEN base ELSE h) + 1

\* Pop the locals and the callee, push the result.
ReturnHeight(h, base) ==
    LET popped == IF h > base THEN base ELSE h IN
    (IF base > 0 THEN PopFrom(popped, 1) ELSE popped) + 1

\* Only compiled functions end in RETURN, so the caller's frame is there.
op_return ==
    /\ Execute("RETURN")
    /\ frame_count' = frame_count - 1
    /\ stack_top' = ReturnHeight(PopFrom(stack_top, 1), FRAME.base)
    /\ UNCHANGED <<img, frames, try_stack, status>>

op_call_tail ==
    /\ Execute("CALL_TAIL")
    /\ frames' = [frames EXCEPT ![frame_count] = [fn |-> Current.f, code |-> Current.f,
                                                  off |-> 1, base |-> @.base]]
    /\ stack_top' = FRAME.base + Current.n
    /\ UNCHANGED <<img, frame_count, try_stack, status>>

\* Mutant: the handler remembers the height below the value on top.
HeightBelowTop == PopFrom(stack_top, 1)

HandlerHeight == stack_top

TryStackFull == Len(try_stack) >= MaxTryDepth

op_push_handler ==
    /\ Execute("PUSH_HANDLER")
    /\ IF TryStackFull
       THEN vm_throw_error
       ELSE /\ try_stack' = Append(try_stack,
                    [code |-> FRAME.fn, off |-> Current.n,
                     stack_top |-> HandlerHeight, frame_count |-> frame_count])
            /\ Advance
            /\ UNCHANGED <<img, frame_count, stack_top, status>>

op_pop_handler ==
    /\ Execute("POP_HANDLER")
    /\ try_stack' = IF try_stack = <<>> THEN <<>> ELSE Front(try_stack)
    /\ Advance
    /\ UNCHANGED <<img, frame_count, stack_top, status>>

op_throw == Execute("THROW") /\ vm_throw_error

op_halt ==
    /\ Execute("HALT")
    /\ status' = "ok"
    /\ UNCHANGED <<img, frames, frame_count, stack_top, try_stack>>

Next ==
    \/ op_plain \/ op_raises
    \/ op_jump \/ op_jump_if
    \/ op_call \/ op_return \/ op_call_tail
    \/ op_push_handler \/ op_pop_handler \/ op_throw
    \/ op_halt

Spec == Init /\ [][Next]_vars

----------------------------------------------------------------------------
(* What the compiler sees to                                               *)

Handler == [off : Nat \ {0}, depth : Nat]

Instruction ==
    [op : STRING, n : Int, f : STRING, bind : Int, depth : Nat, open : Seq(Handler)]

\* At offset k of chunk c, d slots are in use and the handlers o are open.
At(c, k, d, o) == k \in 1..Len(c) /\ c[k].depth = d /\ c[k].open = o

CallsWell(im, i) == i.f \in DOMAIN im \ {"main"} /\ im[i.f].arity = i.n

\* What i, instruction k of f, does to the slots and the handlers is what its successors expect.
Annotated(im, f, k, i) ==
    LET c == im[f].code
        Then(d, o) == At(c, k + 1, d, o)
        Target == i.n > 0 /\ (i.n <= Len(c) => At(c, i.n, i.depth, i.open))
    IN
    /\ i.bind # NoSlot => i.bind = i.depth
    /\ i.op \in {"GET_LOCAL", "SET_LOCAL"} => i.n \in 0..(i.depth - 1)
    /\ i.open # <<>> => At(c, Last(i.open).off, Last(i.open).depth + 1, Front(i.open))
    /\ i.op \in Plain \ {"PRINT"} => Pops(i) <= i.depth /\ Then(i.depth - Pops(i) + Pushes(i), i.open)
    /\ i.op = "PRINT" => i.n \in 0..i.depth /\ Then(i.depth - i.n, i.open)
    /\ i.op = "JUMP" => Target
    /\ i.op = "JUMP_IF" => Target /\ Then(i.depth, i.open)
    /\ i.op = "CALL" => /\ i.n \in 0..(i.depth - 1) /\ Then(i.depth - i.n, i.open)
                        /\ i.f = Dynamic \/ CallsWell(im, i)
    /\ i.op = "CALL_TAIL" => f # "main" /\ i.open = <<>> /\ i.n >= 0 /\ CallsWell(im, i)
    /\ i.op = "RETURN" => f # "main" /\ i.open = <<>> /\ i.depth > 0
    /\ i.op = "PUSH_HANDLER" => /\ i.n > 0
                                /\ Then(i.depth, Append(i.open, [off |-> i.n, depth |-> i.depth]))
    /\ i.op = "POP_HANDLER" => i.open # <<>> /\ Then(i.depth, Front(i.open))
    /\ i.op = "HALT" => f = "main"

\* A program whose instructions agree on the slots and handlers in use: a function starts with
\* its arguments, the top level with nothing.
WellAnnotated(im) ==
    /\ "main" \in DOMAIN im /\ im["main"].arity = 0
    /\ \A f \in DOMAIN im : /\ im[f].code \in Seq(Instruction)
                            /\ At(im[f].code, 1, im[f].arity, <<>>)
                            /\ \A k \in 1..Len(im[f].code) : Annotated(im, f, k, im[f].code[k])

----------------------------------------------------------------------------
(* Correctness                                                             *)

\* What the compiler had in mind at the next instruction of frame i.
Intended(i) == Code(frames[i].fn)[frames[i].off]

\* Wherever control comes from, the running frame uses the slots the compiler counted:
\* every local variable is where the code looks for it, and no local is read or written
\* above the top of the stack (local_define, pop_scope, vm_throw_error, OP_RETURN).
SlotsMatchStack ==
    status = "run" =>
        /\ FRAME.code = FRAME.fn
        /\ stack_top = FRAME.base + Intended(frame_count).depth
        /\ Current.bind # NoSlot => stack_top = FRAME.base + Current.bind
        /\ Current.op \in {"GET_LOCAL", "SET_LOCAL"} => FRAME.base + Current.n < stack_top

OpenIn(i) == Intended(i).open

\* The handlers of activation i are those behind the first b of the try stack.
HandlersOf(i, b) ==
    /\ b + Len(OpenIn(i)) <= Len(try_stack)
    /\ \A k \in 1..Len(try_stack) : try_stack[k].frame_count = i <=> k \in b + 1..b + Len(OpenIn(i))
    /\ \A k \in 1..Len(OpenIn(i)) :
          try_stack[b + k] = [code |-> frames[i].fn, off |-> OpenIn(i)[k].off,
                              stack_top |-> frames[i].base + OpenIn(i)[k].depth, frame_count |-> i]

\* The try stack holds exactly the handlers of the try blocks the live activations are
\* in, outermost first: none is left over by a jump, a return or an unwinding, and none
\* is missing (OP_PUSH_HANDLER, OP_POP_HANDLER, vm_throw_error).
HandlersMatchScopes ==
    status = "run" =>
        /\ \A k \in 1..Len(try_stack) : /\ try_stack[k].frame_count \in 1..frame_count
                                        /\ \A j \in 1..k : try_stack[j].frame_count <= try_stack[k].frame_count
        /\ \A i \in 1..frame_count : \E b \in 0..Len(try_stack) : HandlersOf(i, b)

\* Calls, returns and errors behave as in ControlSpec, with the try blocks an activation
\* is in read off the source, not off the try stack.
HasRoom ==
    \A i \in 1..frame_count :
        /\ OpenIn(i) # <<>>
        /\ \A j \in i+1..frame_count : OpenIn(j) = <<>>
        => frames[i].base + Last(OpenIn(i)).depth < MaxStack

Control == INSTANCE ControlSpec WITH
    acts <- [i \in 1..frame_count |-> Len(OpenIn(i))],
    room <- HasRoom
ImplementsControlSpec == Control!Spec
============================================================================
