----------------------------- MODULE ControlSpec -----------------------------
(***************************************************************************)
(* What a script may rely on from calls and try blocks: activations nest,  *)
(* a try block belongs to the activation that entered it, and an error is  *)
(* delivered to the innermost try block still open, wherever the calls     *)
(* have gone, or ends the program when there is none, or no room for it.   *)
(***************************************************************************)
EXTENDS Naturals, Sequences

VARIABLES
    acts,   \* for each activation, outermost first, how many try blocks it is in
    status, \* "run", "ok" or "error"
    room    \* has the value stack room for an error in the innermost try block?

vars == <<acts, status>>

Depth == Len(acts)

Init ==
    /\ acts = <<0>>
    /\ status = "run"

\* The running activation is now in n try blocks.
Inside(n) == acts' = [acts EXCEPT ![Depth] = n]

Enter == Inside(acts[Depth] + 1) /\ UNCHANGED status

\* Blocks are left by reaching their end or by jumping out of them.
Leave == (\E n \in 0..acts[Depth] : Inside(n)) /\ UNCHANGED status

Call == acts' = Append(acts, 0) /\ UNCHANGED status

Return ==
    /\ Depth > 1
    /\ acts' = SubSeq(acts, 1, Depth - 1)
    /\ UNCHANGED status

Handlers == {i \in 1..Depth : acts[i] > 0}

Throw ==
    IF Handlers = {} \/ ~room
    THEN status' = "error" /\ UNCHANGED acts
    ELSE /\ \E i \in Handlers :
              /\ \A j \in Handlers : j <= i
              /\ acts' = [SubSeq(acts, 1, i) EXCEPT ![i] = @ - 1]
         /\ UNCHANGED status

Halt == Depth = 1 /\ status' = "ok" /\ UNCHANGED acts

Next == status = "run" /\ (Enter \/ Leave \/ Call \/ Return \/ Throw \/ Halt)

Spec == Init /\ [][Next]_vars
==============================================================================
