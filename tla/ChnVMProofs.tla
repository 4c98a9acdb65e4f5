---------------------------- MODULE ChnVMProofs ----------------------------
(***************************************************************************)
(* Theorems about the virtual machine. The machine trusts the code it      *)
(* runs: on programs whose instructions agree on the slots and the         *)
(* handlers in use (WellAnnotated) it keeps to what the compiler counted,  *)
(* for any number of functions, instructions, frames and handlers.         *)
(*                                                                         *)
(* The invariant is a predicate of plain values, so that what an           *)
(* instruction does to the stacks is a lemma without primes.               *)
(***************************************************************************)
EXTENDS ChnVM, SequenceTheorems, TLAPS

----------------------------------------------------------------------------
(* The invariant                                                           *)

\* The instruction frame i of fr goes on with.
NextOf(im, fr, i) == im[fr[i].fn].code[fr[i].off]

Frame(im) == [fn : DOMAIN im, code : DOMAIN im, off : Nat, base : Nat]

\* The values of the frame array.
Arrays(im) == [1..MaxCallDepth -> Frame(im)]

Try(im) == [code : DOMAIN im, off : Nat, stack_top : Nat, frame_count : Nat]

\* Frame i runs the chunk of its function; only the first frame runs the top level.
FrameInv(im, fr, i) ==
    /\ fr[i].code = fr[i].fn
    /\ fr[i].off \in 1..Len(im[fr[i].fn].code)
    /\ fr[i].fn = "main" <=> i = 1

\* The frames lie on the value stack without a gap; a callee has the value called below it.
Stacked(im, fr, n, top) ==
    /\ \A i \in 1..n : FrameInv(im, fr, i)
    /\ \A i \in 1..n - 1 : fr[i + 1].base = fr[i].base + NextOf(im, fr, i).depth /\ fr[i + 1].base > 0
    /\ top = fr[n].base + NextOf(im, fr, n).depth

\* The handlers of the try stack belong to frames 1..n, outer frames first.
Ordered(ts, n) ==
    /\ \A k \in 1..Len(ts) : ts[k].frame_count \in 1..n
    /\ \A k \in 1..Len(ts) : \A j \in 1..k : ts[j].frame_count <= ts[k].frame_count

\* The handlers o of a frame i that runs f from base on stand behind the first b of ts.
Block(ts, i, f, base, o, b) ==
    /\ b + Len(o) <= Len(ts)
    /\ \A k \in 1..Len(ts) : ts[k].frame_count = i <=> k \in b + 1..b + Len(o)
    /\ \A k \in 1..Len(o) : /\ ts[b + k].code = f
                            /\ ts[b + k].off = o[k].off
                            /\ ts[b + k].stack_top = base + o[k].depth

Holds(ts, i, f, base, o) == \E b \in 0..Len(ts) : Block(ts, i, f, base, o, b)

Handled(im, fr, n, ts) ==
    /\ Ordered(ts, n)
    /\ \A i \in 1..n : Holds(ts, i, fr[i].fn, fr[i].base, NextOf(im, fr, i).open)

Typed(im, fr, n, top, ts) ==
    /\ im \in Images
    /\ fr \in Arrays(im)
    /\ n \in 1..MaxCallDepth
    /\ top \in Nat
    /\ ts \in Seq(Try(im))

\* What holds between two instructions.
Running(im, fr, n, top, ts) ==
    Typed(im, fr, n, top, ts) /\ Stacked(im, fr, n, top) /\ Handled(im, fr, n, ts)

VMInv ==
    /\ Typed(img, frames, frame_count, stack_top, try_stack)
    /\ status \in {"run", "ok", "error"}
    /\ status = "run" => Running(img, frames, frame_count, stack_top, try_stack)

\* In how many try blocks each activation is.
Acts(im, fr, n) == [i \in 1..n |-> Len(NextOf(im, fr, i).open)]

----------------------------------------------------------------------------
(* The try stack                                                           *)

\* A frame in no try block has no handler on the try stack.
LEMMA NoneHeld ==
    ASSUME NEW S, NEW ts \in Seq(S), NEW i, NEW f, NEW base
    PROVE  Holds(ts, i, f, base, <<>>) <=> \A k \in 1..Len(ts) : ts[k].frame_count # i
<1>1. ASSUME Holds(ts, i, f, base, <<>>)
      PROVE  \A k \in 1..Len(ts) : ts[k].frame_count # i
  <2>1. PICK b \in 0..Len(ts) : Block(ts, i, f, base, <<>>, b)
    BY <1>1 DEF Holds
  <2>2. b + 1..b + Len(<<>>) = {}
    BY <2>1
  <2> QED
    BY <2>1, <2>2 DEF Block
<1>2. ASSUME \A k \in 1..Len(ts) : ts[k].frame_count # i
      PROVE  Holds(ts, i, f, base, <<>>)
  <2>1. 0 + 1..0 + Len(<<>>) = {} /\ 1..Len(<<>>) = {} /\ 0 \in 0..Len(ts)
    OBVIOUS
  <2>2. Block(ts, i, f, base, <<>>, 0)
    BY <1>2, <2>1 DEF Block
  <2> QED
    BY <2>1, <2>2 DEF Holds
<1> QED
  BY <1>1, <1>2

\* Frames above all those with handlers have none.
LEMMA NoneAbove ==
    ASSUME NEW S, NEW ts \in Seq(S), NEW n \in Nat, NEW m \in Nat, Ordered(ts, n), m > n,
           NEW f, NEW base
    PROVE  Holds(ts, m, f, base, <<>>)
<1>1. \A k \in 1..Len(ts) : ts[k].frame_count # m
  BY DEF Ordered
<1> QED
  BY <1>1, NoneHeld

\* Pushing a handler leaves those of the other frames where they are.
LEMMA PushKeeps ==
    ASSUME NEW S, NEW ts \in Seq(S), NEW h \in S, NEW i, NEW f, NEW base, NEW H, NEW o \in Seq(H),
           h.frame_count # i, Holds(ts, i, f, base, o)
    PROVE  Holds(Append(ts, h), i, f, base, o)
<1>1. PICK b \in 0..Len(ts) : Block(ts, i, f, base, o, b)
  BY DEF Holds
<1> DEFINE t == Append(ts, h)
<1>2. Len(t) = Len(ts) + 1 /\ t[Len(ts) + 1] = h /\ \A k \in 1..Len(ts) : t[k] = ts[k]
  OBVIOUS
<1>3. Len(ts) \in Nat /\ Len(o) \in Nat /\ b + Len(o) <= Len(ts) /\ b \in Nat
  BY <1>1 DEF Block
<1> HIDE DEF t
<1>4. ASSUME NEW k \in 1..Len(t)
      PROVE  t[k].frame_count = i <=> k \in b + 1..b + Len(o)
  <2>1. CASE k \in 1..Len(ts)
    BY <1>1, <1>2, <2>1 DEF Block
  <2>2. CASE k = Len(ts) + 1
    BY <1>2, <1>3, <2>2
  <2> QED
    BY <1>2, <1>3, <2>1, <2>2
<1>5. ASSUME NEW k \in 1..Len(o)
      PROVE  t[b + k].code = f /\ t[b + k].off = o[k].off /\ t[b + k].stack_top = base + o[k].depth
  <2>1. b + k \in 1..Len(ts)
    BY <1>3
  <2> QED
    BY <1>1, <1>2, <2>1 DEF Block
<1>6. Block(t, i, f, base, o, b)
  BY <1>2, <1>3, <1>4, <1>5 DEF Block
<1> QED
  BY <1>2, <1>3, <1>6 DEF Holds, t

\* The handlers of the last frame are on top of the try stack.
LEMMA OnTop ==
    ASSUME NEW S, NEW ts \in Seq(S), NEW n \in Nat, NEW f, NEW base, NEW H, NEW o \in Seq(H),
           Ordered(ts, n), Holds(ts, n, f, base, o), o # <<>>,
           \A k \in 1..Len(ts) : ts[k].frame_count \in Nat
    PROVE  Len(ts) > 0 /\ ts[Len(ts)].frame_count = n
<1>1. PICK b \in 0..Len(ts) : Block(ts, n, f, base, o, b)
  BY DEF Holds
<1>2. Len(ts) \in Nat /\ Len(o) \in Nat /\ Len(o) > 0 /\ b + Len(o) <= Len(ts) /\ b \in Nat
  BY <1>1 DEF Block
<1>3. b + 1 \in 1..Len(ts) /\ b + 1 \in b + 1..b + Len(o) /\ Len(ts) \in 1..Len(ts)
  BY <1>2
<1>4. ts[b + 1].frame_count = n
  BY <1>1, <1>3 DEF Block
<1>5. ts[b + 1].frame_count <= ts[Len(ts)].frame_count /\ ts[Len(ts)].frame_count <= n
  BY <1>2, <1>3 DEF Ordered
<1> QED
  BY <1>2, <1>3, <1>4, <1>5

\* A frame whose handler is on top of the try stack has its handlers up to the top.
LEMMA UpToTop ==
    ASSUME NEW S, NEW ts \in Seq(S), NEW i, NEW f, NEW base, NEW H, NEW o \in Seq(H),
           NEW b \in 0..Len(ts), Block(ts, i, f, base, o, b),
           Len(ts) > 0, ts[Len(ts)].frame_count = i
    PROVE  Len(o) > 0 /\ b + Len(o) = Len(ts)
<1>1. Len(ts) \in 1..Len(ts) /\ Len(o) \in Nat /\ Len(ts) \in Nat /\ b \in Nat
  OBVIOUS
<1>2. Len(ts) \in b + 1..b + Len(o) /\ b + Len(o) <= Len(ts)
  BY <1>1 DEF Block
<1> QED
  BY <1>1, <1>2

\* Pushing a handler of the last frame keeps the handlers in the order of their frames.
LEMMA PushOrdered ==
    ASSUME NEW S, NEW ts \in Seq(S), NEW h \in S, NEW n \in Nat \ {0}, Ordered(ts, n),
           h.frame_count = n
    PROVE  Ordered(Append(ts, h), n)
<1> DEFINE t == Append(ts, h)
<1>1. Len(t) = Len(ts) + 1 /\ t[Len(ts) + 1] = h /\ \A k \in 1..Len(ts) : t[k] = ts[k]
  OBVIOUS
<1>2. Len(ts) \in Nat
  OBVIOUS
<1> HIDE DEF t
<1>3. \A k \in 1..Len(t) : t[k].frame_count \in 1..n
  BY <1>1, <1>2 DEF Ordered
<1>4. ASSUME NEW k \in 1..Len(t), NEW j \in 1..k
      PROVE  t[j].frame_count <= t[k].frame_count
  <2>1. CASE k \in 1..Len(ts)
    <3>1. j \in 1..Len(ts)
      BY <2>1
    <3> QED
      BY <1>1, <2>1, <3>1 DEF Ordered
  <2>2. CASE k = Len(ts) + 1
    BY <1>1, <1>2, <1>3, <2>2
  <2> QED
    BY <1>1, <1>2, <2>1, <2>2
<1>5. Ordered(t, n)
  BY <1>3, <1>4 DEF Ordered
<1> QED
  BY <1>5 DEF t

\* The handlers of the last frame, which may be none, reach up to the top of the try stack.
LEMMA HeldToTop ==
    ASSUME NEW S, NEW ts \in Seq(S), NEW n \in Nat, NEW f, NEW base, NEW H, NEW o \in Seq(H),
           Ordered(ts, n), Holds(ts, n, f, base, o)
    PROVE  \E b \in 0..Len(ts) : Block(ts, n, f, base, o, b) /\ b + Len(o) = Len(ts)
<1>1. Len(ts) \in Nat /\ Len(o) \in Nat
  BY LenProperties
<1>2. CASE o = <<>>
  <2>1. \A k \in 1..Len(ts) : ts[k].frame_count # n
    BY <1>2, NoneHeld
  <2>2. Len(o) = 0 /\ Len(ts) + 1..Len(ts) + Len(o) = {} /\ Len(ts) + Len(o) = Len(ts)
    BY <1>1, <1>2
  <2>3. 1..Len(o) = {} /\ Len(ts) \in 0..Len(ts)
    BY <1>1, <2>2
  <2>4. Block(ts, n, f, base, o, Len(ts))
    BY <1>1, <2>1, <2>2, <2>3 DEF Block
  <2> QED
    BY <2>2, <2>3, <2>4, Zenon
<1>3. CASE o # <<>>
  <2>1. \A k \in 1..Len(ts) : ts[k].frame_count \in Nat
    BY DEF Ordered
  <2>2. Len(ts) > 0 /\ ts[Len(ts)].frame_count = n
    BY <1>3, <2>1, OnTop
  <2>3. PICK b \in 0..Len(ts) : Block(ts, n, f, base, o, b)
    BY DEF Holds
  <2> QED
    BY <2>2, <2>3, UpToTop
<1> QED
  BY <1>2, <1>3, Zenon

\* h is the handler g of frame n, which runs f with its slots from base on.
Pushed(h, n, f, base, g) ==
    h.frame_count = n /\ h.code = f /\ h.off = g.off /\ h.stack_top = base + g.depth

\* Pushing a handler of the last frame adds it to those of that frame.
LEMMA PushAdds ==
    ASSUME NEW S, NEW ts \in Seq(S), NEW h \in S, NEW n \in Nat \ {0}, NEW f, NEW base, NEW H,
           NEW o \in Seq(H), NEW g \in H,
           Ordered(ts, n), Holds(ts, n, f, base, o),
           Pushed(h, n, f, base, g)
    PROVE  Holds(Append(ts, h), n, f, base, Append(o, g))
<1> DEFINE t == Append(ts, h)
           q == Append(o, g)
<1>1. Len(t) = Len(ts) + 1 /\ t[Len(ts) + 1] = h /\ \A k \in 1..Len(ts) : t[k] = ts[k]
  OBVIOUS
<1>2. Len(q) = Len(o) + 1 /\ q[Len(o) + 1] = g /\ \A k \in 1..Len(o) : q[k] = o[k]
  OBVIOUS
<1>3. Len(ts) \in Nat /\ Len(o) \in Nat
  OBVIOUS
<1> HIDE DEF t, q
<1>4. PICK b \in 0..Len(ts) : Block(ts, n, f, base, o, b) /\ b + Len(o) = Len(ts)
  BY HeldToTop
<1>5. b \in Nat /\ h.frame_count = n
  BY <1>3 DEF Pushed
<1>6. ASSUME NEW k \in 1..Len(t)
      PROVE  t[k].frame_count = n <=> k \in b + 1..b + Len(q)
  <2>1. CASE k \in 1..Len(ts)
    <3>1. k \in b + 1..b + Len(o) <=> k \in b + 1..b + Len(q)
      BY <1>2, <1>3, <1>4, <1>5, <2>1
    <3> QED
      BY <1>1, <1>4, <2>1, <3>1 DEF Block
  <2>2. CASE k = Len(ts) + 1
    <3>1. k \in b + 1..b + Len(q)
      BY <1>2, <1>3, <1>4, <1>5, <2>2
    <3>2. t[k].frame_count = n
      BY <1>1, <1>5, <2>2
    <3> QED
      BY <3>1, <3>2
  <2> QED
    BY <1>1, <1>3, <2>1, <2>2
<1>7. ASSUME NEW k \in 1..Len(q)
      PROVE  /\ t[b + k].code = f
             /\ t[b + k].off = q[k].off
             /\ t[b + k].stack_top = base + q[k].depth
  <2>1. CASE k \in 1..Len(o)
    <3>1. b + k \in 1..Len(ts)
      BY <1>3, <1>4, <1>5, <2>1
    <3>2. t[b + k] = ts[b + k]
      BY <1>1, <1>3, <3>1
    <3>3. q[k] = o[k]
      BY <1>2, <1>3, <2>1
    <3> QED
      BY <1>4, <2>1, <3>2, <3>3, Zenon DEF Block
  <2>2. CASE k = Len(o) + 1
    <3>1. b + k = Len(ts) + 1
      BY <1>3, <1>4, <1>5, <2>2
    <3>2. t[b + k] = h
      BY <1>1, <3>1, Zenon
    <3>3. q[k] = g
      BY <1>2, <2>2, Zenon
    <3> QED
      BY <3>2, <3>3, Zenon DEF Pushed
  <2> QED
    BY <1>2, <1>3, <2>1, <2>2
<1>8. b + Len(q) <= Len(t) /\ b \in 0..Len(t)
  BY <1>1, <1>2, <1>3, <1>4, <1>5
<1>9. Block(t, n, f, base, q, b)
  BY <1>6, <1>7, <1>8 DEF Block
<1> QED
  BY <1>8, <1>9 DEF Holds, t, q

\* What is left of a sequence without its last element.
LEMMA FrontIsPrefix ==
    ASSUME NEW S, NEW s \in Seq(S), Len(s) > 0
    PROVE  /\ Front(s) \in Seq(S)
           /\ Len(Front(s)) = Len(s) - 1
           /\ \A k \in 1..Len(s) - 1 : Front(s)[k] = s[k]
<1>1. Len(s) \in Nat /\ Len(s) - 1 \in 0..Len(s)
  OBVIOUS
<1>2. PICK n \in 0..Len(s) : n = Len(s) - 1
  BY <1>1
<1>3. Front(s) = SubSeq(s, 1, n)
  BY <1>2 DEF Front
<1>4. /\ SubSeq(s, 1, n) \in Seq(S)
      /\ Len(SubSeq(s, 1, n)) = n
      /\ \A k \in 1..n : SubSeq(s, 1, n)[k] = s[k]
  BY <1>1
<1> QED
  BY <1>2, <1>3, <1>4

\* Taking the top handler leaves those of other frames where they are.
LEMMA FrontKeeps ==
    ASSUME NEW S, NEW ts \in Seq(S), NEW i, NEW f, NEW base, NEW H, NEW o \in Seq(H),
           Len(ts) > 0, ts[Len(ts)].frame_count # i, Holds(ts, i, f, base, o)
    PROVE  Holds(Front(ts), i, f, base, o)
<1> DEFINE t == Front(ts)
<1>1. Len(t) = Len(ts) - 1 /\ Len(ts) \in Nat /\ Len(o) \in Nat /\ t \in Seq(S)
  BY FrontIsPrefix
<1>2. \A k \in 1..Len(t) : t[k] = ts[k] /\ k \in 1..Len(ts)
  BY <1>1, FrontIsPrefix
<1> HIDE DEF t
<1>3. CASE o = <<>>
  <2>1. \A k \in 1..Len(ts) : ts[k].frame_count # i
    BY <1>3, NoneHeld
  <2>2. \A k \in 1..Len(t) : t[k].frame_count # i
    BY <1>2, <2>1
  <2>3. Holds(t, i, f, base, <<>>)
    BY <1>1, <2>2, NoneHeld
  <2> QED
    BY <1>3, <2>3 DEF t
<1>4. CASE Len(o) > 0
  <2>1. PICK b \in 0..Len(ts) : Block(ts, i, f, base, o, b)
    BY DEF Holds
  <2>2. b \in Nat /\ b + Len(o) <= Len(ts) /\ Len(ts) \in 1..Len(ts)
    BY <1>1, <2>1 DEF Block
  <2>3. Len(ts) \notin b + 1..b + Len(o)
    BY <2>1, <2>2 DEF Block
  <2>4. b + Len(o) <= Len(t) /\ b \in 0..Len(t)
    BY <1>1, <1>4, <2>2, <2>3
  <2>5. \A k \in 1..Len(t) : t[k].frame_count = i <=> k \in b + 1..b + Len(o)
    BY <1>2, <2>1 DEF Block
  <2>6. ASSUME NEW k \in 1..Len(o)
        PROVE  t[b + k].code = f /\ t[b + k].off = o[k].off /\ t[b + k].stack_top = base + o[k].depth
    <3>1. b + k \in 1..Len(t)
      BY <1>1, <2>2, <2>4
    <3> QED
      BY <1>2, <2>1, <3>1 DEF Block
  <2>7. Block(t, i, f, base, o, b)
    BY <2>4, <2>5, <2>6 DEF Block
  <2> QED
    BY <2>4, <2>7 DEF Holds, t
<1> QED
  BY <1>1, <1>3, <1>4

\* h is the handler on top of the try stack, and j its frame.
OnTryTop(ts, h, j) == Len(ts) > 0 /\ h = ts[Len(ts)] /\ j = h.frame_count

\* Taking the top handler takes the innermost one of the frame it belongs to, and the top
\* handler is what that frame's program says it is.
LEMMA FrontTakes ==
    ASSUME NEW S, NEW ts \in Seq(S), NEW h, NEW i, OnTryTop(ts, h, i),
           NEW f, NEW base, NEW H, NEW o \in Seq(H), Holds(ts, i, f, base, o)
    PROVE  /\ Len(o) > 0
           /\ h.code = f
           /\ h.off = Last(o).off
           /\ h.stack_top = base + Last(o).depth
           /\ Holds(Front(ts), i, f, base, Front(o))
<1>0. Len(ts) > 0 /\ ts[Len(ts)].frame_count = i
  BY DEF OnTryTop
<1>1. PICK b \in 0..Len(ts) : Block(ts, i, f, base, o, b)
  BY DEF Holds
<1>2. Len(o) > 0 /\ b + Len(o) = Len(ts)
  BY <1>0, <1>1, UpToTop
<1> DEFINE t == Front(ts)
           q == Front(o)
<1> HIDE DEF t, q
<1>3. Len(ts) \in Nat /\ Len(o) \in Nat /\ b \in Nat
  OBVIOUS
<1>4. Len(t) = Len(ts) - 1 /\ \A k \in 1..Len(ts) - 1 : t[k] = ts[k]
  BY <1>0, FrontIsPrefix DEF t
<1>5. Len(q) = Len(o) - 1 /\ \A k \in 1..Len(o) - 1 : q[k] = o[k]
  BY <1>2, FrontIsPrefix DEF q
<1>6. /\ \A k \in 1..Len(t) : t[k] = ts[k] /\ k \in 1..Len(ts)
      /\ \A k \in 1..Len(q) : q[k] = o[k] /\ k \in 1..Len(o)
  BY <1>3, <1>4, <1>5
<1>7. Len(o) \in 1..Len(o)
  BY <1>2, <1>3
<1>8. ts[b + Len(o)].code = f /\ ts[b + Len(o)].off = o[Len(o)].off
      /\ ts[b + Len(o)].stack_top = base + o[Len(o)].depth
  BY <1>1, <1>7 DEF Block
<1>9. b + Len(q) <= Len(t) /\ b \in 0..Len(t)
  BY <1>2, <1>3, <1>4, <1>5
<1>10. ASSUME NEW k \in 1..Len(t)
       PROVE  t[k].frame_count = i <=> k \in b + 1..b + Len(q)
  <2>1. k \in b + 1..b + Len(o) <=> k \in b + 1..b + Len(q)
    BY <1>2, <1>3, <1>4, <1>5
  <2> QED
    BY <1>1, <1>6, <2>1 DEF Block
<1>11. ASSUME NEW k \in 1..Len(q)
       PROVE  t[b + k].code = f /\ t[b + k].off = q[k].off /\ t[b + k].stack_top = base + q[k].depth
  <2>1. b + k \in 1..Len(t)
    BY <1>2, <1>3, <1>4, <1>5
  <2> QED
    BY <1>1, <1>6, <2>1 DEF Block
<1>12. Block(t, i, f, base, q, b)
  BY <1>9, <1>10, <1>11 DEF Block
<1>13. Holds(Front(ts), i, f, base, Front(o))
  BY <1>9, <1>12 DEF Holds, t, q
<1>14. h = ts[b + Len(o)] /\ Last(o) = o[Len(o)]
  BY <1>2 DEF OnTryTop, Last
<1> QED
  BY <1>2, <1>8, <1>13, <1>14

\* The frame of the top handler is the last one with a handler.
LEMMA FrontOrdered ==
    ASSUME NEW S, NEW ts \in Seq(S), NEW n \in Nat, Ordered(ts, n), Len(ts) > 0
    PROVE  /\ ts[Len(ts)].frame_count \in 1..n
           /\ Ordered(Front(ts), ts[Len(ts)].frame_count)
<1> DEFINE t == Front(ts)
           j == ts[Len(ts)].frame_count
<1>1. Len(t) = Len(ts) - 1 /\ Len(ts) \in Nat
  BY FrontIsPrefix
<1>2. \A k \in 1..Len(t) : t[k] = ts[k] /\ k \in 1..Len(ts)
  BY <1>1, FrontIsPrefix
<1>3. Len(ts) \in 1..Len(ts)
  BY <1>1
<1>4. j \in 1..n
  BY <1>3 DEF Ordered
<1> HIDE DEF t
<1>5. ASSUME NEW k \in 1..Len(t)
      PROVE  t[k].frame_count \in 1..j
  <2>1. ts[k].frame_count \in 1..n /\ k \in 1..Len(ts)
    BY <1>2 DEF Ordered
  <2>2. ts[k].frame_count <= j
    BY <1>1, <1>3, <2>1 DEF Ordered
  <2> QED
    BY <1>2, <1>4, <2>1, <2>2
<1>6. ASSUME NEW k \in 1..Len(t), NEW m \in 1..k
      PROVE  t[m].frame_count <= t[k].frame_count
  <2>1. m \in 1..Len(t)
    BY <1>1
  <2> QED
    BY <1>2, <2>1 DEF Ordered
<1> QED
  BY <1>4, <1>5, <1>6 DEF Ordered, t

----------------------------------------------------------------------------
(* The frames                                                              *)

\* What the running program's code is made of.
LEMMA CodeTyped ==
    ASSUME NEW im \in Images, WellAnnotated(im), NEW f \in DOMAIN im,
           NEW k \in 1..Len(im[f].code)
    PROVE  /\ im[f].code \in Seq(Instruction)
           /\ Len(im[f].code) \in Nat
           /\ im[f].code[k] \in Instruction
           /\ im[f].code[k].depth \in Nat
           /\ im[f].code[k].open \in Seq(Handler)
           /\ im[f].code[k].n \in Int
           /\ Annotated(im, f, k, im[f].code[k])
<1>1. im[f].code \in Seq(Instruction) /\ Annotated(im, f, k, im[f].code[k])
  BY DEF WellAnnotated
<1>2. Len(im[f].code) \in Nat /\ im[f].code[k] \in Instruction
  BY <1>1
<1> QED
  BY <1>1, <1>2 DEF Instruction

\* The fields of a frame.
LEMMA FrameTyped ==
    ASSUME NEW im, NEW fr \in Arrays(im), NEW i \in 1..MaxCallDepth
    PROVE  fr[i].fn \in DOMAIN im /\ fr[i].code \in DOMAIN im /\ fr[i].off \in Nat /\ fr[i].base \in Nat
<1>1. fr[i] \in Frame(im)
  BY DEF Arrays
<1> QED
  BY <1>1 DEF Frame

\* Frame j goes on where its program is in d slots and the handlers o: below it nothing
\* changed, and the try stack holds the handlers of frames 1..j.
Resumption(im, fr, j, fr2, ts2, d, o) ==
    /\ fr2 \in Arrays(im)
    /\ ts2 \in Seq(Try(im))
    /\ \A i \in 1..j - 1 : fr2[i] = fr[i]
    /\ fr2[j].base = fr[j].base
    /\ fr2[j].code = fr2[j].fn
    /\ fr2[j].fn = "main" <=> fr[j].fn = "main"
    /\ At(im[fr2[j].fn].code, fr2[j].off, d, o)
    /\ Ordered(ts2, j)
    /\ Holds(ts2, j, fr2[j].fn, fr[j].base, o)
    /\ \A i \in 1..j - 1 : Holds(ts2, i, fr[i].fn, fr[i].base, NextOf(im, fr, i).open)

\* The number of try blocks of frame j alone may differ after a resumption.
ActsFrom(im, fr, n, j, c) == [i \in 1..j |-> IF i = j THEN c ELSE Acts(im, fr, n)[i]]

\* A resumption keeps the invariant.
LEMMA Resumes ==
    ASSUME NEW im \in Images, WellAnnotated(im),
           NEW fr, NEW n, NEW top, NEW ts, Running(im, fr, n, top, ts),
           NEW j \in 1..n, NEW fr2, NEW ts2, NEW d, NEW o,
           Resumption(im, fr, j, fr2, ts2, d, o)
    PROVE  /\ Running(im, fr2, j, fr[j].base + d, ts2)
           /\ Len(Acts(im, fr2, j)) = j
           /\ Acts(im, fr2, j) = ActsFrom(im, fr, n, j, Len(o))
<1> USE DEF Resumption
<1>1. /\ n \in 1..MaxCallDepth /\ fr \in Arrays(im)
      /\ MaxCallDepth \in Nat /\ j \in 1..MaxCallDepth /\ j \in Nat /\ n \in Nat
  BY LimitsAssumption DEF Running, Typed
<1>2. NextOf(im, fr2, j).depth = d /\ NextOf(im, fr2, j).open = o
  BY DEF At, NextOf
<1>3. \A i \in 1..j - 1 : NextOf(im, fr2, i) = NextOf(im, fr, i) /\ i \in 1..n
  BY <1>1 DEF NextOf
<1>4. fr2[j].fn \in DOMAIN im /\ fr[j].base \in Nat /\ fr2[j].off \in 1..Len(im[fr2[j].fn].code)
  BY <1>1, FrameTyped DEF At
<1>5. d \in Nat
  BY <1>2, <1>4, CodeTyped DEF NextOf
<1>6. Typed(im, fr2, j, fr[j].base + d, ts2)
  BY <1>1, <1>4, <1>5 DEF Typed
<1>7. ASSUME NEW i \in 1..j
      PROVE  FrameInv(im, fr2, i)
  <2>1. i \in 1..n /\ FrameInv(im, fr, i)
    BY <1>1 DEF Running, Stacked
  <2>2. CASE i = j
    BY <1>4, <2>1, <2>2 DEF FrameInv
  <2>3. CASE i \in 1..j - 1
    BY <2>1, <2>3 DEF FrameInv
  <2> QED
    BY <1>1, <2>2, <2>3
<1>8. ASSUME NEW i \in 1..j - 1
      PROVE  fr2[i + 1].base = fr2[i].base + NextOf(im, fr2, i).depth /\ fr2[i + 1].base > 0
  <2>1. fr[i + 1].base = fr[i].base + NextOf(im, fr, i).depth /\ fr[i + 1].base > 0
    <3>1. i \in 1..n - 1
      BY <1>1
    <3>2. Stacked(im, fr, n, top)
      BY DEF Running
    <3> QED
      BY <3>1, <3>2 DEF Stacked
  <2>2. fr2[i + 1].base = fr[i + 1].base
    <3>1. i + 1 \in 1..j - 1 \/ i + 1 = j
      BY <1>1
    <3> QED
      BY <3>1
  <2> QED
    BY <1>3, <2>1, <2>2
<1>9. Stacked(im, fr2, j, fr[j].base + d)
  BY <1>2, <1>7, <1>8 DEF Stacked
<1>10. ASSUME NEW i \in 1..j
       PROVE  Holds(ts2, i, fr2[i].fn, fr2[i].base, NextOf(im, fr2, i).open)
  <2>1. CASE i = j
    BY <1>2, <2>1
  <2>2. CASE i \in 1..j - 1
    <3>1. fr2[i] = fr[i] /\ NextOf(im, fr2, i) = NextOf(im, fr, i)
      BY <1>3, <2>2
    <3>2. Holds(ts2, i, fr[i].fn, fr[i].base, NextOf(im, fr, i).open)
      BY <2>2
    <3> QED
      BY <3>1, <3>2
  <2> QED
    BY <1>1, <2>1, <2>2
<1>11. Handled(im, fr2, j, ts2)
  BY <1>10 DEF Handled
<1>12. Acts(im, fr2, j) = ActsFrom(im, fr, n, j, Len(o))
  <2>1. ASSUME NEW i \in 1..j
        PROVE  Len(NextOf(im, fr2, i).open) = IF i = j THEN Len(o) ELSE Acts(im, fr, n)[i]
    <3>1. i \in 1..n /\ (i = j \/ i \in 1..j - 1)
      BY <1>1
    <3> QED
      BY <1>2, <1>3, <3>1 DEF Acts
  <2> QED
    BY <2>1 DEF Acts, ActsFrom
<1>13. Len(Acts(im, fr2, j)) = j
  BY <1>1 DEF Acts
<1> QED
  BY <1>6, <1>9, <1>11, <1>12, <1>13 DEF Running

Placed(fr, j, k) == [fr EXCEPT ![j].off = k]

\* The ways the machine sets the offset of a frame: a jump, an unwinding, going on.
ByJump(fr, j, k) == [fr EXCEPT ![j].off = k, ![j].code = fr[j].fn]
ByUnwinding(fr, j, c, k) == [fr EXCEPT ![j].code = c, ![j].off = k]
ByAdvance(fr, j) == [fr EXCEPT ![j].off = @ + 1]

\* They come to the same while the frame runs the chunk of its function.
LEMMA Placing ==
    ASSUME NEW im, NEW fr \in Arrays(im), NEW j \in 1..MaxCallDepth,
           NEW k \in Nat, fr[j].code = fr[j].fn
    PROVE  /\ ByJump(fr, j, k) = Placed(fr, j, k)
           /\ ByUnwinding(fr, j, fr[j].fn, k) = Placed(fr, j, k)
           /\ ByAdvance(fr, j) = Placed(fr, j, fr[j].off + 1)
<1> USE DEF Arrays, ByJump, ByUnwinding, ByAdvance
<1>1. PICK r \in Frame(im) : r = fr[j]
  OBVIOUS
<1>2. r.code = r.fn
  BY <1>1
<1>3. [[r EXCEPT !.off = k] EXCEPT !.code = r.fn] = [r EXCEPT !.off = k]
  BY <1>2 DEF Frame
<1>4. [[r EXCEPT !.code = r.fn] EXCEPT !.off = k] = [r EXCEPT !.off = k]
  BY <1>2 DEF Frame
<1>5. ByJump(fr, j, k) = Placed(fr, j, k)
  BY <1>1, <1>3 DEF Placed
<1>6. ByUnwinding(fr, j, fr[j].fn, k) = Placed(fr, j, k)
  BY <1>1, <1>4 DEF Placed
<1>7. ByAdvance(fr, j) = Placed(fr, j, fr[j].off + 1)
  BY <1>1 DEF Placed
<1> QED
  BY <1>5, <1>6, <1>7

\* Setting the offset of a frame changes nothing else.
LEMMA PlacedFrame ==
    ASSUME NEW im, NEW fr \in Arrays(im), NEW j \in 1..MaxCallDepth,
           NEW k \in Nat
    PROVE  /\ Placed(fr, j, k) \in Arrays(im)
           /\ \A i \in 1..j - 1 : Placed(fr, j, k)[i] = fr[i]
           /\ Placed(fr, j, k)[j].fn = fr[j].fn
           /\ Placed(fr, j, k)[j].code = fr[j].code
           /\ Placed(fr, j, k)[j].base = fr[j].base
           /\ Placed(fr, j, k)[j].off = k
<1>0. \A i \in 1..j - 1 : i \in 1..MaxCallDepth /\ i # j
  BY LimitsAssumption
<1> USE DEF Arrays
<1>1. PICK r \in Frame(im) : r = fr[j]
  OBVIOUS
<1>2. /\ [r EXCEPT !.off = k] \in Frame(im)
      /\ [r EXCEPT !.off = k].fn = r.fn
      /\ [r EXCEPT !.off = k].code = r.code
      /\ [r EXCEPT !.off = k].base = r.base
      /\ [r EXCEPT !.off = k].off = k
  BY DEF Frame
<1>3. Placed(fr, j, k) = [fr EXCEPT ![j] = [r EXCEPT !.off = k]]
  BY <1>1 DEF Placed
<1>4. Placed(fr, j, k)[j] = [r EXCEPT !.off = k]
  BY <1>3
<1>5. /\ Placed(fr, j, k) \in Arrays(im)
      /\ \A i \in 1..j - 1 : Placed(fr, j, k)[i] = fr[i]
  BY <1>0, <1>2, <1>3
<1> QED
  BY <1>1, <1>2, <1>4, <1>5

\* The running frame goes on at k, with the try stack as it is.
LEMMA GoesOn ==
    ASSUME NEW im \in Images, WellAnnotated(im),
           NEW fr, NEW n, NEW top, NEW ts, Running(im, fr, n, top, ts),
           NEW k, NEW d, At(im[fr[n].fn].code, k, d, NextOf(im, fr, n).open)
    PROVE  /\ Running(im, Placed(fr, n, k), n, fr[n].base + d, ts)
           /\ Acts(im, Placed(fr, n, k), n) = Acts(im, fr, n)
<1>1. /\ n \in 1..MaxCallDepth /\ fr \in Arrays(im)
      /\ MaxCallDepth \in Nat /\ n \in Nat /\ n \in 1..n /\ ts \in Seq(Try(im))
  BY LimitsAssumption DEF Running, Typed
<1>2. k \in Nat
  <2>1. fr[n].fn \in DOMAIN im
    BY <1>1, FrameTyped
  <2>2. Len(im[fr[n].fn].code) \in Nat
    BY <2>1 DEF WellAnnotated
  <2> QED
    BY <2>2 DEF At
<1> DEFINE g == Placed(fr, n, k)
<1> HIDE DEF g
<1>3. /\ g \in Arrays(im)
      /\ \A i \in 1..n - 1 : g[i] = fr[i]
      /\ g[n].fn = fr[n].fn /\ g[n].code = fr[n].code /\ g[n].base = fr[n].base /\ g[n].off = k
  <2>1. fr \in Arrays(im) /\ n \in 1..MaxCallDepth
    BY <1>1
  <2>2. /\ Placed(fr, n, k) \in Arrays(im)
        /\ \A i \in 1..n - 1 : Placed(fr, n, k)[i] = fr[i]
        /\ Placed(fr, n, k)[n].fn = fr[n].fn
        /\ Placed(fr, n, k)[n].code = fr[n].code
        /\ Placed(fr, n, k)[n].base = fr[n].base
        /\ Placed(fr, n, k)[n].off = k
    BY <1>2, <2>1, PlacedFrame
  <2> QED
    BY <2>2 DEF g
<1>4. fr[n].code = fr[n].fn
  BY <1>1 DEF Running, Stacked, FrameInv
<1>5. Ordered(ts, n) /\ \A i \in 1..n : Holds(ts, i, fr[i].fn, fr[i].base, NextOf(im, fr, i).open)
  BY DEF Running, Handled
<1>6. /\ \A i \in 1..n - 1 : Holds(ts, i, fr[i].fn, fr[i].base, NextOf(im, fr, i).open)
      /\ Holds(ts, n, g[n].fn, fr[n].base, NextOf(im, fr, n).open)
  BY <1>1, <1>3, <1>5
<1>7. At(im[g[n].fn].code, g[n].off, d, NextOf(im, fr, n).open)
  BY <1>3
<1>8. Resumption(im, fr, n, g, ts, d, NextOf(im, fr, n).open)
  BY <1>1, <1>3, <1>4, <1>5, <1>6, <1>7 DEF Resumption
<1>9. /\ Running(im, g, n, fr[n].base + d, ts)
      /\ Acts(im, g, n) = ActsFrom(im, fr, n, n, Len(NextOf(im, fr, n).open))
  BY <1>1, <1>8, Resumes
<1>10. Acts(im, g, n) = Acts(im, fr, n)
  BY <1>9 DEF Acts, ActsFrom
<1> QED
  BY <1>9, <1>10 DEF g

\* Facts about every frame of a running program.
LEMMA FrameFacts ==
    ASSUME NEW im \in Images, WellAnnotated(im),
           NEW fr, NEW n, NEW top, NEW ts, Running(im, fr, n, top, ts), NEW j \in 1..n
    PROVE  /\ n \in 1..MaxCallDepth /\ n \in Nat /\ j \in 1..MaxCallDepth
           /\ fr \in Arrays(im)
           /\ ts \in Seq(Try(im))
           /\ fr[j].fn \in DOMAIN im /\ fr[j].code = fr[j].fn /\ fr[j].base \in Nat
           /\ fr[j].off \in 1..Len(im[fr[j].fn].code)
           /\ fr[j].fn = "main" <=> j = 1
           /\ NextOf(im, fr, j) = im[fr[j].fn].code[fr[j].off]
           /\ NextOf(im, fr, j) \in Instruction
           /\ NextOf(im, fr, j).depth \in Nat
           /\ NextOf(im, fr, j).open \in Seq(Handler)
           /\ NextOf(im, fr, j).n \in Int
           /\ Annotated(im, fr[j].fn, fr[j].off, NextOf(im, fr, j))
           /\ Ordered(ts, n)
           /\ Holds(ts, j, fr[j].fn, fr[j].base, NextOf(im, fr, j).open)
           /\ Acts(im, fr, n)[j] = Len(NextOf(im, fr, j).open)
<1>1. /\ n \in 1..MaxCallDepth /\ n \in Nat /\ j \in 1..MaxCallDepth
      /\ fr \in Arrays(im) /\ ts \in Seq(Try(im))
  BY LimitsAssumption DEF Running, Typed
<1>2. FrameInv(im, fr, j)
  BY DEF Running, Stacked
<1>3. fr[j].fn \in DOMAIN im /\ fr[j].base \in Nat
  BY <1>1, FrameTyped
<1>4. fr[j].code = fr[j].fn /\ fr[j].off \in 1..Len(im[fr[j].fn].code) /\ (fr[j].fn = "main" <=> j = 1)
  BY <1>2 DEF FrameInv
<1>5. NextOf(im, fr, j) = im[fr[j].fn].code[fr[j].off]
  BY DEF NextOf
<1>6. /\ im[fr[j].fn].code[fr[j].off] \in Instruction
      /\ im[fr[j].fn].code[fr[j].off].depth \in Nat
      /\ im[fr[j].fn].code[fr[j].off].open \in Seq(Handler)
      /\ im[fr[j].fn].code[fr[j].off].n \in Int
      /\ Annotated(im, fr[j].fn, fr[j].off, im[fr[j].fn].code[fr[j].off])
  BY <1>3, <1>4, CodeTyped
<1>7. Ordered(ts, n) /\ Holds(ts, j, fr[j].fn, fr[j].base, NextOf(im, fr, j).open)
  BY DEF Running, Handled
<1>8. Acts(im, fr, n)[j] = Len(NextOf(im, fr, j).open)
  BY DEF Acts
<1> QED
  BY <1>1, <1>3, <1>4, <1>5, <1>6, <1>7, <1>8, Zenon

\* An offset of a chunk is a number.
LEMMA OffsetTyped ==
    ASSUME NEW im \in Images, WellAnnotated(im), NEW f \in DOMAIN im, NEW k, NEW d, NEW o,
           At(im[f].code, k, d, o)
    PROVE  k \in Nat /\ d \in Nat /\ o \in Seq(Handler)
<1>1. Len(im[f].code) \in Nat /\ k \in 1..Len(im[f].code)
  BY DEF WellAnnotated, At
<1> QED
  BY <1>1, CodeTyped DEF At

\* The running frame enters a try block.
LEMMA HandlerPushed ==
    ASSUME NEW im \in Images, WellAnnotated(im),
           NEW fr, NEW n, NEW top, NEW ts, Running(im, fr, n, top, ts),
           NEW k, NEW d, NEW g \in Handler,
           At(im[fr[n].fn].code, k, d, Append(NextOf(im, fr, n).open, g)),
           NEW h \in Try(im), h.code = fr[n].fn, h.off = g.off,
           h.stack_top = fr[n].base + g.depth, h.frame_count = n
    PROVE  /\ Running(im, Placed(fr, n, k), n, fr[n].base + d, Append(ts, h))
           /\ Acts(im, Placed(fr, n, k), n) = ActsFrom(im, fr, n, n, Acts(im, fr, n)[n] + 1)
<1>1. n \in 1..n
  BY LimitsAssumption DEF Running, Typed
<1>2. /\ n \in 1..MaxCallDepth /\ n \in Nat \ {0} /\ ts \in Seq(Try(im))
      /\ fr \in Arrays(im)
      /\ fr[n].fn \in DOMAIN im /\ fr[n].code = fr[n].fn
      /\ NextOf(im, fr, n).open \in Seq(Handler)
      /\ Ordered(ts, n)
      /\ Holds(ts, n, fr[n].fn, fr[n].base, NextOf(im, fr, n).open)
      /\ Acts(im, fr, n)[n] = Len(NextOf(im, fr, n).open)
  BY <1>1, FrameFacts
<1>3. k \in Nat
  BY <1>2, OffsetTyped
<1> DEFINE p == Placed(fr, n, k)
           o == Append(NextOf(im, fr, n).open, g)
           t == Append(ts, h)
<1>4. /\ p \in Arrays(im)
      /\ \A i \in 1..n - 1 : p[i] = fr[i]
      /\ p[n].fn = fr[n].fn /\ p[n].code = fr[n].code /\ p[n].base = fr[n].base /\ p[n].off = k
  <2>1. fr \in Arrays(im) /\ n \in 1..MaxCallDepth /\ k \in Nat
    BY <1>2, <1>3
  <2> QED
    BY <2>1, PlacedFrame
<1>5. Ordered(t, n)
  BY <1>2, PushOrdered
<1>6. Holds(t, n, fr[n].fn, fr[n].base, o)
  BY <1>2, PushAdds DEF Pushed
<1>7. ASSUME NEW i \in 1..n - 1
      PROVE  Holds(t, i, fr[i].fn, fr[i].base, NextOf(im, fr, i).open)
  <2>1. i \in 1..n /\ i # n
    BY <1>2
  <2>2. /\ NextOf(im, fr, i).open \in Seq(Handler)
        /\ Holds(ts, i, fr[i].fn, fr[i].base, NextOf(im, fr, i).open)
    BY <2>1, FrameFacts
  <2> QED
    BY <1>2, <2>1, <2>2, PushKeeps
<1>8. t \in Seq(Try(im)) /\ Len(o) = Acts(im, fr, n)[n] + 1
  BY <1>2
<1> HIDE DEF p, t
<1>9. Resumption(im, fr, n, p, t, d, o)
  BY <1>2, <1>4, <1>5, <1>6, <1>7, <1>8 DEF Resumption
<1> HIDE DEF o
<1>10. Running(im, p, n, fr[n].base + d, t) /\ Acts(im, p, n) = ActsFrom(im, fr, n, n, Len(o))
  BY <1>1, <1>9, Resumes
<1> QED
  BY <1>8, <1>10 DEF p, t

\* The frame of the top handler goes on without it.
LEMMA Takes ==
    ASSUME NEW im \in Images, WellAnnotated(im),
           NEW fr, NEW n, NEW top, NEW ts, Running(im, fr, n, top, ts),
           NEW h, NEW j \in 1..n, OnTryTop(ts, h, j),
           NEW k, NEW d, At(im[fr[j].fn].code, k, d, Front(NextOf(im, fr, j).open))
    PROVE  /\ Running(im, Placed(fr, j, k), j, fr[j].base + d, Front(ts))
           /\ Acts(im, Placed(fr, j, k), j) = ActsFrom(im, fr, n, j, Acts(im, fr, n)[j] - 1)
           /\ Acts(im, fr, n)[j] > 0
<1>1. /\ n \in 1..MaxCallDepth /\ n \in Nat /\ j \in 1..MaxCallDepth /\ j \in Nat
      /\ ts \in Seq(Try(im))
      /\ fr \in Arrays(im)
      /\ fr[j].fn \in DOMAIN im /\ fr[j].code = fr[j].fn
      /\ NextOf(im, fr, j).open \in Seq(Handler)
      /\ Ordered(ts, n)
      /\ Holds(ts, j, fr[j].fn, fr[j].base, NextOf(im, fr, j).open)
      /\ Acts(im, fr, n)[j] = Len(NextOf(im, fr, j).open)
  BY FrameFacts
<1>2. k \in Nat
  BY <1>1, OffsetTyped
<1> DEFINE p == Placed(fr, j, k)
           o == NextOf(im, fr, j).open
           t == Front(ts)
<1>3. /\ p \in Arrays(im)
      /\ \A i \in 1..j - 1 : p[i] = fr[i]
      /\ p[j].fn = fr[j].fn /\ p[j].code = fr[j].code /\ p[j].base = fr[j].base /\ p[j].off = k
  <2>1. fr \in Arrays(im) /\ k \in Nat
    BY <1>1, <1>2
  <2>2. PICK m \in 1..MaxCallDepth : m = j
    BY <1>1
  <2>3. /\ Placed(fr, m, k) \in Arrays(im)
        /\ \A i \in 1..m - 1 : Placed(fr, m, k)[i] = fr[i]
        /\ Placed(fr, m, k)[m].fn = fr[m].fn /\ Placed(fr, m, k)[m].code = fr[m].code
        /\ Placed(fr, m, k)[m].base = fr[m].base /\ Placed(fr, m, k)[m].off = k
    BY <2>1, PlacedFrame
  <2> QED
    BY <2>2, <2>3
<1>4. Len(ts) > 0 /\ ts[Len(ts)].frame_count = j /\ Ordered(t, j)
  BY <1>1, FrontOrdered DEF OnTryTop
<1>5. Holds(t, j, fr[j].fn, fr[j].base, Front(o)) /\ Len(o) > 0
  <2>1. ts \in Seq(Try(im)) /\ o \in Seq(Handler) /\ Holds(ts, j, fr[j].fn, fr[j].base, o)
    BY <1>1
  <2> HIDE DEF o
  <2> QED
    BY <2>1, FrontTakes
<1>6. ASSUME NEW i \in 1..j - 1
      PROVE  Holds(t, i, fr[i].fn, fr[i].base, NextOf(im, fr, i).open)
  <2>1. i \in 1..n /\ i # j
    BY <1>1
  <2>2. /\ NextOf(im, fr, i).open \in Seq(Handler)
        /\ Holds(ts, i, fr[i].fn, fr[i].base, NextOf(im, fr, i).open)
    BY <2>1, FrameFacts
  <2> QED
    BY <1>1, <1>4, <2>1, <2>2, FrontKeeps
<1>7. t \in Seq(Try(im)) /\ Len(Front(o)) = Acts(im, fr, n)[j] - 1
  BY <1>1, <1>4, <1>5, FrontIsPrefix
<1> HIDE DEF p, t
<1>8. Resumption(im, fr, j, p, t, d, Front(o))
  BY <1>1, <1>3, <1>4, <1>5, <1>6, <1>7 DEF Resumption
<1>9. Running(im, p, j, fr[j].base + d, t) /\ Acts(im, p, j) = ActsFrom(im, fr, n, j, Len(Front(o)))
  BY <1>8, Resumes
<1> QED
  BY <1>1, <1>5, <1>7, <1>9 DEF p, t

\* The try blocks of the activations, as a sequence.
LEMMA ActsTyped ==
    ASSUME NEW im \in Images, WellAnnotated(im),
           NEW fr, NEW n, NEW top, NEW ts, Running(im, fr, n, top, ts)
    PROVE  Acts(im, fr, n) \in Seq(Nat) /\ Len(Acts(im, fr, n)) = n
<1>1. n \in Nat
  BY LimitsAssumption DEF Running, Typed
<1>2. \A i \in 1..n : Len(NextOf(im, fr, i).open) \in Nat
  BY FrameFacts
<1> QED
  BY <1>1, <1>2 DEF Acts

\* What appending an element gives.
LEMMA AppendAsFunction ==
    ASSUME NEW S, NEW s \in Seq(S), NEW e \in S
    PROVE  Append(s, e) = [i \in 1..Len(s) + 1 |-> IF i = Len(s) + 1 THEN e ELSE s[i]]
<1>1. Append(s, e) \in Seq(S)
  OBVIOUS
<1> DEFINE t == Append(s, e)
<1>2. /\ Len(t) = Len(s) + 1
      /\ \A i \in 1..Len(s) + 1 : t[i] = IF i = Len(s) + 1 THEN e ELSE s[i]
  OBVIOUS
<1> HIDE DEF t
<1>3. t = [i \in 1..Len(t) |-> t[i]]
  BY <1>1, LenProperties DEF t
<1> QED
  BY <1>2, <1>3 DEF t

\* The last of some elements is one of them.
LEMMA LastIn ==
    ASSUME NEW S, NEW s \in Seq(S), Len(s) > 0
    PROVE  Last(s) \in S
<1>1. Len(s) \in 1..Len(s)
  OBVIOUS
<1> QED
  BY <1>1 DEF Last

\* The top handler is what the program of its frame says it is: where that frame's innermost
\* catch clause begins, with the slots the program counts there.
LEMMA TopHandler ==
    ASSUME NEW im \in Images, NEW f, NEW k, NEW i, Annotated(im, f, k, i),
           i.open \in Seq(Handler),
           NEW S, NEW ts \in Seq(S), NEW h, NEW j, OnTryTop(ts, h, j),
           NEW base, base \in Nat, Holds(ts, j, f, base, i.open)
    PROVE  /\ Last(i.open).depth \in Nat
           /\ At(im[f].code, h.off, Last(i.open).depth + 1, Front(i.open))
<1>1. Len(i.open) > 0 /\ h.off = Last(i.open).off
  BY FrontTakes
<1>2. Last(i.open) \in Handler
  BY <1>1, LastIn
<1>3. Last(i.open).depth \in Nat
  BY <1>2 DEF Handler
<1>4. i.open # <<>>
  BY <1>1
<1>5. At(im[f].code, Last(i.open).off, Last(i.open).depth + 1, Front(i.open))
  BY <1>4, Zenon DEF Annotated
<1> QED
  BY <1>1, <1>3, <1>5

\* An error unwinds to the frame of the top handler, which is the innermost frame in a try
\* block, and that frame goes on in its catch clause with the error above its slots.
LEMMA Unwinds ==
    ASSUME NEW im \in Images, WellAnnotated(im),
           NEW fr, NEW n, NEW top, NEW ts, Running(im, fr, n, top, ts),
           NEW h, NEW j, OnTryTop(ts, h, j)
    PROVE  /\ j \in 1..n
           /\ h.code = fr[j].fn
           /\ h.off \in Nat
           /\ Running(im, Placed(fr, j, h.off), j, h.stack_top + 1, Front(ts))
           /\ Acts(im, Placed(fr, j, h.off), j) = ActsFrom(im, fr, n, j, Acts(im, fr, n)[j] - 1)
           /\ Acts(im, fr, n)[j] > 0
           /\ h.stack_top = fr[j].base + Last(NextOf(im, fr, j).open).depth
           /\ \A i \in j + 1..n : Acts(im, fr, n)[i] = 0
<1>1. n \in Nat /\ n \in 1..n /\ ts \in Seq(Try(im))
  BY LimitsAssumption DEF Running, Typed
<1>2. Ordered(ts, n)
  BY DEF Running, Handled
<1>3. Len(ts) > 0 /\ ts[Len(ts)].frame_count = j /\ j \in 1..n /\ Ordered(Front(ts), j)
  BY <1>1, <1>2, FrontOrdered DEF OnTryTop
<1>4. /\ fr[j].fn \in DOMAIN im /\ fr[j].base \in Nat
      /\ NextOf(im, fr, j) = im[fr[j].fn].code[fr[j].off]
      /\ NextOf(im, fr, j).open \in Seq(Handler)
      /\ Annotated(im, fr[j].fn, fr[j].off, NextOf(im, fr, j))
      /\ Holds(ts, j, fr[j].fn, fr[j].base, NextOf(im, fr, j).open)
  BY <1>3, FrameFacts
<1>5. PICK f, i, base : f = fr[j].fn /\ i = NextOf(im, fr, j) /\ base = fr[j].base
  OBVIOUS
<1>6. /\ Annotated(im, f, fr[j].off, i) /\ i.open \in Seq(Handler)
      /\ base \in Nat /\ f \in DOMAIN im /\ Holds(ts, j, f, base, i.open)
  BY <1>4, <1>5, Zenon
<1>7. /\ Last(i.open).depth \in Nat /\ h.code = f
      /\ h.stack_top = base + Last(i.open).depth
      /\ At(im[f].code, h.off, Last(i.open).depth + 1, Front(i.open))
  <2>1. h.code = f /\ h.stack_top = base + Last(i.open).depth
    BY <1>1, <1>6, FrontTakes
  <2>2. /\ Last(i.open).depth \in Nat
        /\ At(im[f].code, h.off, Last(i.open).depth + 1, Front(i.open))
    BY <1>1, <1>6, TopHandler
  <2> QED
    BY <2>1, <2>2
<1>8. h.off \in Nat
  BY <1>6, <1>7, OffsetTyped
<1>9. /\ Running(im, Placed(fr, j, h.off), j, h.stack_top + 1, Front(ts))
      /\ Acts(im, Placed(fr, j, h.off), j) = ActsFrom(im, fr, n, j, Acts(im, fr, n)[j] - 1)
      /\ Acts(im, fr, n)[j] > 0
  <2>1. PICK p, d : p = h.off /\ d = Last(i.open).depth + 1
    OBVIOUS
  <2>2. At(im[fr[j].fn].code, p, d, Front(NextOf(im, fr, j).open))
    BY <1>5, <1>7, <2>1
  <2>3. /\ Running(im, Placed(fr, j, p), j, fr[j].base + d, Front(ts))
        /\ Acts(im, Placed(fr, j, p), j) = ActsFrom(im, fr, n, j, Acts(im, fr, n)[j] - 1)
        /\ Acts(im, fr, n)[j] > 0
    BY <1>3, <2>2, Takes
  <2>4. h.stack_top + 1 = fr[j].base + d
    <3>1. PICK a, b \in Nat : a = base /\ b = Last(i.open).depth
      BY <1>6, <1>7
    <3>2. h.stack_top = a + b /\ fr[j].base = a /\ d = b + 1
      BY <1>5, <1>7, <2>1, <3>1
    <3>3. (a + b) + 1 = a + (b + 1)
      OBVIOUS
    <3> QED
      BY <3>2, <3>3, Zenon
  <2> QED
    BY <2>1, <2>3, <2>4, Zenon
<1>10. h.code = fr[j].fn /\ h.stack_top = fr[j].base + Last(NextOf(im, fr, j).open).depth
  BY <1>5, <1>7
<1>11. ASSUME NEW m \in j + 1..n
       PROVE  Acts(im, fr, n)[m] = 0
  <2>1. m \in 1..n /\ m > j
    BY <1>1, <1>3
  <2>2. /\ NextOf(im, fr, m).open \in Seq(Handler)
        /\ Holds(ts, m, fr[m].fn, fr[m].base, NextOf(im, fr, m).open)
        /\ Acts(im, fr, n)[m] = Len(NextOf(im, fr, m).open)
    BY <2>1, FrameFacts
  <2>3. PICK b \in 0..Len(ts) : Block(ts, m, fr[m].fn, fr[m].base, NextOf(im, fr, m).open, b)
    BY <2>2 DEF Holds
  <2>4. ASSUME Len(NextOf(im, fr, m).open) > 0
        PROVE  FALSE
    <3>1. Len(NextOf(im, fr, m).open) \in Nat /\ Len(ts) \in Nat /\ b \in Nat
      BY <2>2, <1>1
    <3>2. b + Len(NextOf(im, fr, m).open) <= Len(ts)
      BY <2>3 DEF Block
    <3>3. b + 1 \in 1..Len(ts) /\ b + 1 \in b + 1..b + Len(NextOf(im, fr, m).open)
      BY <2>4, <3>1, <3>2
    <3>4. ts[b + 1].frame_count = m
      BY <2>3, <3>3 DEF Block
    <3>5. b + 1 \in 1..Len(ts) /\ Len(ts) \in 1..Len(ts) /\ b + 1 \in 1..Len(ts)
      BY <3>1, <3>3
    <3>6. ts[b + 1].frame_count <= ts[Len(ts)].frame_count
      BY <1>2, <3>5 DEF Ordered
    <3> QED
      BY <1>3, <2>1, <3>4, <3>6
  <2> QED
    BY <2>2, <2>4
<1> QED
  BY <1>3, <1>8, <1>9, <1>10, <1>11

Called(f, base) == [fn |-> f, code |-> f, off |-> 1, base |-> base]

With(fr, i, r) == [fr EXCEPT ![i] = r]

\* A call: the slots below the arguments are the caller's, the arguments the callee's.
LEMMA Enters ==
    ASSUME NEW im \in Images, WellAnnotated(im),
           NEW fr, NEW n, NEW top, NEW ts, Running(im, fr, n, top, ts),
           top > 0, n < MaxCallDepth, NEW f \in DOMAIN im \ {"main"}
    PROVE  /\ Running(im, With(fr, n + 1, Called(f, top)), n + 1, top + im[f].arity, ts)
           /\ Acts(im, With(fr, n + 1, Called(f, top)), n + 1) = Append(Acts(im, fr, n), 0)
<1> DEFINE g == With(fr, n + 1, Called(f, top))
<1>1. /\ n \in 1..MaxCallDepth /\ n \in Nat \ {0} /\ MaxCallDepth \in Nat /\ top \in Nat
      /\ fr \in Arrays(im) /\ ts \in Seq(Try(im)) /\ n + 1 \in 1..MaxCallDepth
  BY LimitsAssumption DEF Running, Typed
<1>2. Called(f, top) \in Frame(im)
  BY <1>1 DEF Called, Frame
<1>3. g \in Arrays(im) /\ g[n + 1] = Called(f, top) /\ \A i \in 1..n : g[i] = fr[i] /\ i # n + 1
  BY <1>1, <1>2 DEF Arrays, With
<1> HIDE DEF g
<1>4. /\ g[n + 1].fn = f /\ g[n + 1].code = f /\ g[n + 1].off = 1 /\ g[n + 1].base = top
  BY <1>3 DEF Called
<1>5. At(im[f].code, 1, im[f].arity, <<>>)
  BY DEF WellAnnotated
<1>6. im[f].arity \in Nat
  BY <1>5, OffsetTyped
<1>7. NextOf(im, g, n + 1).depth = im[f].arity /\ NextOf(im, g, n + 1).open = <<>>
  BY <1>4, <1>5 DEF NextOf, At
<1>8. \A i \in 1..n : NextOf(im, g, i) = NextOf(im, fr, i)
  BY <1>3 DEF NextOf
<1>9. Typed(im, g, n + 1, top + im[f].arity, ts)
  BY <1>1, <1>3, <1>6 DEF Typed
<1>10. Stacked(im, g, n + 1, top + im[f].arity)
  <2>1. Stacked(im, fr, n, top)
    BY DEF Running
  <2>2. PICK m, t : m = n + 1 /\ t = top + im[f].arity
    OBVIOUS
  <2>3. ASSUME NEW i \in 1..m
        PROVE  FrameInv(im, g, i)
    <3>1. CASE i = n + 1
      BY <1>1, <1>4, <1>5, <3>1 DEF FrameInv, At
    <3>2. CASE i \in 1..n
      BY <1>3, <2>1, <3>2 DEF FrameInv, Stacked
    <3> QED
      BY <1>1, <2>2, <3>1, <3>2
  <2>4. ASSUME NEW i \in 1..m - 1
        PROVE  g[i + 1].base = g[i].base + NextOf(im, g, i).depth /\ g[i + 1].base > 0
    <3>1. CASE i = n
      BY <1>3, <1>4, <1>8, <2>1, <3>1 DEF Stacked
    <3>2. CASE i \in 1..n - 1
      <4>1. fr[i + 1].base = fr[i].base + NextOf(im, fr, i).depth /\ fr[i + 1].base > 0
        BY <2>1, <3>2 DEF Stacked
      <4>2. i + 1 \in 1..n /\ i \in 1..n
        BY <1>1, <3>2
      <4> QED
        BY <1>3, <1>8, <4>1, <4>2
    <3> QED
      BY <1>1, <2>2, <3>1, <3>2
  <2>5. t = g[m].base + NextOf(im, g, m).depth
    BY <1>4, <1>7, <2>2
  <2>6. Stacked(im, g, m, t)
    BY <2>3, <2>4, <2>5 DEF Stacked
  <2> QED
    BY <2>2, <2>6
<1>11. Handled(im, g, n + 1, ts)
  <2>1. Ordered(ts, n) /\ \A i \in 1..n : Holds(ts, i, fr[i].fn, fr[i].base, NextOf(im, fr, i).open)
    BY DEF Running, Handled
  <2>2. Ordered(ts, n + 1)
    BY <1>1, <2>1 DEF Ordered
  <2>3. Holds(ts, n + 1, f, top, <<>>)
    BY <1>1, <2>1, NoneAbove
  <2>4. ASSUME NEW i \in 1..n + 1
        PROVE  Holds(ts, i, g[i].fn, g[i].base, NextOf(im, g, i).open)
    <3>1. CASE i = n + 1
      BY <1>4, <1>7, <2>3, <3>1
    <3>2. CASE i \in 1..n
      <4>1. g[i] = fr[i] /\ NextOf(im, g, i) = NextOf(im, fr, i)
        BY <1>3, <1>8, <3>2
      <4>2. Holds(ts, i, fr[i].fn, fr[i].base, NextOf(im, fr, i).open)
        BY <2>1, <3>2
      <4> QED
        BY <4>1, <4>2
    <3> QED
      BY <1>1, <3>1, <3>2
  <2> QED
    BY <2>2, <2>4 DEF Handled
<1>12. Acts(im, g, n + 1) = Append(Acts(im, fr, n), 0)
  <2>1. Len(Acts(im, fr, n)) = n /\ Acts(im, fr, n) \in Seq(Nat)
    BY ActsTyped
  <2>2. ASSUME NEW i \in 1..n + 1
        PROVE  Len(NextOf(im, g, i).open) = IF i = n + 1 THEN 0 ELSE Acts(im, fr, n)[i]
    <3>1. i \in 1..n \/ i = n + 1
      BY <1>1
    <3> QED
      BY <1>7, <1>8, <3>1 DEF Acts
  <2>3. Acts(im, g, n + 1) = [i \in 1..n + 1 |-> IF i = n + 1 THEN 0 ELSE Acts(im, fr, n)[i]]
    BY <2>2 DEF Acts
  <2> QED
    BY <2>1, <2>3, AppendAsFunction
<1> QED
  BY <1>9, <1>10, <1>11, <1>12 DEF Running, g

\* A return: the caller goes on where its call left it, with the result for the callee.
LEMMA Returns ==
    ASSUME NEW im \in Images, WellAnnotated(im),
           NEW fr, NEW n, NEW top, NEW ts, Running(im, fr, n, top, ts),
           n > 1, NextOf(im, fr, n).open = <<>>
    PROVE  /\ fr[n].base \in Nat /\ fr[n].base > 0
           /\ Running(im, fr, n - 1, fr[n].base, ts)
           /\ Acts(im, fr, n - 1) = ActsFrom(im, fr, n, n - 1, Acts(im, fr, n)[n - 1])
<1>1. n \in 1..n /\ n - 1 \in 1..n /\ n \in Nat
  BY LimitsAssumption DEF Running, Typed
<1>2. PICK j \in 1..n : j = n - 1
  BY <1>1
<1> DEFINE d == NextOf(im, fr, j).depth
           o == NextOf(im, fr, j).open
<1>3. /\ fr \in Arrays(im) /\ ts \in Seq(Try(im)) /\ j \in Nat
      /\ fr[j].code = fr[j].fn
      /\ At(im[fr[j].fn].code, fr[j].off, d, o)
      /\ Acts(im, fr, n)[j] = Len(o)
      /\ Ordered(ts, n)
  <2>1. /\ fr \in Arrays(im) /\ ts \in Seq(Try(im)) /\ j \in Nat
        /\ fr[j].code = fr[j].fn
        /\ fr[j].off \in 1..Len(im[fr[j].fn].code)
        /\ NextOf(im, fr, j) = im[fr[j].fn].code[fr[j].off]
        /\ Acts(im, fr, n)[j] = Len(o)
        /\ Ordered(ts, n)
    BY <1>1, FrameFacts
  <2> QED
    BY <2>1 DEF At
<1>4. \A i \in 1..n : Holds(ts, i, fr[i].fn, fr[i].base, NextOf(im, fr, i).open)
  BY DEF Running, Handled
<1>5. Ordered(ts, j)
  <2>1. Holds(ts, n, fr[n].fn, fr[n].base, <<>>)
    BY <1>1, <1>4
  <2>2. \A k \in 1..Len(ts) : ts[k].frame_count # n
    BY <1>3, <2>1, NoneHeld
  <2>3. \A k \in 1..Len(ts) : ts[k].frame_count \in 1..j
    BY <1>1, <1>2, <1>3, <2>2 DEF Ordered
  <2> QED
    BY <1>3, <2>3 DEF Ordered
<1>6. /\ Holds(ts, j, fr[j].fn, fr[j].base, o)
      /\ \A i \in 1..j - 1 : Holds(ts, i, fr[i].fn, fr[i].base, NextOf(im, fr, i).open)
  <2>1. \A i \in 1..j - 1 : i \in 1..n
    BY <1>1, <1>3
  <2> QED
    BY <1>4, <2>1
<1>7. Resumption(im, fr, j, fr, ts, d, o)
  BY <1>3, <1>5, <1>6 DEF Resumption
<1>8. Running(im, fr, j, fr[j].base + d, ts) /\ Acts(im, fr, j) = ActsFrom(im, fr, n, j, Len(o))
  BY <1>7, Resumes
<1>9. fr[n].base = fr[j].base + d /\ fr[n].base > 0
  <2>1. Stacked(im, fr, n, top)
    BY DEF Running
  <2>2. j \in 1..n - 1 /\ j + 1 = n
    BY <1>1, <1>2
  <2> QED
    BY <2>1, <2>2 DEF Stacked
<1>10. fr[n].base \in Nat
  BY <1>1, FrameFacts
<1> QED
  BY <1>2, <1>3, <1>8, <1>9, <1>10

\* A tail call: the callee takes the frame over, its arguments the slots from base on.
LEMMA Reenters ==
    ASSUME NEW im \in Images, WellAnnotated(im),
           NEW fr, NEW n, NEW top, NEW ts, Running(im, fr, n, top, ts),
           fr[n].fn # "main", NextOf(im, fr, n).open = <<>>, NEW f \in DOMAIN im \ {"main"}
    PROVE  /\ Running(im, With(fr, n, Called(f, fr[n].base)), n, fr[n].base + im[f].arity, ts)
           /\ Acts(im, With(fr, n, Called(f, fr[n].base)), n) = Acts(im, fr, n)
<1> DEFINE g == With(fr, n, Called(f, fr[n].base))
<1>1. n \in 1..n /\ n \in Nat /\ n \in 1..MaxCallDepth /\ MaxCallDepth \in Nat
  BY LimitsAssumption DEF Running, Typed
<1>2. /\ fr \in Arrays(im) /\ ts \in Seq(Try(im)) /\ fr[n].base \in Nat
      /\ Ordered(ts, n) /\ Acts(im, fr, n)[n] = Len(NextOf(im, fr, n).open)
  BY <1>1, FrameFacts
<1>3. Called(f, fr[n].base) \in Frame(im)
  BY <1>2 DEF Called, Frame
<1>4. g \in Arrays(im) /\ g[n] = Called(f, fr[n].base)
  BY <1>1, <1>2, <1>3 DEF Arrays, With
<1>5. \A i \in 1..n - 1 : g[i] = fr[i] /\ i \in 1..n
  <2>1. \A i \in 1..n - 1 : i \in 1..MaxCallDepth /\ i # n /\ i \in 1..n
    BY <1>1
  <2> QED
    BY <1>2, <2>1 DEF Arrays, With
<1> HIDE DEF g
<1>6. g[n].fn = f /\ g[n].code = f /\ g[n].off = 1 /\ g[n].base = fr[n].base
  BY <1>4 DEF Called
<1>7. At(im[f].code, 1, im[f].arity, <<>>)
  BY DEF WellAnnotated
<1>8. \A i \in 1..n : Holds(ts, i, fr[i].fn, fr[i].base, NextOf(im, fr, i).open)
  BY DEF Running, Handled
<1>9. Holds(ts, n, f, fr[n].base, <<>>)
  <2>1. Holds(ts, n, fr[n].fn, fr[n].base, <<>>)
    BY <1>1, <1>8
  <2>2. \A k \in 1..Len(ts) : ts[k].frame_count # n
    BY <1>2, <2>1, NoneHeld
  <2> QED
    BY <1>2, <2>2, NoneHeld
<1>10. \A i \in 1..n - 1 : Holds(ts, i, fr[i].fn, fr[i].base, NextOf(im, fr, i).open)
  BY <1>5, <1>8
<1>11. Resumption(im, fr, n, g, ts, im[f].arity, <<>>)
  BY <1>2, <1>4, <1>5, <1>6, <1>7, <1>9, <1>10 DEF Resumption
<1>12. /\ Running(im, g, n, fr[n].base + im[f].arity, ts)
       /\ Acts(im, g, n) = ActsFrom(im, fr, n, n, Len(<<>>))
  BY <1>1, <1>11, Resumes
<1>13. Acts(im, g, n) = Acts(im, fr, n)
  BY <1>2, <1>12 DEF Acts, ActsFrom
<1> QED
  BY <1>12, <1>13 DEF g

\* What a resumption does to the try blocks of the activations, as ControlSpec says it.
LEMMA ActsFromPrefix ==
    ASSUME NEW im \in Images, WellAnnotated(im),
           NEW fr, NEW n, NEW top, NEW ts, Running(im, fr, n, top, ts),
           NEW j \in 1..n, NEW c
    PROVE  /\ ActsFrom(im, fr, n, j, c) = [SubSeq(Acts(im, fr, n), 1, j) EXCEPT ![j] = c]
           /\ c = Acts(im, fr, n)[j] => ActsFrom(im, fr, n, j, c) = SubSeq(Acts(im, fr, n), 1, j)
           /\ j = n => ActsFrom(im, fr, n, j, c) = [Acts(im, fr, n) EXCEPT ![j] = c]
<1> DEFINE a == Acts(im, fr, n)
<1>1. a \in Seq(Nat) /\ Len(a) = n /\ n \in Nat
  BY ActsTyped, LimitsAssumption DEF Running, Typed
<1>2. a = [i \in 1..n |-> a[i]]
  BY DEF Acts
<1> HIDE DEF a
<1>3. SubSeq(a, 1, j) = [i \in 1..j |-> a[i]]
  <2>1. SubSeq(a, 1, j) \in Seq(Nat) /\ Len(SubSeq(a, 1, j)) = j
    BY <1>1
  <2>2. \A i \in 1..j : SubSeq(a, 1, j)[i] = a[i]
    BY <1>1
  <2>3. DOMAIN SubSeq(a, 1, j) = 1..j /\ SubSeq(a, 1, j) \in [1..j -> Nat]
    BY <2>1, LenProperties
  <2> QED
    BY <2>2, <2>3
<1>4. ActsFrom(im, fr, n, j, c) = [i \in 1..j |-> IF i = j THEN c ELSE a[i]]
  BY DEF ActsFrom, a
<1> QED
  BY <1>2, <1>3, <1>4 DEF a

----------------------------------------------------------------------------
(* The machine                                                             *)

\* Facts about a running machine.
LEMMA Now ==
    ASSUME \A im \in Images : WellAnnotated(im), VMInv, status = "run"
    PROVE  /\ img \in Images /\ WellAnnotated(img)
           /\ Running(img, frames, frame_count, stack_top, try_stack)
           /\ frame_count \in 1..frame_count /\ frame_count \in 1..MaxCallDepth
           /\ frames \in Arrays(img) /\ try_stack \in Seq(Try(img)) /\ stack_top \in Nat
           /\ FRAME.fn \in DOMAIN img /\ FRAME.code = FRAME.fn /\ FRAME.base \in Nat
           /\ FRAME.off \in Nat
           /\ FRAME.fn = "main" <=> frame_count = 1
           /\ Current = NextOf(img, frames, frame_count)
           /\ Current.depth \in Nat /\ Current.open \in Seq(Handler) /\ Current.n \in Int
           /\ Annotated(img, FRAME.fn, FRAME.off, Current)
           /\ stack_top = FRAME.base + Current.depth
<1>1. Typed(img, frames, frame_count, stack_top, try_stack)
      /\ Running(img, frames, frame_count, stack_top, try_stack)
  BY DEF VMInv
<1>2. /\ img \in Images /\ WellAnnotated(img)
      /\ frame_count \in 1..frame_count /\ frame_count \in 1..MaxCallDepth
      /\ frames \in Arrays(img) /\ try_stack \in Seq(Try(img)) /\ stack_top \in Nat
  BY <1>1, LimitsAssumption DEF Typed
<1> DEFINE i == NextOf(img, frames, frame_count)
<1>3. /\ FRAME.fn \in DOMAIN img /\ FRAME.code = FRAME.fn /\ FRAME.base \in Nat
      /\ FRAME.fn = "main" <=> frame_count = 1
      /\ i.depth \in Nat /\ i.open \in Seq(Handler) /\ i.n \in Int
      /\ Annotated(img, FRAME.fn, FRAME.off, i)
  BY <1>1, <1>2, FrameFacts DEF FRAME
<1>4. Current = i
  <2>1. FRAME.code = FRAME.fn
    BY <1>3
  <2> QED
    BY <2>1 DEF Current, Code, FRAME, NextOf
<1>5. FRAME.off \in Nat
  BY <1>2, FrameTyped DEF FRAME
<1>6. stack_top = FRAME.base + i.depth
  BY <1>1 DEF Running, Stacked, FRAME
<1> HIDE DEF i
<1>7. i = NextOf(img, frames, frame_count)
  BY DEF i
<1> QED
  BY <1>1, <1>2, <1>3, <1>4, <1>5, <1>6, <1>7, Zenon

\* A step to a running state keeps the invariant.
LEMMA RunsOn ==
    ASSUME img' = img, status' = "run",
           Running(img, frames', frame_count', stack_top', try_stack')
    PROVE  VMInv'
<1>1. Typed(img, frames', frame_count', stack_top', try_stack')
  BY DEF Running
<1>2. Typed(img', frames', frame_count', stack_top', try_stack')
      /\ Running(img', frames', frame_count', stack_top', try_stack')
  BY <1>1
<1> QED
  BY <1>2 DEF VMInv

ActsNow == Acts(img, frames, frame_count)

\* What ControlSpec is told of the activations.
LEMMA ActsAre ==
    /\ [i \in 1..frame_count |-> Len(OpenIn(i))] = ActsNow
    /\ [i \in 1..frame_count |-> Len(OpenIn(i))]' = ActsNow'
  BY DEF ActsNow, Acts, OpenIn, Intended, Code, NextOf

\* The try blocks of a live activation.
LEMMA OpenNow ==
    ASSUME \A im \in Images : WellAnnotated(im), VMInv, status = "run"
    PROVE  \A i \in 1..frame_count : ActsNow[i] = Len(OpenIn(i)) /\ OpenIn(i) \in Seq(Handler)
<1>1. /\ img \in Images /\ WellAnnotated(img)
      /\ Running(img, frames, frame_count, stack_top, try_stack)
  BY Now
<1>2. ASSUME NEW i \in 1..frame_count
      PROVE  ActsNow[i] = Len(OpenIn(i)) /\ OpenIn(i) \in Seq(Handler)
  <2>1. OpenIn(i) = NextOf(img, frames, i).open
    BY DEF OpenIn, Intended, Code, NextOf
  <2>2. NextOf(img, frames, i).open \in Seq(Handler) /\ ActsNow[i] = Len(NextOf(img, frames, i).open)
    BY <1>1, FrameFacts DEF ActsNow
  <2> QED
    BY <2>1, <2>2
<1> QED
  BY <1>2

\* The running activation enters or leaves try blocks, or stays where it is.
LEMMA ControlMoves ==
    ASSUME status = "run", status' = "run", ActsNow \in Seq(Nat), Len(ActsNow) > 0,
           NEW c \in 0..ActsNow[Len(ActsNow)] + 1,
           ActsNow' = [ActsNow EXCEPT ![Len(ActsNow)] = c]
    PROVE  Control!Next
<1>1. ActsNow[Len(ActsNow)] \in Nat
  <2>1. Len(ActsNow) \in 1..Len(ActsNow)
    OBVIOUS
  <2> QED
    BY <2>1
<1>2. CASE c \in 0..ActsNow[Len(ActsNow)]
  <2>1. Control!Leave
    BY <1>2, ActsAre DEF Control!Leave, Control!Inside, Control!Depth
  <2> QED
    BY <2>1 DEF Control!Next
<1>3. CASE c = ActsNow[Len(ActsNow)] + 1
  <2>1. Control!Enter
    BY <1>3, ActsAre DEF Control!Enter, Control!Inside, Control!Depth
  <2> QED
    BY <2>1 DEF Control!Next
<1> QED
  BY <1>1, <1>2, <1>3

\* The running frame goes on at k, in d slots and the same try blocks.
LEMMA Proceeds ==
    ASSUME \A im \in Images : WellAnnotated(im), VMInv, status = "run",
           status' = "run", img' = img, frame_count' = frame_count, try_stack' = try_stack,
           NEW k, NEW d, At(img[FRAME.fn].code, k, d, Current.open),
           frames' = Placed(frames, frame_count, k), stack_top' = FRAME.base + d
    PROVE  VMInv' /\ Control!Next
<1>1. /\ img \in Images /\ WellAnnotated(img)
      /\ Running(img, frames, frame_count, stack_top, try_stack)
      /\ frame_count \in 1..frame_count
      /\ Current = NextOf(img, frames, frame_count)
  BY Now
<1>2. At(img[frames[frame_count].fn].code, k, d, NextOf(img, frames, frame_count).open)
  BY <1>1 DEF FRAME
<1>3. /\ Running(img, Placed(frames, frame_count, k), frame_count, frames[frame_count].base + d, try_stack)
      /\ Acts(img, Placed(frames, frame_count, k), frame_count) = ActsNow
  BY <1>1, <1>2, GoesOn DEF ActsNow
<1>4. Running(img, frames', frame_count', stack_top', try_stack') /\ ActsNow' = ActsNow
  BY <1>3 DEF FRAME, ActsNow
<1>5. VMInv'
  BY <1>4, RunsOn
<1>6. ActsNow \in Seq(Nat) /\ Len(ActsNow) = frame_count
  BY <1>1, ActsTyped DEF ActsNow
<1>7. Control!Next
  <2>1. Len(ActsNow) \in 1..Len(ActsNow) /\ Len(ActsNow) > 0
    BY <1>1, <1>6
  <2>2. ActsNow[Len(ActsNow)] \in Nat
    BY <1>6, <2>1
  <2>3. PICK c \in 0..ActsNow[Len(ActsNow)] + 1 : c = ActsNow[Len(ActsNow)]
    BY <2>2
  <2>4. ActsNow' = [ActsNow EXCEPT ![Len(ActsNow)] = c]
    <3>1. ActsNow = [ActsNow EXCEPT ![Len(ActsNow)] = ActsNow[Len(ActsNow)]]
      BY <1>6, <2>1, LenProperties
    <3> QED
      BY <1>4, <2>3, <3>1
  <2> QED
    BY <1>6, <2>1, <2>4, ControlMoves
<1> QED
  BY <1>5, <1>7

\* Without handlers on the try stack no activation is in a try block.
LEMMA NoneOpen ==
    ASSUME NEW im \in Images, WellAnnotated(im),
           NEW fr, NEW n, NEW top, NEW ts, Running(im, fr, n, top, ts), ts = <<>>,
           NEW i \in 1..n
    PROVE  Acts(im, fr, n)[i] = 0
<1>1. /\ NextOf(im, fr, i).open \in Seq(Handler)
      /\ Holds(ts, i, fr[i].fn, fr[i].base, NextOf(im, fr, i).open)
      /\ Acts(im, fr, n)[i] = Len(NextOf(im, fr, i).open)
  BY FrameFacts
<1>2. PICK b \in 0..Len(ts) : Block(ts, i, fr[i].fn, fr[i].base, NextOf(im, fr, i).open, b)
  BY <1>1 DEF Holds
<1>3. b + Len(NextOf(im, fr, i).open) <= Len(ts) /\ Len(ts) = 0 /\ b = 0
  BY <1>2 DEF Block
<1> QED
  BY <1>1, <1>3

\* An error ends the program when no try block is open, or no room is left for it.
LEMMA ThrowsOut ==
    ASSUME \A im \in Images : WellAnnotated(im), VMInv, status = "run",
           try_stack = <<>> \/ Innermost.stack_top >= MaxStack,
           status' = "error", UNCHANGED <<img, frames, frame_count, stack_top, try_stack>>
    PROVE  VMInv' /\ Control!Next
<1>1. /\ img \in Images /\ WellAnnotated(img)
      /\ Running(img, frames, frame_count, stack_top, try_stack)
      /\ try_stack \in Seq(Try(img))
  BY Now
<1>2. VMInv'
  BY DEF VMInv
<1>3. ActsNow \in Seq(Nat) /\ Len(ActsNow) = frame_count
  BY <1>1, ActsTyped DEF ActsNow
<1>4. Control!Handlers = {} \/ ~HasRoom
  <2>1. CASE try_stack = <<>>
    <3>1. \A i \in 1..frame_count : ActsNow[i] = 0
      BY <1>1, <2>1, NoneOpen DEF ActsNow
    <3> QED
      BY <1>3, <3>1, ActsAre DEF Control!Handlers, Control!Depth
  <2>2. CASE try_stack # <<>> /\ Innermost.stack_top >= MaxStack
    <3>1. PICK h, j : OnTryTop(try_stack, h, j)
      BY <1>1, <2>2, EmptySeq DEF OnTryTop
    <3>2. /\ j \in 1..frame_count
          /\ ActsNow[j] > 0
          /\ h.stack_top = frames[j].base + Last(NextOf(img, frames, j).open).depth
          /\ \A i \in j + 1..frame_count : ActsNow[i] = 0
      BY <1>1, <3>1, Unwinds DEF ActsNow
    <3>3. h = Innermost /\ h.stack_top \in Nat
      <4>1. Len(try_stack) \in 1..Len(try_stack) /\ h = try_stack[Len(try_stack)]
        BY <1>1, <3>1 DEF OnTryTop
      <4>2. h \in Try(img)
        BY <1>1, <4>1
      <4> QED
        BY <4>1, <4>2 DEF Innermost, Last, Try
    <3>4. \A i \in 1..frame_count : ActsNow[i] = Len(OpenIn(i)) /\ OpenIn(i) \in Seq(Handler)
      BY OpenNow
    <3>5. OpenIn(j) # <<>> /\ \A i \in j + 1..frame_count : OpenIn(i) = <<>>
      <4>1. OpenIn(j) # <<>>
        BY <3>2, <3>4
      <4>2. \A i \in j + 1..frame_count : i \in 1..frame_count
        BY <1>1, <3>2 DEF Running, Typed
      <4> QED
        BY <3>2, <3>4, <4>1, <4>2, EmptySeq
    <3>6. ~(frames[j].base + Last(OpenIn(j)).depth < MaxStack)
      <4>1. h.stack_top = frames[j].base + Last(OpenIn(j)).depth
        BY <3>2 DEF OpenIn, Intended, Code, NextOf
      <4> QED
        BY <2>2, <3>3, <4>1, LimitsAssumption
    <3> QED
      BY <3>2, <3>5, <3>6 DEF HasRoom
  <2> QED
    BY <2>1, <2>2
<1>5. ActsNow' = ActsNow
  BY DEF ActsNow
<1>6. Control!Throw
  BY <1>4, <1>5, ActsAre DEF Control!Throw
<1> QED
  BY <1>2, <1>6 DEF Control!Next

\* An error for which a try block is open, with room for it, is delivered to the innermost one.
LEMMA ThrowsIn ==
    ASSUME \A im \in Images : WellAnnotated(im), VMInv, status = "run",
           try_stack # <<>>, ~(Innermost.stack_top >= MaxStack),
           img' = img, try_stack' = Front(try_stack), unwind_to(Innermost)
    PROVE  VMInv' /\ Control!Next
<1>1. /\ img \in Images /\ WellAnnotated(img)
      /\ Running(img, frames, frame_count, stack_top, try_stack)
      /\ try_stack \in Seq(Try(img)) /\ frames \in Arrays(img)
      /\ frame_count \in 1..MaxCallDepth
  BY Now
<1>2. PICK h, j : OnTryTop(try_stack, h, j)
  BY <1>1, EmptySeq DEF OnTryTop
<1>3. /\ j \in 1..frame_count
      /\ h.code = frames[j].fn
      /\ h.off \in Nat
      /\ Running(img, Placed(frames, j, h.off), j, h.stack_top + 1, Front(try_stack))
      /\ Acts(img, Placed(frames, j, h.off), j)
            = ActsFrom(img, frames, frame_count, j, ActsNow[j] - 1)
      /\ ActsNow[j] > 0
      /\ h.stack_top = frames[j].base + Last(NextOf(img, frames, j).open).depth
      /\ \A i \in j + 1..frame_count : ActsNow[i] = 0
  BY <1>1, <1>2, Unwinds DEF ActsNow
<1>4. h = Innermost /\ h.frame_count = j
  BY <1>2 DEF OnTryTop, Innermost, Last
<1>5. h.stack_top \in Nat
  <2>1. Len(try_stack) \in 1..Len(try_stack) /\ h = try_stack[Len(try_stack)]
    BY <1>1, <1>2 DEF OnTryTop
  <2>2. h \in Try(img)
    BY <1>1, <2>1
  <2> QED
    BY <2>2 DEF Try
<1>6. /\ stack_top' = h.stack_top + 1
      /\ frame_count' = j
      /\ frames' = [frames EXCEPT ![j].code = frames[j].fn, ![j].off = h.off]
      /\ status' = "run"
  BY <1>3, <1>4 DEF unwind_to
<1>7. frames' = Placed(frames, j, h.off)
  <2>1. j \in 1..MaxCallDepth /\ frames[j].code = frames[j].fn /\ frames \in Arrays(img) /\ h.off \in Nat
    BY <1>1, <1>3, FrameFacts
  <2>2. ByUnwinding(frames, j, frames[j].fn, h.off) = Placed(frames, j, h.off)
    BY <2>1, Placing
  <2>3. frames' = ByUnwinding(frames, j, frames[j].fn, h.off)
    BY <1>6 DEF ByUnwinding
  <2> QED
    BY <2>2, <2>3
<1>8. VMInv'
  BY <1>3, <1>6, <1>7, RunsOn
<1>9. /\ ActsNow \in Seq(Nat) /\ Len(ActsNow) = frame_count
      /\ \A i \in 1..frame_count : ActsNow[i] = Len(OpenIn(i)) /\ OpenIn(i) \in Seq(Handler)
  <2>1. ActsNow \in Seq(Nat) /\ Len(ActsNow) = frame_count
    BY <1>1, ActsTyped DEF ActsNow
  <2>2. \A i \in 1..frame_count : ActsNow[i] = Len(OpenIn(i)) /\ OpenIn(i) \in Seq(Handler)
    BY OpenNow
  <2> QED
    BY <2>1, <2>2
<1>10. HasRoom
  <2>1. SUFFICES ASSUME NEW i \in 1..frame_count, OpenIn(i) # <<>>,
                        \A m \in i + 1..frame_count : OpenIn(m) = <<>>
                 PROVE  frames[i].base + Last(OpenIn(i)).depth < MaxStack
    BY DEF HasRoom
  <2>2. ActsNow[i] # 0
    BY <1>9, <2>1, EmptySeq
  <2>3. frame_count \in Nat /\ j \in Nat /\ i \in Nat
    BY <1>1, <1>3, LimitsAssumption
  <2>4. ~(i > j)
    BY <1>3, <2>2, <2>3
  <2>5. ~(i < j)
    <3>1. ASSUME i < j
          PROVE  FALSE
      <4>1. j \in i + 1..frame_count
        BY <1>3, <2>3, <3>1
      <4>2. OpenIn(j) = <<>>
        BY <2>1, <4>1
      <4> QED
        BY <1>3, <1>9, <4>2
    <3> QED
      BY <3>1
  <2>6. i = j
    BY <2>3, <2>4, <2>5
  <2>7. h.stack_top = frames[j].base + Last(OpenIn(j)).depth
    BY <1>3, Zenon DEF OpenIn, Intended, Code, NextOf
  <2> QED
    BY <1>4, <1>5, <2>6, <2>7, LimitsAssumption
<1>11. /\ j \in Control!Handlers
       /\ \A i \in Control!Handlers : i <= j
  <2>1. Control!Handlers = {i \in 1..frame_count : ActsNow[i] > 0}
    BY <1>9, ActsAre DEF Control!Handlers, Control!Depth
  <2>2. ASSUME NEW i \in 1..frame_count, ActsNow[i] > 0
        PROVE  i <= j
    <3>1. frame_count \in Nat /\ j \in Nat /\ i \in Nat
      BY <1>1, <1>3, LimitsAssumption
    <3>2. ~(i > j)
      BY <1>3, <2>2, <3>1
    <3> QED
      BY <3>1, <3>2
  <2> QED
    BY <1>3, <2>1, <2>2
<1>12. ActsNow' = [SubSeq(ActsNow, 1, j) EXCEPT ![j] = @ - 1]
  <2>1. ActsNow' = ActsFrom(img, frames, frame_count, j, ActsNow[j] - 1)
    BY <1>3, <1>6, <1>7 DEF ActsNow
  <2>2. ActsFrom(img, frames, frame_count, j, ActsNow[j] - 1)
            = [SubSeq(ActsNow, 1, j) EXCEPT ![j] = ActsNow[j] - 1]
    BY <1>1, <1>3, ActsFromPrefix DEF ActsNow
  <2>3. SubSeq(ActsNow, 1, j)[j] = ActsNow[j]
    BY <1>3, <1>9
  <2> QED
    BY <2>1, <2>2, <2>3
<1>13. Control!Throw
  BY <1>6, <1>10, <1>11, <1>12, ActsAre DEF Control!Throw
<1> QED
  BY <1>8, <1>13 DEF Control!Next

\* Every way to raise an error.
LEMMA Throws ==
    ASSUME \A im \in Images : WellAnnotated(im), VMInv, status = "run", vm_throw_error
    PROVE  VMInv' /\ Control!Next
<1>1. CASE try_stack = <<>> \/ Innermost.stack_top >= MaxStack
  <2>1. status' = "error" /\ UNCHANGED <<img, frames, frame_count, stack_top, try_stack>>
    BY <1>1 DEF vm_throw_error
  <2> QED
    BY <1>1, <2>1, ThrowsOut
<1>2. CASE ~(try_stack = <<>> \/ Innermost.stack_top >= MaxStack)
  <2>1. img' = img /\ try_stack' = Front(try_stack) /\ unwind_to(Innermost)
    BY <1>2 DEF vm_throw_error
  <2> QED
    BY <1>2, <2>1, ThrowsIn
<1> QED
  BY <1>1, <1>2

----------------------------------------------------------------------------
(* The instructions                                                        *)

\* What instructions take from the stack and leave on it.
LEMMA PlainEffect ==
    ASSUME NEW i, i.op \in Plain \ {"PRINT"}
    PROVE  Pops(i) \in 0..2 /\ Pushes(i) \in 0..1
  BY DEF Plain, Pops, Pushes, Pushing, Popping, Keeping, Folding, Raising

\* The running frame advances.
LEMMA Advances ==
    ASSUME \A im \in Images : WellAnnotated(im), VMInv, status = "run",
           UNCHANGED <<img, frame_count, try_stack, status>>, Advance,
           NEW d, At(img[FRAME.fn].code, FRAME.off + 1, d, Current.open),
           stack_top' = FRAME.base + d
    PROVE  VMInv' /\ Control!Next
<1>1. frames' = Placed(frames, frame_count, FRAME.off + 1)
  <2>1. /\ frames \in Arrays(img) /\ frame_count \in 1..MaxCallDepth
        /\ FRAME.code = FRAME.fn /\ FRAME.off \in Nat
    BY Now
  <2>2. ByAdvance(frames, frame_count) = Placed(frames, frame_count, frames[frame_count].off + 1)
    BY <2>1, Placing DEF FRAME
  <2>3. frames' = ByAdvance(frames, frame_count)
    BY DEF Advance, ByAdvance
  <2> QED
    BY <2>2, <2>3 DEF FRAME
<1>2. status' = "run" /\ img' = img /\ frame_count' = frame_count /\ try_stack' = try_stack
  OBVIOUS
<1> QED
  BY <1>1, <1>2, Proceeds

\* An instruction that only moves the height of the stack keeps the invariant.
LEMMA PlainSteps ==
    ASSUME \A im \in Images : WellAnnotated(im), VMInv, op_plain
    PROVE  VMInv' /\ Control!Next
<1>1. /\ status = "run" /\ Current.op \in Plain
      /\ UNCHANGED <<img, frame_count, try_stack, status>> /\ Advance
      /\ stack_top' = IF Current.op = "PRINT" THEN stack_top - Current.n
                      ELSE PopFrom(stack_top, Pops(Current)) + Pushes(Current)
  BY DEF op_plain, Execute
<1>2. /\ Current.depth \in Nat /\ Current.n \in Int /\ FRAME.base \in Nat
      /\ Annotated(img, FRAME.fn, FRAME.off, Current)
      /\ stack_top = FRAME.base + Current.depth
  BY <1>1, Now
<1>3. CASE Current.op = "PRINT"
  <2>1. At(img[FRAME.fn].code, FRAME.off + 1, Current.depth - Current.n, Current.open)
    BY <1>2, <1>3, Zenon DEF Annotated
  <2>2. stack_top' = FRAME.base + (Current.depth - Current.n)
    BY <1>1, <1>2, <1>3
  <2> QED
    BY <1>1, <2>1, <2>2, Advances
<1>4. CASE Current.op # "PRINT"
  <2>1. Pops(Current) \in 0..2 /\ Pushes(Current) \in 0..1
    BY <1>1, <1>4, PlainEffect
  <2>2. /\ Pops(Current) <= Current.depth
        /\ At(img[FRAME.fn].code, FRAME.off + 1,
              Current.depth - Pops(Current) + Pushes(Current), Current.open)
    BY <1>1, <1>2, <1>4, Zenon DEF Annotated
  <2>3. stack_top' = FRAME.base + (Current.depth - Pops(Current) + Pushes(Current))
    <3>1. PICK p, q, b, d \in Nat :
             p = Pops(Current) /\ q = Pushes(Current) /\ b = FRAME.base /\ d = Current.depth
      BY <1>2, <2>1
    <3>2. p <= d
      BY <2>2, <3>1
    <3>3. PopFrom(b + d, p) = b + d - p
      BY <3>2 DEF PopFrom
    <3>4. stack_top' = PopFrom(b + d, p) + q
      BY <1>1, <1>2, <1>4, <3>1, Zenon
    <3>5. stack_top' = b + (d - p + q)
      BY <3>3, <3>4
    <3> QED
      BY <3>1, <3>5
  <2> QED
    BY <1>1, <2>2, <2>3, Advances
<1> QED
  BY <1>3, <1>4

\* The running frame jumps to the target of its instruction.
LEMMA Jumps ==
    ASSUME \A im \in Images : WellAnnotated(im), VMInv, status = "run",
           Current.op \in {"JUMP", "JUMP_IF"}, ~(Current.n > Len(Code(FRAME.fn))),
           Goto(Current.n), UNCHANGED <<img, frame_count, stack_top, try_stack, status>>
    PROVE  VMInv' /\ Control!Next
<1>1. /\ Current.n \in Int
      /\ Annotated(img, FRAME.fn, FRAME.off, Current)
      /\ img \in Images /\ WellAnnotated(img) /\ FRAME.fn \in DOMAIN img
  BY Now
<1>2. /\ frames \in Arrays(img) /\ frame_count \in 1..MaxCallDepth
      /\ FRAME.code = FRAME.fn /\ stack_top = FRAME.base + Current.depth
  BY Now
<1>3. PICK k \in Int, m \in Nat : k = Current.n /\ m = Len(img[FRAME.fn].code)
  <2>1. Len(img[FRAME.fn].code) \in Nat
    BY <1>1 DEF WellAnnotated
  <2> QED
    BY <1>1, <2>1
<1>4. k > 0
  <2>1. Current.n > 0
    BY <1>1, Zenon DEF Annotated
  <2> QED
    BY <1>3, <2>1
<1>5. k <= m /\ k \in Nat
  <2>1. ~(k > m)
    BY <1>3 DEF Code
  <2> QED
    BY <1>4, <2>1
<1>6. At(img[FRAME.fn].code, k, Current.depth, Current.open)
  <2>1. Current.n <= Len(img[FRAME.fn].code)
    BY <1>3, <1>5
  <2>2. At(img[FRAME.fn].code, Current.n, Current.depth, Current.open)
    BY <1>1, <2>1, Zenon DEF Annotated
  <2> QED
    BY <1>3, <2>2
<1>7. frames' = Placed(frames, frame_count, k)
  <2>1. ByJump(frames, frame_count, k) = Placed(frames, frame_count, k)
    BY <1>2, <1>5, Placing DEF FRAME
  <2>2. frames' = ByJump(frames, frame_count, k)
    BY <1>3 DEF Goto, FRAME, ByJump
  <2> QED
    BY <2>1, <2>2
<1>8. status' = "run" /\ img' = img /\ frame_count' = frame_count /\ try_stack' = try_stack
      /\ stack_top' = FRAME.base + Current.depth
  BY <1>2
<1> QED
  BY <1>6, <1>7, <1>8, Proceeds

\* op_jump: the target was annotated with the same depth and handlers.
LEMMA JumpSteps ==
    ASSUME \A im \in Images : WellAnnotated(im), VMInv, op_jump
    PROVE  VMInv' /\ Control!Next
<1>1. status = "run" /\ Current.op = "JUMP"
  BY DEF op_jump, Execute
<1>2. CASE Current.n > Len(Code(FRAME.fn))
  <2>1. vm_throw_error
    BY <1>2 DEF op_jump
  <2> QED
    BY <1>1, <2>1, Throws
<1>3. CASE ~(Current.n > Len(Code(FRAME.fn)))
  <2>1. Goto(Current.n) /\ UNCHANGED <<img, frame_count, stack_top, try_stack, status>>
    BY <1>3 DEF op_jump
  <2> QED
    BY <1>1, <1>3, <2>1, Jumps
<1> QED
  BY <1>2, <1>3

\* The conditional jumps: both successors were annotated as the stack will be.
LEMMA JumpIfSteps ==
    ASSUME \A im \in Images : WellAnnotated(im), VMInv, op_jump_if
    PROVE  VMInv' /\ Control!Next
<1>1. status = "run" /\ Current.op = "JUMP_IF"
  BY DEF op_jump_if, Execute
<1>2. CASE Advance /\ UNCHANGED <<img, frame_count, stack_top, try_stack, status>>
  <2>1. /\ Annotated(img, FRAME.fn, FRAME.off, Current)
        /\ stack_top = FRAME.base + Current.depth
    BY <1>1, Now
  <2>2. At(img[FRAME.fn].code, FRAME.off + 1, Current.depth, Current.open)
    BY <1>1, <2>1, Zenon DEF Annotated
  <2>3. stack_top' = FRAME.base + Current.depth
    BY <1>2, <2>1
  <2> QED
    BY <1>1, <1>2, <2>2, <2>3, Advances
<1>3. CASE Current.n > Len(Code(FRAME.fn)) /\ vm_throw_error
  BY <1>1, <1>3, Throws
<1>4. CASE /\ ~(Current.n > Len(Code(FRAME.fn)))
           /\ Goto(Current.n) /\ UNCHANGED <<img, frame_count, stack_top, try_stack, status>>
  BY <1>1, <1>4, Jumps
<1> QED
  BY <1>2, <1>3, <1>4 DEF op_jump_if

\* The running frame goes on with a different try stack and c try blocks.
LEMMA ControlFollows ==
    ASSUME \A im \in Images : WellAnnotated(im), VMInv, status = "run", status' = "run",
           NEW c \in 0..ActsNow[frame_count] + 1,
           ActsNow' = ActsFrom(img, frames, frame_count, frame_count, c)
    PROVE  Control!Next
<1>1. /\ img \in Images /\ WellAnnotated(img) /\ frame_count \in 1..frame_count
      /\ Running(img, frames, frame_count, stack_top, try_stack)
  BY Now
<1>2. ActsNow \in Seq(Nat) /\ Len(ActsNow) = frame_count
  BY <1>1, ActsTyped DEF ActsNow
<1>3. ActsNow' = [ActsNow EXCEPT ![frame_count] = c]
  BY <1>1, ActsFromPrefix DEF ActsNow
<1>4. Len(ActsNow) > 0
  BY <1>1, <1>2
<1>5. ActsNow' = [ActsNow EXCEPT ![Len(ActsNow)] = c] /\ c \in 0..ActsNow[Len(ActsNow)] + 1
  BY <1>2, <1>3
<1> QED
  BY <1>2, <1>4, <1>5, ControlMoves

\* op_push_handler installs a handler one block deeper, and refines entering a block.
LEMMA PushHandlerSteps ==
    ASSUME \A im \in Images : WellAnnotated(im), VMInv, op_push_handler
    PROVE  VMInv' /\ Control!Next
<1>1. status = "run" /\ Current.op = "PUSH_HANDLER"
  BY DEF op_push_handler, Execute
<1>2. CASE TryStackFull
  <2>1. vm_throw_error
    BY <1>2 DEF op_push_handler
  <2> QED
    BY <1>1, <2>1, Throws
<1>3. CASE ~TryStackFull
  <2> DEFINE h == [code |-> FRAME.fn, off |-> Current.n,
                   stack_top |-> stack_top, frame_count |-> frame_count]
             g == [off |-> Current.n, depth |-> Current.depth]
             k == FRAME.off + 1
  <2>1. /\ try_stack' = Append(try_stack, h)
        /\ Advance
        /\ UNCHANGED <<img, frame_count, stack_top, status>>
    BY <1>3 DEF op_push_handler, HandlerHeight
  <2>2. /\ img \in Images /\ WellAnnotated(img) /\ frame_count \in 1..frame_count
        /\ Running(img, frames, frame_count, stack_top, try_stack)
        /\ frames \in Arrays(img) /\ frame_count \in 1..MaxCallDepth
        /\ FRAME.fn \in DOMAIN img /\ FRAME.code = FRAME.fn /\ FRAME.base \in Nat
        /\ FRAME.off \in Nat
        /\ Current = NextOf(img, frames, frame_count)
        /\ Current.depth \in Nat /\ Current.n \in Int
        /\ Annotated(img, FRAME.fn, FRAME.off, Current)
        /\ stack_top = FRAME.base + Current.depth /\ stack_top \in Nat
    BY <1>1, Now
  <2>3. Current.n > 0 /\ At(img[FRAME.fn].code, k, Current.depth, Append(Current.open, g))
    BY <1>1, <2>2, Zenon DEF Annotated
  <2>4. g \in Handler /\ g.off = Current.n /\ g.depth = Current.depth
    BY <2>2, <2>3 DEF Handler
  <2>5. /\ h \in Try(img) /\ h.code = FRAME.fn /\ h.off = Current.n
        /\ h.stack_top = FRAME.base + Current.depth /\ h.frame_count = frame_count
    <3>1. frame_count \in Nat /\ Current.n \in Nat
      BY <2>2, <2>3, LimitsAssumption
    <3> QED
      BY <2>2, <3>1 DEF Try
  <2> HIDE DEF h, g, k
  <2>6. frames' = Placed(frames, frame_count, k)
    <3>1. ByAdvance(frames, frame_count) = Placed(frames, frame_count, frames[frame_count].off + 1)
      BY <2>2, Placing DEF FRAME
    <3>2. frames' = ByAdvance(frames, frame_count)
      BY <2>1 DEF Advance, ByAdvance
    <3> QED
      BY <3>1, <3>2 DEF FRAME, k
  <2>7. /\ At(img[frames[frame_count].fn].code, k, Current.depth,
              Append(NextOf(img, frames, frame_count).open, g))
        /\ h.code = frames[frame_count].fn /\ h.off = g.off
        /\ h.stack_top = frames[frame_count].base + g.depth
    BY <2>2, <2>3, <2>4, <2>5, Zenon DEF FRAME
  <2>8. /\ Running(img, Placed(frames, frame_count, k), frame_count,
                   frames[frame_count].base + Current.depth, Append(try_stack, h))
        /\ Acts(img, Placed(frames, frame_count, k), frame_count)
              = ActsFrom(img, frames, frame_count, frame_count, ActsNow[frame_count] + 1)
    <3>1. /\ img \in Images /\ WellAnnotated(img)
          /\ Running(img, frames, frame_count, stack_top, try_stack)
      BY <2>2
    <3>2. g \in Handler /\ h \in Try(img) /\ h.frame_count = frame_count
      BY <2>4, <2>5
    <3>3. PICK d : d = Current.depth
      OBVIOUS
    <3>4. At(img[frames[frame_count].fn].code, k, d, Append(NextOf(img, frames, frame_count).open, g))
      BY <2>7, <3>3
    <3>5. /\ Running(img, Placed(frames, frame_count, k), frame_count,
                     frames[frame_count].base + d, Append(try_stack, h))
          /\ Acts(img, Placed(frames, frame_count, k), frame_count)
                = ActsFrom(img, frames, frame_count, frame_count,
                           Acts(img, frames, frame_count)[frame_count] + 1)
      BY <2>7, <3>1, <3>2, <3>4, HandlerPushed
    <3> QED
      BY <3>3, <3>5 DEF ActsNow
  <2>9. /\ Running(img, frames', frame_count', stack_top', try_stack')
        /\ ActsNow' = ActsFrom(img, frames, frame_count, frame_count, ActsNow[frame_count] + 1)
    BY <2>1, <2>2, <2>6, <2>8, Zenon DEF FRAME, ActsNow
  <2>10. VMInv'
    BY <1>1, <2>1, <2>9, RunsOn
  <2>11. ActsNow[frame_count] + 1 \in 0..ActsNow[frame_count] + 1
    <3>1. ActsNow[frame_count] \in Nat
      <4>1. ActsNow[frame_count] = Len(OpenIn(frame_count)) /\ OpenIn(frame_count) \in Seq(Handler)
        BY <1>1, <2>2, OpenNow
      <4> QED
        BY <4>1
    <3> QED
      BY <3>1
  <2>12. Control!Next
    BY <1>1, <2>1, <2>9, <2>11, ControlFollows
  <2> QED
    BY <2>10, <2>12
<1> QED
  BY <1>2, <1>3

\* op_pop_handler removes the handler of the innermost block, and refines leaving it.
LEMMA PopHandlerSteps ==
    ASSUME \A im \in Images : WellAnnotated(im), VMInv, op_pop_handler
    PROVE  VMInv' /\ Control!Next
<1> DEFINE k == FRAME.off + 1
<1>1. /\ status = "run" /\ Current.op = "POP_HANDLER"
      /\ try_stack' = IF try_stack = <<>> THEN <<>> ELSE Front(try_stack)
      /\ Advance
      /\ UNCHANGED <<img, frame_count, stack_top, status>>
  BY DEF op_pop_handler, Execute
<1>2. /\ img \in Images /\ WellAnnotated(img) /\ frame_count \in 1..frame_count
      /\ Running(img, frames, frame_count, stack_top, try_stack)
      /\ frames \in Arrays(img) /\ frame_count \in 1..MaxCallDepth /\ try_stack \in Seq(Try(img))
      /\ FRAME.fn \in DOMAIN img /\ FRAME.code = FRAME.fn
      /\ FRAME.off \in Nat
      /\ Current = NextOf(img, frames, frame_count)
      /\ Current.open \in Seq(Handler)
      /\ Annotated(img, FRAME.fn, FRAME.off, Current)
      /\ stack_top = FRAME.base + Current.depth
  BY <1>1, Now
<1>3. Current.open # <<>> /\ At(img[FRAME.fn].code, k, Current.depth, Front(Current.open))
  BY <1>1, <1>2, Zenon DEF Annotated
<1> HIDE DEF k
<1>4. OnTryTop(try_stack, Last(try_stack), frame_count)
  <2>1. /\ Ordered(try_stack, frame_count)
        /\ Holds(try_stack, frame_count, FRAME.fn, FRAME.base, Current.open)
    <3>1. /\ Ordered(try_stack, frame_count)
          /\ Holds(try_stack, frame_count, frames[frame_count].fn, frames[frame_count].base,
                   NextOf(img, frames, frame_count).open)
      BY <1>2, FrameFacts
    <3> QED
      BY <1>2, <3>1, Zenon DEF FRAME
  <2>2. frame_count \in Nat /\ \A i \in 1..Len(try_stack) : try_stack[i].frame_count \in Nat
    BY <1>2, <2>1, LimitsAssumption DEF Ordered
  <2>3. Len(try_stack) > 0 /\ try_stack[Len(try_stack)].frame_count = frame_count
    BY <1>2, <1>3, <2>1, <2>2, OnTop
  <2> QED
    BY <2>3 DEF OnTryTop, Last
<1>5. frames' = Placed(frames, frame_count, k)
  <2>1. ByAdvance(frames, frame_count) = Placed(frames, frame_count, frames[frame_count].off + 1)
    BY <1>2, Placing DEF FRAME
  <2>2. frames' = ByAdvance(frames, frame_count)
    BY <1>1 DEF Advance, ByAdvance
  <2> QED
    BY <2>1, <2>2 DEF FRAME, k
<1>6. At(img[frames[frame_count].fn].code, k, Current.depth,
         Front(NextOf(img, frames, frame_count).open))
  BY <1>2, <1>3, Zenon DEF FRAME
<1>7. /\ Running(img, Placed(frames, frame_count, k), frame_count,
                 frames[frame_count].base + Current.depth, Front(try_stack))
      /\ Acts(img, Placed(frames, frame_count, k), frame_count)
            = ActsFrom(img, frames, frame_count, frame_count, ActsNow[frame_count] - 1)
      /\ ActsNow[frame_count] > 0
  BY <1>2, <1>4, <1>6, Takes DEF ActsNow
<1>8. try_stack' = Front(try_stack)
  BY <1>1, <1>4 DEF OnTryTop
<1>9. /\ Running(img, frames', frame_count', stack_top', try_stack')
      /\ ActsNow' = ActsFrom(img, frames, frame_count, frame_count, ActsNow[frame_count] - 1)
  BY <1>1, <1>2, <1>5, <1>7, <1>8, Zenon DEF FRAME, ActsNow
<1>10. VMInv'
  BY <1>1, <1>9, RunsOn
<1>11. ActsNow[frame_count] - 1 \in 0..ActsNow[frame_count] + 1
  <2>1. ActsNow[frame_count] \in Nat
    <3>1. ActsNow[frame_count] = Len(OpenIn(frame_count)) /\ OpenIn(frame_count) \in Seq(Handler)
      BY <1>1, <1>2, OpenNow
    <3> QED
      BY <3>1
  <2> QED
    BY <1>7, <2>1
<1>12. Control!Next
  BY <1>1, <1>9, <1>11, ControlFollows
<1> QED
  BY <1>10, <1>12

\* op_return hands the caller back its slots and refines the return of the contract.
LEMMA ReturnSteps ==
    ASSUME \A im \in Images : WellAnnotated(im), VMInv, op_return
    PROVE  VMInv' /\ Control!Next
<1>1. /\ status = "run" /\ Current.op = "RETURN"
      /\ frame_count' = frame_count - 1
      /\ stack_top' = ReturnHeight(PopFrom(stack_top, 1), FRAME.base)
      /\ UNCHANGED <<img, frames, try_stack, status>>
  BY DEF op_return, Execute
<1>2. /\ img \in Images /\ WellAnnotated(img) /\ frame_count \in 1..frame_count
      /\ Running(img, frames, frame_count, stack_top, try_stack)
      /\ frame_count \in 1..MaxCallDepth
      /\ FRAME.fn = "main" <=> frame_count = 1
      /\ Current = NextOf(img, frames, frame_count)
      /\ Current.depth \in Nat
      /\ Annotated(img, FRAME.fn, FRAME.off, Current)
      /\ stack_top = FRAME.base + Current.depth
  BY <1>1, Now
<1>3. Current.open = <<>> /\ Current.depth > 0 /\ FRAME.fn # "main"
  BY <1>1, <1>2, Zenon DEF Annotated
<1>4. frame_count \in Nat /\ frame_count > 1
  BY <1>2, <1>3, LimitsAssumption
<1>5. /\ FRAME.base \in Nat /\ FRAME.base > 0
      /\ Running(img, frames, frame_count - 1, FRAME.base, try_stack)
      /\ Acts(img, frames, frame_count - 1)
            = ActsFrom(img, frames, frame_count, frame_count - 1, ActsNow[frame_count - 1])
  BY <1>2, <1>3, <1>4, Returns, Zenon DEF ActsNow, FRAME
<1>6. stack_top' = FRAME.base
  <2>1. PICK b, d \in Nat : b = FRAME.base /\ d = Current.depth /\ b > 0 /\ d > 0
    BY <1>2, <1>3, <1>5
  <2>2. ReturnHeight(PopFrom(b + d, 1), b) = b
    BY <2>1 DEF ReturnHeight, PopFrom
  <2> QED
    BY <1>1, <1>2, <2>1, <2>2, Zenon
<1>7. /\ Running(img, frames', frame_count', stack_top', try_stack')
      /\ ActsNow' = ActsFrom(img, frames, frame_count, frame_count - 1, ActsNow[frame_count - 1])
  BY <1>1, <1>5, <1>6 DEF ActsNow
<1>8. VMInv'
  BY <1>1, <1>7, RunsOn
<1>9. ActsNow \in Seq(Nat) /\ Len(ActsNow) = frame_count
  BY <1>2, ActsTyped DEF ActsNow
<1>10. ActsNow' = SubSeq(ActsNow, 1, Len(ActsNow) - 1)
  <2>1. PICK j \in 1..frame_count : j = frame_count - 1
    BY <1>4
  <2>2. ActsFrom(img, frames, frame_count, j, ActsNow[j]) = SubSeq(ActsNow, 1, j)
    BY <1>2, ActsFromPrefix DEF ActsNow
  <2> QED
    BY <1>7, <1>9, <2>1, <2>2
<1>11. Control!Return
  BY <1>1, <1>4, <1>9, <1>10, ActsAre DEF Control!Return, Control!Depth
<1> QED
  BY <1>1, <1>8, <1>11 DEF Control!Next

\* Whatever a call names is a compiled function that takes the arguments of the call.
LEMMA CalleeFits ==
    ASSUME NEW i, i.f = Dynamic \/ CallsWell(img, i), NEW f \in Callees(i)
    PROVE  f \in DOMAIN img \ {"main"} /\ img[f].arity = i.n
<1>1. CASE i.f = Dynamic
  BY <1>1 DEF Callees, Functions
<1>2. CASE i.f # Dynamic
  BY <1>2 DEF Callees, CallsWell
<1> QED
  BY <1>1, <1>2

\* A call that finds a frame.
LEMMA Calls ==
    ASSUME \A im \in Images : WellAnnotated(im), VMInv, status = "run", Current.op = "CALL",
           frame_count < MaxCallDepth, NEW f \in Callees(Current),
           frames' = [frames EXCEPT
                         ![frame_count].off = @ + 1,
                         ![frame_count + 1] = [fn |-> f, code |-> f, off |-> 1,
                                               base |-> stack_top - Current.n]],
           frame_count' = frame_count + 1, UNCHANGED <<img, stack_top, try_stack, status>>
    PROVE  VMInv' /\ Control!Next
<1> DEFINE p == Placed(frames, frame_count, FRAME.off + 1)
<1>1. /\ img \in Images /\ WellAnnotated(img)
      /\ Running(img, frames, frame_count, stack_top, try_stack)
      /\ frames \in Arrays(img) /\ frame_count \in 1..MaxCallDepth
      /\ FRAME.fn \in DOMAIN img /\ FRAME.code = FRAME.fn /\ FRAME.base \in Nat
      /\ FRAME.off \in Nat
      /\ Current = NextOf(img, frames, frame_count)
      /\ Current.depth \in Nat /\ Current.n \in Int
      /\ Annotated(img, FRAME.fn, FRAME.off, Current)
      /\ stack_top = FRAME.base + Current.depth
  BY Now
<1>2. /\ Current.n \in 0..(Current.depth - 1)
      /\ At(img[FRAME.fn].code, FRAME.off + 1, Current.depth - Current.n, Current.open)
      /\ Current.f = Dynamic \/ CallsWell(img, Current)
  BY <1>1, Zenon DEF Annotated
<1>3. f \in DOMAIN img \ {"main"} /\ img[f].arity = Current.n
  BY <1>2, CalleeFits
<1>4. PICK t \in Nat : /\ t = FRAME.base + (Current.depth - Current.n)
                       /\ t = stack_top - Current.n /\ t > 0 /\ t + Current.n = stack_top
  <2>1. PICK b, d \in Nat : b = FRAME.base /\ d = Current.depth
    BY <1>1
  <2>2. PICK m \in 0..(d - 1) : m = Current.n
    BY <1>2, <2>1
  <2>3. /\ b + (d - m) \in Nat /\ b + (d - m) > 0
        /\ b + (d - m) = (b + d) - m /\ (b + (d - m)) + m = b + d
    BY <2>1, <2>2
  <2> QED
    BY <1>1, <2>1, <2>2, <2>3, Zenon
<1>5. Running(img, p, frame_count, t, try_stack) /\ Acts(img, p, frame_count) = ActsNow
  <2>1. PICK d, k : d = Current.depth - Current.n /\ k = FRAME.off + 1
    OBVIOUS
  <2>2. At(img[frames[frame_count].fn].code, k, d, NextOf(img, frames, frame_count).open)
    BY <1>1, <1>2, <2>1, Zenon DEF FRAME
  <2>3. /\ Running(img, Placed(frames, frame_count, k), frame_count,
                   frames[frame_count].base + d, try_stack)
        /\ Acts(img, Placed(frames, frame_count, k), frame_count) = ActsNow
    BY <1>1, <2>2, GoesOn, Zenon DEF ActsNow
  <2> QED
    BY <1>4, <2>1, <2>3 DEF FRAME
<1>6. frames' = With(p, frame_count + 1, Called(f, t))
  <2>1. ByAdvance(frames, frame_count) = p
    BY <1>1, Placing, Zenon DEF FRAME
  <2>2. frames' = With(ByAdvance(frames, frame_count), frame_count + 1, Called(f, t))
    BY <1>4 DEF With, ByAdvance, Called
  <2> QED
    BY <2>1, <2>2
<1> HIDE DEF p
<1>7. /\ Running(img, With(p, frame_count + 1, Called(f, t)), frame_count + 1,
                 t + img[f].arity, try_stack)
      /\ Acts(img, With(p, frame_count + 1, Called(f, t)), frame_count + 1)
            = Append(Acts(img, p, frame_count), 0)
  BY <1>1, <1>3, <1>4, <1>5, Enters, Zenon
<1>8. /\ Running(img, frames', frame_count', stack_top', try_stack')
      /\ ActsNow' = Append(ActsNow, 0)
  BY <1>3, <1>4, <1>5, <1>6, <1>7 DEF ActsNow
<1>9. VMInv'
  BY <1>8, RunsOn
<1>10. Control!Call
  BY <1>8, ActsAre DEF Control!Call
<1> QED
  BY <1>9, <1>10 DEF Control!Next

\* op_call: a new frame over the arguments, or an error at a limit.
LEMMA CallSteps ==
    ASSUME \A im \in Images : WellAnnotated(im), VMInv, op_call
    PROVE  VMInv' /\ Control!Next
<1>1. status = "run" /\ Current.op = "CALL"
  BY DEF op_call, Execute
<1>2. CASE vm_throw_error
  BY <1>1, <1>2, Throws
<1>3. CASE ~vm_throw_error
  <2>1. /\ frame_count < MaxCallDepth
        /\ \E f \in Callees(Current) :
              frames' = [frames EXCEPT
                         ![frame_count].off = @ + 1,
                         ![frame_count + 1] = [fn |-> f, code |-> f, off |-> 1,
                                               base |-> stack_top - Current.n]]
        /\ frame_count' = frame_count + 1
        /\ UNCHANGED <<img, stack_top, try_stack, status>>
    BY <1>3 DEF op_call
  <2> QED
    BY <1>1, <2>1, Calls
<1> QED
  BY <1>2, <1>3

\* op_call_tail: the frame of the caller becomes that of the callee.
LEMMA TailCallSteps ==
    ASSUME \A im \in Images : WellAnnotated(im), VMInv, op_call_tail
    PROVE  VMInv' /\ Control!Next
<1>1. /\ status = "run" /\ Current.op = "CALL_TAIL"
      /\ frames' = [frames EXCEPT ![frame_count] = [fn |-> Current.f, code |-> Current.f,
                                                  off |-> 1, base |-> @.base]]
      /\ stack_top' = FRAME.base + Current.n
      /\ UNCHANGED <<img, frame_count, try_stack, status>>
  BY DEF op_call_tail, Execute
<1>2. /\ img \in Images /\ WellAnnotated(img) /\ frame_count \in 1..frame_count
      /\ Running(img, frames, frame_count, stack_top, try_stack)
      /\ Current = NextOf(img, frames, frame_count)
      /\ Annotated(img, FRAME.fn, FRAME.off, Current)
  BY <1>1, Now
<1>3. Current.open = <<>> /\ FRAME.fn # "main" /\ CallsWell(img, Current)
  BY <1>1, <1>2, Zenon DEF Annotated
<1>4. PICK f : f = Current.f /\ f \in DOMAIN img \ {"main"} /\ img[f].arity = Current.n
  BY <1>3 DEF CallsWell
<1>5. frames' = With(frames, frame_count, Called(f, frames[frame_count].base))
  BY <1>1, <1>4 DEF With, Called
<1>6. frames[frame_count].fn # "main" /\ NextOf(img, frames, frame_count).open = <<>>
  BY <1>2, <1>3 DEF FRAME
<1>7. /\ Running(img, With(frames, frame_count, Called(f, frames[frame_count].base)), frame_count,
                 frames[frame_count].base + img[f].arity, try_stack)
      /\ Acts(img, With(frames, frame_count, Called(f, frames[frame_count].base)), frame_count)
            = Acts(img, frames, frame_count)
  BY <1>2, <1>4, <1>6, Reenters
<1>8. Running(img, frames', frame_count', stack_top', try_stack') /\ ActsNow' = ActsNow
  BY <1>1, <1>4, <1>5, <1>7 DEF ActsNow, FRAME
<1>9. VMInv'
  BY <1>1, <1>8, RunsOn
<1>10. ActsNow \in Seq(Nat) /\ Len(ActsNow) = frame_count
  BY <1>2, ActsTyped DEF ActsNow
<1>11. Control!Next
  <2>1. Len(ActsNow) \in 1..Len(ActsNow) /\ Len(ActsNow) > 0
    BY <1>2, <1>10
  <2>2. ActsNow[Len(ActsNow)] \in Nat
    BY <1>10, <2>1
  <2>3. PICK c \in 0..ActsNow[Len(ActsNow)] + 1 : c = ActsNow[Len(ActsNow)]
    BY <2>2
  <2>4. ActsNow' = [ActsNow EXCEPT ![Len(ActsNow)] = c]
    <3>1. ActsNow = [ActsNow EXCEPT ![Len(ActsNow)] = ActsNow[Len(ActsNow)]]
      BY <1>10, <2>1, LenProperties
    <3> QED
      BY <1>8, <2>3, <3>1
  <2> QED
    BY <1>1, <1>10, <2>1, <2>4, ControlMoves
<1> QED
  BY <1>9, <1>11

\* op_halt ends the program.
LEMMA HaltSteps ==
    ASSUME \A im \in Images : WellAnnotated(im), VMInv, op_halt
    PROVE  VMInv' /\ Control!Next
<1>1. /\ status = "run" /\ Current.op = "HALT" /\ status' = "ok"
      /\ UNCHANGED <<img, frames, frame_count, stack_top, try_stack>>
  BY DEF op_halt, Execute
<1>2. VMInv'
  BY <1>1 DEF VMInv
<1>3. /\ img \in Images /\ WellAnnotated(img)
      /\ Running(img, frames, frame_count, stack_top, try_stack)
      /\ FRAME.fn = "main" <=> frame_count = 1
      /\ Annotated(img, FRAME.fn, FRAME.off, Current)
  BY <1>1, Now
<1>4. frame_count = 1
  BY <1>1, <1>3, Zenon DEF Annotated
<1>5. Len(ActsNow) = frame_count
  BY <1>3, ActsTyped DEF ActsNow
<1>6. ActsNow' = ActsNow
  BY <1>1 DEF ActsNow
<1>7. Control!Halt
  BY <1>1, <1>4, <1>5, <1>6, ActsAre DEF Control!Halt, Control!Depth
<1> QED
  BY <1>1, <1>2, <1>7 DEF Control!Next

\* The machine starts in the invariant, with one activation in no try block.
LEMMA Starts ==
    ASSUME \A im \in Images : WellAnnotated(im), Init
    PROVE  VMInv /\ Control!Init
<1> DEFINE m == [fn |-> "main", code |-> "main", off |-> 1, base |-> 0]
<1>1. /\ img \in Images /\ frames = [i \in 1..MaxCallDepth |-> m]
      /\ frame_count = 1 /\ stack_top = 0 /\ try_stack = <<>> /\ status = "run"
  BY DEF Init
<1>2. /\ "main" \in DOMAIN img /\ img["main"].arity = 0
      /\ At(img["main"].code, 1, 0, <<>>)
  BY <1>1 DEF WellAnnotated
<1>3. m \in Frame(img)
  BY <1>2 DEF Frame
<1>4. 1 \in 1..MaxCallDepth
  BY LimitsAssumption
<1>5. frames \in Arrays(img) /\ frames[1] = m
  BY <1>1, <1>3, <1>4 DEF Arrays
<1> HIDE DEF m
<1>6. frames[1].fn = "main" /\ frames[1].code = "main" /\ frames[1].off = 1 /\ frames[1].base = 0
  BY <1>5 DEF m
<1>7. NextOf(img, frames, 1).depth = 0 /\ NextOf(img, frames, 1).open = <<>>
  BY <1>2, <1>6 DEF NextOf, At
<1>8. Typed(img, frames, 1, 0, <<>>)
  BY <1>1, <1>4, <1>5 DEF Typed
<1>9. Stacked(img, frames, 1, 0)
  <2>1. \A i \in 1..1 : FrameInv(img, frames, i)
    BY <1>2, <1>6 DEF FrameInv, At
  <2>2. 0 = frames[1].base + NextOf(img, frames, 1).depth
    BY <1>6, <1>7
  <2>3. \A i \in 1..1 - 1 :
            frames[i + 1].base = frames[i].base + NextOf(img, frames, i).depth /\ frames[i + 1].base > 0
    OBVIOUS
  <2> QED
    BY <2>1, <2>2, <2>3 DEF Stacked
<1>10. Handled(img, frames, 1, <<>>)
  <2>1. <<>> \in Seq(Try(img)) /\ Len(<<>>) = 0
    OBVIOUS
  <2>2. Ordered(<<>>, 1)
    BY <2>1 DEF Ordered
  <2>3. Holds(<<>>, 1, frames[1].fn, frames[1].base, <<>>)
    <3>1. PICK ts \in Seq(Try(img)) : ts = <<>> /\ Len(ts) = 0
      BY <2>1
    <3>2. \A k \in 1..Len(ts) : ts[k].frame_count # 1
      BY <3>1
    <3>3. Holds(ts, 1, frames[1].fn, frames[1].base, <<>>)
      BY <3>2, NoneHeld
    <3> QED
      BY <3>1, <3>3
  <2>4. \A i \in 1..1 : Holds(<<>>, i, frames[i].fn, frames[i].base, NextOf(img, frames, i).open)
    BY <1>7, <2>3
  <2> QED
    BY <2>2, <2>4 DEF Handled
<1>11. VMInv
  BY <1>1, <1>8, <1>9, <1>10 DEF VMInv, Running
<1>12. ActsNow = <<0>>
  BY <1>1, <1>7 DEF ActsNow, Acts
<1>13. Control!Init
  BY <1>1, <1>12, ActsAre DEF Control!Init
<1> QED
  BY <1>11, <1>13

----------------------------------------------------------------------------
(* Theorems                                                                *)

\* Every step keeps the invariant and is a step of ControlSpec.
LEMMA StepsKeep ==
    ASSUME \A im \in Images : WellAnnotated(im), VMInv, Next
    PROVE  VMInv' /\ Control!Next
<1>1. CASE op_plain
  BY <1>1, PlainSteps
<1>2. CASE op_raises
  BY <1>2, Throws DEF op_raises
<1>3. CASE op_jump
  BY <1>3, JumpSteps
<1>4. CASE op_jump_if
  BY <1>4, JumpIfSteps
<1>5. CASE op_call
  BY <1>5, CallSteps
<1>6. CASE op_return
  BY <1>6, ReturnSteps
<1>7. CASE op_call_tail
  BY <1>7, TailCallSteps
<1>8. CASE op_push_handler
  BY <1>8, PushHandlerSteps
<1>9. CASE op_pop_handler
  BY <1>9, PopHandlerSteps
<1>10. CASE op_throw
  BY <1>10, Throws DEF op_throw, Execute
<1>11. CASE op_halt
  BY <1>11, HaltSteps
<1> QED
  BY <1>1, <1>2, <1>3, <1>4, <1>5, <1>6, <1>7, <1>8, <1>9, <1>10, <1>11 DEF Next

\* A stutter changes neither the invariant nor what ControlSpec sees.
LEMMA StuttersKeep ==
    ASSUME VMInv, UNCHANGED vars
    PROVE  VMInv' /\ UNCHANGED Control!vars
<1>1. VMInv'
  BY DEF VMInv, vars
<1>2. ActsNow' = ActsNow
  BY DEF ActsNow, vars
<1>3. UNCHANGED Control!vars
  BY <1>2, ActsAre DEF Control!vars, vars
<1> QED
  BY <1>1, <1>3

\* The invariant holds throughout every run of programs the compiler has seen to.
LEMMA InvHolds ==
    ASSUME \A im \in Images : WellAnnotated(im)
    PROVE  Spec => []VMInv
<1>1. Init => VMInv
  BY Starts
<1>2. VMInv /\ [Next]_vars => VMInv'
  BY StepsKeep, StuttersKeep
<1> QED
  BY <1>1, <1>2, PTL DEF Spec

\* On programs the compiler has seen to, the running frame always uses the slots the compiler
\* counted, whatever calls, returns, jumps and errors led there: locals are read and written
\* where they are, below the top of the stack.
THEOREM SlotsAreCounted ==
    ASSUME \A im \in Images : WellAnnotated(im)
    PROVE  Spec => []SlotsMatchStack
<1>1. VMInv => SlotsMatchStack
  <2>1. SUFFICES ASSUME VMInv, status = "run"
                 PROVE  /\ FRAME.code = FRAME.fn
                        /\ stack_top = FRAME.base + Intended(frame_count).depth
                        /\ Current.bind # NoSlot => stack_top = FRAME.base + Current.bind
                        /\ Current.op \in {"GET_LOCAL", "SET_LOCAL"} => FRAME.base + Current.n < stack_top
    BY DEF SlotsMatchStack
  <2>2. /\ FRAME.code = FRAME.fn /\ FRAME.base \in Nat
        /\ Current = NextOf(img, frames, frame_count)
        /\ Current.depth \in Nat
        /\ Annotated(img, FRAME.fn, FRAME.off, Current)
        /\ stack_top = FRAME.base + Current.depth
    BY <2>1, Now
  <2>3. Intended(frame_count) = Current
    <3>1. FRAME.code = FRAME.fn
      BY <2>2
    <3> QED
      BY <3>1 DEF Intended, Current, FRAME
  <2>4. /\ Current.bind # NoSlot => Current.bind = Current.depth
        /\ Current.op \in {"GET_LOCAL", "SET_LOCAL"} => Current.n \in 0..(Current.depth - 1)
    BY <2>2, Zenon DEF Annotated
  <2>5. ASSUME Current.op \in {"GET_LOCAL", "SET_LOCAL"}
        PROVE  FRAME.base + Current.n < stack_top
    <3>1. PICK b, d \in Nat : b = FRAME.base /\ d = Current.depth
      BY <2>2
    <3>2. PICK m \in 0..(d - 1) : m = Current.n
      BY <2>4, <2>5, <3>1
    <3> QED
      BY <2>2, <3>1, <3>2
  <2> QED
    BY <2>2, <2>3, <2>4, <2>5
<1> QED
  BY <1>1, InvHolds, PTL

\* On programs the compiler has seen to, the try stack holds the handlers of the try blocks the
\* live activations are in, outermost first, and no other: no jump, return or unwinding leaves
\* one behind or loses one.
THEOREM HandlersAreExact ==
    ASSUME \A im \in Images : WellAnnotated(im)
    PROVE  Spec => []HandlersMatchScopes
<1>1. VMInv => HandlersMatchScopes
  <2>1. SUFFICES ASSUME VMInv, status = "run"
                 PROVE  /\ Ordered(try_stack, frame_count)
                        /\ \A i \in 1..frame_count : \E b \in 0..Len(try_stack) : HandlersOf(i, b)
    BY DEF HandlersMatchScopes, Ordered
  <2>2. /\ img \in Images /\ WellAnnotated(img)
        /\ Running(img, frames, frame_count, stack_top, try_stack)
        /\ try_stack \in Seq(Try(img))
    BY <2>1, Now
  <2>3. ASSUME NEW i \in 1..frame_count
        PROVE  \E b \in 0..Len(try_stack) : HandlersOf(i, b)
    <3>1. /\ OpenIn(i) \in Seq(Handler)
          /\ Holds(try_stack, i, frames[i].fn, frames[i].base, OpenIn(i))
      <4>1. OpenIn(i) = NextOf(img, frames, i).open
        BY DEF OpenIn, Intended, Code, NextOf
      <4>2. /\ NextOf(img, frames, i).open \in Seq(Handler)
            /\ Holds(try_stack, i, frames[i].fn, frames[i].base, NextOf(img, frames, i).open)
        BY <2>2, FrameFacts
      <4> QED
        BY <4>1, <4>2, Zenon
    <3>2. PICK b \in 0..Len(try_stack) :
             Block(try_stack, i, frames[i].fn, frames[i].base, OpenIn(i), b)
      BY <3>1 DEF Holds
    <3>3. /\ b + Len(OpenIn(i)) <= Len(try_stack)
          /\ \A k \in 1..Len(try_stack) :
                try_stack[k].frame_count = i <=> k \in b + 1..b + Len(OpenIn(i))
      BY <3>2 DEF Block
    <3>4. ASSUME NEW k \in 1..Len(OpenIn(i))
          PROVE  try_stack[b + k] = [code |-> frames[i].fn, off |-> OpenIn(i)[k].off,
                                     stack_top |-> frames[i].base + OpenIn(i)[k].depth,
                                     frame_count |-> i]
      <4>1. Len(OpenIn(i)) \in Nat /\ Len(try_stack) \in Nat /\ b \in Nat
        BY <2>2, <3>1
      <4>2. b + k \in 1..Len(try_stack) /\ b + k \in b + 1..b + Len(OpenIn(i))
        BY <3>3, <4>1
      <4>3. PICK h \in Try(img) : h = try_stack[b + k]
        BY <2>2, <4>2
      <4>4. h.frame_count = i
        BY <3>3, <4>2, <4>3
      <4>5. /\ h.code = frames[i].fn /\ h.off = OpenIn(i)[k].off
            /\ h.stack_top = frames[i].base + OpenIn(i)[k].depth
        BY <3>2, <4>3 DEF Block
      <4>6. h = [code |-> h.code, off |-> h.off, stack_top |-> h.stack_top, frame_count |-> h.frame_count]
        BY DEF Try
      <4> QED
        BY <4>3, <4>4, <4>5, <4>6
    <3>5. HandlersOf(i, b)
      BY <3>3, <3>4 DEF HandlersOf
    <3> QED
      BY <3>5
  <2> QED
    BY <2>2, <2>3 DEF Running, Handled
<1> QED
  BY <1>1, InvHolds, PTL

\* On programs the compiler has seen to, the machine implements ControlSpec: activations nest,
\* and an error goes to the innermost try block still open, wherever the calls have gone, or
\* ends the program when there is none or the stack has no room for it.
THEOREM MachineImplementsControl ==
    ASSUME \A im \in Images : WellAnnotated(im)
    PROVE  Spec => ImplementsControlSpec
<1>1. Init => Control!Init
  BY Starts
<1>2. VMInv /\ [Next]_vars => [Control!Next]_(Control!vars)
  BY StepsKeep, StuttersKeep
<1> QED
  BY <1>1, <1>2, InvHolds, PTL DEF Spec, ImplementsControlSpec, Control!Spec
============================================================================
