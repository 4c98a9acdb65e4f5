------------------------------- MODULE MCChnVM -------------------------------
(***************************************************************************)
(* ChnVM on compiled programs. Each program's top level calls f and may    *)
(* throw; f(p) binds a local, runs one statement of a family built by      *)
(* nesting, and prints the local; g(u) throws or returns. Patterns for     *)
(* which the compiler's bookkeeping and the machine are known to part are  *)
(* named by Flaws; a run takes the programs whose patterns are Allowed.    *)
(***************************************************************************)
EXTENDS ChnVM, ChnCompiler

CONSTANTS
    Allowed,    \* the patterns that may occur
    Levels      \* optimisation levels

Num == <<"num">>
Var(v) == <<"var", v>>
P == Var("p")
Do(e) == <<"expr", e>>
CallG == <<"call", "g", <<P>>>>
CallF == <<"call", "f", <<Num>>>>

Expressions == {
    CallG, CallF,
    <<"assign", "a", <<"call_value", "p", <<Var("a")>>>>>>,
    <<"compound", "a", <<"ternary", P, CallG, <<"not", <<"not", P>>>>>>>>,
    <<"post_inc", "a">>,
    <<"array", <<P, <<"bin", Num, Num>>>>>>,
    <<"shortcut", P, Var("a")>>, <<"shortcut", P, Num>>,
    <<"coal", P, <<"bin", P, Num>>>>, <<"coal", P, Num>>}

Leaves ==
    {Do(e) : e \in Expressions} \cup
    {<<"throw", P>>, <<"break">>, <<"continue">>, <<"return", P>>, <<"return", CallG>>,
     <<"let", "b", CallG>>, <<"block", <<>>>>}

Let(v) == <<"let", v, P>>

Nest(S) ==
    LET body == <<S>> IN
    {<<"if", P, body, <<>>>>,
     <<"if", P, <<Let("c"), S>>, <<Do(CallG)>>>>,
     <<"while", P, body>>,
     <<"do_while", body, CallG>>,
     <<"for", Let("i"), P, <<"post_inc", "i">>, body>>,
     <<"foreach", <<"v">>, P, body>>,
     <<"foreach", <<"k", "v">>, P, body>>,
     <<"switch", P, <<<<Num, body>>, <<CallG, <<>>>>>>, <<Do(P)>>>>,
     <<"switch", P, <<<<Num, <<>>>>>>, body>>,
     <<"try", body, "e", <<Do(Var("e"))>>>>,
     <<"try", <<Do(CallG)>>, "e", body>>,
     <<"block", <<S, <<"print", <<P, Var("a")>>>>>>>>}

\* Nested twice: calls, locals and the jumps and errors that may cross two constructs.
Crossing == {Do(CallG), Do(CallF), <<"let", "b", CallG>>, <<"throw", P>>, <<"break">>,
             <<"continue">>, <<"return", P>>, <<"return", CallG>>}

Statements == Leaves \cup UNION {Nest(S) : S \in Leaves \cup UNION {Nest(L) : L \in Crossing}}

----------------------------------------------------------------------------
(* Patterns the compiler mishandles                                        *)

Jumps == {"return", "break", "continue"}

\* Does s leave locals in the scope it is in?
RECURSIVE Defines(_)
SomeDefines(ss) == \E k \in 1..Len(ss) : Defines(ss[k])
Defines(s) ==
    \/ s[1] = "let"
    \/ s[1] = "for" /\ Defines(s[2])
    \/ s[1] \in {"block", "try"} /\ SomeDefines(s[2])
    \/ s[1] = "switch" /\ (SomeDefines(s[4]) \/ \E k \in 1..Len(s[3]) : SomeDefines(s[3][k][2]))

\* c says what it amounts to, at a point, to break, to continue, to return and to define a
\* local: sets of patterns, "illegal" for what the compiler rejects.
Outside == [brk |-> {"illegal"}, cont |-> {"illegal"}, ret |-> {}, def |-> {}]
Looping(c) == [c EXCEPT !.brk = {}, !.cont = {}]
Unpopped(c) == [c EXCEPT !.def = @ \cup {"unpopped"}]
Afresh(c) == [c EXCEPT !.def = @ \ {"unpopped"}]
Jumping(c, flaw) == [c EXCEPT !.brk = @ \cup {flaw}, !.cont = @ \cup {flaw}]
InTry(c) == [Jumping(c, "leaves_try") EXCEPT !.ret = @ \cup {"leaves_try"}]
InDefault(c) == Jumping([c EXCEPT !.brk = {}, !.def = @ \cup {"under_subject"}], "under_subject")

\* The last operand of a value that is dropped is a constant: the POP that its other
\* operands jump to is optimised away.
LosesPop(e) == e[1] \in {"shortcut", "coal"} /\ e[3] = Num

RECURSIVE Flaws(_, _)
RECURSIVE BlockFlaws(_, _)
BlockFlaws(ss, c) ==
    IF ss = <<>> THEN {}
    ELSE Flaws(Head(ss), c)
         \cup (IF Head(ss)[1] \in Jumps /\ Tail(ss) # <<>> THEN {"illegal"} ELSE {})
         \cup BlockFlaws(Tail(ss), IF Defines(Head(ss)) THEN Jumping(c, "skips_local") ELSE c)

Flaws(s, c) ==
    CASE s[1] = "let" -> c.def
      [] s[1] = "break" -> c.brk
      [] s[1] = "continue" -> c.cont
      [] s[1] = "return" -> c.ret
      [] s[1] = "expr" -> IF LosesPop(s[2]) THEN {"loses_pop"} ELSE {}
      [] s[1] \in {"print", "throw"} -> {}
      [] s[1] = "block" -> BlockFlaws(s[2], c)
      [] s[1] = "if" -> BlockFlaws(s[3], Afresh(c)) \cup BlockFlaws(s[4], Afresh(c))
      [] s[1] = "while" -> BlockFlaws(s[3], Looping(Afresh(c)))
      [] s[1] = "do_while" -> BlockFlaws(s[2], Looping(Afresh(c)))
      [] s[1] = "for" -> Flaws(s[2], c) \cup BlockFlaws(s[5], Looping(Afresh(c)))
      [] s[1] = "foreach" -> Afresh(c).def \cup BlockFlaws(s[4], Looping(Unpopped(c)))
      [] s[1] = "switch" ->
            UNION {BlockFlaws(s[3][k][2], [Unpopped(c) EXCEPT !.brk = {}]) : k \in 1..Len(s[3])}
            \cup BlockFlaws(s[4], InDefault(Unpopped(c)))
      [] s[1] = "try" -> Afresh(c).def \cup BlockFlaws(s[2], InTry(Unpopped(c)))
                         \cup BlockFlaws(s[4], Jumping(Afresh(c), "skips_local"))

----------------------------------------------------------------------------
(* The programs                                                            *)

BodyOf(S) == <<<<"let", "a", P>>, S, <<"print", <<Var("a")>>>>>>

Program(S) == [
    main |-> [params |-> <<>>,
              body |-> <<<<"let", "m", Num>>,
                         <<"foreach", <<"k", "v">>, Var("m"), <<Do(CallF)>>>>,
                         <<"if", Var("m"), <<<<"throw", Var("m")>>>>, <<>>>>>>],
    f |-> [params |-> <<"p">>, body |-> BodyOf(S)],
    g |-> [params |-> <<"u">>, body |-> <<<<"if", Var("u"), <<<<"throw", Var("u")>>>>, <<>>>>,
                                          <<"return", Var("u")>>>>]]

Programs == {S \in Statements : BlockFlaws(BodyOf(S), Outside) \subseteq Allowed}

Image(S, opt) ==
    LET code == compiler_compile(Program(S), opt)
    IN  [main |-> code["main"], f |-> code["f"], g |-> code["g"]]

MCImages == {Image(S, opt) : S \in Programs, opt \in Levels}

\* The programs meet the assumption of the theorems about the machine.
ASSUME ImagesAssumption == \A im \in Images : WellAnnotated(im)
==============================================================================
