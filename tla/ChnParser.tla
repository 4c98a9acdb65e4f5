------------------------------- MODULE ChnParser -----------------------------
(***************************************************************************)
(* The parser (src/v1.1/parser.c): recursive descent over the tokens of a  *)
(* text, one operator for each of its functions. P is the parser's state:  *)
(* the tokens, the index of the current one, panic_mode, whether an error  *)
(* was reported, and whether a loop was entered that makes no progress. A  *)
(* function returns the state after it and the node it built.              *)
(*                                                                         *)
(* A node has its kind, the names, literals and operators it holds, and    *)
(* the nodes below it. Lines and columns are left out.                     *)
(***************************************************************************)
EXTENDS ChnLexer, SequencesExt

CONSTANT MAX_PARAMS     \* parameters of a function, fields of a struct

Node(kind, toks, kids) == [kind |-> kind, toks |-> toks, kids |-> kids]
NULL == Node("NULL", <<>>, <<>>)
Nil == Node("Nil", <<>>, <<>>)
Block(stmts) == Node("Block", <<>>, stmts)

parser_init(tokens) == [toks |-> tokens, at |-> 1, panic |-> FALSE, err |-> FALSE, stuck |-> FALSE]
R(P, n) == [p |-> P, n |-> n]

Cur(P) == P.toks[P.at].k
Spelling(P) == P.toks[P.at].v
adv(P) == [P EXCEPT !.at = IF @ < Len(P.toks) THEN @ + 1 ELSE @]
Look(P) == Cur(adv(P))

Fail(P) == [P EXCEPT !.panic = TRUE, !.err = TRUE]
Failed(P) == R(Fail(P), NULL)
consume(P, k) == IF Cur(P) = k THEN adv(P) ELSE Fail(P)
Accept(P, k) == IF Cur(P) = k THEN adv(P) ELSE P
SkipTo(P, kinds) ==
    [P EXCEPT !.at = CHOOSE j \in @..Len(P.toks) :
        /\ P.toks[j].k \in kinds \cup {"EOF"}
        /\ \A i \in @..(j - 1) : P.toks[i].k \notin kinds \cup {"EOF"}]
skip_nl(P) ==
    [P EXCEPT !.at = CHOOSE j \in @..Len(P.toks) :
        P.toks[j].k # "NL" /\ \A i \in @..(j - 1) : P.toks[i].k = "NL"]
consume_stmt_end(P) == IF Cur(P) = ";" THEN skip_nl(adv(P)) ELSE skip_nl(P)
Recovered(P, kinds) == skip_nl([SkipTo(P, kinds) EXCEPT !.panic = FALSE])

\* "if(P->panic_mode) return NULL;" after r, and otherwise what follows.
Then(r, next) == IF r.p.panic THEN R(r.p, NULL) ELSE next
After(P, next) == IF P.panic THEN R(P, NULL) ELSE next

\* One operator is recursive, and calls what a rule names: a statement, an expression, a block, an
\* "if", a unary operator and its operand, a side of a binary operator of some level, the elements of
\* a list, or a program.
RECURSIVE rule(_, _)
stmt(P) == rule(P, <<"stmt">>)
expr(P) == rule(P, <<"expr">>)
block(P) == rule(P, <<"block">>)
unary(P) == rule(P, <<"unary">>)
side(P, level) == rule(P, <<"side", level>>)
elements(P, trail) == rule(P, <<"elements", trail>>)

-----------------------------------------------------------------------------
(* Lists                                                                   *)

\* Expressions up to the one no comma follows; "trail" skips newlines after each.
Elements(P, trail) ==
    LET e == expr(skip_nl(P))
        q == IF trail THEN skip_nl(e.p) ELSE e.p
        more == IF Cur(q) = "," THEN elements(adv(q), trail) ELSE R(q, <<>>)
    IN  R(more.p, (IF e.n = NULL THEN <<>> ELSE <<e.n>>) \o more.n)

\* The list up to its closing bracket; "lead" skips newlines before the first, "tail" after the last.
List(P, close, lead, trail, tail) ==
    LET q == IF lead THEN skip_nl(P) ELSE P
        es == IF Cur(q) = close THEN R(q, <<>>) ELSE elements(q, trail)
    IN  R(consume(IF tail THEN skip_nl(es.p) ELSE es.p, close), es.n)
Arguments(P) == List(P, ")", TRUE, TRUE, TRUE)

\* Names of parameters up to the one no comma follows.
RECURSIVE Names(_, _)
Names(P, so_far) ==
    LET q == skip_nl(P)
    IN  IF Len(so_far) >= MAX_PARAMS \/ Cur(q) # "IDENT" THEN R(Fail(q), so_far)
        ELSE LET names == Append(so_far, Spelling(q))
             IN  IF Look(q) = "," THEN Names(adv(adv(q)), names) ELSE R(adv(q), names)
Params(P) == IF Cur(skip_nl(P)) = ")" THEN R(skip_nl(P), <<>>) ELSE Names(skip_nl(P), <<>>)

\* Statements up to a token of "ends"; an error skips to a newline or a token of "stops". A loop
\* without recovery that parses nothing never ends: it is stuck.
RECURSIVE Statements(_, _, _, _)
Statements(P, ends, stops, recovers) ==
    CASE Cur(P) \in ends \cup {"EOF"} -> R(P, <<>>)
      [] Cur(P) \notin ends \cup {"EOF"} /\ P.panic /\ recovers ->
            Statements(Recovered(P, stops \cup {"NL"}), ends, stops, recovers)
      [] OTHER ->
            LET s == stmt(P)
                q == skip_nl(s.p)
                still == ~recovers /\ q.at = P.at
                rest == IF still THEN R([q EXCEPT !.stuck = TRUE, !.at = Len(q.toks)], <<>>)
                        ELSE Statements(q, ends, stops, recovers)
            IN  R(rest.p, (IF s.n = NULL THEN <<>> ELSE <<s.n>>) \o rest.n)

parse_block(P) ==
    LET q == consume(P, "{")
        body == Statements(skip_nl(q), {"}"}, {"}"}, TRUE)
    IN  After(q, R(consume(body.p, "}"), Block(body.n)))

-----------------------------------------------------------------------------
(* Expressions                                                             *)

CompoundAssigns == {"+=", "-=", "*=", "/=", "%=", "**="}

parse_assignment(P) ==
    LET value == expr(adv(adv(P)))
        lhs == side(P, 1)
        rhs == expr(adv(lhs.p))
        second == expr(consume(rhs.p, ":"))
    IN  CASE Cur(P) = "IDENT" /\ Look(P) \in CompoundAssigns ->
                R(value.p, Node("CompoundAssign", <<Spelling(P), Look(P)>>, <<value.n>>))
          [] Cur(P) = "IDENT" /\ Look(P) = "=" ->
                R(value.p, Node("Assign", <<Spelling(P)>>, <<value.n>>))
          [] OTHER ->
                IF lhs.n.kind \in {"Index", "FieldAccess"} /\ Cur(lhs.p) = "="
                THEN R(rhs.p, Node(IF lhs.n.kind = "Index" THEN "IndexSet" ELSE "FieldSet",
                                   lhs.n.toks, Append(lhs.n.kids, rhs.n)))
                ELSE IF lhs.n # NULL /\ Cur(lhs.p) = "?"
                THEN R(second.p, Node("Ternary", <<>>, <<lhs.n, rhs.n, second.n>>))
                ELSE lhs
parse_expr(P) == parse_assignment(P)

\* parse_null_coal, parse_or, ..., parse_multiply: the operators of each level, loosest first.
Levels == << {"??"}, {"||"}, {"&&"}, {"==", "!="}, {"<", ">", "<=", ">=", "in"}, {"|"}, {"^"},
             {"&"}, {"<<", ">>"}, {"+", "-"}, {"*", "/", "%"} >>

\* Newlines may follow any binary operator but "??".
AfterOperator(P) == IF Cur(P) = "??" THEN adv(P) ELSE skip_nl(adv(P))

Joined(P, l, r) == IF r.n = NULL \/ r.p.panic THEN R(r.p, l.n)
                   ELSE R(r.p, Node("Binary", <<Cur(P)>>, <<l.n, r.n>>))

RECURSIVE parse_power(_)
parse_power(P) ==
    LET l == unary(P)
        r == parse_power(AfterOperator(l.p))
    IN  IF l.n = NULL \/ l.p.panic \/ Cur(l.p) # "**" THEN l ELSE Joined(l.p, l, r)

\* Mutant: the right operand takes the rest of its level.
grouped_to_the_right(l, level) ==
    IF l.n = NULL \/ l.p.panic \/ Cur(l.p) \notin Levels[level] THEN l
    ELSE Joined(l.p, l, side(AfterOperator(l.p), level))

\* The rest of a level after its first operand.
RECURSIVE Chain(_, _)
Chain(l, level) ==
    IF l.n = NULL \/ l.p.panic \/ Cur(l.p) \notin Levels[level] THEN l
    ELSE LET r == side(AfterOperator(l.p), level + 1)
             joined == Joined(l.p, l, r)
         IN  IF r.n = NULL \/ r.p.panic THEN joined ELSE Chain(joined, level)

\* The rest of the tightest level after its first operand, then that of the next one, down to "level".
RECURSIVE Climbing(_, _, _)
Climbing(l, tightest, level) ==
    IF l.n = NULL \/ tightest < level THEN l ELSE Climbing(Chain(l, tightest), tightest - 1, level)
parse_level(P, level) == Climbing(parse_power(P), Len(Levels), level)

-----------------------------------------------------------------------------
(* Lambdas                                                                 *)

ExprLambda(params, P) == LET e == expr(skip_nl(P)) IN R(e.p, Node("Lambda", params, <<e.n>>))

parse_lambda_with_params(P, params) ==
    LET body == block(P)
    IN  CASE Cur(P) = "->" -> ExprLambda(params, adv(P))
          [] Cur(P) = "{" -> R(body.p, Node("LambdaBlock", params, <<body.n>>))
          [] OTHER -> Failed(P)

parse_lambda(P) ==
    LET q == consume(P, "(")
        names == Params(q)
        s == consume(skip_nl(names.p), ")")
    IN  After(q, Then(names, After(s, parse_lambda_with_params(skip_nl(s), names.n))))

\* parse_primary on "(": names separated by commas up to ")" may be parameters. The result is the
\* state at the token that decides and the names read.
RECURSIVE Speculated(_, _)
Speculated(P, names) ==
    IF Cur(P) # "IDENT" THEN R(P, names)
    ELSE LET q == skip_nl(adv(P))
             all == Append(names, Spelling(P))
         IN  IF Cur(q) = "," THEN Speculated(skip_nl(adv(q)), all) ELSE R(q, all)

\* Mutant: the parser is not put back where the names began.
NotPutBack(P, tried) == tried.p

\* When it was no lambda, lexer, current and lookahead are restored.
PutBack(P, tried) == P

Grouped(P) ==
    LET tried == Speculated(skip_nl(adv(P)), <<>>)
        inner == expr(adv(PutBack(P, tried)))
    IN  IF Cur(tried.p) = ")" /\ Look(tried.p) = "->" THEN ExprLambda(tried.n, adv(adv(tried.p)))
        ELSE IF Cur(tried.p) = ")" /\ tried.n = <<>> THEN Failed(adv(tried.p))
        ELSE IF Cur(tried.p) = ")" /\ Len(tried.n) = 1 THEN R(adv(tried.p), Node("Ident", tried.n, <<>>))
        ELSE R(consume(inner.p, ")"), inner.n)

-----------------------------------------------------------------------------
(* Primaries, postfixes and unary operators                                *)

\* The pairs of a dict literal. A key that is no name ends them.
RECURSIVE Pairs(_)
Pairs(P) ==
    LET k == skip_nl(P)
        val == expr(consume(adv(k), ":"))
        q == skip_nl(val.p)
        more == IF Cur(q) = "," THEN Pairs(adv(q)) ELSE R(q, <<>>)
    IN  IF Cur(k) \notin {"STRING", "IDENT"} THEN R(k, <<>>)
        ELSE R(more.p, <<Node("Pair", <<Spelling(k)>>, <<val.n>>)>> \o more.n)

DictLiteral(P) ==
    LET pairs == Pairs(P) IN R(consume(pairs.p, "}"), Node("DictLit", <<>>, pairs.n))

\* @native(id, args): newlines are not skipped, and each comma begins an argument.
RECURSIVE NativeArgs(_)
NativeArgs(P) ==
    LET a == expr(adv(P))
        more == NativeArgs(a.p)
    IN  IF Cur(P) # "," THEN R(P, <<>>)
        ELSE R(more.p, (IF a.n = NULL THEN <<>> ELSE <<a.n>>) \o more.n)

parse_native_call(P) ==
    LET q == consume(IF Cur(P) = "IDENT" THEN adv(P) ELSE P, "(")
        args == NativeArgs(adv(q))
    IN  IF Cur(q) # "NUMBER" THEN Failed(q)
        ELSE R(consume(args.p, ")"), Node("NativeCall", <<Spelling(q)>>, args.n))

Builtins == {"range", "str", "len", "args"}
Literal == [k \in {"NUMBER", "STRING", "FSTRING", "true", "false"} |->
               CASE k = "NUMBER" -> "Number" [] k = "STRING" -> "String" [] k = "FSTRING" -> "FString"
                 [] OTHER -> "Bool"]

parse_primary(P) ==
    LET q == adv(P)
        list == List(q, "]", TRUE, TRUE, FALSE)
        args == Arguments(adv(q))
        operand == unary(q)
    IN  CASE Cur(P) = "@" -> parse_native_call(q)
          [] Cur(P) \in DOMAIN Literal -> R(q, Node(Literal[Cur(P)], <<Spelling(P)>>, <<>>))
          [] Cur(P) \in {"nil", "null"} -> R(q, IF Cur(P) = "nil" THEN Nil ELSE Node("Null", <<>>, <<>>))
          [] Cur(P) = "await" -> R(operand.p, Node("Await", <<>>, <<operand.n>>))
          [] Cur(P) = "[" -> R(list.p, Node("ArrayLit", <<>>, list.n))
          [] Cur(P) = "{" -> DictLiteral(q)
          [] Cur(P) = "IDENT" ->
                IF Cur(q) = "(" THEN R(args.p, Node(IF Spelling(P) \in Builtins THEN "NativeCall" ELSE "Call",
                                                    <<Spelling(P)>>, args.n))
                ELSE IF Cur(q) = "->" THEN ExprLambda(<<Spelling(P)>>, adv(q))
                ELSE R(q, Node("Ident", <<Spelling(P)>>, <<>>))
          [] Cur(P) = "func" -> IF Cur(q) = "IDENT" THEN Failed(q) ELSE parse_lambda(q)
          [] Cur(P) = "(" -> Grouped(P)
          [] OTHER -> R(adv([P EXCEPT !.panic = TRUE, !.err = @ \/ ~P.panic]), Nil)

\* Only these may be called by an argument list that follows them.
Callable == {"Lambda", "LambdaBlock", "Ident", "FieldAccess", "Index"}

\* Members, indices, calls and "++" after base, until none follows or an error.
RECURSIVE Suffixed(_)
Suffixed(base) ==
    LET P == base.p
        name == adv(P)
        field == R(adv(name), Node("FieldAccess", <<Spelling(name)>>, <<base.n>>))
        margs == List(adv(adv(name)), ")", TRUE, FALSE, TRUE)
        args == Arguments(name)
        idx == expr(name)
        Keep(r, n) == IF r.p.panic THEN R(r.p, base.n) ELSE Suffixed(R(r.p, n))
    IN  CASE P.panic \/ base.n = NULL -> base
          [] ~P.panic /\ base.n # NULL /\ Cur(P) = "." ->
                IF Cur(name) # "IDENT" THEN R(Fail(name), base.n)
                ELSE IF Look(name) = "(" THEN Keep(margs, Node("MethodCall", <<Spelling(name)>>, <<base.n>> \o margs.n))
                ELSE Suffixed(field)
          [] ~P.panic /\ base.n # NULL /\ Cur(P) = "[" ->
                IF idx.p.panic THEN R(idx.p, base.n)
                ELSE Keep(R(consume(idx.p, "]"), NULL), Node("Index", <<>>, <<base.n, idx.n>>))
          [] ~P.panic /\ Cur(P) = "++" /\ base.n.kind = "Ident" ->
                Suffixed(R(name, Node("PostInc", Append(base.n.toks, "++"), <<>>)))
          [] ~P.panic /\ Cur(P) = "(" /\ base.n.kind \in Callable ->
                Keep(args, Node("CallExpr", <<>>, <<base.n>> \o args.n))
          [] OTHER -> base
parse_postfix(P) == Suffixed(parse_primary(P))

parse_unary(P) ==
    LET q == adv(P)
        operand == unary(q)
    IN  CASE Cur(P) = "++" -> IF Cur(q) # "IDENT" THEN Failed(q)
                              ELSE R(adv(q), Node("PreInc", <<"++", Spelling(q)>>, <<>>))
          [] Cur(P) \in {"-", "!", "~", "typeof"} ->
                Then(operand, IF operand.n = NULL THEN operand
                              ELSE R(operand.p, Node("Unary", <<Cur(P)>>, <<operand.n>>)))
          [] OTHER -> parse_postfix(P)

-----------------------------------------------------------------------------
(* Statements                                                              *)

Named(P, next) == IF Cur(P) = "IDENT" THEN next ELSE Failed(P)
Ended(r) == R(consume_stmt_end(r.p), r.n)

\* let, var, array, dict: a name and what it is initialised to.
Declaration(P, kind, nothing) ==
    LET q == adv(P)
        elems == List(adv(adv(q)), "]", TRUE, TRUE, FALSE)
        init == IF Cur(q) # "=" THEN R(q, nothing)
                ELSE IF kind = "ArrayDecl" /\ Look(q) = "[" THEN R(elems.p, Node("ArrayLit", <<>>, elems.n))
                ELSE expr(adv(q))
    IN  Named(P, Ended(R(init.p, Node(kind, <<Spelling(P)>>, <<init.n>>))))
parse_var_decl(P, is_let) == Declaration(P, IF is_let THEN "LetDecl" ELSE "VarDecl", Nil)
parse_array_decl(P) == Declaration(P, "ArrayDecl", Node("ArrayLit", <<>>, <<>>))
parse_dict_decl(P) == Declaration(P, "DictDecl", Node("DictLit", <<>>, <<>>))

parse_func_decl(P, vis, is_async) ==
    LET s == consume(adv(P), "(")
        names == Params(s)
        body == block(skip_nl(consume(names.p, ")")))
        kind == "FuncDecl " \o vis \o (IF is_async THEN " async" ELSE "")
    IN  Named(P, After(s, Then(names, R(body.p, Node(kind, <<Spelling(P)>> \o names.n, <<body.n>>)))))

parse_entry_main(P, vis) ==
    LET q == consume(adv(P), "(")
        close == skip_nl(q)
        body == block(skip_nl(adv(close)))
    IN  IF Cur(P) # "IDENT" \/ Spelling(P) # "main" THEN Failed(P)
        ELSE After(q, IF Cur(close) # ")" THEN Failed(close) ELSE IF body.n = NULL THEN body
                      ELSE R(body.p, Node("FuncDecl " \o vis \o " entry", <<"main">>, <<body.n>>)))

RECURSIVE Fields(_, _)
Fields(P, count) ==
    LET value == IF Look(P) = ":" THEN expr(adv(adv(P))) ELSE R(adv(P), Nil)
        q == skip_nl(value.p)
        more == IF Cur(q) = "," THEN Fields(skip_nl(adv(q)), count + 1) ELSE R(q, <<>>)
    IN  CASE Cur(P) \in {"}", "EOF"} \/ P.panic -> R(P, <<>>)
          [] Cur(P) \notin {"}", "EOF"} /\ ~P.panic /\ (count >= MAX_PARAMS \/ Cur(P) # "IDENT") -> R(Fail(P), <<>>)
          [] OTHER -> R(more.p, <<Node("Field", <<Spelling(P)>>, <<value.n>>)>> \o more.n)

parse_struct_decl(P) ==
    LET s == consume(skip_nl(adv(P)), "{")
        fields == Fields(skip_nl(s), 0)
    IN  Named(P, After(s, Ended(R(consume(fields.p, "}"), Node("StructDecl", <<Spelling(P)>>, fields.n)))))

\* The parentheses around a condition are optional: an opening one belongs to the statement.
Condition(P) ==
    LET paren == Cur(P) = "("
        c == expr(Accept(P, "("))
    IN  Then(c, IF paren THEN R(consume(c.p, ")"), c.n) ELSE c)

ElseBranch(P) ==
    LET q == skip_nl(adv(P))
    IN  IF Cur(P) # "else" THEN R(P, NULL) ELSE IF Cur(q) = "if" THEN rule(adv(q), <<"if">>) ELSE block(q)

parse_if(P) ==
    LET c == Condition(P)
        b == block(skip_nl(c.p))
        e == ElseBranch(skip_nl(b.p))
    IN  Then(c, Then(b, R(e.p, Node("If", <<>>, <<c.n, b.n, e.n>>))))

parse_while(P) ==
    LET c == Condition(P)
        b == block(skip_nl(c.p))
    IN  After(P, Then(c, Then(b, R(b.p, Node("While", <<>>, <<c.n, b.n>>)))))

parse_do_while(P) ==
    LET b == block(skip_nl(P))
        q == consume(skip_nl(b.p), "while")
        s == consume(q, "(")
        c == expr(s)
        u == consume(c.p, ")")
    IN  Then(b, After(q, After(s, After(u, Ended(R(u, Node("DoWhile", <<>>, <<b.n, c.n>>)))))))

Foreach(P, names) ==
    LET e == expr(P)
        body == block(skip_nl(e.p))
    IN  R(body.p, Node("Foreach", names, <<e.n, body.n>>))

\* The first clause, with the ";" that ends it and the one a declaration or "i++;;" leaves.
ForInit(P) ==
    LET decl == parse_var_decl(adv(P), Cur(P) = "let")
        e == expr(P)
    IN  CASE Cur(P) = ";" -> R(adv(P), NULL)
          [] Cur(P) \in {"var", "let"} -> R(skip_nl(Accept(decl.p, ";")), decl.n)
          [] OTHER -> R(skip_nl(Accept(Accept(e.p, ";"), ";")), Node("ExprStmt", <<>>, <<e.n>>))

Optional(P, end) == IF Cur(P) = end THEN R(P, NULL) ELSE expr(P)

ForClauses(P) ==
    LET init == ForInit(P)
        cond == Optional(init.p, ";")
        post == Optional(skip_nl(consume(cond.p, ";")), ")")
        body == block(skip_nl(consume(post.p, ")")))
    IN  R(body.p, Node("For", <<>>, <<init.n, cond.n, post.n, body.n>>))

parse_for(P) ==
    LET second == adv(adv(P))
        q == consume(P, "(")
    IN  CASE Cur(P) = "IDENT" /\ Look(P) = "in" -> Foreach(second, <<Spelling(P)>>)
          [] Cur(P) = "IDENT" /\ Look(P) = "," /\ Cur(second) = "IDENT" /\ Look(second) = "in" ->
                Foreach(adv(adv(second)), <<Spelling(P), Spelling(second)>>)
          [] OTHER -> After(q, ForClauses(q))

CaseEnds == {"}", "case", "default"}

\* The cases of a switch and its default, the last one if there are several.
RECURSIVE Cases(_, _, _)
Cases(P, cases, default) ==
    LET val == expr(adv(P))
        body == Statements(skip_nl(Accept(skip_nl(val.p), ":")), CaseEnds, {"}"}, TRUE)
        dbody == Statements(skip_nl(Accept(adv(P), ":")), CaseEnds, {}, FALSE)
    IN  CASE Cur(P) \in {"}", "EOF"} -> R(P, Append(cases, default))
          [] Cur(P) = "case" ->
                Cases(skip_nl(body.p), Append(cases, Node("Case", <<>>, <<val.n, Block(body.n)>>)), default)
          [] Cur(P) = "default" -> Cases(skip_nl(dbody.p), cases, Block(dbody.n))
          [] OTHER -> R(Fail(P), Append(cases, default))

parse_switch(P) ==
    LET subject == expr(Accept(P, "("))
        q == consume(skip_nl(IF Cur(P) = "(" THEN consume(subject.p, ")") ELSE subject.p), "{")
        cases == Cases(skip_nl(q), <<>>, NULL)
    IN  After(P, After(q, R(consume(cases.p, "}"), Node("Switch", <<>>, <<subject.n>> \o cases.n))))

parse_try_catch(P) ==
    LET tried == block(P)
        q == consume(skip_nl(tried.p), "catch")
        name == Accept(q, "(")
        body == block(skip_nl(IF Cur(q) = "(" THEN consume(adv(name), ")") ELSE adv(name)))
    IN  After(q, Named(name, R(body.p, Node("TryCatch", <<Spelling(name)>>, <<tried.n, body.n>>))))

parse_stdo(P) ==
    LET q == consume(P, "(")
        args == List(q, ")", FALSE, FALSE, FALSE)
    IN  After(q, Ended(R(args.p, Node("Print", <<>>, args.n))))

parse_stdi(P) ==
    LET q == consume(P, "(")
        s == adv(q)
        prompt == IF Cur(s) = "," THEN expr(adv(s)) ELSE R(s, NULL)
    IN  After(q, Named(q, Ended(R(consume(prompt.p, ")"), Node("Input", <<Spelling(q)>>, <<prompt.n>>)))))

parse_return(P) ==
    LET value == IF Cur(P) \in {"NL", ";", "EOF", "}"} THEN R(P, NULL) ELSE expr(P)
    IN  Ended(R(value.p, Node("Return", <<>>, <<value.n>>)))

parse_throw(P) ==
    LET v == expr(P)
    IN  IF Cur(P) \in {"NL", ";", "EOF"} THEN Failed(P)
        ELSE Then(v, Ended(R(v.p, Node("Throw", <<>>, <<v.n>>))))

\* imp path, imp::lib name.ext, and "as" alias.
Alias(P, kind, path) ==
    IF ~(Cur(P) = "IDENT" /\ Spelling(P) = "as") THEN R(consume_stmt_end(P), Node(kind, path, <<>>))
    ELSE Named(adv(P), R(consume_stmt_end(adv(adv(P))), Node(kind, Append(path, Spelling(adv(P))), <<>>)))

ImportPath(P, is_lib) ==
    LET kind == IF is_lib THEN "ImportLib" ELSE "Import"
        ext == adv(adv(P))
    IN  IF Cur(P) \notin {"STRING", "IDENT"} THEN Failed(P)
        ELSE IF ~(is_lib /\ Cur(P) = "IDENT" /\ Look(P) = ".") THEN Alias(adv(P), kind, <<Spelling(P)>>)
        ELSE Named(ext, Alias(adv(ext), kind, <<Spelling(P), Spelling(ext)>>))

parse_import(P) ==
    IF Cur(P) # "::" THEN ImportPath(P, FALSE)
    ELSE IF Look(P) # "IDENT" \/ Spelling(adv(P)) # "lib" THEN Failed(adv(P))
    ELSE ImportPath(adv(adv(P)), TRUE)

Visibilities == {"public", "private", "protected"}

parse_export(P) ==
    LET vis == IF Cur(P) \in Visibilities THEN Cur(P) ELSE "public"
        q == IF Cur(P) \in Visibilities THEN adv(P) ELSE P
        fn == parse_func_decl(adv(q), vis, FALSE)
    IN  IF Cur(q) = "func" THEN (IF fn.n = NULL THEN fn ELSE R(fn.p, Node("Export", <<>>, <<fn.n>>)))
        ELSE Named(q, Ended(R(adv(q), Node("Export", <<Spelling(q)>>, <<>>))))

Async(P) ==
    LET q == IF Cur(P) \in Visibilities THEN adv(P) ELSE P
    IN  parse_func_decl(Accept(q, "func"), IF Cur(P) \in Visibilities THEN Cur(P) ELSE "private", TRUE)

ExprStmt(P) ==
    LET e == expr(P) IN Ended(R(e.p, Node("ExprStmt", <<>>, <<e.n>>)))

\* What a statement begins with decides.
parse_stmt(P0) ==
    LET P == skip_nl(P0)
        q == adv(P)
        k == Cur(P)
    IN  CASE k = "EOF" -> R(P, NULL)
          [] k \in Visibilities /\ Look(P) = "entry" -> parse_entry_main(adv(q), k)
          [] k \in Visibilities /\ Look(P) = "func" -> parse_func_decl(adv(q), k, FALSE)
          [] k = "entry" -> parse_entry_main(q, "public")
          [] k = "func" -> parse_func_decl(q, "private", FALSE)
          [] k = "async" -> Async(q)
          [] k = "struct" -> parse_struct_decl(q)
          [] k \in {"let", "var"} -> parse_var_decl(q, k = "let")
          [] k = "array" -> parse_array_decl(q)
          [] k = "dict" -> parse_dict_decl(q)
          [] k = "if" -> parse_if(q)
          [] k = "while" -> parse_while(q)
          [] k = "for" -> parse_for(q)
          [] k = "do" -> parse_do_while(q)
          [] k = "switch" -> parse_switch(q)
          [] k = "try" -> parse_try_catch(q)
          [] k = "return" -> parse_return(q)
          [] k \in {"else", "catch", "case"} \/ (k = "default" /\ Look(P) # ":") -> Failed(P)
          [] k = "{" -> parse_block(P)
          [] k = "stdo" -> parse_stdo(q)
          [] k = "stdi" -> parse_stdi(q)
          [] k = "imp" -> parse_import(q)
          [] k = "export" -> parse_export(q)
          [] k = "throw" -> parse_throw(q)
          [] k \in {"break", "continue"} -> Ended(R(q, Node(k, <<>>, <<>>)))
          [] OTHER -> ExprStmt(P)

Whole(P) ==
    LET body == Statements(skip_nl(P), {}, {";"}, TRUE) IN R(body.p, Node("Program", <<>>, body.n))

rule(P, r) ==
    CASE r[1] = "expr" -> parse_expr(P)
      [] r[1] = "side" -> parse_level(P, r[2])
      [] r[1] = "unary" -> parse_unary(P)
      [] r[1] = "elements" -> Elements(P, r[2])
      [] r[1] = "stmt" -> parse_stmt(P)
      [] r[1] = "block" -> parse_block(P)
      [] r[1] = "if" -> parse_if(P)
      [] OTHER -> Whole(P)

\* The program, and the state in which the parser ends.
parser_parse(tokens) == rule(parser_init(tokens), <<"program">>)
=============================================================================
