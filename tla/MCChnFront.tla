------------------------------ MODULE MCChnFront -----------------------------
(* Short texts of every character class, sequences of tokens at the places a *)
(* parser can be, and trees of two levels of operators and of statements.    *)
EXTENDS ChnFront

CONSTANTS
    MaxChars,   \* characters of a text
    MaxCut,     \* characters of a text of those that begin, end or look like comments and strings
    MaxWords    \* words put into a context; one more stand alone

Chars == {"a", "0", "e", ".", "-", "*", "/", "=", "\"", "\\", "\n", "("}
RECURSIVE Strings(_, _)
Strings(n, chars) == IF n = 0 THEN {""} ELSE {s \o c : s \in Strings(n - 1, chars), c \in chars \cup {""}}

\* Texts whose last string literal ends in a backslash make the lexer read behind the text.
RECURSIVE Backslashes(_, _)
Backslashes(s, i) == IF At(s, i) = "\\" THEN 1 + Backslashes(s, i - 1) ELSE 0
TextsOf(n, chars) == {s \in Strings(n, chars) : Backslashes(s, Len(s)) = 0}

\* Longer texts where the lexer and the loop's counter of brackets could cut differently.
CutTexts == TextsOf(MaxCut, {"0", "e", "-", "/", "*", "\n", "\"", "'", "\\", "("})

Words == {"a ", "1 ", "\"s\" ", "- ", "?? ", "? ", "( ", ") ", "{ ", "} ", "[ ", "] ", ", ", "; ", ": ", "\n", "-> ", ". ",
          "++ ", "= ", "if ", "else ", "func ", "case "}
RECURSIVE Phrases(_)
Phrases(n) == IF n = 0 THEN {""} ELSE {s \o w : s \in Phrases(n - 1), w \in Words \cup {""}}

Contexts == {<<"", "">>, <<"{ ", "} b">>, <<"switch ( b ) { case 2 : ", "} ">>, <<"switch ( b ) { default : ", "} b">>,
             <<"b ( ", ")">>, <<"let b = [ ", "]">>, <<"for ( ", ") { }">>, <<"struct b { ", "}">>, <<"func b ( ", ") { }">>,
             <<"try { } catch b ", "{ }">>, <<"imp ", "as b">>, <<"if ( b ) { } ", "{ }">>}

MCTexts == {TextsOf(MaxChars, Chars), CutTexts, {c[1] \o p \o c[2] : c \in Contexts, p \in Phrases(MaxWords)},
            Phrases(MaxWords + 1)}

-----------------------------------------------------------------------------
\* An operator of each level.
BinaryOps == {"??", "||", "&&", "==", "<", "in", "|", "^", "&", "<<", "-", "+", "*", "**"}

N(kind, toks, kids) == Node(kind, toks, kids)
a == N("Ident", <<"a">>, <<>>)
one == N("Number", <<"1">>, <<>>)
Leaves == {a, one, Nil, N("Null", <<>>, <<>>), N("String", <<"\"s\"">>, <<>>), N("FString", <<"f\"s\"">>, <<>>),
           N("Bool", <<"true">>, <<>>), N("PreInc", <<"++", "a">>, <<>>), N("PostInc", <<"a", "++">>, <<>>),
           N("Call", <<"f">>, <<>>), N("ArrayLit", <<>>, <<>>), N("DictLit", <<>>, <<>>)}

\* Every expression whose operands are n and leaves.
Over(n) ==
    {N("Unary", <<op>>, <<n>>) : op \in {"-", "!", "~", "typeof"}}
    \cup {N("Binary", <<op>>, k) : op \in BinaryOps, k \in {<<n, one>>, <<a, n>>}}
    \cup {N(kind, <<>>, k) : kind \in {"Ternary", "IndexSet"}, k \in {<<n, a, one>>, <<a, n, one>>, <<a, one, n>>}}
    \cup {N("Index", <<>>, k) : k \in {<<n, one>>, <<a, n>>}}
    \cup {N("Await", <<>>, <<n>>), N("ArrayLit", <<>>, <<n>>), N("ArrayLit", <<>>, <<a, n, one>>),
          N("DictLit", <<>>, <<N("Pair", <<"k">>, <<n>>), N("Pair", <<"\"s\"">>, <<one>>)>>),
          N("Assign", <<"a">>, <<n>>), N("CompoundAssign", <<"a", "**=">>, <<n>>),
          N("FieldAccess", <<"f">>, <<n>>), N("FieldSet", <<"f">>, <<n, one>>), N("FieldSet", <<"f">>, <<a, n>>),
          N("MethodCall", <<"f">>, <<n>>), N("MethodCall", <<"f">>, <<a, n, one>>),
          N("Call", <<"f">>, <<n, one>>), N("NativeCall", <<"len">>, <<n>>)}
    \cup {N("Lambda", w, <<n>>) : w \in {<<>>, <<"a">>, <<"a", "b">>}}
    \cup {N("LambdaBlock", <<"a">>, <<Block(<<N("Return", <<>>, <<n>>)>>)>>)}
    \cup {N("CallExpr", <<>>, k) : k \in IF n.kind \in Callable THEN {<<n>>, <<n, a>>}
                                        ELSE {<<N("Index", <<>>, <<a, one>>), n>>}}

Exprs == UNION {Over(n) : n \in UNION {Over(m) : m \in {a, one}} \cup Leaves}
Let(n) == N("LetDecl", <<"b">>, <<n>>)

\* Every statement whose expressions are e and whose blocks hold the statement s.
StatementsOf(e, s) ==
    LET body == Block(<<s>>)
        call == N("ExprStmt", <<>>, <<N("Call", <<"f">>, <<e>>)>>)
        step == N("PostInc", <<"a", "++">>, <<>>)
    IN  {Let(e), N("VarDecl", <<"b">>, <<e>>), N("ArrayDecl", <<"b">>, <<e>>), N("DictDecl", <<"b">>, <<e>>), call,
         N("FuncDecl private", <<"f", "a", "b">>, <<body>>), N("FuncDecl protected", <<"f">>, <<body>>),
         N("FuncDecl public async", <<"f">>, <<body>>), N("FuncDecl public entry", <<"main">>, <<body>>),
         N("StructDecl", <<"S">>, <<N("Field", <<"x">>, <<e>>), N("Field", <<"y">>, <<Nil>>)>>),
         N("If", <<>>, <<e, body, NULL>>), N("If", <<>>, <<e, body, Block(<<>>)>>),
         N("If", <<>>, <<e, body, N("If", <<>>, <<e, Block(<<>>), body>>)>>),
         N("While", <<>>, <<e, body>>), N("DoWhile", <<>>, <<body, e>>),
         N("For", <<>>, <<NULL, e, step, body>>), N("For", <<>>, <<Let(one), e, NULL, body>>),
         N("For", <<>>, <<N("ExprStmt", <<>>, <<step>>), e, step, body>>), N("For", <<>>, <<NULL, NULL, NULL, body>>),
         N("Foreach", <<"x">>, <<e, body>>), N("Foreach", <<"i", "x">>, <<e, body>>),
         N("Switch", <<>>, <<e, N("Case", <<>>, <<one, body>>), N("Case", <<>>, <<e, Block(<<s, s>>)>>), NULL>>),
         N("Switch", <<>>, <<e, N("Case", <<>>, <<one, Block(<<>>)>>), body>>),
         N("TryCatch", <<"x">>, <<body, body>>), N("Throw", <<>>, <<e>>), N("Return", <<>>, <<e>>),
         N("Return", <<>>, <<NULL>>), N("Print", <<>>, <<e, one>>), N("Input", <<"a">>, <<NULL>>), N("Input", <<"a">>, <<e>>),
         N("Import", <<"os">>, <<>>), N("Import", <<"\"s\"", "b">>, <<>>), N("ImportLib", <<"m", "cco">>, <<>>),
         N("Export", <<"f">>, <<>>), N("Export", <<>>, <<N("FuncDecl public", <<"f">>, <<body>>)>>),
         N("break", <<>>, <<>>), body}

Operands == {a, N("Binary", <<"+">>, <<a, one>>), N("Lambda", <<"a">>, <<one>>), N("DictLit", <<>>, <<>>), N("Assign", <<"a">>, <<one>>)}
Inner == UNION {StatementsOf(e, N("continue", <<>>, <<>>)) : e \in {a, N("DictLit", <<>>, <<>>)}}
Program(stmts) == N("Program", <<>>, stmts)

MCTrees == {Program(<<Let(e)>>) : e \in Exprs}
           \cup {Program(<<s, Let(one)>>) : s \in UNION {StatementsOf(e, Let(one)) : e \in Operands}}
           \cup {Program(<<s, Let(a)>>) : s \in UNION {StatementsOf(one, t) : t \in Inner}}
=============================================================================
