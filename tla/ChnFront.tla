------------------------------- MODULE ChnFront ------------------------------
(***************************************************************************)
(* From a text to its syntax tree: the lexer and the parser one after the  *)
(* other, as main.c and Repl.cpp call them before the compiler, and what   *)
(* the read-eval-print loop makes of the same text. The code interleaves   *)
(* the two, one token ahead; since the lexer keeps no state of the parser, *)
(* the tokens are the same.                                                *)
(*                                                                         *)
(* A tree can be written down as a text with as few parentheses as the     *)
(* levels of operators allow (Show): the parser must read the tree back.   *)
(***************************************************************************)
EXTENDS ChnParser, FiniteSets

CONSTANTS
    Texts,  \* sets of texts that may be programs or not
    Trees   \* trees of expressions and of statements

VARIABLES
    source,     \* the text
    written,    \* the tree it was written from, or NULL
    tokens,     \* what the lexer makes of it
    tree,       \* what the parser makes of them
    had_error,  \* g_had_error: whether the parser reported an error
    stuck,      \* whether it is in a loop it never leaves
    phase       \* text, tokens, tree

vars == <<source, written, tokens, tree, had_error, stuck, phase>>

-----------------------------------------------------------------------------
(* Trees written down. A level is the tightest one the tree may stand at.  *)

Tight == [Assign |-> 0, CompoundAssign |-> 0, IndexSet |-> 0, FieldSet |-> 0, Ternary |-> 0,
          Lambda |-> 0, Unary |-> 13, PreInc |-> 13, Await |-> 13, PostInc |-> 14, Index |-> 14,
          FieldAccess |-> 14, MethodCall |-> 14, CallExpr |-> 14, LambdaBlock |-> 15]

Precedence == Append(Levels, {"**"})

Level(n) == IF n.kind = "Binary" THEN CHOOSE k \in DOMAIN Precedence : n.toks[1] \in Precedence[k]
            ELSE IF n.kind \in DOMAIN Tight THEN Tight[n.kind] ELSE 16

RECURSIVE Glued(_), Spaced(_), Show(_)
Glued(words) == IF words = <<>> THEN "" ELSE Head(words) \o Glued(Tail(words))
Spaced(words) == IF words = <<>> THEN "" ELSE Head(words) \o " " \o Spaced(Tail(words))
Shows(ns) == [i \in DOMAIN ns |-> Show(ns[i])]
With(sep, words) == Spaced([i \in 1..(2 * Len(words) - 1) |-> IF i % 2 = 1 THEN words[(i + 1) \div 2] ELSE sep])
ShowAt(n, level) == IF Level(n) >= level THEN Show(n) ELSE "( " \o Show(n) \o ") "
ArgsOf(ns) == "( " \o With(",", Shows(ns)) \o ") "
Rest(n) == SubSeq(n.kids, 2, Len(n.kids))

ShowExpr(n) ==
    LET k == n.kids  w == n.toks
        l == Level(n)
    IN  CASE n.kind = "Binary" -> IF l = 12 THEN ShowAt(k[1], 13) \o w[1] \o " " \o ShowAt(k[2], 12)
                                  ELSE ShowAt(k[1], l) \o w[1] \o " " \o ShowAt(k[2], l + 1)
          [] n.kind = "Unary" -> w[1] \o " " \o ShowAt(k[1], 13)
          [] n.kind = "Await" -> "await " \o ShowAt(k[1], 13)
          [] n.kind \in {"PreInc", "PostInc"} -> Spaced(w)
          [] n.kind = "Assign" -> w[1] \o " = " \o Show(k[1])
          [] n.kind = "CompoundAssign" -> Spaced(w) \o Show(k[1])
          [] n.kind = "Ternary" -> ShowAt(k[1], 1) \o "? " \o Show(k[2]) \o ": " \o Show(k[3])
          [] n.kind \in {"Index", "IndexSet"} -> ShowAt(k[1], 14) \o "[ " \o Show(k[2]) \o "] "
                                               \o (IF Len(k) = 3 THEN "= " \o Show(k[3]) ELSE "")
          [] n.kind \in {"FieldAccess", "FieldSet"} -> ShowAt(k[1], 14) \o ". " \o w[1] \o " "
                                               \o (IF Len(k) = 2 THEN "= " \o Show(k[2]) ELSE "")
          [] n.kind = "MethodCall" -> ShowAt(k[1], 14) \o ". " \o w[1] \o ArgsOf(Rest(n))
          [] n.kind = "CallExpr" ->
                ShowAt(k[1], IF k[1].kind \in {"FieldAccess", "Ident"} THEN 17 ELSE 14) \o ArgsOf(Rest(n))
          [] n.kind = "Call" -> w[1] \o ArgsOf(k)
          [] n.kind = "NativeCall" -> w[1] \o ArgsOf(k)
          [] n.kind = "Lambda" -> "( " \o With(",", w) \o ") -> " \o Show(k[1])
          [] n.kind = "LambdaBlock" -> "func ( " \o With(",", w) \o ") " \o Show(k[1])
          [] n.kind = "ArrayLit" -> "[ " \o With(",", Shows(k)) \o "] "
          [] n.kind = "DictLit" -> "{ " \o With(",", [i \in DOMAIN k |-> k[i].toks[1] \o " : " \o Show(k[i].kids[1])]) \o "} "
          [] n.kind \in {"Nil", "Null"} -> IF n.kind = "Nil" THEN "nil " ELSE "null "
          [] OTHER -> Spaced(w)

\* Statements, each ended by a newline or, where it has none of its own, by its block.
Named2(n, word) == word \o " " \o n.toks[1] \o " "
Opt(n, prefix) == IF n = NULL THEN "" ELSE prefix \o Show(n)
RECURSIVE Lines(_)
Lines(ns) == IF ns = <<>> THEN "" ELSE Show(Head(ns)) \o "\n" \o Lines(Tail(ns))
Braces(ns) == "{ \n" \o Lines(ns) \o "} "
FuncWords(n) == IF n.kind = "FuncDecl public entry" THEN "public entry " ELSE
                CASE n.kind = "FuncDecl private" -> "func " [] n.kind = "FuncDecl protected" -> "protected func "
                  [] n.kind = "FuncDecl public" -> "public func " [] OTHER -> "async public func "
CaseLines(n) == IF n.kind = "Case" THEN "case " \o Show(n.kids[1]) \o ": \n" \o Lines(n.kids[2].kids)
                ELSE "default : \n" \o Lines(n.kids)

ShowStmt(n) ==
    LET k == n.kids  w == n.toks
    IN  CASE n.kind = "Program" -> Lines(k)
          [] n.kind = "Block" -> Braces(k)
          [] n.kind \in {"LetDecl", "VarDecl", "ArrayDecl", "DictDecl"} ->
                Named2(n, CASE n.kind = "LetDecl" -> "let" [] n.kind = "VarDecl" -> "var"
                            [] n.kind = "ArrayDecl" -> "array" [] OTHER -> "dict") \o "= " \o Show(k[1])
          [] n.kind \in {"FuncDecl " \o v : v \in {"private", "protected", "public", "public async", "public entry"}} ->
                FuncWords(n) \o w[1] \o " " \o "( " \o With(",", Tail(w)) \o ") " \o Show(k[1])
          [] n.kind = "StructDecl" -> Named2(n, "struct") \o "{ "
                \o With(",", [i \in DOMAIN k |-> k[i].toks[1] \o " : " \o Show(k[i].kids[1])]) \o "} "
          [] n.kind = "If" -> "if ( " \o Show(k[1]) \o ") " \o Show(k[2]) \o Opt(k[3], "else ")
          [] n.kind = "While" -> "while ( " \o Show(k[1]) \o ") " \o Show(k[2])
          [] n.kind = "DoWhile" -> "do " \o Show(k[1]) \o "while ( " \o Show(k[2]) \o ") "
          [] n.kind = "For" -> "for ( " \o Opt(k[1], "") \o "; " \o Opt(k[2], "") \o "; " \o Opt(k[3], "")
                               \o ") " \o Show(k[4])
          [] n.kind = "Foreach" -> "for " \o With(",", w) \o "in " \o Show(k[1]) \o Show(k[2])
          [] n.kind = "Switch" -> "switch ( " \o Show(k[1]) \o ") { \n"
                \o Glued([i \in 1..(Len(k) - 1) |-> IF k[i + 1] = NULL THEN "" ELSE CaseLines(k[i + 1])]) \o "} "
          [] n.kind = "TryCatch" -> "try " \o Show(k[1]) \o "catch " \o w[1] \o " " \o Show(k[2])
          [] n.kind = "Throw" -> "throw " \o Show(k[1])
          [] n.kind = "Return" -> "return " \o Opt(k[1], "")
          [] n.kind = "Print" -> "stdo " \o ArgsOf(k)
          [] n.kind = "Input" -> "stdi ( " \o w[1] \o Opt(k[1], " , ") \o ") "
          [] n.kind = "Import" -> "imp " \o w[1] \o (IF Len(w) = 2 THEN " as " \o w[2] ELSE "")
          [] n.kind = "ImportLib" -> "imp :: lib " \o w[1] \o (IF Len(w) = 2 THEN " . " \o w[2] ELSE "")
          [] n.kind = "Export" -> "export " \o (IF w = <<>> THEN Show(k[1]) ELSE w[1])
          [] n.kind = "ExprStmt" -> Show(k[1])
          [] OTHER -> n.kind

ExprKinds == DOMAIN Tight \cup {"Binary", "Call", "NativeCall", "ArrayLit", "DictLit", "Nil", "Null", "Ident",
                                "Number", "String", "FString", "Bool"}
Show(n) == IF n.kind \in ExprKinds THEN ShowExpr(n) ELSE ShowStmt(n)

-----------------------------------------------------------------------------

Unread == tokens = <<>> /\ tree = NULL /\ had_error = FALSE /\ stuck = FALSE /\ phase = "text"
Init ==
    /\ \/ \E T \in Texts : source \in T /\ written = NULL
       \/ \E n \in Trees : source = Show(n) /\ written = n
    /\ Unread

lex ==
    /\ phase = "text" /\ phase' = "tokens"
    /\ tokens' = Tokens(source)
    /\ UNCHANGED <<source, written, tree, had_error, stuck>>

parse ==
    /\ phase = "tokens" /\ phase' = "tree"
    /\ \E r \in {parser_parse(tokens)} : tree' = r.n /\ had_error' = r.p.err /\ stuck' = r.p.stuck
    /\ UNCHANGED <<source, written, tokens>>

Next == lex \/ parse
Spec == Init /\ [][Next]_vars

-----------------------------------------------------------------------------
(* Properties                                                              *)

\* What can be a token, whatever the lexer does with it.
Operators == UNION {Levels[i] : i \in DOMAIN Levels} \cup CompoundAssigns
             \cup {"**", "++", "=", "!", "~", "?", "->", ".", "(", ")", "{", "}", "[", "]", ",", ";", ":", "::", "@"}
All(s, i, j, S) == \A k \in i..j : At(s, k) \in S
IsWord(s) == At(s, 1) \in Alpha /\ All(s, 2, Len(s), Alpha \cup Digit)
IsDigits(s, i, j) == i <= j /\ At(s, i) \in Digit /\ All(s, i, j, Digit)
IsMantissa(s, j) ==
    \/ At(s, 1) \in Digit /\ All(s, 1, j, Digit \cup {"_"})
    \/ \E d \in 2..(j - 1) : /\ At(s, d) = "." /\ IsDigits(s, d + 1, j)
                             /\ At(s, 1) \in Digit /\ All(s, 1, d - 1, Digit \cup {"_"})
IsExponent(s, i) == IsDigits(s, IF At(s, i) \in {"+", "-"} THEN i + 1 ELSE i, Len(s))
IsNumber(s) ==
    \/ Two(s, 1) \in {"0x", "0X"} /\ Len(s) > 2 /\ All(s, 3, Len(s), HexDigit)
    \/ Two(s, 1) \in {"0b", "0B"} /\ Len(s) > 2 /\ All(s, 3, Len(s), {"0", "1"})
    \/ Two(s, 1) \in {"0o", "0O"} /\ Len(s) > 2 /\ All(s, 3, Len(s), Digit \ {"8", "9"})
    \/ IsMantissa(s, Len(s))
    \/ \E e \in 2..Len(s) : At(s, e) \in {"e", "E"} /\ IsMantissa(s, e - 1) /\ IsExponent(s, e + 1)
IsString(s) == At(s, 1) = "\"" \/ Two(s, 1) = "f\""
IsLexeme(s) == s \in Operators \/ IsWord(s) \/ IsNumber(s)

\* Every token but a string is the longest lexeme at its place (README.md gives none of these rules
\* in words; lexer_next decides by one character at a time what the longest operator, word or number
\* is): a text is never cut in the middle of an operator, a name or a number.
TokensAreLongest ==
    phase = "tokens" /\ written = NULL => \A i \in DOMAIN tokens :
        LET tok == tokens[i]
        IN  \/ tok.k \in {"NL", "EOF", "ERROR"} \/ IsString(tok.v)
            \/ /\ IsLexeme(tok.v)
               /\ \A j \in (tok.to + 1)..Upto(source, tok.to, Blank \cup {"\n"}) :     \* no lexeme has blanks
                        ~IsLexeme(SubSeq(source, tok.from, j - 1))

\* What the read-eval-print loop's counter takes differently, and knows no better: an apostrophe,
\* which no token begins with, an exponent without digits whose sign is followed by another "-",
\* where it finds a comment (the lexer reports the first two), and comments that begin with "//".
Told(i) == tokens[i].k = "ERROR" /\ At(source, tokens[i].from) = "'"
CutComment(i) == tokens[i].k = "ERROR" /\ Two(source, tokens[i].to - 1) = "--"
Skipped(j) == \A i \in DOMAIN tokens : j \notin tokens[i].from..(tokens[i].to - 1)
SlashComment == \E j \in 1..Len(source) : Skipped(j) /\ Two(source, j) = "//"

Count(S) == Cardinality({i \in DOMAIN tokens : tokens[i].k \in S})

\* The read-eval-print loop goes on reading lines as long as scan_depth, a lexer of its own, finds an
\* open bracket (Repl.cpp): it counts the brackets that the lexer makes tokens of, neither those in
\* strings nor in comments, except in texts as told above. (Both skip block comments, though
\* README.md:240 says that there are none.)
DepthsAgree ==
    phase = "tokens" /\ ~SlashComment /\ ~(\E i \in DOMAIN tokens : Told(i) \/ CutComment(i)) =>
        scan_depth(source) = <<Count({"{"}) - Count({"}"}), Count({"("}) - Count({")"}), Count({"["}) - Count({"]"})>>

\* A tree written down is read back as it was: operators group by their levels, to the left but for
\* "**", prefix operators bind tighter than "**" and looser than members, indices and calls, and
\* every statement has its parts. Comparisons group to the left like the others: the comment in
\* parse_comparison allows only one in an expression (parser.c:867), its loop any number.
TreesComeBack ==
    phase = "tree" /\ written # NULL => ~had_error /\ tree = written

\* Names, literals and operators of a text and of a tree. "as", "lib" and the name after "@" are
\* punctuation; "in" and "=" are an operator in one place and punctuation in another.
Meant == {"IDENT", "NUMBER", "STRING", "FSTRING", "true", "false", "!", "~", "++", "**", "typeof"}
         \cup CompoundAssigns \cup (UNION {Levels[i] : i \in DOMAIN Levels} \ {"in"})
Word(tok) == IF tok.k \in {"IDENT", "NUMBER", "STRING", "FSTRING"} THEN tok.v ELSE tok.k
Punctuation(i) == tokens[i].v \in {"as", "lib"} \/ (i > 1 /\ tokens[i - 1].k = "@")
RECURSIVE Yield(_)
Yield(n) == n.toks \o FlattenSeq([i \in DOMAIN n.kids |-> Yield(n.kids[i])])
Kept(w, words) == Cardinality({i \in DOMAIN words : words[i] = w})

\* A default that begins with "else" or "catch" is parsed for ever, and the last of two is kept.
DefaultsAreTame ==
    \A i \in DOMAIN tokens : tokens[i].k = "default" => \A j \in (i + 1)..Len(tokens) :
        tokens[j].k \notin {"default", "else", "catch"}

\* The parser ends, and what it accepts without a report it keeps: every name, literal and operator
\* of the text is in the tree, as often. (Where the parser skips tokens to recover from an error, or
\* goes back to read a parenthesis again, none is lost without a report.)
AcceptedIsKept ==
    phase = "tree" /\ DefaultsAreTame =>
        /\ ~stuck
        /\ ~had_error =>
                LET words == Yield(tree)
                    said == {j \in DOMAIN tokens : tokens[j].k \in Meant /\ ~Punctuation(j)}
                IN  \A w \in {Word(tokens[i]) : i \in said} :
                        Kept(w, words) = Cardinality({i \in said : Word(tokens[i]) = w})
=============================================================================
