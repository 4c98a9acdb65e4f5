------------------------------- MODULE ChnLexer ------------------------------
(***************************************************************************)
(* The lexer (src/v1.1/lexer.c), and the bracket counter with which the    *)
(* read-eval-print loop decides whether a text is complete                 *)
(* (src/memory/Repl.cpp). A text is a string; a position is the index of   *)
(* its next character, and Len(t) + 1 the terminating NUL. A token has its *)
(* kind (the spelling of a keyword or an operator, or IDENT, NUMBER, ...)  *)
(* and the part of the text it stands for. The values of strings and       *)
(* numbers are left out: the spelling stands for them.                     *)
(***************************************************************************)
EXTENDS Integers, Sequences

At(t, i) == IF i \in 1..Len(t) THEN SubSeq(t, i, i) ELSE ""
Two(t, i) == At(t, i) \o At(t, i + 1)

Digit == {"0", "1", "2", "3", "4", "5", "6", "7", "8", "9"}
Alpha == {"a", "b", "c", "d", "e", "f", "g", "h", "i", "j", "k", "l", "m", "n", "o", "p", "q", "r",
          "s", "t", "u", "v", "w", "x", "y", "z", "A", "B", "C", "D", "E", "F", "G", "H", "I", "J",
          "K", "L", "M", "N", "O", "P", "Q", "R", "S", "T", "U", "V", "W", "X", "Y", "Z", "_"}
HexDigit == Digit \cup {"a", "b", "c", "d", "e", "f", "A", "B", "C", "D", "E", "F"}
Blank == {" ", "\r", "\t"}

\* The first position from i on whose character is not in S, or is in S.
Past(t, i, S) == CHOOSE j \in i..(Len(t) + 1) :
                    At(t, j) \notin S /\ \A k \in i..(j - 1) : At(t, k) \in S
Upto(t, i, S) == CHOOSE j \in i..(Len(t) + 1) :
                    (At(t, j) \in S \/ j > Len(t)) /\ \A k \in i..(j - 1) : At(t, k) \notin S

\* The position after "*/", or the end: an unterminated comment is reported and ends the text.
BlockEnd(t, i) ==
    IF \E j \in i..Len(t) : Two(t, j) = "*/"
    THEN 2 + CHOOSE j \in i..Len(t) : Two(t, j) = "*/" /\ \A k \in i..(j - 1) : Two(t, k) # "*/"
    ELSE Len(t) + 1

\* Blanks and comments. Newlines are tokens.
RECURSIVE skip_ws(_, _)
skip_ws(t, i) ==
    CASE At(t, i) \in Blank -> skip_ws(t, i + 1)
      [] Two(t, i) \in {"--", "//"} -> skip_ws(t, Upto(t, i, {"\n"}))
      [] Two(t, i) = "/*" -> skip_ws(t, BlockEnd(t, i + 2))
      [] OTHER -> i

\* Where an escape ends, i being the character after the backslash.
process_escape(t, i) ==
    LET most == IF At(t, i) = "x" THEN 2 ELSE IF At(t, i) = "u" THEN 4 ELSE 0
        last == Past(t, i + 1, HexDigit)
    IN  IF last > i + 1 + most THEN i + 1 + most ELSE last

\* The closing quote of a string whose text begins at i, or 0. A backslash that ends the text is
\* followed by the NUL, which the code steps over: no text here ends so.
RECURSIVE ClosingQuote(_, _)
ClosingQuote(t, i) ==
    CASE At(t, i) = "" -> 0
      [] At(t, i) = "\"" -> i
      [] At(t, i) = "\\" -> ClosingQuote(t, process_escape(t, i + 1))
      [] OTHER -> ClosingQuote(t, i + 1)

Token(t, k, i, j) == [k |-> k, v |-> SubSeq(t, i, j - 1), from |-> i, to |-> j]
ErrorToken(t, i, j) == Token(t, "ERROR", i, j)

scan_string(t, from, i, kind) ==
    LET close == ClosingQuote(t, i)
    IN  IF close = 0 THEN ErrorToken(t, from, Len(t) + 1) ELSE Token(t, kind, from, close + 1)

Radix(t, i, digits) ==
    IF At(t, i + 2) \in digits THEN Token(t, "NUMBER", i, Past(t, i + 2, digits))
                               ELSE ErrorToken(t, i, i + 2)

\* Where the fraction of a number ends whose integer part ends before i.
Fraction(t, i) == IF At(t, i) = "." /\ At(t, i + 1) \in Digit THEN Past(t, i + 1, Digit) ELSE i

scan_number(t, i) ==
    LET f == Fraction(t, Past(t, i, Digit \cup {"_"}))
        x == IF At(t, f + 1) \in {"+", "-"} THEN f + 2 ELSE f + 1
    IN  CASE Two(t, i) \in {"0x", "0X"} -> Radix(t, i, HexDigit)
          [] Two(t, i) \in {"0b", "0B"} -> Radix(t, i, {"0", "1"})
          [] Two(t, i) \in {"0o", "0O"} -> Radix(t, i, Digit \ {"8", "9"})
          [] OTHER -> IF At(t, f) \notin {"e", "E"} THEN Token(t, "NUMBER", i, f)
                      ELSE IF At(t, x) \in Digit THEN Token(t, "NUMBER", i, Past(t, x, Digit))
                      ELSE ErrorToken(t, i, x)

Keywords ==
    {"true", "false", "nil", "null", "async", "await", "struct", "do", "let", "var", "array", "dict",
     "if", "else", "while", "for", "in", "switch", "case", "default", "break", "continue", "return",
     "func", "public", "private", "protected", "entry", "imp", "export", "stdo", "stdi", "try",
     "catch", "throw", "typeof"}
Spelled == [s \in {"and", "or", "not", "use", "__native__"} |->
                CASE s = "and" -> "&&" [] s = "or" -> "||" [] s = "not" -> "!" [] s = "use" -> "imp"
                  [] OTHER -> "@"]

scan_ident(t, i) ==
    LET j == Past(t, i, Alpha \cup Digit)  s == SubSeq(t, i, j - 1)
    IN  Token(t, IF s \in Keywords THEN s ELSE IF s \in DOMAIN Spelled THEN Spelled[s] ELSE "IDENT", i, j)

\* mat(): the second character of an operator, by its first.
Second == [c \in {"+", "-", "*", "/", "%", "=", "!", "<", ">", "&", "|", "?", ":"} |->
              CASE c = "+" -> {"+", "="} [] c = "-" -> {">", "="} [] c = "*" -> {"*", "="}
                [] c \in {"/", "%", "=", "!"} -> {"="} [] c = "<" -> {"<", "="} [] c = ">" -> {">", "="}
                [] OTHER -> {c}]
Single == {"^", "~", ".", "(", ")", "{", "}", "[", "]", ",", ";", "@"} \cup DOMAIN Second

\* Mutant: the third character of "**=" is left for the next token.
two_at_most(t, i) ==
    IF At(t, i) \in DOMAIN Second /\ At(t, i + 1) \in Second[At(t, i)] THEN i + 2 ELSE i + 1

OperatorEnd(t, i) ==
    IF Two(t, i) = "**" /\ At(t, i + 2) = "=" THEN i + 3
    ELSE IF At(t, i) \in DOMAIN Second /\ At(t, i + 1) \in Second[At(t, i)] THEN i + 2
    ELSE i + 1

lexer_next(t, at) ==
    LET i == skip_ws(t, at)
        c == At(t, i)
        j == OperatorEnd(t, i)
    IN  CASE c = "" -> Token(t, "EOF", i, i)
          [] c = "\n" -> Token(t, "NL", i, i + 1)
          [] Two(t, i) = "f\"" -> scan_string(t, i, i + 2, "FSTRING")
          [] c \in Alpha /\ Two(t, i) # "f\"" -> scan_ident(t, i)
          [] c \in Digit -> scan_number(t, i)
          [] c = "\"" -> scan_string(t, i, i + 1, "STRING")
          [] c \in Single -> Token(t, SubSeq(t, i, j - 1), i, j)
          [] OTHER -> ErrorToken(t, i, i + 1)

\* The tokens of a text, as the parser's calls of lexer_next return them.
RECURSIVE TokensFrom(_, _)
TokensFrom(t, at) ==
    LET tok == lexer_next(t, at)
    IN  IF tok.k = "EOF" THEN <<tok>> ELSE <<tok>> \o TokensFrom(t, tok.to)
Tokens(t) == TokensFrom(t, 1)

-----------------------------------------------------------------------------
(* scan_depth of the read-eval-print loop: it knows strings, line comments *)
(* and block comments, and counts what is left.                            *)

Bracket == [c \in {"{", "(", "[", "}", ")", "]"} |->
               CASE c = "{" -> <<1, 0, 0>> [] c = "(" -> <<0, 1, 0>> [] c = "[" -> <<0, 0, 1>>
                 [] c = "}" -> <<-1, 0, 0>> [] c = ")" -> <<0, -1, 0>> [] c = "]" -> <<0, 0, -1>>]
Plus(d, e) == <<d[1] + e[1], d[2] + e[2], d[3] + e[3]>>

\* Mutant: the escape in a string is forgotten.
skip_nothing(i) == i + 1

\* The character after a backslash in a string is not looked at.
SkipEscape(i) == i + 2

\* quote is the quote of the string that i is in, or "".
Telling(quote) == IF quote # "" THEN {"\\", quote} ELSE {"-", "/", "\"", "'"} \cup DOMAIN Bracket
RECURSIVE DepthFrom(_, _, _, _)
DepthFrom(s, at, quote, d) ==
    LET i == IF at > Len(s) THEN at ELSE Upto(s, at, Telling(quote))
    IN CASE i > Len(s) -> d
      [] i <= Len(s) /\ quote # "" ->
            IF At(s, i) = "\\" THEN DepthFrom(s, SkipEscape(i), quote, d) ELSE DepthFrom(s, i + 1, "", d)
      [] i <= Len(s) /\ quote = "" ->
            CASE Two(s, i) = "--" -> DepthFrom(s, Upto(s, i, {"\n"}), "", d)
              [] Two(s, i) = "/*" -> DepthFrom(s, BlockEnd(s, i + 2), "", d)
              [] At(s, i) \in {"\"", "'"} -> DepthFrom(s, i + 1, At(s, i), d)
              [] At(s, i) \in DOMAIN Bracket -> DepthFrom(s, i + 1, "", Plus(d, Bracket[At(s, i)]))
              [] OTHER -> DepthFrom(s, i + 1, "", d)
scan_depth(s) == DepthFrom(s, 1, "", <<0, 0, 0>>)
=============================================================================
