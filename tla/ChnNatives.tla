------------------------------ MODULE ChnNatives -----------------------------
(***************************************************************************)
(* Native functions (src/v1.1/native.c) that depend on their arguments     *)
(* alone: ranges, conversions, integer arithmetic and JSON. Those of the   *)
(* operating system, of files and of real functions are left out; those of *)
(* the network are ChnNet's.                                               *)
(***************************************************************************)
EXTENDS ChnMethods

Number(args, i, default) ==
    IF Len(args) < i THEN NUMBER_VAL(default) ELSE IF IsA(args[i], "number") THEN args[i] ELSE NUMBER_VAL(0)
IntOfArg(args, i, default) == Truncated(Number(args, i, default))

\* Up or down to stop, which is not in it.
Range2(start, stop, step) ==
    LET n == IF step > 0 THEN (stop - start + step - 1) \div step ELSE (start - stop - step - 1) \div (-step)
    IN  IF step = 0 THEN <<>> ELSE [i \in 1..n |-> NUMBER_VAL(start + (i - 1) * step)]
range(h, args) ==
    New(h, "array", IF Len(args) = 1 THEN Range2(0, IntOfArg(args, 1, 0), 1)
                    ELSE Range2(IntOfArg(args, 1, 0), IntOfArg(args, 2, 0), IntOfArg(args, 3, 1)))

\* Strings in quotes, entries of dicts; nine levels deep.
RECURSIVE str_value_recursive(_, _, _)
str_value_recursive(h, v, depth) ==
    LET held == Held(h, v)
        keys == KeysOf(held)
        Text(x) == str_value_recursive(h, x, depth + 1)
    IN  CASE depth > 8 -> "..."
          [] depth <= 8 /\ IsA(v, "string") -> "\"" \o v[2] \o "\""
          [] depth <= 8 /\ IsA(v, "array") -> "[" \o Joint(", ", [i \in DOMAIN held |-> Text(held[i])]) \o "]"
          [] depth <= 8 /\ IsA(v, "dict") ->
                "{" \o Joint(", ", [i \in DOMAIN keys |-> "\"" \o keys[i] \o "\": " \o Text(held[keys[i]])]) \o "}"
          [] OTHER -> print_value(h, v)
str(h, v) == IF IsA(v, "string") THEN v[2] ELSE str_value_recursive(h, v, 0)

len(h, v) == IF vtype(v) \in {"array", "string", "dict"} THEN array_len(h, v) ELSE Got(h, NUMBER_VAL(0))

Floor(v) == NUMBER_VAL(v[2] \div v[3])
Ceil(v) == NUMBER_VAL(-((-v[2]) \div v[3]))
\* Halves away from zero.
Round(v) ==
    LET n == (2 * Size(v[2]) + v[3]) \div (2 * v[3]) IN NUMBER_VAL(IF v[2] < 0 THEN -n ELSE n)
Sign(v) == NUMBER_VAL(IF v[2] > 0 THEN 1 ELSE IF v[2] < 0 THEN -1 ELSE 0)
Clamp(v, lo, hi) == IF Less(v, lo) THEN lo ELSE IF Less(hi, v) THEN hi ELSE v
Smaller(args) ==
    IF Len(args) < 2 THEN (IF args = <<>> THEN NIL_VAL ELSE args[1])
    ELSE IF Less(Number(args, 2, 0), Number(args, 1, 0)) THEN args[2] ELSE args[1]
Larger(args) ==
    IF Len(args) < 2 THEN (IF args = <<>> THEN NIL_VAL ELSE args[1])
    ELSE IF Less(Number(args, 1, 0), Number(args, 2, 0)) THEN args[2] ELSE args[1]

gcd(a, b) == GcdOf(Size(a), Size(b))
lcm(a, b) == IF a = 0 \/ b = 0 THEN 0 ELSE (Size(a) \div gcd(a, b)) * Size(b)

\* Whole numbers: those a text begins with.
IntOf(v) ==
    CASE IsA(v, "number") -> Truncated(v)
      [] IsA(v, "string") -> Truncated(strtod(SubSeq(v[2], 1, Past(v[2], Signed(v[2], 1), Digit) - 1), 1))
      [] IsA(v, "bool") -> IF v[2] THEN 1 ELSE 0
      [] OTHER -> 0
FloatOf(v) ==
    CASE IsA(v, "number") -> v
      [] IsA(v, "string") -> strtod(v[2], 1)
      [] OTHER -> NUMBER_VAL(IntOf(v))
BoolOf(v) ==
    CASE IsA(v, "bool") -> v[2]
      [] IsA(v, "number") -> v[2] # 0
      [] IsA(v, "string") -> v[2] \notin {"", "false", "0"}
      [] OTHER -> vtype(v) \in {"array", "dict"}

Bytes(s) == [i \in 1..Len(s) |-> NUMBER_VAL(CharCode(At(s, i)))]

-----------------------------------------------------------------------------
(* JSON                                                                    *)

\* Characters after a backslash, in what is read and what is written.
JsonEscapes == [c \in {"n", "t", "r"} |-> Escapes[c]]
Escaped(s, chars) ==
    Mapped(s, LAMBDA c :
        IF c \notin chars THEN c
        ELSE "\\" \o (IF \E e \in DOMAIN JsonEscapes : JsonEscapes[e] = c
                      THEN CHOOSE e \in DOMAIN JsonEscapes : JsonEscapes[e] = c ELSE c))

\* Mutant: in an array, as in a dict, nothing is escaped.
escaped_alone_only(h, v, escaped) ==
    CASE IsA(v, "string") -> "\"" \o Escaped(v[2], IF "\n" \in escaped THEN escaped ELSE {}) \o "\""
      [] vtype(v) \in {"number", "bool"} -> val_to_str(h, v)
      [] OTHER -> "null"

\* The text of a value inside an array or a dict: a container becomes null.
JsonItem(h, v, escaped) ==
    CASE IsA(v, "string") -> "\"" \o Escaped(v[2], escaped) \o "\""
      [] vtype(v) \in {"number", "bool"} -> val_to_str(h, v)
      [] OTHER -> "null"

\* What is escaped: in a text alone, in one that is an item, and in keys and entries of a dict.
EscapedAlone == {"\"", "\\", "\n", "\t", "\r"}
EscapedItem == {"\"", "\\"}
EscapedEntry == {}

json_stringify(h, v) ==
    LET held == Held(h, v)
        keys == KeysOf(held)
    IN  CASE IsA(v, "array") -> "[" \o Joint(",", [i \in DOMAIN held |-> JsonItem(h, held[i], EscapedItem)]) \o "]"
          [] IsA(v, "dict") ->
                "{" \o Joint(",", [i \in DOMAIN keys |->
                            "\"" \o keys[i] \o "\":" \o JsonItem(h, held[keys[i]], EscapedEntry)]) \o "}"
          [] OTHER -> JsonItem(h, v, EscapedAlone)

\* The text up to the closing quote, and the position after it. No text ends in a backslash.
RECURSIVE JsonString(_, _)
JsonString(s, i) ==
    LET c == At(s, i)  e == At(s, i + 1)
        rest == JsonString(s, IF c = "\\" THEN i + 2 ELSE i + 1)
        meant == IF c # "\\" THEN c ELSE IF e \in DOMAIN JsonEscapes THEN JsonEscapes[e] ELSE e
    IN  IF c \in {"", "\""} THEN [s |-> "", to |-> IF c = "" THEN i ELSE i + 1]
        ELSE [rest EXCEPT !.s = meant \o @]

\* j: the heap, the position, the containers that are open, the innermost last, each with the key
\* that waits for its value, the value read last outside of them, and whether an error was met.
Blanks(s, i) == Past(s, i, Blank \cup {"\n"})
AfterMark(s, i, mark) == LET k == Blanks(s, i) IN IF At(s, k) = mark THEN k + 1 ELSE k

JsonPush(j, v) ==
    LET f == Last(j.open)
    IN  CASE j.open = <<>> -> [j EXCEPT !.root = v]
          [] j.open # <<>> /\ IsA(f.c, "array") -> [j EXCEPT !.h = SetHeld(@, f.c, Append(Held(@, f.c), v))]
          [] j.open # <<>> /\ IsA(f.c, "dict") /\ f.key # <<>> ->
                [j EXCEPT !.h = gc_dict_set(@, f.c, f.key[1], v), !.open[Len(j.open)].key = <<>>]
          [] OTHER -> j
JsonValue(j, s, v, i) == JsonPush([j EXCEPT !.at = AfterMark(s, i, ",")], v)
JsonOpen(j, type, i) ==
    LET r == New(j.h, type, <<>>) IN [j EXCEPT !.h = r.h, !.at = i, !.open = Append(@, [c |-> r.v, key |-> <<>>])]
JSON_STACK_MAX == 64

RECURSIVE json_read(_, _)
json_read(j, s) ==
    LET i == Blanks(s, j.at)  c == At(s, i)
        text == JsonString(s, i + 1)
        inner == Last(j.open)
        closed == JsonPush([j EXCEPT !.open = Front(@), !.at = AfterMark(s, i + 1, ",")], inner.c)
        awaits == j.open # <<>> /\ IsA(inner.c, "dict") /\ inner.key = <<>>
        Fails == [j EXCEPT !.err = TRUE]
        keyed == [j EXCEPT !.open[Len(j.open)].key = <<text.s>>, !.at = AfterMark(s, text.to, ":")]
        Then2(k) == json_read(k, s)
    IN  CASE c = "" -> j
          [] c \in {"]", "}"} -> IF j.open = <<>> THEN Fails ELSE Then2(closed)
          [] awaits /\ c \notin {"", "]", "}"} ->
                IF c = "\"" THEN Then2(keyed) ELSE IF c = "," THEN Then2([j EXCEPT !.at = i + 1]) ELSE Fails
          [] OTHER ->
                CASE c = "\"" -> Then2(JsonValue(j, s, STRING_VAL(text.s), text.to))
                  [] c \in {"[", "{"} ->
                        IF Len(j.open) >= JSON_STACK_MAX THEN Fails
                        ELSE Then2(JsonOpen(j, IF c = "[" THEN "array" ELSE "dict", i + 1))
                  [] StandsAt(s, "true", i) -> Then2(JsonValue(j, s, BOOL_VAL(TRUE), i + 4))
                  [] StandsAt(s, "false", i) -> Then2(JsonValue(j, s, BOOL_VAL(FALSE), i + 5))
                  [] StandsAt(s, "null", i) -> Then2(JsonValue(j, s, NIL_VAL, i + 4))
                  [] c \in Digit \cup {"-"} ->
                        IF NumeralEnd(s, i) = i THEN Fails ELSE Then2(JsonValue(j, s, strtod(s, i), NumeralEnd(s, i)))
                  [] OTHER -> Then2([j EXCEPT !.at = i + 1])

json_parse(h, s) ==
    LET j == json_read([h |-> h, at |-> 1, open |-> <<>>, root |-> NIL_VAL, err |-> FALSE], s)
    IN  Got(j.h, IF j.err THEN NIL_VAL ELSE j.root)

-----------------------------------------------------------------------------
\* native_dispatch: a function is called by its number, with at most 16 arguments.
NativeId(word) ==
    CASE word = "range" -> 1024 [] word = "str" -> 1025 [] word = "len" -> 1026 [] OTHER -> NumberValue(word)[2]

Plain(id, args) ==
    LET x == Number(args, 1, 0)  y == Number(args, 2, 0)
    IN  CASE id = 512 -> Floor(x)
          [] id = 513 -> Ceil(x)
          [] id = 514 -> Round(x)
          [] id = 515 -> <<"number", Size(x[2]), x[3]>>
          [] id = 517 -> pow(x, Number(args, 2, 1))
          [] id = 523 -> Smaller(args)
          [] id = 524 -> Larger(args)
          [] id = 526 -> Clamp(x, y, Number(args, 3, 1))
          [] id = 530 -> NUMBER_VAL(Truncated(x))
          [] id = 531 -> Sign(x)
          [] id = 532 -> Plus2(x, Times(Number(args, 3, 0), Plus2(y, Minus(x))))
          [] id = 546 -> NUMBER_VAL(gcd(Truncated(x), Truncated(y)))
          [] id = 547 -> NUMBER_VAL(lcm(Truncated(x), Truncated(y)))
          [] id = 1027 -> NUMBER_VAL(IF args = <<>> THEN 0 ELSE IntOf(args[1]))
          [] id = 1028 -> IF args = <<>> THEN NUMBER_VAL(0) ELSE FloatOf(args[1])
          [] id = 1029 -> BOOL_VAL(args # <<>> /\ BoolOf(args[1]))
          [] id = 1033 -> NUMBER_VAL(IF Arg(args, 1, "string", "") = "" THEN -1 ELSE CharCode(At(args[1][2], 1)))
          [] id = 1034 -> STRING_VAL(IF args = <<>> \/ ~IsA(args[1], "number") THEN "" ELSE Char(Truncated(args[1])))
          [] OTHER -> NIL_VAL

native_dispatch(h, id, args) ==
    LET given == args # <<>>
        text == Arg(args, 1, "string", "")
    IN  CASE id = 1024 -> range(h, args)
          [] id = 1025 -> Got(h, STRING_VAL(IF given THEN str(h, args[1]) ELSE ""))
          [] id = 1026 -> IF given THEN len(h, args[1]) ELSE Got(h, NUMBER_VAL(0))
          [] id = 1031 -> New(h, "array", Bytes(text))
          [] id = 1032 -> Got(h, STRING_VAL(IF given /\ IsA(args[1], "array")
                            THEN Joint("", [i \in DOMAIN Held(h, args[1]) |-> Char(IntOfArg(Held(h, args[1]), i, 0))]) ELSE ""))
          [] id = 1536 -> IF given /\ IsA(args[1], "string") THEN json_parse(h, text) ELSE Got(h, NIL_VAL)
          [] id = 1537 -> Got(h, STRING_VAL(IF given THEN json_stringify(h, args[1]) ELSE "null"))
          [] OTHER -> Got(h, Plain(id, args))
=============================================================================
