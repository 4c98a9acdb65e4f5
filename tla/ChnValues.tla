------------------------------- MODULE ChnValues -----------------------------
(***************************************************************************)
(* Values of CHN and what the virtual machine's operators make of them     *)
(* (src/v1.1/vm.c). A value is its type and what it holds. Doubles are     *)
(* fractions in lowest terms, without rounding, infinities or NaN; texts   *)
(* are of printable characters; a function is its index in the compiler's  *)
(* table; arrays and dicts are references into a heap, the sequence of     *)
(* objects in the order of allocation (ChnGC models who of them lives). A  *)
(* dict is a function of its keys: the order of its slots, which the hash  *)
(* decides (ChnDict), is left out, and keys are enumerated in their order. *)
(*                                                                         *)
(* An operation returns the heap after it, a value, and "" or the kind of  *)
(* the error it raises.                                                    *)
(***************************************************************************)
EXTENDS ChnLexer, SequencesExt, FiniteSets, TLC

NIL_VAL == <<"nil">>
BOOL_VAL(b) == <<"bool", b>>
STRING_VAL(s) == <<"string", s>>
FUNC_VAL(f) == <<"function", f>>

RECURSIVE GcdOf(_, _)
GcdOf(a, b) == IF b = 0 THEN a ELSE GcdOf(b, a % b)
Size(n) == IF n < 0 THEN -n ELSE n

\* The number p/q.
Ratio(p, q) ==
    LET g == GcdOf(Size(p), Size(q))
    IN  IF q < 0 THEN <<"number", -p \div g, -q \div g>> ELSE <<"number", p \div g, q \div g>>
NUMBER_VAL(n) == <<"number", n, 1>>

vtype(v) == v[1]
IsA(v, type) == v[1] = type
AreNumbers(a, b) == IsA(a, "number") /\ IsA(b, "number")
AreStrings(a, b) == IsA(a, "string") /\ IsA(b, "string")

\* The items of an array, or the entries of a dict.
Held(h, v) == h[v[2]][2]
SetHeld(h, v, x) == [h EXCEPT ![v[2]] = <<@[1], x>>]
Got(h, v) == [h |-> h, v |-> v, e |-> ""]
Error(kind) == [h |-> <<>>, v |-> NIL_VAL, e |-> kind]
New(h, type, held) == Got(Append(h, <<type, held>>), <<type, Len(h) + 1>>)
Checked(fine, kind, r) == IF fine THEN r ELSE Error(kind)

is_truthy(h, v) ==
    CASE IsA(v, "nil") -> FALSE
      [] IsA(v, "bool") -> v[2]
      [] IsA(v, "number") -> v[2] # 0
      [] IsA(v, "string") -> v[2] # ""
      [] IsA(v, "array") -> Held(h, v) # <<>>
      [] IsA(v, "dict") -> DOMAIN Held(h, v) # {}
      [] OTHER -> TRUE

\* By contents, but arrays, dicts and functions are equal only to themselves.
val_eq(a, b) == IF vtype(a) = vtype(b) THEN a = b ELSE FALSE

-----------------------------------------------------------------------------
(* Characters and texts                                                    *)

Ascii == " !\"#$%&'()*+,-./0123456789:;<=>?@ABCDEFGHIJKLMNOPQRSTUVWXYZ[\\]^_abcdefghijklmnopqrstuvwxyz{|}~"

\* The code of the i-th of these characters: the back quote, 96, is left out.
Code(i) == IF i < 65 THEN 31 + i ELSE 32 + i
Controls == ("\t" :> 9) @@ ("\n" :> 10) @@ ("\f" :> 12) @@ ("\r" :> 13)
CharCode(c) == IF c \in DOMAIN Controls THEN Controls[c] ELSE Code(CHOOSE i \in 1..Len(Ascii) : At(Ascii, i) = c)
Char(code) == At(Ascii, CHOOSE i \in 1..Len(Ascii) : Code(i) = code)

RECURSIVE strcmp(_, _)
strcmp(s, t) ==
    CASE s = t -> 0
      [] s = "" \/ t = "" -> IF s = "" THEN -1 ELSE 1
      [] OTHER -> IF At(s, 1) = At(t, 1) THEN strcmp(Tail(s), Tail(t))
                  ELSE CharCode(At(s, 1)) - CharCode(At(t, 1))

RECURSIVE Joint(_, _)
Joint(sep, texts) ==
    IF texts = <<>> THEN "" ELSE IF Len(texts) = 1 THEN texts[1]
    ELSE texts[1] \o sep \o Joint(sep, Tail(texts))

StandsAt(s, t, i) == i + Len(t) <= Len(s) + 1 /\ SubSeq(s, i, i + Len(t) - 1) = t

\* Where t first stands in s from the index i on, or 0.
memmem(s, t, i) ==
    LET hits == {j \in i..(Len(s) - Len(t) + 1) : StandsAt(s, t, j)}
    IN  IF hits = {} THEN 0 ELSE CHOOSE j \in hits : \A k \in hits : j <= k

\* The keys of a dict in the order in which they are enumerated here.
KeysOf(d) == SetToSortSeq(DOMAIN d, LAMBDA s, t : strcmp(s, t) < 0)

\* The first n digits after the point of r/q. (Of a fraction that does not end the code writes 14
\* digits and rounds the last one.)
RECURSIVE Places(_, _, _)
Places(r, q, n) == IF r = 0 \/ n = 0 THEN "" ELSE ToString((10 * r) \div q) \o Places((10 * r) % q, q, n - 1)
NumberText(v) ==
    (IF v[2] < 0 THEN "-" ELSE "") \o ToString(Size(v[2]) \div v[3])
    \o (IF v[3] = 1 THEN "" ELSE "." \o Places(Size(v[2]) % v[3], v[3], 13))

\* Strings as they are, even in an array; no entries of a dict.
RECURSIVE append_val_buf(_, _)
append_val_buf(h, v) ==
    CASE IsA(v, "string") -> v[2]
      [] IsA(v, "number") -> NumberText(v)
      [] IsA(v, "bool") -> IF v[2] THEN "true" ELSE "false"
      [] IsA(v, "nil") -> "nil"
      [] IsA(v, "array") ->
            LET items == Held(h, v)
            IN  "[" \o Joint(", ", [i \in DOMAIN items |-> append_val_buf(h, items[i])]) \o "]"
      [] OTHER -> "<" \o vtype(v) \o ">"
val_to_str(h, v) == append_val_buf(h, v)

\* What stdo writes: the entries of a dict, too.
RECURSIVE print_value(_, _)
print_value(h, v) ==
    LET held == Held(h, v)
        keys == KeysOf(held)
    IN  CASE IsA(v, "array") -> "[" \o Joint(", ", [i \in DOMAIN held |-> print_value(h, held[i])]) \o "]"
          [] IsA(v, "dict") ->
                "{" \o Joint(", ", [i \in DOMAIN keys |-> "\"" \o keys[i] \o "\": " \o print_value(h, held[keys[i]])]) \o "}"
          [] IsA(v, "function") -> "<func>"
          [] OTHER -> append_val_buf(h, v)

-----------------------------------------------------------------------------
(* What literals stand for                                                 *)

Escapes == [c \in {"n", "t", "r", "\"", "'", "\\", "0"} |->
               CASE c = "n" -> "\n" [] c = "t" -> "\t" [] c = "r" -> "\r" [] c = "0" -> "" [] OTHER -> c]

\* Escapes of single characters; another character keeps its backslash. ("\x", "\u" and the other
\* control characters are in no text here.)
RECURSIVE Unescaped(_)
Unescaped(s) ==
    CASE s = "" -> ""
      [] At(s, 1) = "\\" ->
            (IF At(s, 2) \in DOMAIN Escapes THEN Escapes[At(s, 2)] ELSE Two(s, 1)) \o Unescaped(SubSeq(s, 3, Len(s)))
      [] OTHER -> At(s, 1) \o Unescaped(Tail(s))
StringValue(spelling) == Unescaped(SubSeq(spelling, 2, Len(spelling) - 1))
FStringValue(spelling) == Unescaped(SubSeq(spelling, 3, Len(spelling) - 1))

RECURSIVE Digits(_, _)
Digits(s, base) ==
    IF s = "" THEN 0
    ELSE IF At(s, Len(s)) = "_" THEN Digits(SubSeq(s, 1, Len(s) - 1), base)
    ELSE LET c == CharCode(At(s, Len(s)))
         IN  base * Digits(SubSeq(s, 1, Len(s) - 1), base)
             + (IF c < 58 THEN c - 48 ELSE IF c < 97 THEN c - 55 ELSE c - 87)
NumberValue(s) ==
    LET dot == Upto(s, 1, {"."})
        places == Len(s) - dot
    IN  CASE Two(s, 1) \in {"0x", "0X"} -> NUMBER_VAL(Digits(SubSeq(s, 3, Len(s)), 16))
          [] Two(s, 1) \in {"0b", "0B"} -> NUMBER_VAL(Digits(SubSeq(s, 3, Len(s)), 2))
          [] Two(s, 1) \in {"0o", "0O"} -> NUMBER_VAL(Digits(SubSeq(s, 3, Len(s)), 8))
          [] OTHER -> IF dot > Len(s) THEN NUMBER_VAL(Digits(s, 10))
                      ELSE Ratio(Digits(SubSeq(s, 1, dot - 1) \o SubSeq(s, dot + 1, Len(s)), 10), 10 ^ places)

\* strtod from i on: blanks, a sign, digits and a fraction; 0 when there are none. (Exponents,
\* hexadecimals, infinities and NaN are in no text that is read so here.)
Signed(s, i) == LET k == Past(s, i, Blank \cup {"\n"}) IN IF At(s, k) \in {"+", "-"} THEN k + 1 ELSE k
NumeralEnd(s, i) ==
    LET int == Past(s, Signed(s, i), Digit)
        last == IF At(s, int) = "." THEN Past(s, int + 1, Digit) ELSE int
    IN  IF \E k \in Signed(s, i)..(last - 1) : At(s, k) \in Digit THEN last ELSE i
strtod(s, i) ==
    LET n == NumberValue(SubSeq(s, Signed(s, i), NumeralEnd(s, i) - 1))
    IN  IF Signed(s, i) > 1 /\ At(s, Signed(s, i) - 1) = "-" THEN <<"number", -n[2], n[3]>> ELSE n

-----------------------------------------------------------------------------
(* Operators                                                               *)

\* (long long) and (int) of a number: towards zero.
Truncated(v) == IF v[2] < 0 THEN -((-v[2]) \div v[3]) ELSE v[2] \div v[3]

Plus2(a, b) == Ratio(a[2] * b[3] + b[2] * a[3], a[3] * b[3])
Minus(a) == <<"number", -a[2], a[3]>>
Times(a, b) == Ratio(a[2] * b[2], a[3] * b[3])
Over1(a, b) == Ratio(a[2] * b[3], a[3] * b[2])
Less(a, b) == a[2] * b[3] < b[2] * a[3]

\* The remainder has the sign of the dividend.
fmod(a, b) ==
    LET x == a[2] * b[3]  y == Size(b[2] * a[3])
    IN  Ratio(IF x < 0 THEN -(-x % y) ELSE x % y, a[3] * b[3])

\* Powers by whole numbers; 0 to a negative one, which is infinite, is in no program here.
pow(a, b) ==
    IF b[2] = 0 THEN NUMBER_VAL(1) ELSE IF b[2] > 0 THEN Ratio(a[2] ^ b[2], a[3] ^ b[2]) ELSE Ratio(a[3] ^ (-b[2]), a[2] ^ (-b[2]))

Bit(op, x, y) == CASE op = "&" -> x * y [] op = "|" -> x + y - x * y [] OTHER -> (x + y) % 2
RECURSIVE Bitwise2(_, _, _)
Bitwise2(op, m, n) ==
    IF {m, n} \subseteq {0, -1} THEN -Bit(op, -m, -n)
    ELSE 2 * Bitwise2(op, m \div 2, n \div 2) + Bit(op, m % 2, n % 2)

\* Numbers of 64 bits, of which the results here are: counts are not negative.
Shifted(op, m, n) == IF op = "<<" THEN m * 2 ^ n ELSE m \div (2 ^ n)

OfNumbers(op, a, b) ==
    CASE op = "+" -> Plus2(a, b)
      [] op = "-" -> Plus2(a, Minus(b))
      [] op = "*" -> Times(a, b)
      [] op = "/" -> Over1(a, b)
      [] op = "%" -> fmod(a, b)
      [] op = "**" -> pow(a, b)
      [] op \in {"&", "|", "^"} -> NUMBER_VAL(Bitwise2(op, Truncated(a), Truncated(b)))
      [] op \in {"<<", ">>"} -> NUMBER_VAL(Shifted(op, Truncated(a), Truncated(b)))
      [] op = "<" -> BOOL_VAL(Less(a, b))
      [] op = ">" -> BOOL_VAL(Less(b, a))
      [] op = "<=" -> BOOL_VAL(~Less(b, a))
      [] op = ">=" -> BOOL_VAL(~Less(a, b))

Among(items, v) == \E i \in DOMAIN items : val_eq(items[i], v)

\* gc_dict_get: nil when the key is not there.
gc_dict_get(h, d, key) == IF key \in DOMAIN Held(h, d) THEN Held(h, d)[key] ELSE NIL_VAL
gc_dict_set(h, d, key, v) ==
    SetHeld(h, d, [k \in DOMAIN Held(h, d) \cup {key} |-> IF k = key THEN v ELSE Held(h, d)[k]])

In(h, v, c) ==
    CASE IsA(c, "array") -> Got(h, BOOL_VAL(Among(Held(h, c), v)))
      [] IsA(c, "dict") -> Checked(IsA(v, "string"), "type", Got(h, BOOL_VAL(gc_dict_get(h, c, v[2]) # NIL_VAL)))
      [] IsA(c, "string") -> Checked(IsA(v, "string"), "type", Got(h, BOOL_VAL(memmem(c[2], v[2], 1) > 0)))
      [] OTHER -> Error("type")

BinaryOp(h, op, a, b) ==
    CASE op = "==" -> Got(h, BOOL_VAL(val_eq(a, b)))
      [] op = "!=" -> Got(h, BOOL_VAL(~val_eq(a, b)))
      [] op = "in" -> In(h, a, b)
      [] op = "+" /\ (IsA(a, "string") \/ IsA(b, "string")) ->
            Got(h, STRING_VAL(val_to_str(h, a) \o val_to_str(h, b)))
      [] op \in {"<", ">"} /\ AreStrings(a, b) ->
            Got(h, BOOL_VAL(IF op = "<" THEN strcmp(a[2], b[2]) < 0 ELSE strcmp(a[2], b[2]) > 0))
      [] OTHER ->
            IF ~AreNumbers(a, b) THEN Error("type")
            ELSE IF op \in {"/", "%"} /\ b[2] = 0 THEN Error("arith")
            ELSE Got(h, OfNumbers(op, a, b))

UnaryOp(h, op, v) ==
    CASE op = "!" -> Got(h, BOOL_VAL(~is_truthy(h, v)))
      [] op = "typeof" -> Got(h, STRING_VAL(vtype(v)))
      [] op = "-" -> Checked(IsA(v, "number"), "type", Got(h, Minus(v)))
      [] op = "~" -> Checked(IsA(v, "number"), "type", Got(h, NUMBER_VAL(-Truncated(v) - 1)))

-----------------------------------------------------------------------------
(* Indices and members                                                     *)

\* The place of an index, counted from the end when negative; 0 when out of bounds.
Place(v, len) ==
    LET i == Truncated(v)  j == IF i < 0 THEN len + i ELSE i
    IN  IF j \in 0..(len - 1) THEN j + 1 ELSE 0
AtPlace(v, len, K(_)) ==
    IF ~IsA(v, "number") THEN Error("type") ELSE IF Place(v, len) = 0 THEN Error("index") ELSE K(Place(v, len))

array_index(h, c, i) ==
    CASE IsA(c, "dict") -> Checked(IsA(i, "string"), "type", Got(h, gc_dict_get(h, c, i[2])))
      [] IsA(c, "string") -> AtPlace(i, Len(c[2]), LAMBDA k : Got(h, STRING_VAL(At(c[2], k))))
      [] IsA(c, "array") -> AtPlace(i, Len(Held(h, c)), LAMBDA k : Got(h, Held(h, c)[k]))
      [] OTHER -> Error("type")

array_set(h, c, i, v) ==
    CASE IsA(c, "dict") -> Checked(IsA(i, "string"), "type", Got(gc_dict_set(h, c, i[2], v), v))
      [] IsA(c, "array") ->
            AtPlace(i, Len(Held(h, c)), LAMBDA k : Got(SetHeld(h, c, [Held(h, c) EXCEPT ![k] = v]), v))
      [] OTHER -> Error("type")

\* The members of a dict; setting one leaves the dict.
dict_get(h, d, key) == Checked(IsA(d, "dict"), "type", Got(h, gc_dict_get(h, d, key)))
dict_set(h, d, key, v) == Checked(IsA(d, "dict"), "type", Got(gc_dict_set(h, d, key, v), d))

array_len(h, v) ==
    CASE IsA(v, "array") -> Got(h, NUMBER_VAL(Len(Held(h, v))))
      [] IsA(v, "dict") -> Got(h, NUMBER_VAL(Cardinality(DOMAIN Held(h, v))))
      [] IsA(v, "string") -> Got(h, NUMBER_VAL(Len(v[2])))
      [] OTHER -> Error("type")
=============================================================================
