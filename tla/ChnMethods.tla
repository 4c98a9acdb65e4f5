------------------------------ MODULE ChnMethods -----------------------------
(***************************************************************************)
(* The methods of strings, dicts and arrays (OP_METHOD_CALL of             *)
(* src/v1.1/vm.c). A method gets the heap, its receiver, its name and its  *)
(* arguments. A method that looks at an argument that was not given reads  *)
(* what is left on the stack: no call here has too few. Texts are as long  *)
(* as they need be: the sizes of buffers are left out.                     *)
(***************************************************************************)
EXTENDS ChnValues

\* The i-th argument, if it is of this type.
Arg(args, i, type, default) == IF Len(args) >= i /\ IsA(args[i], type) THEN args[i][2] ELSE default
IntArg(args, i, default) == IF Len(args) >= i /\ IsA(args[i], "number") THEN Truncated(args[i]) ELSE default

-----------------------------------------------------------------------------
(* Texts                                                                   *)

Mapped(s, F(_)) == Joint("", [i \in 1..Len(s) |-> F(At(s, i))])
Shift(c, from, to, by) == IF CharCode(c) \in from..to THEN Char(CharCode(c) + by) ELSE c
str_upper(s) == Mapped(s, LAMBDA c : Shift(c, 97, 122, -32))
str_lower(s) == Mapped(s, LAMBDA c : Shift(c, 65, 90, 32))
str_reverse(s) == Joint("", [i \in 1..Len(s) |-> At(s, Len(s) + 1 - i)])

IsSpace(s, i) == At(s, i) \in Blank \cup {"\n", "\f"}
str_trim(s) ==
    LET kept == {i \in 1..Len(s) : ~IsSpace(s, i)}
    IN  IF kept = {} THEN ""
        ELSE SubSeq(s, CHOOSE i \in kept : \A j \in kept : i <= j, CHOOSE i \in kept : \A j \in kept : j <= i)

\* The parts between delimiters, from the left; every character when there is none.
RECURSIVE Parts(_, _)
Parts(s, delim) ==
    LET k == memmem(s, delim, 1)
    IN  IF k = 0 THEN <<s>> ELSE <<SubSeq(s, 1, k - 1)>> \o Parts(SubSeq(s, k + Len(delim), Len(s)), delim)
str_split(s, delim) == IF delim = "" THEN [i \in 1..Len(s) |-> At(s, i)] ELSE Parts(s, delim)

\* Mutant: after an occurrence the search goes on one character behind its start.
replace_overlapping(s, from, to, i) ==
    LET k == memmem(s, from, i)
    IN  IF from = "" \/ k = 0 THEN SubSeq(s, i, Len(s))
        ELSE SubSeq(s, i, k - 1) \o to \o SubSeq(s, k + 1, Len(s))

\* The rest of s from i on, every occurrence of "from" replaced.
RECURSIVE str_replace(_, _, _, _)
str_replace(s, from, to, i) ==
    LET k == memmem(s, from, i)
    IN  IF from = "" \/ k = 0 THEN SubSeq(s, i, Len(s))
        ELSE SubSeq(s, i, k - 1) \o to \o str_replace(s, from, to, k + Len(from))

RECURSIVE Occurrences(_, _, _)
Occurrences(s, t, i) ==
    LET k == memmem(s, t, i) IN IF t = "" \/ k = 0 THEN 0 ELSE 1 + Occurrences(s, t, k + Len(t))

\* From start to stop, negative ones counted from the end, cut to the text.
Slice(s, start, stop) ==
    LET from == IF start < 0 THEN Len(s) + start ELSE start
        to == IF stop < 0 THEN Len(s) + stop ELSE stop
    IN  SubSeq(s, (IF from < 0 THEN 0 ELSE from) + 1, IF to > Len(s) THEN Len(s) ELSE to)

\* n characters of ch, again and again.
Padding(n, ch) == Joint("", [i \in 1..n |-> At(ch, 1 + ((i - 1) % Len(ch)))])
Padded(s, n, ch, left) ==
    IF n <= Len(s) \/ ch = "" THEN s
    ELSE IF left THEN Padding(n - Len(s), ch) \o s ELSE s \o Padding(n - Len(s), ch)

Texts2(h, parts) == New(h, "array", [i \in DOMAIN parts |-> STRING_VAL(parts[i])])

NeedsText == {"contains", "starts_with", "ends_with", "replace", "find"}

string_method(h, s, m, args) ==
    LET t == Arg(args, 1, "string", "")
        Is(text) == Got(h, STRING_VAL(text))
        n == IntArg(args, 1, Len(s))
    IN  CASE m \in NeedsText /\ ~(Len(args) >= 1 /\ IsA(args[1], "string")) -> Error("type")
          [] m = "replace" /\ ~(Len(args) >= 2 /\ IsA(args[2], "string")) -> Error("type")
          [] m = "upper" -> Is(str_upper(s))
          [] m = "lower" -> Is(str_lower(s))
          [] m = "trim" -> Is(str_trim(s))
          [] m = "reverse" -> Is(str_reverse(s))
          [] m = "split" -> Texts2(h, str_split(s, t))
          [] m = "contains" -> Got(h, BOOL_VAL(memmem(s, t, 1) > 0))
          [] m = "starts_with" -> Got(h, BOOL_VAL(StandsAt(s, t, 1)))
          [] m = "ends_with" -> Got(h, BOOL_VAL(Len(s) >= Len(t) /\ StandsAt(s, t, Len(s) - Len(t) + 1)))
          [] m = "replace" -> Is(str_replace(s, t, args[2][2], 1))
          [] m = "find" -> Got(h, NUMBER_VAL(memmem(s, t, 1) - 1))
          [] m \in {"slice", "sub"} -> Is(Slice(s, IntArg(args, 1, 0), IntArg(args, 2, Len(s))))
          [] m = "to_num" -> Got(h, IF NumeralEnd(s, 1) > Len(s) THEN strtod(s, 1) ELSE NIL_VAL)
          [] m = "count" -> Got(h, NUMBER_VAL(Occurrences(s, t, 1)))
          [] m \in {"pad_left", "pad_right"} -> Is(Padded(s, n, Arg(args, 2, "string", " "), m = "pad_left"))
          [] m = "repeat" -> Is(Joint("", [i \in 1..IntArg(args, 1, 0) |-> s]))
          [] m = "char_at" ->
                LET k == Place(NUMBER_VAL(IntArg(args, 1, 0)), Len(s))
                IN  Got(h, IF k = 0 THEN NIL_VAL ELSE STRING_VAL(At(s, k)))
          [] OTHER -> Error("runtime")

-----------------------------------------------------------------------------
(* Dicts                                                                   *)

\* An array of the key and the value of each entry, allocated after the array of them.
PairsOf(h, d) ==
    LET keys == KeysOf(Held(h, d))
        pair(i) == <<"array", <<STRING_VAL(keys[i]), Held(h, d)[keys[i]]>> >>
        all == [i \in DOMAIN keys |-> <<"array", Len(h) + 1 + i>>]
    IN  Got(Append(h, <<"array", all>>) \o [i \in DOMAIN keys |-> pair(i)], <<"array", Len(h) + 1>>)

\* The entries of d, and then those of e.
Merged(d, e) == [k \in DOMAIN d \cup DOMAIN e |-> IF k \in DOMAIN e THEN e[k] ELSE d[k]]

dict_method(h, d, m, args) ==
    LET held == Held(h, d)
        keys == KeysOf(held)
        keyed == Len(args) >= 1 /\ IsA(args[1], "string")
        found == IF keyed THEN gc_dict_get(h, d, args[1][2]) ELSE NIL_VAL
        default == IF keyed /\ Len(args) >= 2 THEN args[2] ELSE NIL_VAL
        there == keyed /\ args[1][2] \in DOMAIN held
    IN  CASE m = "size" -> array_len(h, d)
          [] m \in {"has", "contains"} -> Got(h, BOOL_VAL(found # NIL_VAL))
          [] m \in {"get", "find"} -> Got(h, IF found = NIL_VAL THEN default ELSE found)
          [] m = "delete" ->
                Got(IF there THEN SetHeld(h, d, [k \in DOMAIN held \ {args[1][2]} |-> held[k]]) ELSE h, BOOL_VAL(there))
          [] m = "keys" -> Texts2(h, keys)
          [] m = "values" -> New(h, "array", [i \in DOMAIN keys |-> held[keys[i]]])
          [] m = "merge" ->
                New(h, "dict", IF Len(args) >= 1 /\ IsA(args[1], "dict") THEN Merged(held, Held(h, args[1])) ELSE held)
          [] m = "to_arr" -> PairsOf(h, d)
          [] OTHER -> Error("type")

-----------------------------------------------------------------------------
(* Arrays                                                                  *)

\* Where v first is among the items, or 0.
IndexOf(items, v) == SelectInSeq(items, LAMBDA x : val_eq(x, v))
arr_insert(items, i, v) ==
    InsertAt(items, (IF i < 0 THEN 0 ELSE IF i > Len(items) THEN Len(items) ELSE i) + 1, v)
arr_cut(items, i) == IF i \in 0..(Len(items) - 1) THEN RemoveAt(items, i + 1) ELSE items
arr_remove(items, v) == arr_cut(items, IndexOf(items, v) - 1)
arr_rall(items, v) == SelectSeq(items, LAMBDA x : ~val_eq(x, v))

\* Numbers and strings by their order, others by none: qsort may leave an array that mixes them in
\* any order (none here does).
val_cmp(a, b) ==
    CASE AreNumbers(a, b) -> IF Less(a, b) THEN -1 ELSE IF Less(b, a) THEN 1 ELSE 0
      [] AreStrings(a, b) -> strcmp(a[2], b[2])
      [] OTHER -> 0
Sorted(items) == SortSeq(items, LAMBDA a, b : val_cmp(a, b) < 0)

Unique(items) == FoldLeft(LAMBDA u, v : IF Among(u, v) THEN u ELSE Append(u, v), <<>>, items)
Flat(h, items) == FlattenSeq([i \in DOMAIN items |-> IF IsA(items[i], "array") THEN Held(h, items[i]) ELSE <<items[i]>>])

\* The texts of strings, numbers, booleans and nil; nothing for the rest.
ItemText(h, v) == IF vtype(v) \in {"array", "dict", "function"} THEN "" ELSE val_to_str(h, v)

Total(items) ==
    FoldLeft(LAMBDA sum, v : IF IsA(v, "number") THEN Plus2(sum, v) ELSE sum, NUMBER_VAL(0), items)
\* The first item, or a number less (more) than it, if it is one itself.
Extreme(items, least) ==
    FoldLeft(LAMBDA best, v : IF AreNumbers(v, best) /\ (IF least THEN Less(v, best) ELSE Less(best, v)) THEN v ELSE best,
             items[1], items)

\* Callbacks are not called: the machine cannot be entered again.
Callbacks == {"map", "filter", "any", "all", "reduce"}

array_method(h, a, m, args) ==
    LET items == Held(h, a)
        Becomes(held, v) == Got(SetHeld(h, a, held), v)
        Or(v) == IF items = <<>> THEN NIL_VAL ELSE v
        at == IntArg(args, 1, 0)
        i == IF at < 0 THEN Len(items) + at ELSE at
    IN  CASE m \in {"add", "push", "append"} -> Becomes(Append(items, args[1]), NIL_VAL)
          [] m \in {"insert", "cut"} /\ ~IsA(args[1], "number") -> Error("type")
          [] m = "insert" -> Becomes(arr_insert(items, IF at < 0 THEN i + 1 ELSE at, args[2]), NIL_VAL)
          [] m = "cut" -> Checked(i \in 0..(Len(items) - 1), "index", Becomes(arr_cut(items, i), NIL_VAL))
          [] m = "remove" -> Becomes(arr_remove(items, args[1]), NIL_VAL)
          [] m = "rall" -> Becomes(arr_rall(items, args[1]), NIL_VAL)
          [] m = "sort" -> Becomes(Sorted(items), NIL_VAL)
          [] m = "reverse" -> Becomes(Reverse(items), NIL_VAL)
          [] m \in {"find", "index_of"} -> Got(h, NUMBER_VAL(IndexOf(items, args[1]) - 1))
          [] m = "contains" -> Got(h, BOOL_VAL(Among(items, args[1])))
          [] m = "count" ->
                Got(h, NUMBER_VAL(Len(SelectSeq(items, LAMBDA x : Len(args) >= 1 /\ val_eq(x, args[1])))))
          [] m = "join" ->
                Got(h, STRING_VAL(Joint(Arg(args, 1, "string", ""), [k \in DOMAIN items |-> ItemText(h, items[k])])))
          [] m = "pop" -> IF items = <<>> THEN Got(h, NIL_VAL) ELSE Becomes(Front(items), Last(items))
          [] m = "shift" -> IF items = <<>> THEN Got(h, NIL_VAL) ELSE Becomes(Tail(items), Head(items))
          [] m = "first" -> Got(h, Or(items[1]))
          [] m = "last" -> Got(h, Or(items[Len(items)]))
          [] m = "sum" -> Got(h, Total(items))
          [] m \in {"min", "max"} -> Got(h, Or(Extreme(items, m = "min")))
          [] m = "copy" -> New(h, "array", items)
          [] m = "fill" ->
                New(h, "array", [k \in 1..IntArg(args, 2, 0) |-> IF Len(args) >= 1 THEN args[1] ELSE NIL_VAL])
          [] m = "unique" -> New(h, "array", Unique(items))
          [] m = "flat" -> New(h, "array", Flat(h, items))
          [] m = "map" /\ ~(Len(args) >= 1 /\ IsA(args[1], "function")) -> Error("type")
          [] OTHER -> Error("runtime")

\* method_id: the names there are; "length" is an operator of its own.
MethodNames ==
    {"add", "push", "append", "insert", "cut", "remove", "rall", "length", "sort", "reverse", "upper", "lower", "trim",
     "split", "contains", "starts_with", "ends_with", "replace", "find", "slice", "sub", "to_num", "join", "flat",
     "unique", "pop", "shift", "count", "first", "last", "sum", "min", "max", "copy", "fill", "index_of", "pad_left",
     "pad_right", "repeat", "char_at", "keys", "values", "has", "delete", "size", "merge", "get", "to_arr"} \cup Callbacks

method_call(h, v, m, args) ==
    CASE IsA(v, "string") -> string_method(h, v[2], m, args)
      [] IsA(v, "dict") -> dict_method(h, v, m, args)
      [] IsA(v, "array") -> array_method(h, v, m, args)
      [] OTHER -> Error("type")
=============================================================================
