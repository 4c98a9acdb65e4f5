------------------------------- MODULE MCChnRun ------------------------------
(* Besides the texts of MCChnFront: programs with every operator between      *)
(* operands that do something, programs that say what the methods and native *)
(* functions must agree on, and values to and from JSON.                      *)
EXTENDS MCChnFront, ChnRun

-----------------------------------------------------------------------------
(* Programs                                                                *)

Short ==
    "let a = 2\nlet v = [1]\nlet d = {k: a}\nfunc f(x, y) { a += x\nlet t = x\nreturn t + y }\nfunc g(x) { return f(x, 3) }\n"
Preamble == Short \o "let s = \"ab\"\nv.add(s)\nlet w = p -> p * a\n"
Seen == "\nstdo(z, a, v, d)"

Effects == {"a++", "f(a, 1)", "w(len(s))", "v.pop()", "nil", "(a = 0)"}
Fewer == {"++a", "g(2)", "nil"}
AllOps == UNION {Levels[i] : i \in DOMAIN Levels} \cup {"**"}

Three ==
    {<<"", " ? ", " : ", "">>, <<"", " + ", " * ", "">>, <<"", " ** (", " ? 2 : 1) - ", "">>, <<"", " && ", " || ", "">>,
     <<"", " ?? ", " ?? ", "">>, <<"", " || ", " && ", "">>, <<"[", ", ", ", ", "]">>, <<"{x: ", ", y: ", ", x: ", "}">>,
     <<"f(", ", ", ") - ", "">>, <<"[", ", d][", "] == ", "">>, <<"v[", "] = ", " < ", "">>, <<"(d.k = ", ") == [", "] in ", "">>,
     <<"f\"a{", "}b{", "}{", "}\"">>, <<"(y -> ", " + y)(", " - ", ")">>,
     <<"@native(0x20E, ", ", ", ", ", ")">>, <<"v.insert(", ", ", ") ?? ", "">>}

Expressions ==
    {x \o " " \o op \o " " \o y : op \in AllOps, x, y \in Effects}
    \cup {t[1] \o x \o t[2] \o y \o t[3] \o z \o t[4] : t \in Three, x, y, z \in Fewer}
    \cup {"a " \o op \o " " \o x : op \in CompoundAssigns, x \in Effects}
    \cup {op \o x : op \in {"-", "!", "~", "typeof ", "await "}, x \in Effects}

\* Numbers only: divisors are powers of two, and exponents are whole.
Folds == {"-" \o x \o " " \o op \o " " \o y \o " " \o p \o " " \o z :
            op, p \in {"+", "-", "*", "/", "%"}, x \in {"3", "1.5"}, y, z \in {"2", "0.5"}}
         \cup {x \o " ** " \o y \o " " \o p \o " -2" : x \in {"-2", "0.5"}, y \in {"2", "2 ** 3"}, p \in {"*", "-", "%", "<"}}

\* Statements: what functions do with their parameters, locals and frames.
Bodies == {"return x", "return g(x)", "return f(x, f(1, x))", "x = x + 1\nreturn x", "let y = x\ny *= a\nreturn g(y)",
           "x++", "return", "throw x", "let a = 7\na++\nreturn a + x", "return func (x) { return x * 2 }", "return x -> x",
           "func h(p) { return p * 2 }\nlet t = h(x)\nt++\nx = t\nreturn h(t) + x", "return x\nx = 1"}
Functions ==
    {"func r(x) { " \o b \o "\n}\nlet q = func (x) { " \o b \o " }\nlet z = " \o e :
        b \in Bodies, e \in {"[r(5), a]", "[r(1), q(2), a]", "a + r(a++) * q(a)", "(r(3))(4)", "r(1, 2)", "r(q(nil))"}}

\* Structs, exports, and programs with "entry main".
Constructions == {"S(nil, 2)", "S(v, nil)", "[S(S(false, \"\"), nil), a]", "S(f(1, 2), v.pop())", "S(nil, nil).n", "S(1)"}
Structs == {"struct S { m" \o m \o ", n: f(a, 1) }\nlet z = " \o e : m \in {"", ": nil", ": [a++]"}, e \in Constructions}
Exports == {"export k", "export public func j(x) { return k(x) }", "export private func j(x) { return x }", "export j", "let b = 1"}
Entered ==
    {v \o "func k(x) { return x + 1 }\n" \o e \o "\n" \o m \o "entry main() { let z = k(1)\nfunc l(x) { return k(x) }\nstdo(z, l(z)) }" :
        v \in {"", "public "}, e \in Exports, m \in {"", "public ", "entry main() { }\n", "func main() { }\n"}}

MCPrograms == Entered \cup {Short \o p \o Seen : p \in Structs} \cup {Preamble \o "let z = " \o e \o Seen : e \in Expressions \cup Folds} \cup {Short \o p \o Seen : p \in Functions}

-----------------------------------------------------------------------------
(* Laws                                                                    *)

Quoted(s) == "\"" \o s \o "\""
Given(name, value) == "let " \o name \o " = " \o value \o "\n"

\* Of texts s and t, and where t is replaced by u.
TextLaws ==
    {"t == \"\" || s.split(t).join(t) == s", "s.contains(t) == (s.find(t) >= 0)", "(t in s) == s.contains(t)",
     "s.count(t) == (t == \"\" ? 0 : s.split(t).length() - 1)",
     "s.starts_with(t) == s.reverse().ends_with(t.reverse())",
     "s.find(t) < 0 || s.slice(s.find(t), s.find(t) + len(t)) == t",
     "(s + t).length() == len(s) + len(t)", "(s + t).starts_with(s) && (s + t).ends_with(t)",
     "s.repeat(2) == s + s", "s.pad_left(5, \"xy\").length() == 5 && s.pad_left(5, t).ends_with(s)",
     "s.pad_right(6).trim() == s", "s.upper().lower() == s", "(s < t) == (t > s)", "s < t || t < s || s == t",
     "@native(0x408, @native(0x407, s)) == s", "s == \"\" || @native(0x40A, @native(0x409, s)) == s[0]"}
ReplaceLaw == "s.replace(t, u) == (t == \"\" ? s : s.split(t).join(u))"

\* Of a text s and an index i.
CutLaws ==
    {"s.slice(0, i) + s.slice(i) == s", "s.sub(i) == s.slice(i, len(s))",
     "s.char_at(i) == (i < len(s) && i >= -len(s) ? s[i] : nil)",
     "i < 0 || s.repeat(i).length() == i * len(s)", "s.pad_left(i) == s.reverse().pad_right(i).reverse()"}

\* Of an array v, a value x and an index i that x is inserted at.
ArrayLaws ==
    {"var c = v.copy()\nc.add(x)\nlet l = c.pop()\nlet z = l == x && str(c) == str(v)",
     "var c = v.copy()\nc.insert(i, x)\nlet l = c[i]\nc.cut(i)\nlet z = l == x && str(c) == str(v)",
     "var c = v.copy()\nc.remove(x)\nlet z = v.count(x) == 0 || c.count(x) == v.count(x) - 1",
     "var c = v.copy()\nc.rall(x)\nlet z = c.length() == v.length() - v.count(x) && !(x in c)",
     "var c = v.copy()\nc.sort()\nlet z = c.length() == v.length() && c.sum() == v.sum() && c.count(x) == v.count(x)",
     "var c = v.copy()\nc.sort()\nlet z = typeof c.first() == \"string\" || c.first() == v.min() && c.last() == v.max()",
     "var c = v.copy()\nc.reverse()\nlet l = c.find(x) < 0\nc.reverse()\nlet z = str(c) == str(v) && l == !v.contains(x)",
     "let z = (x in v) == (v.index_of(x) >= 0)", "let z = v.contains(x) ? v[v.find(x)] == x : v.find(x) == -1",
     "let z = v.unique().count(x) == (x in v ? 1 : 0)", "let z = [v, [x]].flat().length() == v.length() + 1",
     "let z = v.fill(x, 3).count(x) == 3", "let z = v.length() == 0 || v.join(\",\").split(\",\").length() == v.length()",
     "let z = v in [v] && !(v in [v.copy()])"}

\* Of a dict d and a key k; there is whether k is a key.
DictLaws ==
    {"let n = d.size()\nlet z = d.keys().length() == n && d.values().length() == n && d.to_arr().length() == n",
     "let z = d.has(k) == (d[k] != nil)", "let z = (k in d) == d.has(k)", "let z = d.get(k, 7) == (d.has(k) ? d[k] : 7)",
     "let n = d.size()\nlet l = d.delete(k)\nlet z = l == there && !d.has(k) && d.size() == (there ? n - 1 : n)",
     "let e = d.merge({\"b\": 9})\nlet z = e.b == 9 && (k == \"b\" || e[k] == d[k]) && e.size() >= d.size()",
     "d[k] = 5\nlet z = d.get(k) == 5 && d.keys().contains(k)"}

\* Of a number x and a whole number y that is not 0.
NumberLaws ==
    {"@native(0x200, x) <= x && x < @native(0x200, x) + 1", "@native(0x201, x) == -@native(0x200, -x)",
     "@native(0x202, -x) == -@native(0x202, x)", "@native(0x20B, x, y) + @native(0x20C, x, y) == x + y",
     "@native(0x20E, x, -1, y * y) >= -1 && @native(0x20E, x, -1, y * y) <= y * y",
     "@native(0x213, x) * @native(0x203, x) == x", "x % y + y * @native(0x212, x / y) == x", "x ** 2 == x * x",
     "@native(0x214, x, y, 0) == x && @native(0x214, x, y, 1) == y", "~~x == @native(0x212, x)",
     "(x ^ y) ^ y == @native(0x212, x)", "(x & y) + (x | y) == @native(0x212, x) + y",
     "@native(0x222, x, y) * @native(0x223, x, y) == @native(0x203, @native(0x212, x) * y)",
     "str(x).to_num() == x", "@native(0x403, str(x)) == @native(0x212, x)", "@native(0x404, str(x)) == x",
     "range(x, y).length() == @native(0x20C, 0, y - @native(0x212, x))",
     "range(x, y, -1).sum() == range(y + 1, @native(0x212, x) + 1).sum()", "(@native(0x405, x) ? x : 0) == x"}

\* What the README or a comment of the code says otherwise (README.md:609, 611, 537, 500 and 240,
\* parser.c:867).
Otherwise ==
    {"let z = \"aXaX\".replace(\"X\", \"y\") == \"ayay\"", "let z = \"hello\".slice(1, 3) == \"el\"", "let z = !{a: nil}.has(\"a\")",
     "let v = [1, 2, 3]\nv.fill(9)\nlet z = v.count(9) == 0", "let z = /* a\ncomment */ true", "let z = 1 < 2 in [true]"}

Samples == {"", "a", "aa", "aab", "baab"}
Zs(laws) == {"let z = " \o l : l \in laws}
Under(givens, laws) == {g \o l : g \in givens, l \in laws}
MCLaws ==
    Otherwise
    \cup Under({Given("s", Quoted(s)) \o Given("t", Quoted(t)) : s \in Samples, t \in {"", "a", "aa", "ab"}}, Zs(TextLaws))
    \cup Under({Given("s", Quoted(s)) \o Given("t", Quoted(t)) \o Given("u", Quoted(u)) :
                    s \in Samples, t \in {"", "a", "aa"}, u \in {"", "b", "aa"}}, Zs({ReplaceLaw}))
    \cup Under({Given("s", Quoted(s)) \o Given("i", i) : s \in Samples, i \in {"0", "1", "-1", "3", "-4", "9"}}, Zs(CutLaws))
    \cup Under({Given("v", v) \o Given("x", x) \o Given("i", "-1") :
                    v \in {"[]", "[1]", "[2, 1]", "[1, 2, 1, 0.5]", "[\"b\", \"a\"]"}, x \in {"1", "\"a\""}}
               \cup {Given("v", "[2, 1]") \o Given("x", "1") \o Given("i", i) : i \in {"0", "1"}}, ArrayLaws)
    \cup Under({Given("d", g[1]) \o Given("k", Quoted(g[2])) \o Given("there", g[3]) :
                    g \in {<<"{}", "a", "false">>, <<"{a: 1, b: \"x\"}", "a", "true">>, <<"{a: 1}", "b", "false">>,
                           <<"{a: nil, c: 2}", "a", "true">>, <<"{\"a\": 1, b: 2}", "b", "true">>}}, DictLaws)
    \cup Under({Given("x", x) \o Given("y", y) : x \in {"-3", "-1.5", "0", "2.5", "7"}, y \in {"-2", "1", "3"}}, Zs(NumberLaws))

-----------------------------------------------------------------------------
(* JSON                                                                    *)

JsonChars == {"a", "\\\"", "\\\\", "\\n", "]", ",", ":", "n"}
JsonTexts == {Quoted(s) : s \in {""} \cup JsonChars \cup {c \o e : c, e \in JsonChars}}
JsonValues ==
    JsonTexts \cup {"[" \o s \o ", " \o s \o "]" : s \in JsonTexts} \cup {"{" \o s \o ": 1, k: " \o s \o "}" : s \in JsonTexts}
    \cup {"nil", "true", "-1.5", "[]", "{}", "[nil, true, false, -2, \"\"]", "{a: nil, b: false, c: 0.25}", "[[1], 2]"}
JsonPrograms == {"let r = " \o r \o "\nlet z = @native(0x600, @native(0x601, r))" : r \in JsonValues}

MCAllPrograms == MCPrograms \cup MCLaws \cup JsonPrograms
=============================================================================
