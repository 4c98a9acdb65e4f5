---------------------------- MODULE MCChnImports ----------------------------
(***************************************************************************)
(* Instances of ChnImports: a program and two source files import each     *)
(* other and a file of any kind, which may import one itself. Among the    *)
(* programs are cycles with and without the program, files imported twice  *)
(* by one importer or two, and bundles that depend on what is missing.     *)
(***************************************************************************)
EXTENDS ChnImports, TLC

CONSTANTS
    m, s, t, x,     \* the program, the source files, the file of any kind
    Dotted          \* the spellings: is there a "./" in front of names?

MCFile == {m, s, t, x}

Lists(S) == {<<>>} \cup {<<f>> : f \in S} \cup {<<f, g>> : f, g \in S}

ImportsOf(k) ==
    CASE k = "source" -> {<<>>, <<m>>, <<s>>, <<x>>}
      [] k = "bundle" -> {<<>>, <<x>>}
      [] k \in {"functions", "missing"} -> {<<>>}

MCPrograms == UNION {
    {[kind |-> (m :> "source") @@ (s :> "source") @@ (t :> "source") @@ (x :> k),
      imports |-> (m :> a) @@ (s :> b) @@ (t :> c) @@ (x :> d),
      dotted |-> e] :
        a \in Lists({s, t, x}), b \in {<<>>, <<m>>, <<t>>, <<x>>, <<t, x>>, <<x, t>>},
        c \in {<<>>, <<s>>, <<x>>}, d \in ImportsOf(k), e \in Dotted} : k \in Kinds}
=============================================================================
