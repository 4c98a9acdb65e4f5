--------------------------- MODULE ChnImportsProofs --------------------------
(***************************************************************************)
(* Theorems about the imports of ChnImports, for any files and programs,   *)
(* and any limits, and for any list of imported files that is long enough  *)
(* where that matters.                                                     *)
(***************************************************************************)
EXTENDS ChnImports, FiniteSetTheorems, SequenceTheorems, TLAPS

Compilation == [file : File, dots : Nat, done : Nat, table : Seq(File)]

\* A compilation in the middle of another is that of the file the other imports next.
ImportTypes ==
    /\ prog \in Programs /\ loads \in [File -> Nat]
    /\ imported \in Seq(File \X Nat)
    /\ stack \in Seq(Compilation) /\ Len(stack) \in Nat \ {0} /\ stack[1].file = Main
    /\ \A j \in 1..Len(stack) : /\ Kind(stack[j].file) \in {"source", "bundle"}
                                /\ stack[j].done <= Len(prog.imports[stack[j].file])
    /\ \A j \in 1..Len(stack) - 1 : /\ stack[j].done < Len(prog.imports[stack[j].file])
                                    /\ prog.imports[stack[j].file][stack[j].done + 1] = stack[j + 1].file

\* What a source file has imported it knows, unless a limit or another statement is in the way.
KnownBy(s, i) ==
    LET f == prog.imports[s.file][i] IN
    \/ Kind(s.file) = "bundle"
    \/ \E h \in 1..Len(s.table) : s.table[h] = f
    \/ ~HasRoom(s.table)
    \/ Kind(f) # "bundle" /\ ~NamedOnce

Known == \A j \in 1..Len(stack) : \A i \in 1..stack[j].done : KnownBy(stack[j], i)

\* Import k of g has begun, whatever compilation of g is looked at.
Begun(g, k) ==
    /\ g = Main \/ loads[g] > 0
    /\ \A j \in 1..Len(stack) : stack[j].file = g =>
          k <= stack[j].done \/ (k = stack[j].done + 1 /\ j < Len(stack))

\* In a program that names each file once, a file is compiled or read by that statement only.
OncePerStatement ==
    /\ \A f \in File : Kind(f) = "missing" => loads[f] = 0
    /\ \A j \in 2..Len(stack) : Kind(stack[j].file) = "source" => loads[stack[j].file] > 0
    /\ \A i \in 1..Len(imported) : Kind(imported[i][1]) # "bundle" => loads[imported[i][1]] > 0
    /\ NamedOnce =>
          /\ \A i, j \in 1..Len(stack) :
                stack[i].file = stack[j].file /\ Kind(stack[i].file) = "source" => i = j
          /\ \A g \in File : \A k \in 1..Len(prog.imports[g]) :
                LET f == prog.imports[g][k] IN
                Kind(f) # "bundle" /\ loads[f] > 0 => Begun(g, k)

ImportInv == ImportTypes /\ Known /\ (Running => OncePerStatement)

\* Without "./" a file has one path, and the list has two entries of it at most.
Marked == {f \in File : \E i \in 1..Len(imported) : imported[i] = <<f, 0>>}

----------------------------------------------------------------------------
(* Programs and stacks                                                     *)

\* What the assumption says of a program.
LEMMA ProgramFacts ==
    ASSUME ImportTypes
    PROVE  /\ prog.kind \in [File -> Kinds] /\ Kind(Main) = "source"
           /\ prog.imports \in [File -> Seq(File)]
           /\ \A g \in File : /\ Len(prog.imports[g]) \in Nat
                              /\ \A k \in 1..Len(prog.imports[g]) :
                                    /\ prog.imports[g][k] \in File
                                    /\ Kind(g) = "bundle" =>
                                          Kind(prog.imports[g][k]) \in {"bundle", "missing"}
<1>1. /\ prog.kind \in [File -> Kinds] /\ prog.kind[Main] = "source"
      /\ prog.imports \in [File -> Seq(File)]
      /\ \A b \in File : prog.kind[b] = "bundle" =>
            \A k \in DOMAIN prog.imports[b] : prog.kind[prog.imports[b][k]] \in {"bundle", "missing"}
  BY ImportsAssumption, Zenon DEF ImportTypes
<1>2. \A g \in File : prog.imports[g] \in Seq(File)
  BY <1>1
<1>3. \A g \in File : /\ Len(prog.imports[g]) \in Nat /\ DOMAIN prog.imports[g] = 1..Len(prog.imports[g])
                        /\ \A k \in 1..Len(prog.imports[g]) : prog.imports[g][k] \in File
  BY <1>2
<1> QED BY <1>1, <1>3, Zenon DEF Kind

\* In a program that names each file once, a name tells the statement.
LEMMA StatementsDiffer ==
    ASSUME ImportTypes, NamedOnce, NEW g \in File, NEW h \in File,
           NEW k \in 1..Len(prog.imports[g]), NEW l \in 1..Len(prog.imports[h]),
           prog.imports[g][k] = prog.imports[h][l]
    PROVE  g = h /\ k = l /\ prog.imports[g][k] # Main
<1>1. <<g, k>> \in Statements /\ <<h, l>> \in Statements
  BY ProgramFacts DEF Statements
<1>2. Named(<<g, k>>) = prog.imports[g][k] /\ Named(<<h, l>>) = prog.imports[h][l]
  BY DEF Named
<1> QED BY <1>1, <1>2 DEF NamedOnce

\* Import k of g is that of f.
Names(g, k, f) == k \in 1..Len(prog.imports[g]) /\ prog.imports[g][k] = f

\* So a name tells the statement, whatever file is named.
LEMMA OneName ==
    ASSUME ImportTypes
    PROVE  NamedOnce => \A g, h \in File : \A k, l, f : Names(g, k, f) /\ Names(h, l, f) => g = h /\ k = l
<1> SUFFICES ASSUME NamedOnce, NEW g \in File, NEW h \in File, NEW k, NEW l, NEW f,
                    Names(g, k, f), Names(h, l, f)
             PROVE  g = h /\ k = l
  OBVIOUS
<1>1. k \in 1..Len(prog.imports[g]) /\ l \in 1..Len(prog.imports[h]) /\ prog.imports[g][k] = prog.imports[h][l]
  BY DEF Names
<1> QED BY <1>1, StatementsDiffer

\* A program is not changed while it is compiled.
LEMMA ProgramStays ==
    ASSUME UNCHANGED prog
    PROVE  /\ NamedOnce' = NamedOnce
           /\ \A g : Kind(g)' = Kind(g)
<1>1. Statements' = Statements
  BY DEF Statements
<1>2. \A a : Named(a)' = Named(a)
  BY DEF Named
<1>3. NamedOnce' = NamedOnce
  BY <1>1, <1>2 DEF NamedOnce
<1>4. \A g : Kind(g)' = Kind(g)
  BY DEF Kind
<1> QED BY <1>3, <1>4

\* What is known later can be told by the program as it is.
LEMMA KnownLater ==
    ASSUME UNCHANGED prog, NEW l \in Nat, Len(stack') = l,
           \A j \in 1..l : \A i \in 1..stack'[j].done : KnownBy(stack'[j], i)
    PROVE  Known'
<1>1. \A j, i : KnownBy(stack[j], i)' <=> KnownBy(stack'[j], i)
  BY ProgramStays DEF KnownBy, HasRoom
<1> QED BY <1>1 DEF Known

\* The compilation in progress.
LEMMA TopFacts ==
    ASSUME ImportTypes
    PROVE  /\ Len(stack) \in Nat \ {0} /\ C = stack[Len(stack)] /\ C \in Compilation
           /\ \A j \in 1..Len(stack) : stack[j] \in Compilation
BY DEF ImportTypes, C

\* All that is in one table is in the other.
Includes(u, t) == \A i \in 1..Len(t) : \E h \in 1..Len(u) : u[h] = t[i]

\* An import behind a compilation adds to what it knows.
LEMMA AfterFacts ==
    ASSUME NEW s \in Compilation, NEW f \in File
    PROVE  /\ After(s, f) \in Compilation
           /\ After(s, f).file = s.file /\ After(s, f).dots = s.dots /\ After(s, f).done = s.done + 1
           /\ ~HasRoom(After(s, f).table) \/ \E h \in 1..Len(After(s, f).table) : After(s, f).table[h] = f
           /\ ~HasRoom(s.table) => ~HasRoom(After(s, f).table)
           /\ Includes(After(s, f).table, s.table)
<1>1. After(s, f) = [s EXCEPT !.done = s.done + 1, !.table = With(s.table, f)]
  BY DEF After
<1>2. s.done + 1 \in Nat /\ s.table \in Seq(File) /\ s.done \in Nat
  BY DEF Compilation
<1>3. PICK n \in Nat : n = Len(s.table)
  BY <1>2
<1>4. CASE HasRoom(s.table)
  <2> DEFINE t == Append(s.table, f)
  <2>1. With(s.table, f) = t
    BY <1>4 DEF With
  <2>2. t \in Seq(File) /\ Len(t) = n + 1 /\ t[n + 1] = f /\ \A i \in 1..n : t[i] = s.table[i]
    BY <1>2, <1>3
  <2> HIDE DEF t
  <2>3. /\ After(s, f) \in Compilation /\ After(s, f).table = t
        /\ After(s, f).file = s.file /\ After(s, f).dots = s.dots /\ After(s, f).done = s.done + 1
    <3>1. After(s, f) = [s EXCEPT !.done = s.done + 1, !.table = t]
      BY <1>1, <2>1, Zenon
    <3> QED BY <1>2, <2>2, <3>1 DEF Compilation
  <2>4. n + 1 \in 1..Len(t) /\ \A i \in 1..n : i \in 1..Len(t)
    BY <2>2
  <2> QED BY <1>3, <1>4, <2>2, <2>3, <2>4 DEF Includes
<1>5. CASE ~HasRoom(s.table)
  <2>1. With(s.table, f) = s.table
    BY <1>5 DEF With
  <2>2. /\ After(s, f) \in Compilation /\ After(s, f).table = s.table
        /\ After(s, f).file = s.file /\ After(s, f).dots = s.dots /\ After(s, f).done = s.done + 1
    <3>1. After(s, f) = [s EXCEPT !.done = s.done + 1, !.table = s.table]
      BY <1>1, <2>1, Zenon
    <3> QED BY <1>2, <3>1 DEF Compilation
  <2> QED BY <1>5, <2>2 DEF Includes
<1> QED BY <1>4, <1>5

----------------------------------------------------------------------------
(* One import is behind a compilation                                      *)

\* The m-th compilation is the one in progress now, and has the import it was at behind it.
Progress(m) ==
    /\ stack' \in Seq(Compilation) /\ Len(stack') = m
    /\ \A j \in 1..m - 1 : stack'[j] = stack[j]
    /\ stack'[m].file = stack[m].file /\ stack'[m].dots = stack[m].dots
    /\ stack'[m].done = stack[m].done + 1
    /\ ~HasRoom(stack[m].table) => ~HasRoom(stack'[m].table)
    /\ Includes(stack'[m].table, stack[m].table)

Learnt(m, f) == ~HasRoom(stack'[m].table) \/ \E h \in 1..Len(stack'[m].table) : stack'[m].table[h] = f

\* The import the m-th compilation is at.
Pending(m) == prog.imports[stack[m].file][stack[m].done + 1]

\* There is one, and it is known afterwards, where it is to be.
Passes(m) ==
    /\ stack[m].done < Len(prog.imports[stack[m].file])
    /\ \/ Kind(stack[m].file) = "bundle"
       \/ Learnt(m, Pending(m))
       \/ Kind(Pending(m)) # "bundle" /\ ~NamedOnce

\* What was loaded stays so.
Grown ==
    /\ loads' \in [File -> Nat] /\ imported' \in Seq(File \X Nat)
    /\ \A g \in File : loads[g] > 0 => loads'[g] > 0

\* No file but the one imported is loaded.
LoadsPending(m) ==
    \A g \in File : Kind(g) # "bundle" /\ loads'[g] > 0 =>
        loads[g] > 0 \/ (g = Pending(m) /\ Kind(g) # "missing" /\ Kind(stack[m].file) = "source")

\* What is in the list of imported files has been loaded.
ListedIsLoaded ==
    \A i \in 1..Len(imported') : Kind(imported'[i][1]) # "bundle" => loads'[imported'[i][1]] > 0

\* The file is skipped.
LEMMA SkipFacts ==
    ASSUME ImportTypes, Skip
    PROVE  Progress(Len(stack))
<1> PICK n \in Nat \ {0} : n = Len(stack)
  BY TopFacts
<1>1. stack[n] \in Compilation /\ stack \in Seq(Compilation)
  BY TopFacts DEF ImportTypes
<1> DEFINE d == [stack[n] EXCEPT !.done = stack[n].done + 1]
<1>2. stack[n].done + 1 \in Nat /\ stack[n].table \in Seq(File)
  BY <1>1 DEF Compilation
<1>3. /\ d \in Compilation /\ d.file = stack[n].file /\ d.dots = stack[n].dots
      /\ d.done = stack[n].done + 1 /\ d.table = stack[n].table
  BY <1>1, <1>2 DEF Compilation
<1>4. stack' = [stack EXCEPT ![n] = d]
  BY DEF Skip
<1> HIDE DEF d
<1>5. stack' \in Seq(Compilation) /\ Len(stack') = n /\ stack'[n] = d /\ \A j \in 1..n - 1 : stack'[j] = stack[j]
  BY <1>1, <1>3, <1>4
<1> QED BY <1>3, <1>5 DEF Progress, Includes

\* Functions or a bundle are read.
LEMMA LearnFacts ==
    ASSUME ImportTypes, NEW f \in File, Learn(f)
    PROVE  Progress(Len(stack)) /\ Learnt(Len(stack), f)
<1> PICK n \in Nat \ {0} : n = Len(stack)
  BY TopFacts
<1>1. stack[n] \in Compilation /\ stack \in Seq(Compilation)
  BY TopFacts DEF ImportTypes
<1> DEFINE d == After(stack[n], f)
<1>2. stack' = [stack EXCEPT ![n] = d]
  BY DEF Learn
<1>3. /\ d \in Compilation /\ d.file = stack[n].file /\ d.dots = stack[n].dots
      /\ d.done = stack[n].done + 1
      /\ ~HasRoom(d.table) \/ \E h \in 1..Len(d.table) : d.table[h] = f
      /\ ~HasRoom(stack[n].table) => ~HasRoom(d.table)
      /\ Includes(d.table, stack[n].table)
  BY <1>1, AfterFacts
<1>4. stack' \in Seq(Compilation) /\ Len(stack') = n /\ stack'[n] = d /\ \A j \in 1..n - 1 : stack'[j] = stack[j]
  <2> HIDE DEF d
  <2> QED BY <1>1, <1>2, <1>3
<1> HIDE DEF d
<1> QED BY <1>3, <1>4 DEF Progress, Learnt

\* A compilation returns to the one that imported it.
LEMMA ResumeFacts ==
    ASSUME ImportTypes, Len(stack) > 1, NEW f \in File, Resume(f)
    PROVE  Progress(Len(stack) - 1) /\ Learnt(Len(stack) - 1, f)
<1> PICK n \in Nat : n = Len(stack)
  BY TopFacts
<1> PICK m \in Nat \ {0} : m = n - 1
  OBVIOUS
<1>1. stack[m] \in Compilation /\ stack \in Seq(Compilation)
  BY TopFacts DEF ImportTypes
<1> PICK s \in Compilation : s = stack[m]
  BY <1>1
<1> DEFINE d == After(s, f)
<1>2. /\ d \in Compilation /\ d.file = s.file /\ d.dots = s.dots /\ d.done = s.done + 1
      /\ ~HasRoom(d.table) \/ \E h \in 1..Len(d.table) : d.table[h] = f
      /\ ~HasRoom(s.table) => ~HasRoom(d.table)
      /\ Includes(d.table, s.table)
  BY AfterFacts
<1> DEFINE r == SubSeq(stack, 1, m)
<1>3. r \in Seq(Compilation) /\ Len(r) = m /\ \A j \in 1..m : r[j] = stack[j]
  BY <1>1
<1>4. stack' = [r EXCEPT ![m] = d]
  <2>1. stack' = [r EXCEPT ![m] = After(r[m], f)]
    BY DEF Resume
  <2>2. r[m] = s
    BY <1>3
  <2> QED BY <2>1, <2>2, Zenon
<1>5. stack' \in Seq(Compilation) /\ Len(stack') = m /\ stack'[m] = d /\ \A j \in 1..m - 1 : stack'[j] = r[j]
  <2> HIDE DEF d, r
  <2> QED BY <1>2, <1>3, <1>4
<1>6. \A j \in 1..m - 1 : stack'[j] = stack[j]
  BY <1>3, <1>5
<1>7. n - 1 = m
  OBVIOUS
<1> HIDE DEF r, d
<1> QED BY <1>2, <1>5, <1>6, <1>7 DEF Progress, Learnt

\* What was known and what had begun is so still.
LEMMA ProgressKeeps ==
    ASSUME ImportTypes, Known, NEW m \in 1..Len(stack), Progress(m), Passes(m), Grown, UNCHANGED prog
    PROVE  /\ ImportTypes' /\ Known'
           /\ \A g \in File, k \in Nat : Begun(g, k) => Begun(g, k)'
           /\ \A j \in 1..m : stack'[j].file = stack[j].file
<1> DEFINE n == Len(stack)
<1>1. n \in Nat \ {0} /\ m \in Nat \ {0} /\ m <= n /\ \A j \in 1..n : stack[j] \in Compilation
  BY TopFacts
<1>2. \A j \in 1..m : stack'[j].file = stack[j].file
  <2>1. \A j \in 1..m : j \in 1..m - 1 \/ j = m
    BY <1>1
  <2> QED BY <2>1 DEF Progress
<1>3. \A f : Kind(f)' = Kind(f)
  BY ProgramStays
<1>4. NamedOnce' = NamedOnce
  BY ProgramStays
<1>5. \A j \in 1..n : /\ stack[j].file \in File /\ stack[j].done \in Nat
                      /\ Len(prog.imports[stack[j].file]) \in Nat
  <2>1. \A j \in 1..n : stack[j].file \in File /\ stack[j].done \in Nat
    BY <1>1 DEF Compilation
  <2> QED BY <2>1, ProgramFacts
<1>6. ImportTypes'
  <2>1. \A j \in 1..m : /\ Kind(stack'[j].file) \in {"source", "bundle"}
                        /\ stack'[j].done <= Len(prog.imports[stack'[j].file])
    <3> SUFFICES ASSUME NEW j \in 1..m
                 PROVE  /\ Kind(stack'[j].file) \in {"source", "bundle"}
                        /\ stack'[j].done <= Len(prog.imports[stack'[j].file])
      OBVIOUS
    <3>1. j \in 1..n /\ stack'[j].file = stack[j].file /\ Kind(stack[j].file) \in {"source", "bundle"}
          /\ stack[j].done <= Len(prog.imports[stack[j].file])
      BY <1>1, <1>2 DEF ImportTypes
    <3>2. CASE j < m
      BY <1>1, <3>1, <3>2 DEF Progress
    <3>3. CASE j = m
      <4>1. stack'[m].done = stack[m].done + 1 /\ stack[m].done < Len(prog.imports[stack[m].file])
        BY DEF Progress, Passes
      <4> QED BY <1>5, <3>1, <3>3, <4>1
    <3> QED BY <1>1, <3>2, <3>3
  <2>2. \A j \in 1..m - 1 : /\ j + 1 \in 1..m /\ j \in 1..n - 1 /\ stack'[j] = stack[j]
                            /\ stack'[j + 1].file = stack[j + 1].file
    BY <1>1, <1>2 DEF Progress
  <2>3. \A j \in 1..m - 1 : /\ stack'[j].done < Len(prog.imports[stack'[j].file])
                            /\ prog.imports[stack'[j].file][stack'[j].done + 1] = stack'[j + 1].file
    BY <2>2 DEF ImportTypes
  <2>4. stack'[1].file = Main
    <3>1. 1 \in 1..m /\ stack[1].file = Main
      BY <1>1 DEF ImportTypes
    <3> QED BY <1>2, <3>1
  <2>5. stack' \in Seq(Compilation) /\ Len(stack') = m
    BY DEF Progress
  <2>6. prog' \in Programs /\ loads' \in [File -> Nat] /\ imported' \in Seq(File \X Nat)
    BY DEF ImportTypes, Grown
  <2> QED BY <1>1, <1>3, <2>1, <2>3, <2>4, <2>5, <2>6 DEF ImportTypes
<1>7. Known'
  <2> SUFFICES ASSUME NEW j \in 1..m, NEW i \in 1..stack'[j].done PROVE KnownBy(stack'[j], i)
    <3>1. Len(stack') = m /\ m \in Nat
      BY <1>1 DEF Progress
    <3> QED BY <3>1, KnownLater
  <2>1. CASE j < m
    <3>1. j \in 1..n /\ stack'[j] = stack[j]
      <4>1. j \in 1..m - 1 /\ j \in 1..n
        BY <1>1, <2>1
      <4> QED BY <4>1 DEF Progress
    <3> QED BY <3>1 DEF Known
  <2>2. CASE j = m /\ i <= stack[m].done
    <3>1. m \in 1..n /\ i \in 1..stack[m].done /\ stack'[m].file = stack[m].file
      BY <1>1, <1>2, <1>5, <2>2
    <3> DEFINE f == prog.imports[stack[m].file][i]
               s == stack'[m]
    <3>2. \/ Kind(stack[m].file) = "bundle"
          \/ \E h \in 1..Len(stack[m].table) : stack[m].table[h] = f
          \/ ~HasRoom(stack[m].table)
          \/ Kind(f) # "bundle" /\ ~NamedOnce
      BY <3>1 DEF Known, KnownBy
    <3> HIDE DEF f
    <3>3. (\E h \in 1..Len(stack[m].table) : stack[m].table[h] = f) =>
             \E h \in 1..Len(s.table) : s.table[h] = f
      <4>1. Includes(stack'[m].table, stack[m].table)
        BY DEF Progress
      <4> QED BY <4>1, Zenon DEF Includes
    <3>4. ~HasRoom(stack[m].table) => ~HasRoom(s.table)
      BY DEF Progress
    <3>5. f = prog.imports[s.file][i] /\ Kind(s.file) = Kind(stack[m].file)
      BY <3>1 DEF f
    <3>6. KnownBy(s, i)
      <4> HIDE DEF s
      <4> QED BY <3>2, <3>3, <3>4, <3>5 DEF KnownBy
    <3> QED BY <2>2, <3>6
  <2>3. CASE j = m /\ i = stack[m].done + 1
    <3> DEFINE s == stack'[m]
    <3>1. prog.imports[s.file][i] = Pending(m) /\ Kind(s.file) = Kind(stack[m].file)
      BY <2>3 DEF Progress, Pending
    <3>2. \/ Kind(s.file) = "bundle"
          \/ ~HasRoom(s.table)
          \/ \E h \in 1..Len(s.table) : s.table[h] = Pending(m)
          \/ Kind(Pending(m)) # "bundle" /\ ~NamedOnce
      BY <3>1 DEF Passes, Learnt
    <3>3. KnownBy(s, i)
      <4> HIDE DEF s
      <4> QED BY <3>1, <3>2 DEF KnownBy
    <3> QED BY <2>3, <3>3
  <2>4. i <= stack[m].done \/ i = stack[m].done + 1 \/ j # m
    BY <1>5 DEF Progress
  <2> QED BY <1>1, <2>1, <2>2, <2>3, <2>4
<1>8. ASSUME NEW g \in File, NEW k \in Nat, Begun(g, k) PROVE Begun(g, k)'
  <2>1. g = Main \/ loads'[g] > 0
    BY <1>8 DEF Begun, Grown
  <2>2. ASSUME NEW j \in 1..m, stack'[j].file = g
        PROVE  k <= stack'[j].done \/ (k = stack'[j].done + 1 /\ j < m)
    <3>1. stack[j].file = g /\ (k <= stack[j].done \/ k = stack[j].done + 1) /\ stack[j].done \in Nat
      BY <1>1, <1>2, <1>8, <2>2 DEF Begun, Compilation
    <3>2. CASE j < m
      BY <1>1, <3>1, <3>2 DEF Progress
    <3>3. CASE j = m
      BY <1>1, <3>1, <3>3 DEF Progress
    <3> QED BY <1>1, <3>2, <3>3
  <2> QED BY <2>1, <2>2 DEF Begun, Progress
<1> QED BY <1>2, <1>6, <1>7, <1>8

\* It is this statement, and no other, that is behind the compilation now.
LEMMA ProgressKeepsOnce ==
    ASSUME ImportTypes, Known, OncePerStatement, NEW m \in 1..Len(stack), Progress(m), Passes(m),
           Grown, LoadsPending(m), ListedIsLoaded, UNCHANGED prog
    PROVE  ImportTypes' /\ Known' /\ OncePerStatement'
<1> DEFINE n == Len(stack)
           c == stack[m]
           f == Pending(m)
<1>1. /\ n \in Nat \ {0} /\ m \in Nat \ {0} /\ m <= n /\ c.file \in File /\ c.done \in Nat
      /\ c.done + 1 \in 1..Len(prog.imports[c.file]) /\ Len(stack') = m
  <2>1. n \in Nat \ {0} /\ m \in Nat \ {0} /\ m <= n /\ c \in Compilation /\ Len(stack') = m
    BY TopFacts DEF Progress
  <2>2. c.file \in File /\ c.done \in Nat
    BY <2>1 DEF Compilation
  <2>3. Len(prog.imports[c.file]) \in Nat /\ c.done < Len(prog.imports[c.file])
    BY <2>2, ProgramFacts DEF Passes
  <2> QED BY <2>1, <2>2, <2>3
<1>2. /\ ImportTypes' /\ Known'
      /\ \A g \in File, k \in Nat : Begun(g, k) => Begun(g, k)'
      /\ \A j \in 1..m : stack'[j].file = stack[j].file
  BY ProgressKeeps
<1>3. NamedOnce' = NamedOnce /\ \A g : Kind(g)' = Kind(g)
  BY ProgramStays
<1>4. \A j \in 1..m : j \in 1..n /\ stack'[j].file = stack[j].file /\ stack[j].file \in File
  <2>1. \A j \in 1..n : stack[j].file \in File
    BY TopFacts DEF Compilation
  <2> QED BY <1>1, <1>2, <2>1
<1>5. \A j \in 2..m : Kind(stack'[j].file) = "source" => loads'[stack'[j].file] > 0
  <2>1. \A j \in 2..m : j \in 1..m /\ j \in 2..n
    BY <1>1
  <2>2. \A j \in 2..n : Kind(stack[j].file) = "source" => loads[stack[j].file] > 0
    BY DEF OncePerStatement
  <2>3. \A g \in File : loads[g] > 0 => loads'[g] > 0
    BY DEF Grown
  <2> QED BY <1>4, <2>1, <2>2, <2>3
<1>6. ASSUME NamedOnce, NEW i \in 1..m, NEW j \in 1..m, stack'[i].file = stack'[j].file,
             Kind(stack'[i].file) = "source"
      PROVE  i = j
  <2>1. i \in 1..n /\ j \in 1..n /\ stack[i].file = stack[j].file /\ Kind(stack[i].file) = "source"
    BY <1>4, <1>6
  <2> QED BY <1>6, <2>1 DEF OncePerStatement
<1>7. ASSUME NamedOnce, NEW g \in File, NEW k \in 1..Len(prog.imports[g]),
             Kind(prog.imports[g][k]) # "bundle", loads'[prog.imports[g][k]] > 0
      PROVE  Begun(g, k)'
  <2>1. prog.imports[g][k] \in File /\ k \in Nat
    <3>1. Len(prog.imports[g]) \in Nat /\ prog.imports[g][k] \in File
      BY ProgramFacts
    <3> QED BY <3>1
  <2>2. CASE loads[prog.imports[g][k]] > 0
    <3>1. Begun(g, k)
      BY <1>7, <2>2 DEF OncePerStatement
    <3> QED BY <1>2, <2>1, <3>1
  <2>3. CASE prog.imports[g][k] = f /\ Kind(c.file) = "source"
    <3>1. g = c.file /\ k = c.done + 1
      <4>1. Names(g, k, f) /\ Names(c.file, c.done + 1, f)
        BY <1>1, <1>7, <2>3 DEF Names, Pending
      <4> HIDE DEF c, f
      <4>2. NamedOnce /\ c.file \in File
        BY <1>1, <1>7
      <4> QED BY <4>1, <4>2, OneName
    <3>2. c.file = Main \/ loads'[c.file] > 0
      <4>1. CASE m = 1
        BY <4>1 DEF ImportTypes
      <4>2. CASE m # 1
        <5>1. m \in 2..m /\ stack'[m].file = c.file
          BY <1>1, <1>4, <4>2
        <5> QED BY <1>5, <2>3, <5>1
      <4> QED BY <4>1, <4>2
    <3>3. ASSUME NEW j \in 1..m, stack'[j].file = c.file PROVE k <= stack'[j].done
      <4>1. m \in 1..m /\ stack'[m].file = c.file
        BY <1>1, <1>4
      <4>2. j = m
        BY <1>6, <1>7, <2>3, <3>3, <4>1
      <4>3. stack'[m].done = c.done + 1
        BY DEF Progress
      <4> QED BY <1>1, <3>1, <4>2, <4>3
    <3> QED BY <1>1, <3>1, <3>2, <3>3 DEF Begun
  <2>4. loads[prog.imports[g][k]] > 0 \/ (prog.imports[g][k] = f /\ Kind(c.file) = "source")
    BY <1>7, <2>1 DEF LoadsPending
  <2> QED BY <2>2, <2>3, <2>4
<1>8. \A g \in File : Kind(g) = "missing" => loads'[g] = 0
  <2> SUFFICES ASSUME NEW g \in File, Kind(g) = "missing" PROVE loads'[g] = 0
    OBVIOUS
  <2>1. loads[g] = 0 /\ loads'[g] \in Nat
    BY DEF OncePerStatement, Grown
  <2>2. ~(loads'[g] > 0)
    BY <2>1 DEF LoadsPending
  <2> QED BY <2>1, <2>2
<1>9. \A i \in 1..Len(imported') : Kind(imported'[i][1]) # "bundle" => loads'[imported'[i][1]] > 0
  BY DEF ListedIsLoaded
<1> HIDE DEF c, f
<1> QED BY <1>1, <1>2, <1>3, <1>5, <1>6, <1>7, <1>8, <1>9 DEF OncePerStatement

----------------------------------------------------------------------------
(* A compilation begins                                                    *)

\* The statement that comes next.
LEMMA NextStatement ==
    ASSUME ImportTypes, NEW f \in File, Imports(f)
    PROVE  /\ C.file \in File /\ C.done \in Nat /\ C.done < Len(prog.imports[C.file])
           /\ C.done + 1 \in 1..Len(prog.imports[C.file]) /\ prog.imports[C.file][C.done + 1] = f
           /\ C.dots \in Nat /\ C.table \in Seq(File) /\ Running
<1>1. C.file \in File /\ C.done \in Nat /\ C.dots \in Nat /\ C.table \in Seq(File)
  BY TopFacts DEF Compilation
<1>2. Len(prog.imports[C.file]) \in Nat
  BY <1>1, ProgramFacts
<1>3. C.done <= Len(prog.imports[C.file])
  <2>1. Len(stack) \in 1..Len(stack) /\ C = stack[Len(stack)]
    BY TopFacts
  <2> QED BY <2>1 DEF ImportTypes
<1> QED BY <1>1, <1>2, <1>3 DEF Imports, AtEnd

\* In a program that names each file once, the file that is named next was not loaded.
LEMMA NextIsNew ==
    ASSUME ImportTypes, OncePerStatement, NamedOnce, NEW f \in File, Imports(f), Kind(f) # "bundle"
    PROVE  ~(loads[f] > 0) /\ f # Main
<1>1. /\ C.file \in File /\ C.done \in Nat /\ C.done + 1 \in 1..Len(prog.imports[C.file])
      /\ prog.imports[C.file][C.done + 1] = f
  BY NextStatement
<1>2. ~Begun(C.file, C.done + 1)
  BY <1>1, TopFacts DEF Begun
<1>3. f # Main
  BY <1>1, StatementsDiffer
<1> QED BY <1>1, <1>2, <1>3 DEF OncePerStatement

\* Compilation c of file f begins.
Pushes(f, c) == c.file = f /\ c.done = 0 /\ stack' = Append(stack, c)

\* If a file is loaded it is f, and a source file is.
LoadsAtMost(f) ==
    /\ \A g \in File : loads'[g] > 0 => loads[g] > 0 \/ g = f
    /\ Kind(f) = "source" => loads'[f] > 0

\* The file's own compilation begins, in the middle of that of its importer.
LEMMA PushKeeps ==
    ASSUME ImportTypes, Known, OncePerStatement, NEW f \in File, Imports(f), Kind(f) \in {"source", "bundle"},
           NEW c \in Compilation, Pushes(f, c), UNCHANGED prog, Grown, LoadsAtMost(f), ListedIsLoaded
    PROVE  ImportTypes' /\ Known' /\ OncePerStatement'
<1> PICK n \in Nat \ {0} : n = Len(stack)
  BY TopFacts
<1>1. /\ stack' \in Seq(Compilation) /\ Len(stack') = n + 1 /\ stack'[n + 1] = c
      /\ \A j \in 1..n : stack'[j] = stack[j]
  BY DEF ImportTypes, Pushes
<1>0. c.file = f /\ c.done = 0
  BY DEF Pushes
<1>2. \A j \in 1..n + 1 : j \in 1..n \/ j = n + 1
  OBVIOUS
<1>3. NamedOnce' = NamedOnce
  BY ProgramStays
<1>4. \A g : Kind(g)' = Kind(g)
  BY ProgramStays
<1>5. /\ C.file \in File /\ C.done \in Nat /\ C.done < Len(prog.imports[C.file]) /\ C = stack[n]
      /\ C.done + 1 \in 1..Len(prog.imports[C.file]) /\ prog.imports[C.file][C.done + 1] = f
  BY NextStatement, TopFacts
<1>6. \A j \in 1..n : stack[j].file \in File /\ stack[j].done \in Nat
  BY TopFacts DEF Compilation
<1>7. ImportTypes'
  <2>1. \A j \in 1..n + 1 : /\ Kind(stack'[j].file) \in {"source", "bundle"}
                            /\ stack'[j].done <= Len(prog.imports[stack'[j].file])
    <3> SUFFICES ASSUME NEW j \in 1..n + 1
                 PROVE  /\ Kind(stack'[j].file) \in {"source", "bundle"}
                        /\ stack'[j].done <= Len(prog.imports[stack'[j].file])
      OBVIOUS
    <3>1. CASE j = n + 1
      <4>1. 0 <= Len(prog.imports[f]) /\ stack'[j].file = f /\ stack'[j].done = 0
        BY <1>0, <1>1, <3>1, ProgramFacts
      <4> QED BY <4>1
    <3>2. CASE j \in 1..n
      <4>1. stack'[j] = stack[j]
        BY <1>1, <3>2
      <4> QED BY <3>2, <4>1 DEF ImportTypes
    <3> QED BY <1>2, <3>1, <3>2
  <2>2. \A j \in 1..n : /\ stack'[j].done < Len(prog.imports[stack'[j].file])
                        /\ prog.imports[stack'[j].file][stack'[j].done + 1] = stack'[j + 1].file
    <3> SUFFICES ASSUME NEW j \in 1..n
                 PROVE  /\ stack'[j].done < Len(prog.imports[stack'[j].file])
                        /\ prog.imports[stack'[j].file][stack'[j].done + 1] = stack'[j + 1].file
      OBVIOUS
    <3>1. CASE j = n
      <4>1. stack'[j] = C /\ stack'[j + 1].file = f
        BY <1>0, <1>1, <1>5, <3>1
      <4> QED BY <1>5, <4>1
    <3>2. CASE j < n
      <4>1. j \in 1..Len(stack) - 1 /\ stack'[j] = stack[j] /\ stack'[j + 1] = stack[j + 1]
        BY <1>1, <3>2
      <4> QED BY <4>1 DEF ImportTypes
    <3> QED BY <3>1, <3>2
  <2>3. stack'[1].file = Main /\ n + 1 - 1 = n
    BY <1>1 DEF ImportTypes
  <2>4. Len(stack') \in Nat \ {0} /\ Len(stack') - 1 = n
    BY <1>1
  <2>5. prog' \in Programs /\ loads' \in [File -> Nat] /\ imported' \in Seq(File \X Nat)
    BY DEF ImportTypes, Grown
  <2> QED BY <1>1, <1>4, <2>1, <2>2, <2>3, <2>4, <2>5 DEF ImportTypes
<1>8. Known'
  <2> PICK l \in Nat : l = n + 1
    OBVIOUS
  <2>1. Len(stack') = l
    BY <1>1
  <2>2. ASSUME NEW j \in 1..l, NEW i \in 1..stack'[j].done PROVE KnownBy(stack'[j], i)
    <3>1. CASE j = l
      <4>1. stack'[j].done = 0
        BY <1>0, <1>1, <3>1
      <4> QED BY <4>1
    <3>2. CASE j \in 1..n
      <4>1. stack'[j] = stack[j] /\ j \in 1..Len(stack)
        BY <1>1, <3>2
      <4> QED BY <4>1 DEF Known
    <3>3. j = l \/ j \in 1..n
      OBVIOUS
    <3> QED BY <3>1, <3>2, <3>3
  <2> QED BY <2>1, <2>2, KnownLater
<1>9. \A g \in File : Kind(g) = "missing" => loads'[g] = 0
  <2>1. ASSUME NEW g \in File, Kind(g) = "missing" PROVE loads'[g] = 0
    <3>1. g # f /\ loads[g] = 0 /\ loads'[g] \in Nat
      BY <2>1 DEF OncePerStatement, Grown
    <3>2. ~(loads'[g] > 0)
      BY <3>1 DEF LoadsAtMost
    <3> QED BY <3>1, <3>2
  <2> QED BY <2>1
<1>10. \A j \in 2..n + 1 : Kind(stack'[j].file) = "source" => loads'[stack'[j].file] > 0
  <2> SUFFICES ASSUME NEW j \in 2..n + 1, Kind(stack'[j].file) = "source"
               PROVE  loads'[stack'[j].file] > 0
    OBVIOUS
  <2>1. j = n + 1 \/ (j \in 1..n /\ j \in 2..n)
    OBVIOUS
  <2>2. CASE j = n + 1
    <3>1. stack'[j].file = f
      BY <1>0, <1>1, <2>2
    <3> QED BY <3>1 DEF LoadsAtMost
  <2>3. CASE j \in 1..n /\ j \in 2..n
    <3>1. stack'[j].file = stack[j].file /\ stack[j].file \in File
      BY <1>1, <1>6, <2>3
    <3>2. loads[stack[j].file] > 0
      BY <2>3, <3>1 DEF OncePerStatement
    <3> QED BY <3>1, <3>2 DEF Grown
  <2> QED BY <2>1, <2>2, <2>3
<1>11. ASSUME NamedOnce, Kind(f) = "source", NEW j \in 1..n PROVE stack[j].file # f
  <2>1. ~(loads[f] > 0) /\ f # Main
    BY <1>11, NextIsNew
  <2>2. j = 1 \/ j \in 2..n
    OBVIOUS
  <2> QED BY <1>11, <2>1, <2>2 DEF OncePerStatement, ImportTypes
<1>12. ASSUME NamedOnce, NEW i \in 1..n + 1, NEW j \in 1..n + 1, stack'[i].file = stack'[j].file,
              Kind(stack'[i].file) = "source"
       PROVE  i = j
  <2>1. ASSUME NEW x \in 1..n + 1, NEW y \in 1..n, stack'[x].file = stack'[y].file,
               Kind(stack'[x].file) = "source"
        PROVE  x = y
    <3>1. stack'[y] = stack[y]
      BY <1>1
    <3>2. CASE x = n + 1
      <4>1. stack'[x].file = f
        BY <1>0, <1>1, <3>2
      <4> QED BY <1>11, <1>12, <2>1, <3>1, <4>1
    <3>3. CASE x \in 1..n
      <4>1. stack'[x] = stack[x] /\ x \in 1..Len(stack) /\ y \in 1..Len(stack)
        BY <1>1, <3>3
      <4> QED BY <1>12, <2>1, <3>1, <4>1 DEF OncePerStatement
    <3> QED BY <1>2, <3>2, <3>3
  <2>2. CASE j \in 1..n
    BY <1>12, <2>1, <2>2
  <2>3. CASE i \in 1..n
    BY <1>12, <2>1, <2>3
  <2> QED BY <1>2, <2>2, <2>3
<1>13. ASSUME NamedOnce, NEW g \in File, NEW k \in 1..Len(prog.imports[g]),
              Kind(prog.imports[g][k]) # "bundle", loads'[prog.imports[g][k]] > 0
       PROVE  Begun(g, k)'
  <2>1. prog.imports[g][k] \in File /\ k \in Nat /\ Kind(g) # "bundle"
    <3>1. Len(prog.imports[g]) \in Nat /\ prog.imports[g][k] \in File
      BY ProgramFacts
    <3>2. Kind(prog.imports[g][k]) # "missing"
      BY <1>9, <1>13, <3>1
    <3>3. Kind(g) = "bundle" => Kind(prog.imports[g][k]) \in {"bundle", "missing"}
      BY ProgramFacts
    <3> QED BY <1>13, <3>1, <3>2, <3>3
  <2>2. CASE loads[prog.imports[g][k]] > 0
    <3>1. Begun(g, k)
      BY <1>13, <2>1, <2>2 DEF OncePerStatement
    <3>2. g = Main \/ loads'[g] > 0
      BY <3>1 DEF Begun, Grown
    <3>3. g # f
      <4>1. CASE Kind(f) = "source"
        BY <1>13, <3>1, <4>1, NextIsNew DEF Begun
      <4> QED BY <2>1, <4>1
    <3>4. ASSUME NEW j \in 1..n + 1, stack'[j].file = g
          PROVE  k <= stack'[j].done \/ (k = stack'[j].done + 1 /\ j < n + 1)
      <4>1. j \in 1..n /\ j < n + 1 /\ stack'[j] = stack[j]
        <5>1. j # n + 1
          BY <1>0, <1>1, <3>3, <3>4
        <5>2. j \in 1..n /\ j < n + 1
          BY <5>1
        <5> QED BY <1>1, <5>2
      <4>2. j \in 1..Len(stack) /\ stack[j].file = g
        BY <3>4, <4>1
      <4>3. k <= stack[j].done \/ k = stack[j].done + 1
        BY <3>1, <4>2 DEF Begun
      <4> QED BY <4>1, <4>3
    <3> QED BY <1>1, <3>2, <3>4 DEF Begun
  <2>3. CASE prog.imports[g][k] = f
    <3>1. g = C.file /\ k = C.done + 1
      <4>1. Names(g, k, f) /\ Names(C.file, C.done + 1, f)
        BY <1>5, <2>3 DEF Names
      <4>2. NamedOnce /\ C.file \in File
        BY <1>5, <1>13
      <4> QED BY <4>1, <4>2, OneName
    <3>2. Kind(f) = "source" /\ Kind(C.file) = "source"
      BY <1>5, <1>13, <2>1, <2>3, <3>1, TopFacts DEF ImportTypes
    <3>3. g = Main \/ loads'[g] > 0
      <4>1. n = 1 \/ n \in 2..n + 1
        OBVIOUS
      <4>2. CASE n = 1
        BY <1>5, <3>1, <4>2 DEF ImportTypes
      <4>3. CASE n \in 2..n + 1
        <5>1. stack'[n].file = g /\ Kind(stack'[n].file) = "source"
          BY <1>1, <1>5, <3>1, <3>2
        <5> QED BY <1>10, <4>3, <5>1
      <4> QED BY <4>1, <4>2, <4>3
    <3>4. ASSUME NEW j \in 1..n + 1, stack'[j].file = g PROVE k = stack'[j].done + 1 /\ j < n + 1
      <4>1. n \in 1..n + 1 /\ stack'[n] = C
        BY <1>1, <1>5
      <4>2. stack'[j].file = stack'[n].file /\ Kind(stack'[j].file) = "source"
        BY <3>1, <3>2, <3>4, <4>1
      <4>3. j = n
        BY <1>12, <1>13, <4>1, <4>2
      <4> QED BY <3>1, <4>1, <4>3
    <3>5. Len(stack') = n + 1
      BY <1>1
    <3> QED BY <3>3, <3>4, <3>5 DEF Begun
  <2>4. loads[prog.imports[g][k]] > 0 \/ prog.imports[g][k] = f
    BY <1>13, <2>1 DEF LoadsAtMost
  <2> QED BY <2>2, <2>3, <2>4
<1>14. Len(stack') = n + 1
  BY <1>1
<1>15. \A i \in 1..Len(imported') : Kind(imported'[i][1]) # "bundle" => loads'[imported'[i][1]] > 0
  BY DEF ListedIsLoaded
<1> QED BY <1>3, <1>4, <1>7, <1>8, <1>9, <1>10, <1>12, <1>13, <1>14, <1>15 DEF OncePerStatement

----------------------------------------------------------------------------
(* Marks                                                                   *)

\* A path is added to the list of imported files, as long as there is room.
LEMMA MarkFacts ==
    ASSUME ImportTypes, NEW p \in File \X Nat, mark_imported(p)
    PROVE  /\ imported' \in Seq(File \X Nat)
           /\ \A i \in 1..Len(imported') :
                 imported'[i] = p \/ \E h \in 1..Len(imported) : imported'[i] = imported[h]
           /\ Len(imported) + 2 <= MaxImported =>
                 /\ Len(imported') <= Len(imported) + 2
                 /\ \E i \in 1..Len(imported') : imported'[i] = p
                 /\ \A h \in 1..Len(imported) : \E i \in 1..Len(imported') : imported'[i] = imported[h]
<1> DEFINE t == IF Kind(p[1]) = "bundle" THEN <<p>> ELSE <<p, p>>
           marks == imported \o t
<1>1. PICK n \in Nat : n = Len(imported)
  BY DEF ImportTypes
<1>2. PICK k \in 1..2 : t \in Seq(File \X Nat) /\ Len(t) = k /\ \A i \in 1..k : t[i] = p
  <2>1. CASE Kind(p[1]) = "bundle"
    <3>1. <<p>> \in Seq(File \X Nat) /\ Len(<<p>>) = 1 /\ \A i \in 1..1 : <<p>>[i] = p
      OBVIOUS
    <3> QED BY <2>1, <3>1
  <2>2. CASE Kind(p[1]) # "bundle"
    <3>1. <<p, p>> \in Seq(File \X Nat) /\ Len(<<p, p>>) = 2 /\ \A i \in 1..2 : <<p, p>>[i] = p
      OBVIOUS
    <3> QED BY <2>2, <3>1
  <2> QED BY <2>1, <2>2
<1> HIDE DEF t
<1>3. /\ marks \in Seq(File \X Nat) /\ Len(marks) = n + k
      /\ \A i \in 1..n + k : marks[i] = IF i <= n THEN imported[i] ELSE t[i - n]
  BY <1>1, <1>2, ConcatProperties DEF ImportTypes
<1>4. \A i \in 1..n + k : marks[i] = p \/ \E h \in 1..n : marks[i] = imported[h]
  <2> HIDE DEF marks
  <2> SUFFICES ASSUME NEW i \in 1..n + k PROVE marks[i] = p \/ \E h \in 1..n : marks[i] = imported[h]
    OBVIOUS
  <2>1. CASE i <= n
    BY <1>3, <2>1
  <2>2. CASE i > n
    <3>1. i - n \in 1..k
      BY <2>2
    <3>2. marks[i] = t[i - n]
      BY <1>3, <2>2
    <3>3. t[i - n] = p
      BY <1>2, <3>1
    <3> QED BY <3>2, <3>3
  <2> QED BY <2>1, <2>2
<1>5. imported' = SubSeq(marks, 1, IF Len(marks) <= MaxImported THEN Len(marks) ELSE MaxImported)
  BY DEF mark_imported, t
<1> HIDE DEF marks
<1>6. PICK l \in Nat : /\ l <= n + k /\ imported' = SubSeq(marks, 1, l)
                       /\ n + k <= MaxImported => l = n + k
  <2>1. MaxImported \in Nat
    BY ImportsAssumption
  <2>2. CASE n + k <= MaxImported
    <3>1. n + k \in Nat /\ imported' = SubSeq(marks, 1, n + k)
      BY <1>3, <1>5, <2>2
    <3> QED BY <3>1
  <2>3. CASE ~(n + k <= MaxImported)
    <3>1. MaxImported <= n + k /\ imported' = SubSeq(marks, 1, MaxImported)
      BY <1>3, <1>5, <2>1, <2>3
    <3> QED BY <2>1, <2>3, <3>1
  <2> QED BY <2>2, <2>3
<1>7. imported' \in Seq(File \X Nat) /\ Len(imported') = l /\ \A i \in 1..l : imported'[i] = marks[i]
  BY <1>3, <1>6
<1>8. \A i \in 1..l : imported'[i] = p \/ \E h \in 1..n : imported'[i] = imported[h]
  BY <1>4, <1>6, <1>7
<1>9. ASSUME n + 2 <= MaxImported
      PROVE  /\ l <= n + 2
             /\ \E i \in 1..l : imported'[i] = p
             /\ \A h \in 1..n : \E i \in 1..l : imported'[i] = imported[h]
  <2>1. l = n + k /\ n + 1 \in 1..l /\ n + 1 - n \in 1..k /\ \A h \in 1..n : h \in 1..l
    <3>1. n + k <= MaxImported
      BY <1>9, ImportsAssumption
    <3>2. l = n + k
      BY <1>6, <3>1
    <3> QED BY <3>2
  <2>2. imported'[n + 1] = p
    <3>1. marks[n + 1] = t[n + 1 - n]
      BY <1>3, <2>1
    <3> QED BY <1>2, <1>7, <2>1, <3>1
  <2>3. \A h \in 1..n : imported'[h] = imported[h]
    BY <1>3, <1>7, <2>1
  <2> QED BY <2>1, <2>2, <2>3
<1> QED BY <1>1, <1>7, <1>8, <1>9

\* Where the next import leads to.
LEMMA PathFacts ==
    ASSUME ImportTypes, NEW f \in File
    PROVE  PathOf(f) \in File \X Nat /\ PathOf(f)[1] = f
<1>1. C.dots \in Nat
  BY TopFacts DEF Compilation
<1>2. PICK d \in Nat : PathOf(f) = <<f, d>>
  BY <1>1 DEF PathOf
<1> QED BY <1>2

\* A load is counted for its file only.
LEMMA LoadedFacts ==
    ASSUME ImportTypes, NEW f \in File, Loaded(f)
    PROVE  /\ loads' \in [File -> Nat] /\ loads'[f] = loads[f] + 1 /\ loads'[f] > 0
           /\ \A g \in File : g # f => loads'[g] = loads[g]
           /\ \A g \in File : loads[g] > 0 => loads'[g] > 0
           /\ \A g \in File : loads'[g] > 0 => loads[g] > 0 \/ g = f
<1>1. loads \in [File -> Nat] /\ loads' = [loads EXCEPT ![f] = loads[f] + 1]
  BY DEF ImportTypes, Loaded
<1>2. /\ loads' \in [File -> Nat] /\ loads'[f] = loads[f] + 1 /\ loads[f] \in Nat
      /\ \A g \in File : g # f => loads'[g] = loads[g]
  BY <1>1
<1> QED BY <1>2

\* A file that is marked was loaded.
LEMMA MarksLoaded ==
    ASSUME ImportTypes, OncePerStatement, UNCHANGED prog, NEW f \in File, mark_imported(PathOf(f)),
           Kind(f) = "bundle" \/ loads'[f] > 0,
           \A g \in File : loads[g] > 0 => loads'[g] > 0
    PROVE  /\ imported' \in Seq(File \X Nat)
           /\ \A i \in 1..Len(imported') : Kind(imported'[i][1]) # "bundle" => loads'[imported'[i][1]] > 0
<1> PICK p \in File \X Nat : p = PathOf(f) /\ p[1] = f
  BY PathFacts
<1>1. /\ imported' \in Seq(File \X Nat)
      /\ \A i \in 1..Len(imported') :
            imported'[i] = p \/ \E h \in 1..Len(imported) : imported'[i] = imported[h]
  BY MarkFacts
<1>2. ASSUME NEW i \in 1..Len(imported'), Kind(imported'[i][1]) # "bundle"
      PROVE  loads'[imported'[i][1]] > 0
  <2>1. CASE imported'[i] = p
    BY <1>2, <2>1
  <2>2. CASE \E h \in 1..Len(imported) : imported'[i] = imported[h]
    <3> PICK h \in 1..Len(imported) : imported'[i] = imported[h]
      BY <2>2
    <3>1. imported[h] \in File \X Nat /\ imported[h][1] \in File
      BY DEF ImportTypes
    <3>2. Kind(imported[h][1]) # "bundle"
      BY <1>2
    <3>3. loads[imported[h][1]] > 0
      BY <3>2 DEF OncePerStatement
    <3> QED BY <3>1, <3>3
  <2> QED BY <1>1, <2>1, <2>2
<1> QED BY <1>1, <1>2

----------------------------------------------------------------------------
(* The invariant, action by action                                         *)

\* Nothing that the invariant is about is changed by an error or at the end.
LEMMA NothingChanged ==
    ASSUME ImportTypes, Known, UNCHANGED <<prog, imported, stack, loads>>
    PROVE  ImportTypes' /\ Known' /\ (OncePerStatement => OncePerStatement')
<1>1. ImportTypes'
  BY DEF ImportTypes, Kind
<1>2. \A j \in 1..Len(stack') : \A i \in 1..stack'[j].done : KnownBy(stack'[j], i)
  BY DEF Known
<1>3. Known'
  BY <1>2, TopFacts, KnownLater
<1>4. \A g, k : Begun(g, k)' = Begun(g, k)
  BY DEF Begun
<1>5. OncePerStatement => OncePerStatement'
  BY <1>4, ProgramStays DEF OncePerStatement
<1> QED BY <1>1, <1>3, <1>5

\* The C stack is full: what was imported before is as it was.
LEMMA CrashKeeps ==
    ASSUME ImportTypes, Known, UNCHANGED <<prog, stack>>,
           loads' \in [File -> Nat], imported' \in Seq(File \X Nat)
    PROVE  ImportTypes' /\ Known'
<1>1. ImportTypes'
  BY DEF ImportTypes, Kind
<1>2. \A j \in 1..Len(stack') : \A i \in 1..stack'[j].done : KnownBy(stack'[j], i)
  BY DEF Known
<1> QED BY <1>1, <1>2, TopFacts, KnownLater

\* A file is skipped: a source file that only one statement names has not been imported.
LEMMA SkipKeeps ==
    ASSUME ImportTypes, Known, OncePerStatement, NEW f \in File, Imports(f), Skip,
           Skipped(f) \/ Kind(C.file) = "bundle",
           UNCHANGED <<prog, imported, loads>>
    PROVE  ImportTypes' /\ Known' /\ OncePerStatement'
<1> PICK n \in Nat \ {0} : n = Len(stack) /\ n \in 1..Len(stack)
  BY TopFacts
<1>1. /\ C = stack[n] /\ stack[n].done < Len(prog.imports[stack[n].file])
      /\ prog.imports[stack[n].file][stack[n].done + 1] = f
  BY NextStatement, TopFacts
<1>2. Kind(C.file) = "bundle" \/ (Kind(f) # "bundle" /\ ~NamedOnce)
  <2> SUFFICES ASSUME Kind(C.file) # "bundle" PROVE Kind(f) # "bundle" /\ ~NamedOnce
    OBVIOUS
  <2>1. already_imported(PathOf(f)) /\ Kind(f) # "bundle"
    BY DEF Skipped
  <2>2. PICK i \in 1..Len(imported) : imported[i] = PathOf(f)
    BY <2>1 DEF already_imported
  <2>3. loads[f] > 0
    BY <2>1, <2>2, PathFacts DEF OncePerStatement
  <2> QED BY <2>1, <2>3, NextIsNew
<1>3. Progress(n)
  BY SkipFacts
<1>4. Grown
  BY DEF ImportTypes, Grown
<1>5. ListedIsLoaded
  BY DEF OncePerStatement, ListedIsLoaded
<1>6. Passes(n)
  BY <1>1, <1>2 DEF Passes, Pending
<1>7. LoadsPending(n)
  BY DEF LoadsPending
<1> QED BY <1>3, <1>4, <1>5, <1>6, <1>7, ProgressKeepsOnce, Zenon

\* Functions, or those of a bundle once more, are read for the compilation in progress.
LEMMA LearnKeeps ==
    ASSUME ImportTypes, Known, OncePerStatement, NEW f \in File, Imports(f), Loaded(f), Learn(f),
           UNCHANGED prog,
           \/ Kind(f) = "functions" /\ mark_imported(PathOf(f))
           \/ Kind(f) = "bundle" /\ UNCHANGED imported
    PROVE  ImportTypes' /\ Known' /\ OncePerStatement'
<1> PICK n \in Nat \ {0} : n = Len(stack) /\ n \in 1..Len(stack)
  BY TopFacts
<1>1. /\ C = stack[n] /\ stack[n].done < Len(prog.imports[stack[n].file])
      /\ prog.imports[stack[n].file][stack[n].done + 1] = f
      /\ stack[n].file \in File /\ stack[n].done + 1 \in 1..Len(prog.imports[stack[n].file])
  BY NextStatement, TopFacts
<1>2. Kind(f) # "bundle" => Kind(f) # "missing" /\ Kind(stack[n].file) = "source"
  <2>1. Kind(stack[n].file) \in {"source", "bundle"}
    BY DEF ImportTypes
  <2>2. Kind(stack[n].file) = "bundle" => Kind(f) \in {"bundle", "missing"}
    BY <1>1, ProgramFacts
  <2> QED BY <2>1, <2>2
<1>3. Progress(n) /\ Learnt(n, f)
  BY LearnFacts
<1>4. /\ loads' \in [File -> Nat]
      /\ \A g \in File : loads[g] > 0 => loads'[g] > 0
      /\ \A g \in File : loads'[g] > 0 => loads[g] > 0 \/ g = f
  BY LoadedFacts
<1>5. /\ imported' \in Seq(File \X Nat)
      /\ \A i \in 1..Len(imported') : Kind(imported'[i][1]) # "bundle" => loads'[imported'[i][1]] > 0
  <2>1. CASE mark_imported(PathOf(f))
    BY <1>4, <2>1, LoadedFacts, MarksLoaded
  <2>2. CASE UNCHANGED imported
    <3>1. imported \in Seq(File \X Nat) /\ \A i \in 1..Len(imported) : imported[i][1] \in File
      BY DEF ImportTypes
    <3> QED BY <1>4, <2>2, <3>1 DEF OncePerStatement
  <2> QED BY <2>1, <2>2
<1>7. Grown /\ ListedIsLoaded
  BY <1>4, <1>5 DEF Grown, ListedIsLoaded
<1>8. Passes(n)
  BY <1>1, <1>3 DEF Passes, Pending
<1>9. LoadsPending(n)
  BY <1>1, <1>2, <1>4 DEF LoadsPending, Pending
<1> QED BY <1>3, <1>7, <1>8, <1>9, ProgressKeepsOnce, Zenon

\* A compilation returns to its importer, after a bundle has been read or a source file compiled.
LEMMA ResumeKeeps ==
    ASSUME ImportTypes, Known, OncePerStatement, Len(stack) > 1, Resume(C.file), UNCHANGED <<prog, imported>>,
           UNCHANGED loads \/ (Kind(C.file) = "bundle" /\ Loaded(C.file))
    PROVE  ImportTypes' /\ Known' /\ OncePerStatement'
<1> PICK n \in Nat \ {0} : n = Len(stack)
  BY TopFacts
<1> PICK m \in Nat \ {0} : m = n - 1 /\ m \in 1..n /\ m \in 1..n - 1 /\ m + 1 = n
  <2>1. n - 1 \in Nat \ {0} /\ n - 1 \in 1..n /\ n - 1 \in 1..n - 1 /\ n - 1 + 1 = n
    OBVIOUS
  <2> QED BY <2>1
<1> PICK f \in File : f = C.file
  BY TopFacts DEF Compilation
<1>1. /\ stack[m].done < Len(prog.imports[stack[m].file])
      /\ prog.imports[stack[m].file][stack[m].done + 1] = f
  <2>1. C = stack[m + 1]
    BY TopFacts
  <2> QED BY <2>1 DEF ImportTypes
<1>2. Progress(m) /\ Learnt(m, f)
  BY ResumeFacts
<1>3. /\ loads' \in [File -> Nat]
      /\ \A g \in File : loads[g] > 0 => loads'[g] > 0
      /\ \A g \in File : Kind(g) # "bundle" /\ loads'[g] > 0 => loads[g] > 0
  <2>1. CASE UNCHANGED loads
    BY <2>1 DEF ImportTypes
  <2>2. CASE Kind(f) = "bundle" /\ Loaded(f)
    BY <2>2, LoadedFacts
  <2> QED BY <2>1, <2>2
<1>4. imported' \in Seq(File \X Nat)
  BY DEF ImportTypes
<1>5. \A i \in 1..Len(imported') : Kind(imported'[i][1]) # "bundle" => loads'[imported'[i][1]] > 0
  <2>1. \A i \in 1..Len(imported) : imported[i][1] \in File
    BY DEF ImportTypes
  <2> QED BY <1>3, <2>1 DEF OncePerStatement
<1>6. Grown /\ ListedIsLoaded
  BY <1>3, <1>4, <1>5 DEF Grown, ListedIsLoaded
<1>7. Passes(m)
  BY <1>1, <1>2 DEF Passes, Pending
<1>8. LoadsPending(m)
  BY <1>3 DEF LoadsPending
<1>9. m \in 1..Len(stack)
  OBVIOUS
<1> QED BY <1>2, <1>6, <1>7, <1>8, <1>9, ProgressKeepsOnce, Zenon

\* A file's own compilation begins, or there is no room for it.
LEMMA NestKeeps ==
    ASSUME ImportTypes, Known, OncePerStatement, NEW f \in File, Imports(f), Kind(f) \in {"source", "bundle"},
           NEW d \in Nat, NEW u \in Seq(File), Nest(Compiler(f, d, u)), mark_imported(PathOf(f)),
           (Kind(f) = "source" /\ Loaded(f)) \/ (Kind(f) = "bundle" /\ UNCHANGED loads), UNCHANGED prog
    PROVE  ImportTypes' /\ Known' /\ (Running' => OncePerStatement')
<1> PICK c : c = Compiler(f, d, u)
  OBVIOUS
<1>1. c \in Compilation /\ c.file = f /\ c.done = 0
  BY DEF Compiler, Compilation
<1>2. /\ loads' \in [File -> Nat]
      /\ \A g \in File : loads[g] > 0 => loads'[g] > 0
      /\ \A g \in File : loads'[g] > 0 => loads[g] > 0 \/ g = f
      /\ Kind(f) = "source" => loads'[f] > 0
  <2>1. CASE Kind(f) = "source" /\ Loaded(f)
    BY <2>1, LoadedFacts
  <2>2. CASE Kind(f) = "bundle" /\ UNCHANGED loads
    BY <2>2 DEF ImportTypes
  <2> QED BY <2>1, <2>2
<1>3. /\ imported' \in Seq(File \X Nat)
      /\ \A i \in 1..Len(imported') : Kind(imported'[i][1]) # "bundle" => loads'[imported'[i][1]] > 0
  BY <1>2, MarksLoaded
<1>4. CASE stack' = Append(stack, c)
  <2>1. Pushes(f, c) /\ Grown /\ LoadsAtMost(f) /\ ListedIsLoaded
    BY <1>1, <1>2, <1>3, <1>4 DEF Pushes, Grown, LoadsAtMost, ListedIsLoaded
  <2> QED BY <1>1, <2>1, PushKeeps
<1>5. CASE status' = "crash" /\ UNCHANGED stack
  <2>1. ~Running'
    BY <1>5 DEF Running
  <2> QED BY <1>2, <1>3, <1>5, <2>1, CrashKeeps
<1> QED BY <1>4, <1>5 DEF Nest

\* Every step keeps the invariant.
LEMMA ImportInvStep == ImportInv /\ [Next]_vars => ImportInv'
<1> SUFFICES ASSUME ImportTypes, Known, Running => OncePerStatement, [Next]_vars
             PROVE  ImportTypes' /\ Known' /\ (Running' => OncePerStatement')
  BY DEF ImportInv
<1>1. ASSUME NEW f \in File, import_known(f) PROVE ImportTypes' /\ Known' /\ OncePerStatement'
  BY <1>1, NextStatement, SkipKeeps DEF import_known
<1>2. ASSUME NEW f \in File, import_missing(f) PROVE ImportTypes' /\ Known' /\ OncePerStatement'
  <2>1. OncePerStatement /\ Imports(f) /\ UNCHANGED <<prog, imported, loads>>
    BY <1>2 DEF import_missing, Imports
  <2>2. CASE Kind(C.file) = "bundle" /\ Skip
    BY <2>1, <2>2, SkipKeeps
  <2>3. CASE UNCHANGED stack
    BY <2>1, <2>3, NothingChanged
  <2> QED BY <1>2, <2>2, <2>3 DEF import_missing
<1>3. ASSUME NEW f \in File, import_functions(f) PROVE ImportTypes' /\ Known' /\ OncePerStatement'
  <2>1. /\ OncePerStatement /\ Imports(f) /\ Kind(f) = "functions" /\ UNCHANGED prog
        /\ mark_imported(PathOf(f)) /\ Loaded(f) /\ Learn(f)
    BY <1>3 DEF import_functions, Imports
  <2> QED BY <2>1, LearnKeeps
<1>4. ASSUME NEW f \in File, import_source(f)
      PROVE  ImportTypes' /\ Known' /\ (Running' => OncePerStatement')
  <2>1. /\ OncePerStatement /\ Imports(f) /\ Kind(f) = "source" /\ UNCHANGED prog
        /\ mark_imported(PathOf(f)) /\ Loaded(f) /\ Nest(Compiler(f, PathOf(f)[2], C.table))
    BY <1>4 DEF import_source, Imports
  <2>2. PathOf(f)[2] \in Nat /\ C.table \in Seq(File)
    BY <2>1, PathFacts, NextStatement
  <2> QED BY <2>1, <2>2, NestKeeps
<1>5. ASSUME NEW f \in File, import_bundle(f)
      PROVE  ImportTypes' /\ Known' /\ (Running' => OncePerStatement')
  <2>1. /\ OncePerStatement /\ Imports(f) /\ Kind(f) = "bundle" /\ UNCHANGED <<prog, loads>>
        /\ mark_imported(PathOf(f)) /\ Nest(Compiler(f, 0, <<>>))
    BY <1>5 DEF import_bundle, Imports
  <2>2. 0 \in Nat /\ <<>> \in Seq(File)
    OBVIOUS
  <2> QED BY <2>1, <2>2, NestKeeps
<1>6. ASSUME NEW f \in File, import_bundle_again(f) PROVE ImportTypes' /\ Known' /\ OncePerStatement'
  <2>1. /\ OncePerStatement /\ Imports(f) /\ Kind(f) = "bundle" /\ UNCHANGED <<prog, imported>>
        /\ Loaded(f) /\ Learn(f)
    BY <1>6 DEF import_bundle_again, Imports
  <2> QED BY <2>1, LearnKeeps
<1>7. ASSUME bundle_done PROVE ImportTypes' /\ Known' /\ OncePerStatement'
  <2>1. /\ OncePerStatement /\ Kind(C.file) = "bundle" /\ Loaded(C.file) /\ Resume(C.file)
        /\ UNCHANGED <<prog, imported>>
    BY <1>7 DEF bundle_done
  <2>2. Len(stack) > 1
    <3>1. PICK n \in Nat \ {0} : n = Len(stack) /\ C = stack[n] /\ stack[1].file = Main
      BY TopFacts DEF ImportTypes
    <3>2. n # 1
      BY <2>1, <3>1, ProgramFacts
    <3> QED BY <3>1, <3>2
  <2> QED BY <2>1, <2>2, ResumeKeeps
<1>8. ASSUME source_done PROVE ImportTypes' /\ Known' /\ OncePerStatement'
  <2>1. OncePerStatement /\ Len(stack) > 1 /\ UNCHANGED <<prog, imported, loads>>
    BY <1>8 DEF source_done
  <2>2. CASE Resume(C.file)
    BY <2>1, <2>2, ResumeKeeps
  <2>3. CASE UNCHANGED stack
    BY <2>1, <2>3, NothingChanged
  <2> QED BY <1>8, <2>2, <2>3 DEF source_done
<1>9. ASSUME program_done PROVE ImportTypes' /\ Known' /\ OncePerStatement'
  BY <1>9, NothingChanged DEF program_done
<1>10. CASE UNCHANGED vars
  BY <1>10, NothingChanged DEF vars, Running
<1> QED BY <1>1, <1>2, <1>3, <1>4, <1>5, <1>6, <1>7, <1>8, <1>9, <1>10 DEF Next

\* It holds when the program's own compilation begins.
LEMMA ImportInvInit == Init => ImportInv
<1> SUFFICES ASSUME Init PROVE ImportInv
  OBVIOUS
<1>1. stack = <<Compiler(Main, 0, <<>>)>> /\ imported = <<>> /\ prog \in Programs
  BY DEF Init
<1> PICK c : c = Compiler(Main, 0, <<>>)
  OBVIOUS
<1>2. Main \in File /\ Kind(Main) = "source" /\ prog.imports \in [File -> Seq(File)]
  BY <1>1, ImportsAssumption DEF Kind
<1>3. c \in Compilation /\ c.file = Main /\ c.done = 0
  BY <1>2 DEF Compiler, Compilation
<1>4. stack = <<c>> /\ stack \in Seq(Compilation) /\ Len(stack) = 1 /\ stack[1] = c
  BY <1>1, <1>3
<1>5. imported \in Seq(File \X Nat) /\ Len(imported) = 0
  BY <1>1
<1>6. loads \in [File -> Nat] /\ \A f \in File : loads[f] = 0 \/ f = Main
  BY DEF Init
<1>7. ImportTypes
  <2>1. 0 <= Len(prog.imports[Main])
    BY <1>2
  <2>2. \A j \in 1..Len(stack) : j = 1
    BY <1>4
  <2>3. \A j \in 1..Len(stack) - 1 : FALSE
    BY <1>4
  <2>4. Len(stack) \in Nat \ {0}
    BY <1>4
  <2> QED BY <1>1, <1>2, <1>3, <1>4, <1>5, <1>6, <2>1, <2>2, <2>3, <2>4 DEF ImportTypes
<1>8. Known
  BY <1>3, <1>4 DEF Known
<1>9. OncePerStatement
  <2>1. \A f \in File : loads[f] > 0 => f = Main
    BY <1>6
  <2>2. \A i, j \in 1..Len(stack) : i = j
    BY <1>4
  <2>3. \A j \in 2..Len(stack) : FALSE
    BY <1>4
  <2>4. \A i \in 1..Len(imported) : FALSE
    BY <1>5
  <2>5. NamedOnce => \A g \in File : \A k \in 1..Len(prog.imports[g]) :
           prog.imports[g][k] \in File /\ prog.imports[g][k] # Main
    BY <1>2, <1>7, StatementsDiffer
  <2>6. Kind(Main) # "missing"
    BY <1>2
  <2> QED BY <1>6, <2>1, <2>2, <2>3, <2>4, <2>5, <2>6 DEF OncePerStatement
<1> QED BY <1>7, <1>8, <1>9 DEF ImportInv

\* When an import statement is behind it, an importer knows the functions imported, unless a
\* limit, a second statement for the file or the file's own compilation is in the way
\* (do_import, compile_and_import, try_import_cco).
THEOREM WhatIsImportedIsKnown == Spec => []ImportersKnow
<1>1. ImportInv => ImportersKnow
  <2> SUFFICES ASSUME ImportTypes, Known, NEW k \in 1..Len(stack), NEW i \in 1..stack[k].done
               PROVE  LET f == prog.imports[stack[k].file][i] IN
                      \/ f \in {stack[k].table[j] : j \in 1..Len(stack[k].table)}
                      \/ ~HasRoom(stack[k].table)
                      \/ Kind(stack[k].file) = "bundle"
                      \/ \E j \in 1..k : stack[j].file = f
                      \/ Kind(f) # "bundle" /\ ~NamedOnce
    BY DEF ImportInv, ImportersKnow
  <2>1. KnownBy(stack[k], i)
    BY DEF Known
  <2> QED BY <2>1 DEF KnownBy
<1> QED BY <1>1, ImportInvInit, ImportInvStep, PTL DEF Spec

----------------------------------------------------------------------------
(* Programs without "./"                                                   *)

\* Marks with no "./" are of files.
LEMMA MarkedFiles ==
    IsFiniteSet(Marked) /\ IsFiniteSet(File) /\ Cardinality(Marked) \in Nat /\ Cardinality(File) \in Nat
<1>1. IsFiniteSet(File) /\ Marked \subseteq File
  BY ImportsAssumption DEF Marked
<1> QED BY <1>1, FS_Subset, FS_CardinalityType

\* There is room for two more entries as long as a file is not marked, so that marking it works.
LEMMA MarkingWorks ==
    ASSUME ImportTypes, 2 * Cardinality(File) <= MaxImported, Len(imported) <= 2 * Cardinality(Marked),
           NEW f \in File, ~already_imported(<<f, 0>>), mark_imported(<<f, 0>>)
    PROVE  Marked' = Marked \cup {f} /\ Len(imported') <= 2 * Cardinality(Marked')
<1>0. PICK p \in File \X Nat : p = <<f, 0>>
  OBVIOUS
<1> PICK n \in Nat : n = Len(imported)
  BY DEF ImportTypes
<1>1. f \notin Marked
  BY DEF Marked, already_imported
<1>2. IsFiniteSet(Marked) /\ IsFiniteSet(File) /\ Cardinality(Marked) \in Nat /\ Cardinality(File) \in Nat
  BY MarkedFiles
<1>3. Cardinality(Marked \cup {f}) = Cardinality(Marked) + 1
  BY <1>1, <1>2, FS_AddElement
<1>4. Cardinality(Marked \cup {f}) <= Cardinality(File)
  <2>1. Marked \cup {f} \subseteq File
    BY DEF Marked
  <2> QED BY <1>2, <2>1, FS_Subset
<1>5. n + 2 <= MaxImported
  BY <1>2, <1>3, <1>4, ImportsAssumption
<1>6. /\ imported' \in Seq(File \X Nat)
      /\ \A i \in 1..Len(imported') :
            imported'[i] = p \/ \E h \in 1..Len(imported) : imported'[i] = imported[h]
      /\ Len(imported') <= n + 2
      /\ \E i \in 1..Len(imported') : imported'[i] = p
      /\ \A h \in 1..Len(imported) : \E i \in 1..Len(imported') : imported'[i] = imported[h]
  BY <1>0, <1>5, MarkFacts
<1>7. Marked' = Marked \cup {f}
  <2>1. Marked' = {g \in File : \E i \in 1..Len(imported') : imported'[i] = <<g, 0>>}
    BY DEF Marked
  <2>2. ASSUME NEW g \in File
        PROVE  (\E i \in 1..Len(imported') : imported'[i] = <<g, 0>>) <=> g \in Marked \cup {f}
    <3>1. CASE g = f
      BY <1>0, <1>6, <3>1
    <3>2. CASE g # f
      <4> DEFINE q == <<g, 0>>
      <4>1. p # q
        BY <1>0, <3>2
      <4>2. (\E i \in 1..Len(imported') : imported'[i] = q) <=>
            (\E h \in 1..Len(imported) : imported[h] = q)
        <5> HIDE DEF q
        <5>1. ASSUME NEW i \in 1..Len(imported'), imported'[i] = q
              PROVE  \E h \in 1..Len(imported) : imported[h] = q
          <6>1. imported'[i] = p \/ \E h \in 1..Len(imported) : imported'[i] = imported[h]
            BY <1>6
          <6> QED BY <4>1, <5>1, <6>1, Zenon
        <5>2. ASSUME NEW h \in 1..Len(imported), imported[h] = q
              PROVE  \E i \in 1..Len(imported') : imported'[i] = q
          <6>1. \E i \in 1..Len(imported') : imported'[i] = imported[h]
            BY <1>6
          <6> QED BY <5>2, <6>1, Zenon
        <5> QED BY <5>1, <5>2
      <4> QED BY <3>2, <4>2 DEF Marked
    <3> QED BY <3>1, <3>2
  <2>3. Marked \cup {f} \subseteq File
    BY DEF Marked
  <2> QED BY <2>1, <2>2, <2>3
<1>8. Len(imported') \in Nat
  BY <1>6
<1> QED BY <1>2, <1>3, <1>6, <1>7, <1>8

\* No compilation was reached by a path with "./".
Plain(s) == \A j \in 1..Len(s) : s[j].dots = 0

\* A compilation that goes on is reached as before.
LEMMA PlainProgress ==
    ASSUME Plain(stack), NEW m \in 1..Len(stack), Progress(m), ImportTypes
    PROVE  Plain(stack')
<1>1. m \in Nat /\ Len(stack) \in Nat /\ m <= Len(stack) /\ Len(stack') = m
  BY TopFacts DEF Progress
<1>2. ASSUME NEW j \in 1..m PROVE stack'[j].dots = 0
  <2>1. j \in 1..Len(stack) /\ stack[j].dots = 0
    BY <1>1 DEF Plain
  <2>2. j = m \/ j \in 1..m - 1
    BY <1>1
  <2> QED BY <2>1, <2>2 DEF Progress
<1> QED BY <1>1, <1>2 DEF Plain

\* Nor is one that begins, or that could not begin.
LEMMA PlainNest ==
    ASSUME Plain(stack), ImportTypes, NEW f, NEW u, Nest(Compiler(f, 0, u))
    PROVE  Plain(stack')
<1> PICK c : c = Compiler(f, 0, u) /\ c.dots = 0
  BY DEF Compiler
<1> PICK n \in Nat : n = Len(stack)
  BY TopFacts
<1>1. CASE stack' = Append(stack, c)
  <2>1. Len(stack') = n + 1 /\ stack'[n + 1] = c /\ \A j \in 1..n : stack'[j] = stack[j]
    BY <1>1, AppendProperties DEF ImportTypes
  <2>2. \A j \in 1..n + 1 : j \in 1..n \/ j = n + 1
    OBVIOUS
  <2> QED BY <2>1, <2>2 DEF Plain
<1>2. CASE UNCHANGED stack
  BY <1>2
<1> QED BY <1>1, <1>2 DEF Nest

\* Without "./" a file has one path.
LEMMA PlainPath ==
    ASSUME ImportTypes, Plain(stack), ~prog.dotted, NEW f \in File
    PROVE  PathOf(f) = <<f, 0>>
<1>1. C.dots = 0
  <2>1. Len(stack) \in 1..Len(stack) /\ C = stack[Len(stack)]
    BY TopFacts
  <2> QED BY <2>1 DEF Plain
<1> QED BY <1>1 DEF PathOf

\* How often f is loaded before anything imports it.
Unimported(f) == IF f = Main THEN 1 ELSE 0

\* How often f was loaded, a bundle: how often its dependencies were.
Times(f) == IF Kind(f) = "bundle" THEN opened[f] ELSE loads[f]

\* What is imported once is marked, and the list is not full of anything else.
PlainLoads ==
    /\ opened \in [File -> Nat]
    /\ \A f \in File : Times(f) = Unimported(f) \/ (Times(f) = Unimported(f) + 1 /\ f \in Marked)
    /\ Len(imported) <= 2 * Cardinality(Marked)

\* A bundle is opened for its own sake only.
LEMMA OpenedFacts ==
    ASSUME opened \in [File -> Nat], NEW f \in File, Opened(f)
    PROVE  /\ opened' \in [File -> Nat] /\ opened'[f] = opened[f] + 1
           /\ \A g \in File : g # f => opened'[g] = opened[g]
<1>1. opened' = [opened EXCEPT ![f] = opened[f] + 1]
  BY DEF Opened
<1> QED BY <1>1

\* A file that is not in the list is loaded and put in.
LEMMA LoadMarks ==
    ASSUME ImportTypes, 2 * Cardinality(File) <= MaxImported, PlainLoads, UNCHANGED prog, NEW f \in File,
           ~already_imported(<<f, 0>>), mark_imported(<<f, 0>>),
           \/ Kind(f) # "bundle" /\ Loaded(f) /\ UNCHANGED opened
           \/ Kind(f) = "bundle" /\ Opened(f) /\ UNCHANGED loads
    PROVE  PlainLoads'
<1>1. Marked' = Marked \cup {f} /\ Len(imported') <= 2 * Cardinality(Marked')
  BY MarkingWorks DEF PlainLoads
<1>2. f \notin Marked
  BY DEF Marked, already_imported
<1>3. opened \in [File -> Nat] /\ \A g : Kind(g)' = Kind(g)
  BY ProgramStays DEF PlainLoads
<1>4. /\ opened' \in [File -> Nat] /\ Times(f)' = Times(f) + 1
      /\ \A g \in File : g # f => Times(g)' = Times(g)
  <2>1. CASE Kind(f) # "bundle" /\ Loaded(f) /\ UNCHANGED opened
    <3>1. loads'[f] = loads[f] + 1 /\ \A g \in File : g # f => loads'[g] = loads[g]
      BY <2>1, LoadedFacts
    <3> QED BY <1>3, <2>1, <3>1 DEF Times
  <2>2. CASE Kind(f) = "bundle" /\ Opened(f) /\ UNCHANGED loads
    <3>1. /\ opened' \in [File -> Nat] /\ opened'[f] = opened[f] + 1
          /\ \A g \in File : g # f => opened'[g] = opened[g]
      BY <1>3, <2>2, OpenedFacts
    <3> QED BY <1>3, <2>2, <3>1 DEF Times
  <2> QED BY <2>1, <2>2
<1>5. ASSUME NEW g \in File
      PROVE  Times(g)' = Unimported(g) \/ (Times(g)' = Unimported(g) + 1 /\ g \in Marked')
  <2>1. CASE g # f
    BY <1>1, <1>4, <2>1 DEF PlainLoads
  <2>2. CASE g = f
    BY <1>1, <1>2, <1>4, <2>2 DEF PlainLoads
  <2> QED BY <2>1, <2>2
<1>6. \A g : Unimported(g)' = Unimported(g)
  BY DEF Unimported
<1> QED BY <1>1, <1>4, <1>5, <1>6 DEF PlainLoads

\* Reading a bundle, or nothing, changes nothing for the others.
LEMMA BundleLoads ==
    ASSUME ImportTypes, PlainLoads, UNCHANGED <<prog, imported, opened>>,
           UNCHANGED loads \/ \E f \in File : Kind(f) = "bundle" /\ Loaded(f)
    PROVE  PlainLoads'
<1>1. ASSUME NEW g \in File, Kind(g) # "bundle" PROVE loads'[g] = loads[g]
  <2>1. CASE UNCHANGED loads
    BY <2>1
  <2>2. ASSUME NEW f \in File, Kind(f) = "bundle", Loaded(f) PROVE loads'[g] = loads[g]
    BY <1>1, <2>2, LoadedFacts
  <2> QED BY <2>1, <2>2
<1>2. Marked' = Marked
  BY DEF Marked
<1>3. \A g \in File : Times(g)' = Times(g)
  BY <1>1, ProgramStays DEF Times
<1>4. \A g : Unimported(g)' = Unimported(g)
  BY DEF Unimported
<1> QED BY <1>2, <1>3, <1>4 DEF PlainLoads

\* Every step keeps it so.
LEMMA PlainStep ==
    ASSUME 2 * Cardinality(File) <= MaxImported, ImportTypes, ~prog.dotted, Plain(stack), PlainLoads,
           [Next]_vars
    PROVE  Plain(stack') /\ PlainLoads'
<1> PICK n \in Nat \ {0} : n = Len(stack) /\ n \in 1..Len(stack)
  BY TopFacts
<1>1. ASSUME NEW f \in File, import_known(f) PROVE Plain(stack') /\ PlainLoads'
  <2>1. Skip /\ UNCHANGED <<prog, imported, loads, opened>>
    BY <1>1 DEF import_known
  <2> QED BY <2>1, SkipFacts, PlainProgress, BundleLoads
<1>2. ASSUME NEW f \in File, import_missing(f) PROVE Plain(stack') /\ PlainLoads'
  <2>1. (Skip \/ UNCHANGED stack) /\ UNCHANGED <<prog, imported, loads, opened>>
    BY <1>2 DEF import_missing
  <2> QED BY <2>1, SkipFacts, PlainProgress, BundleLoads
<1>3. ASSUME NEW f \in File, import_functions(f) PROVE Plain(stack') /\ PlainLoads'
  <2>1. /\ PathOf(f) = <<f, 0>> /\ ~already_imported(<<f, 0>>) /\ mark_imported(<<f, 0>>)
        /\ Loaded(f) /\ Learn(f) /\ UNCHANGED <<prog, opened>> /\ Kind(f) # "bundle"
    BY <1>3, PlainPath DEF import_functions, Skipped
  <2>2. Plain(stack')
    BY <2>1, LearnFacts, PlainProgress
  <2>3. PlainLoads'
    BY <2>1, LoadMarks
  <2> QED BY <2>2, <2>3
<1>4. ASSUME NEW f \in File, import_source(f) PROVE Plain(stack') /\ PlainLoads'
  <2>1. /\ PathOf(f) = <<f, 0>> /\ ~already_imported(<<f, 0>>) /\ mark_imported(<<f, 0>>)
        /\ Loaded(f) /\ Nest(Compiler(f, 0, C.table)) /\ UNCHANGED <<prog, opened>> /\ Kind(f) # "bundle"
    BY <1>4, PlainPath DEF import_source, Skipped
  <2>2. Plain(stack')
    BY <2>1, PlainNest
  <2>3. PlainLoads'
    BY <2>1, LoadMarks
  <2> QED BY <2>2, <2>3
<1>5. ASSUME NEW f \in File, import_bundle(f) PROVE Plain(stack') /\ PlainLoads'
  <2>1. /\ Kind(f) = "bundle" /\ ~already_imported(<<f, 0>>) /\ mark_imported(<<f, 0>>)
        /\ Opened(f) /\ Nest(Compiler(f, 0, <<>>)) /\ UNCHANGED <<prog, loads>>
    BY <1>5, PlainPath DEF import_bundle
  <2>2. Plain(stack')
    BY <2>1, PlainNest
  <2>3. PlainLoads'
    BY <2>1, LoadMarks
  <2> QED BY <2>2, <2>3
<1>6. ASSUME NEW f \in File, import_bundle_again(f) PROVE Plain(stack') /\ PlainLoads'
  <2>1. Kind(f) = "bundle" /\ Loaded(f) /\ Learn(f) /\ UNCHANGED <<prog, imported, opened>>
    BY <1>6 DEF import_bundle_again
  <2>2. Plain(stack')
    BY <2>1, LearnFacts, PlainProgress
  <2>3. PlainLoads'
    BY <2>1, BundleLoads
  <2> QED BY <2>2, <2>3
<1>7. ASSUME Len(stack) > 1, Resume(C.file) PROVE Plain(stack')
  <2> PICK f \in File : f = C.file
    BY TopFacts DEF Compilation
  <2> PICK m \in Nat : m = Len(stack) - 1 /\ m \in 1..Len(stack)
    <3>1. n - 1 \in Nat /\ n - 1 \in 1..n
      BY <1>7
    <3> QED BY <3>1
  <2>1. Progress(m)
    BY <1>7, ResumeFacts
  <2> QED BY <2>1, PlainProgress
<1>8. ASSUME bundle_done PROVE Plain(stack') /\ PlainLoads'
  <2>1. /\ C.file \in File /\ Kind(C.file) = "bundle" /\ Loaded(C.file) /\ Resume(C.file)
        /\ UNCHANGED <<prog, imported, opened>>
    BY <1>8, TopFacts DEF bundle_done, Compilation
  <2>2. n > 1
    <3>1. C = stack[n] /\ stack[1].file = Main
      BY TopFacts DEF ImportTypes
    <3>2. n # 1
      BY <2>1, <3>1, ProgramFacts
    <3> QED BY <3>2
  <2>3. PlainLoads'
    BY <2>1, BundleLoads
  <2> QED BY <1>7, <2>1, <2>2, <2>3
<1>9. ASSUME source_done PROVE Plain(stack') /\ PlainLoads'
  <2>1. /\ Len(stack) > 1 /\ UNCHANGED <<prog, imported, loads, opened>>
        /\ Resume(C.file) \/ UNCHANGED stack
    BY <1>9 DEF source_done
  <2>2. PlainLoads'
    BY <2>1, BundleLoads
  <2> QED BY <1>7, <2>1, <2>2
<1>10. ASSUME program_done \/ UNCHANGED vars PROVE Plain(stack') /\ PlainLoads'
  <2>1. UNCHANGED <<prog, imported, stack, loads, opened>>
    BY <1>10 DEF program_done, vars
  <2> QED BY <2>1, BundleLoads
<1> QED BY <1>1, <1>2, <1>3, <1>4, <1>5, <1>6, <1>8, <1>9, <1>10 DEF Next

\* If no path is spelled with "./" and the list of imported files is long enough for all files
\* with and without their extensions, no import loads a file a second time, whatever it is and
\* whatever imports it, so that only the program, which is compiled before anything is
\* imported, can be compiled twice (already_imported, mark_imported, run_source_file).
THEOREM OnlyTheProgramIsCompiledTwice ==
    ASSUME 2 * Cardinality(File) <= MaxImported
    PROVE  Spec => []OnlyProgramTwice
<1> DEFINE Inv == ImportInv /\ (~prog.dotted => Plain(stack) /\ PlainLoads)
<1>1. Init => Inv
  <2> SUFFICES ASSUME Init, ~prog.dotted PROVE Plain(stack) /\ PlainLoads
    BY ImportInvInit
  <2>1. Len(stack) = 1 /\ stack[1] = Compiler(Main, 0, <<>>) /\ Len(imported) = 0
    BY DEF Init
  <2>2. Plain(stack)
    BY <2>1 DEF Plain, Compiler
  <2>3. /\ opened \in [File -> Nat] /\ prog \in Programs
        /\ \A f \in File : opened[f] = 0 /\ loads[f] = Unimported(f)
    BY DEF Init, Unimported
  <2>4. Kind(Main) # "bundle"
    BY <2>3, ImportsAssumption DEF Kind
  <2>5. \A f \in File : Times(f) = Unimported(f)
    BY <2>3, <2>4 DEF Times, Unimported
  <2> QED BY <2>1, <2>2, <2>3, <2>5, MarkedFiles DEF PlainLoads
<1>2. Inv /\ [Next]_vars => Inv'
  <2> SUFFICES ASSUME Inv, [Next]_vars PROVE Inv'
    OBVIOUS
  <2>1. prog' = prog
    BY DEF Next, vars, import_known, import_missing, import_functions, import_source, import_bundle,
           import_bundle_again, bundle_done, source_done, program_done
  <2>2. ImportInv'
    BY ImportInvStep
  <2>3. ~prog.dotted => Plain(stack') /\ PlainLoads'
    BY PlainStep DEF ImportInv
  <2>4. Plain(stack)' <=> Plain(stack')
    BY DEF Plain
  <2> QED BY <2>1, <2>2, <2>3, <2>4
<1>3. Inv => OnlyProgramTwice
  <2> SUFFICES ASSUME ImportInv, PlainLoads, NEW f \in File
               PROVE  IF Kind(f) = "bundle" THEN opened[f] <= 1
                      ELSE loads[f] <= (IF f = Main THEN 2 ELSE 1)
    BY DEF OnlyProgramTwice
  <2>1. Times(f) = Unimported(f) \/ Times(f) = Unimported(f) + 1
    BY DEF PlainLoads
  <2>2. Kind(Main) # "bundle"
    BY ProgramFacts DEF ImportInv
  <2> QED BY <2>1, <2>2 DEF Times, Unimported
<1> QED BY <1>1, <1>2, <1>3, PTL DEF Spec
=============================================================================
