---------------------------- MODULE CommonLemmas -----------------------------
(***************************************************************************)
(* What the proofs need of the natural numbers: a set of them has a least  *)
(* element and, from that, one that has 0 and, with each number, the next  *)
(* has them all. Sets take the place of the predicates of the library's    *)
(* induction theorems. The probing of a hash table: the remainders of n    *)
(* numbers in a row are 0..n-1, each once. Loops: a function that is       *)
(* defined turn by turn exists. And sequences of sequences, joined.        *)
(***************************************************************************)
EXTENDS Integers, SequencesExt, FiniteSetTheorems, SequenceTheorems, TLAPS

\* Every set of numbers that is not empty has a least element: by inclusion, the finite sets
\* 0..n are well-founded.
LEMMA LeastExists ==
    ASSUME NEW S \in SUBSET Nat, S # {}
    PROVE  \E m \in S : \A n \in S : m <= n
<1> DEFINE T == {0..n : n \in S}
<1>1. IsWellFoundedOn(StrictSubsetOrdering(Nat), FiniteSubsetsOf(Nat))
  BY FS_StrictSubsetOrderingWellFounded
<1>2. \A n \in S : 0..n \in FiniteSubsetsOf(Nat)
  BY FS_Interval DEF FiniteSubsetsOf
<1>3. T \subseteq FiniteSubsetsOf(Nat) /\ T # {}
  BY <1>2
<1>4. PICK x \in T : \A y \in T : ~(<<y, x>> \in StrictSubsetOrdering(Nat))
  <2> HIDE DEF T
  <2> QED BY <1>1, <1>3, WFMin
<1>5. PICK m \in S : x = 0..m
  OBVIOUS
<1>6. ASSUME NEW n \in S, n < m PROVE FALSE
  <2>1. 0..n \subseteq Nat /\ 0..m \subseteq Nat /\ 0..n \subseteq 0..m
    BY <1>6
  <2>2. m \in 0..m /\ m \notin 0..n
    BY <1>6
  <2>3. <<0..n, x>> \in StrictSubsetOrdering(Nat)
    BY <2>1, <2>2, <1>5 DEF StrictSubsetOrdering
  <2> QED BY <1>4, <2>3
<1> QED BY <1>6

\* Induction on a set of numbers.
LEMMA NatInductionOnSet ==
    ASSUME NEW S \in SUBSET Nat, 0 \in S, \A n \in S : n + 1 \in S
    PROVE  S = Nat
<1> SUFFICES ASSUME Nat \ S # {} PROVE FALSE
  OBVIOUS
<1>1. PICK m \in Nat \ S : \A n \in Nat \ S : m <= n
  BY LeastExists
<1>2. m - 1 \in Nat /\ m - 1 \in S
  BY <1>1
<1>3. m - 1 + 1 = m
  OBVIOUS
<1> QED BY <1>1, <1>2, <1>3

\* A multiple that is smaller than the number is 0.
LEMMA SmallMultiple ==
    ASSUME NEW n \in Nat \ {0}, NEW q \in Int, -n < n * q, n * q < n
    PROVE  q = 0
<1>1. CASE q >= 1
  <2>1. q - 1 \in Nat /\ n * q = n * (q - 1) + n
    BY <1>1
  <2>2. \A x \in Nat : n * x >= 0
    OBVIOUS
  <2> QED BY <2>1, <2>2
<1>2. CASE q <= -1
  <2>1. -1 - q \in Nat /\ n * q = -(n * (-1 - q)) - n
    BY <1>2
  <2>2. \A x \in Nat : n * x >= 0
    OBVIOUS
  <2> QED BY <2>1, <2>2
<1> QED BY <1>1, <1>2

\* Division with remainder.
LEMMA Division ==
    ASSUME NEW n \in Nat \ {0}, NEW a \in Nat
    PROVE  /\ a \div n \in Int /\ a % n \in 0..(n - 1) /\ a = n * (a \div n) + (a % n)
OBVIOUS

\* A number and a remainder tell the quotient.
LEMMA RemainderIsUnique ==
    ASSUME NEW n \in Nat \ {0}, NEW q \in Int, NEW p \in 0..(n - 1), n * q + p \in Nat
    PROVE  (n * q + p) % n = p
<1> PICK a \in Nat : a = n * q + p
  OBVIOUS
<1> PICK d \in Int, r \in 0..(n - 1) : a = n * d + r /\ r = a % n
  BY Division
<1>1. n * (q - d) = r - p
  <2>1. n * (q - d) = n * q - n * d
    OBVIOUS
  <2> QED BY <2>1
<1>2. -n < r - p /\ r - p < n
  OBVIOUS
<1>3. r = p
  <2> PICK x \in Int : x = q - d
    OBVIOUS
  <2>1. x = 0
    BY <1>1, <1>2, SmallMultiple
  <2> QED BY <1>1, <2>1
<1> QED BY <1>3

\* No slot is probed twice in n turns.
LEMMA ProbesDiffer ==
    ASSUME NEW n \in Nat \ {0}, NEW h \in Nat, NEW i \in 0..(n - 1), NEW j \in 0..(n - 1),
           (h + i) % n = (h + j) % n
    PROVE  i = j
<1> PICK a \in Nat, b \in Nat : a = h + i /\ b = h + j /\ a % n = b % n
  OBVIOUS
<1> PICK c \in Int, r \in 0..(n - 1) : a = n * c + r /\ r = a % n
  BY Division
<1> PICK d \in Int : b = n * d + r
  BY Division
<1>1. n * (c - d) = i - j
  <2>1. n * (c - d) = n * c - n * d
    OBVIOUS
  <2> QED BY <2>1
<1>2. c - d = 0
  <2> PICK x \in Int : x = c - d
    OBVIOUS
  <2> QED BY <1>1, SmallMultiple
<1> QED BY <1>1, <1>2

\* Every slot is probed in n turns.
LEMMA ProbesReach ==
    ASSUME NEW n \in Nat \ {0}, NEW h \in Nat, NEW p \in 0..(n - 1)
    PROVE  \E i \in 0..(n - 1) : (h + i) % n = p
<1> PICK q \in Int, r \in 0..(n - 1) : h = n * q + r
  BY Division
<1>1. CASE p >= r
  <2>1. PICK i \in 0..(n - 1) : i = p - r
    BY <1>1
  <2>2. h + i = n * q + p /\ h + i \in Nat
    BY <2>1
  <2>3. (h + i) % n = p
    BY <2>2, RemainderIsUnique
  <2> QED BY <2>3
<1>2. CASE p < r
  <2>1. PICK i \in 0..(n - 1) : i = n + p - r
    BY <1>2
  <2>2. PICK x \in Int : x = q + 1
    OBVIOUS
  <2>3. h + i = n * x + p /\ h + i \in Nat
    <3>1. n * (q + 1) = n * q + n
      OBVIOUS
    <3> QED BY <2>1, <2>2, <3>1
  <2>4. (h + i) % n = p
    BY <2>3, RemainderIsUnique
  <2> QED BY <2>4
<1> QED BY <1>1, <1>2

\* The slot probed after slot p is the one behind it, around the end.
LEMMA ProbesStepOn ==
    ASSUME NEW n \in Nat \ {0}, NEW h \in Nat
    PROVE  (h + 1) % n = ((h % n) + 1) % n
<1> PICK q \in Int, r \in 0..(n - 1) : h = n * q + r /\ r = h % n
  BY Division
<1>1. CASE r + 1 < n
  <2>1. r + 1 \in 0..(n - 1) /\ h + 1 = n * q + (r + 1) /\ r + 1 = n * 0 + (r + 1)
    BY <1>1
  <2>2. PICK s \in 0..(n - 1) : s = r + 1
    BY <2>1
  <2>3. (n * q + s) % n = s /\ (n * 0 + s) % n = s
    <3>1. n * q + s \in Nat /\ n * 0 + s \in Nat
      BY <2>1, <2>2
    <3> QED BY <3>1, RemainderIsUnique
  <2> QED BY <2>1, <2>2, <2>3
<1>2. CASE r + 1 = n
  <2>1. h + 1 = n * (q + 1) + 0 /\ r + 1 = n * 1 + 0
    <3>1. n * (q + 1) = n * q + n
      OBVIOUS
    <3> QED BY <1>2, <3>1
  <2>2. (n * (q + 1) + 0) % n = 0
    <3> PICK x \in Int : x = q + 1
      OBVIOUS
    <3> QED BY <2>1, RemainderIsUnique
  <2>3. (n * 1 + 0) % n = 0
    BY RemainderIsUnique
  <2> QED BY <2>1, <2>2, <2>3
<1> QED BY <1>1, <1>2

----------------------------------------------------------------------------
(* Loops                                                                   *)

\* Induction up to a bound.
LEMMA LoopInduction ==
    ASSUME NEW n \in Nat, NEW S, 0 \in S, \A i \in 1..n : i - 1 \in S => i \in S
    PROVE  \A i \in 0..n : i \in S
<1> DEFINE T == {i \in Nat : i <= n => i \in S}
<1>1. 0 \in T
  OBVIOUS
<1>2. ASSUME NEW i \in T PROVE i + 1 \in T
  <2>1. i \in Nat /\ (i <= n => i \in S)
    OBVIOUS
  <2>2. CASE i + 1 <= n
    <3>1. i + 1 \in 1..n /\ (i + 1) - 1 = i /\ i <= n
      BY <2>1, <2>2
    <3>2. i + 1 \in S
      BY <2>1, <3>1
    <3> QED BY <2>1, <3>2
  <2>3. CASE ~(i + 1 <= n)
    BY <2>1, <2>3
  <2> QED BY <2>2, <2>3
<1>3. T = Nat
  <2>1. T \in SUBSET Nat
    OBVIOUS
  <2> HIDE DEF T
  <2> QED BY <1>1, <1>2, <2>1, NatInductionOnSet
<1> QED
  <2>1. ASSUME NEW i \in 0..n PROVE i \in S
    BY <1>3
  <2> QED BY <2>1

\* What the turns of a loop do to the states in X, for each turn in I.
Turns(I, X) == [I -> [X -> X]]

\* The states a loop goes through, each made from the one before: the recursive function that
\* lists them exists.
LEMMA LoopRuns ==
    ASSUME NEW X, NEW b \in X, NEW n \in Nat, NEW F \in Turns(1..n, X)
    PROVE  \E f \in [0..n -> X] : f[0] = b /\ \A i \in 1..n : f[i] = F[i][f[i - 1]]
<1> USE DEF Turns
<1> DEFINE Run(m, f) == f[0] = b /\ \A i \in 1..m : f[i] = F[i][f[i - 1]]
           S == {m \in 0..n : \E f \in [0..m -> X] : Run(m, f)}
<1>1. 0 \in S
  <2>1. [i \in 0..0 |-> b] \in [0..0 -> X] /\ Run(0, [i \in 0..0 |-> b])
    OBVIOUS
  <2>2. 0 \in 0..n
    OBVIOUS
  <2> HIDE DEF Run
  <2>3. \E f \in [0..0 -> X] : Run(0, f)
    BY <2>1
  <2> QED BY <2>2, <2>3
<1>2. ASSUME NEW m \in 1..n, m - 1 \in S PROVE m \in S
  <2>1. PICK f \in [0..(m - 1) -> X] : Run(m - 1, f)
    BY <1>2
  <2> DEFINE g == [i \in 0..m |-> IF i = m THEN F[m][f[m - 1]] ELSE f[i]]
  <2>2. g \in [0..m -> X]
    <3>1. f[m - 1] \in X /\ F[m] \in [X -> X]
      OBVIOUS
    <3>2. \A i \in 0..m : i # m => i \in 0..(m - 1)
      OBVIOUS
    <3> QED BY <3>1, <3>2
  <2>3. g[0] = b
    BY <2>1
  <2>4. ASSUME NEW i \in 1..m PROVE g[i] = F[i][g[i - 1]]
    <3>1. i - 1 \in 0..m /\ i - 1 # m /\ g[i - 1] = f[i - 1] /\ i \in 0..m
      OBVIOUS
    <3>2. CASE i = m
      BY <3>1, <3>2
    <3>3. CASE i # m
      <4>1. i \in 1..(m - 1) /\ g[i] = f[i]
        BY <3>3
      <4>2. f[i] = F[i][f[i - 1]]
        BY <2>1, <4>1
      <4> QED BY <3>1, <4>1, <4>2
    <3> QED BY <3>2, <3>3
  <2>5. Run(m, g)
    BY <2>3, <2>4
  <2>6. m \in 0..n
    OBVIOUS
  <2> QED BY <2>2, <2>5, <2>6
<1>3. n \in S
  <2> HIDE DEF S
  <2>1. \A m \in 1..n : m - 1 \in S => m \in S
    BY <1>2
  <2>2. \A m \in 0..n : m \in S
    BY <1>1, <2>1, LoopInduction
  <2> QED BY <2>2
<1>4. PICK f \in [0..n -> X] : Run(n, f)
  BY <1>3
<1> QED BY <1>4

\* A loop without end goes through its states too.
LEMMA EndlessLoopRuns ==
    ASSUME NEW X, NEW b \in X, NEW F \in Turns(Nat \ {0}, X)
    PROVE  \E f \in [Nat -> X] : f[0] = b /\ \A i \in Nat : f[i + 1] = F[i + 1][f[i]]
<1> DEFINE Run(n, g) == g \in [0..n -> X] /\ g[0] = b /\ \A i \in 1..n : g[i] = F[i][g[i - 1]]
           G == [n \in Nat |-> CHOOSE g : Run(n, g)]
           f == [n \in Nat |-> G[n][n]]
<1>1. ASSUME NEW n \in Nat PROVE Run(n, G[n])
  <2> DEFINE H == [i \in 1..n |-> F[i]]
  <2>1. H \in Turns(1..n, X)
    BY DEF Turns
  <2>2. \E g \in [0..n -> X] : g[0] = b /\ \A i \in 1..n : g[i] = H[i][g[i - 1]]
    <3> HIDE DEF H, Run, G, f
    <3> QED BY <2>1, LoopRuns
  <2>3. \E g : Run(n, g)
    BY <2>2
  <2> HIDE DEF Run
  <2> QED BY <2>3
<1> HIDE DEF G
<1>2. ASSUME NEW n \in Nat PROVE G[n + 1][n] = G[n][n]
  <2> DEFINE S == {i \in 0..n : G[n + 1][i] = G[n][i]}
  <2>1. Run(n, G[n]) /\ Run(n + 1, G[n + 1])
    BY <1>1
  <2>2. 0 \in S
    BY <2>1
  <2>3. ASSUME NEW i \in 1..n, i - 1 \in S PROVE i \in S
    <3>1. i \in 1..(n + 1) /\ i \in 0..n
      OBVIOUS
    <3> QED BY <2>1, <2>3, <3>1
  <2>4. n \in S
    <3> HIDE DEF S
    <3>1. \A i \in 1..n : i - 1 \in S => i \in S
      BY <2>3
    <3>2. \A i \in 0..n : i \in S
      BY <2>2, <3>1, LoopInduction
    <3> QED BY <3>2
  <2> QED BY <2>4
<1>3. \A n \in Nat : G[n][n] \in X
  BY <1>1
<1>4. G[0][0] = b
  BY <1>1
<1>5. ASSUME NEW n \in Nat PROVE G[n + 1][n + 1] = F[n + 1][G[n][n]]
  <2>1. Run(n + 1, G[n + 1])
    BY <1>1
  <2>2. \A i \in 1..(n + 1) : G[n + 1][i] = F[i][G[n + 1][i - 1]]
    BY <2>1
  <2>3. n + 1 \in 1..(n + 1) /\ (n + 1) - 1 = n
    OBVIOUS
  <2>4. G[n + 1][n + 1] = F[n + 1][G[n + 1][n]]
    BY <2>2, <2>3
  <2> QED BY <1>2, <2>4
<1>6. f \in [Nat -> X] /\ f[0] = b /\ \A i \in Nat : f[i + 1] = F[i + 1][f[i]]
  BY <1>3, <1>4, <1>5
<1> HIDE DEF f
<1> QED BY <1>6
----------------------------------------------------------------------------
(* Sequences of sequences                                                  *)

\* A sequence of one element.
LEMMA SingleIsSeq ==
    ASSUME NEW X, NEW e \in X
    PROVE  <<e>> \in Seq(X)
OBVIOUS

\* f lists what the first parts of s are together.
Joins(f, s, X) ==
    /\ f \in [0..Len(s) -> Seq(X)] /\ f[0] = <<>>
    /\ \A i \in 1..Len(s) : f[i] = f[i - 1] \o s[i]

\* FlattenSeq puts one part behind the other.
LEMMA FlattenJoins ==
    ASSUME NEW X, NEW s \in Seq(Seq(X))
    PROVE  \E f : Joins(f, s, X) /\ FlattenSeq(s) = f[Len(s)]
<1>n. PICK n \in Nat : n = Len(s)
  OBVIOUS
<1>y. PICK Y : Y = Seq(X)
  OBVIOUS
<1>1. \A i \in 1..n : s[i] \in Y
  BY <1>n, <1>y
<1>2. <<>> \in Y
  BY <1>y
<1>e. \A x \in Y : <<>> \o x = x
  BY <1>y, ConcatEmptySeq
<1>j. \A x, y \in Y : x \o y \in Y
  BY <1>y, ConcatProperties
<1> DEFINE F == [i \in 1..n |-> [x \in Y |-> x \o s[i]]]
<1>f. \A i \in 1..n : \A x \in Y : F[i][x] = x \o s[i]
  OBVIOUS
<1>3. F \in Turns(1..n, Y)
  <2>1. \A i \in 1..n : [x \in Y |-> x \o s[i]] \in [Y -> Y]
    BY <1>1, <1>j
  <2> QED BY <2>1 DEF Turns
<1> HIDE DEF F
<1>4. PICK f \in [0..n -> Y] : f[0] = <<>> /\ \A i \in 1..n : f[i] = F[i][f[i - 1]]
  BY <1>2, <1>3, LoopRuns
<1>5. \A i \in 1..n : f[i] = f[i - 1] \o s[i]
  <2> TAKE i \in 1..n
  <2>1. f[i - 1] \in Y
    OBVIOUS
  <2>2. f[i] = F[i][f[i - 1]]
    BY <1>4
  <2> QED BY <1>f, <2>1, <2>2
<1>6. CASE n = 0
  <2>1. s = <<>>
    BY <1>n, <1>6, EmptySeq
  <2>2. FlattenSeq(<<>>) = <<>>
    BY Zenon DEF FlattenSeq
  <2>3. Joins(f, s, X)
    BY <1>n, <1>y, <1>4, <1>6 DEF Joins
  <2> QED BY <1>n, <1>4, <1>6, <2>1, <2>2, <2>3
<1>7. CASE n # 0
  <2> DEFINE Solves(g) == g = [i \in 1..n |-> IF i = 1 THEN s[i] ELSE g[i - 1] \o s[i]]
  <2> DEFINE h == [i \in 1..n |-> f[i]]
             c == CHOOSE g : Solves(g)
  <2>1. Solves(h)
    <3>1. ASSUME NEW i \in 1..n PROVE h[i] = IF i = 1 THEN s[i] ELSE h[i - 1] \o s[i]
      <4>1. CASE i = 1
        <5>3. f[i] = f[i - 1] \o s[i] /\ s[i] \in Y
          BY <1>1, <1>5
        <5>1. f[1] = f[0] \o s[1] /\ s[1] \in Y
          BY <4>1, <5>3
        <5>2. <<>> \o s[1] = s[1]
          BY <5>1, <1>e
        <5> QED BY <1>4, <4>1, <5>1, <5>2
      <4>2. CASE i # 1
        <5>1. i - 1 \in 1..n /\ h[i - 1] = f[i - 1]
          BY <4>2
        <5> QED BY <1>5, <4>2, <5>1
      <4> QED BY <4>1, <4>2
    <3> QED BY <3>1
  <2>2. Solves(c)
    <3> HIDE DEF h, Solves
    <3> QED BY <2>1
  <2>3. FlattenSeq(s) = c[n]
    BY <1>n, <1>7 DEF FlattenSeq
  <2> HIDE DEF c
  <2> DEFINE k == [i \in 0..n |-> IF i = 0 THEN <<>> ELSE c[i]]
  <2>4. k[0] = <<>> /\ k[n] = c[n]
    BY <1>7
  <2>5. \A i \in 1..n : k[i] = k[i - 1] \o s[i]
    <3> TAKE i \in 1..n
    <3>1. k[i] = c[i]
      OBVIOUS
    <3> HIDE DEF c
    <3>0. c[i] = IF i = 1 THEN s[i] ELSE c[i - 1] \o s[i]
      BY <2>2
    <3>2. CASE i = 1
      <4>1. k[i - 1] = <<>> /\ s[1] \in Y
        BY <1>1, <3>2
      <4>2. <<>> \o s[1] = s[1]
        BY <4>1, <1>e
      <4> QED BY <3>0, <3>1, <3>2, <4>1, <4>2
    <3>3. CASE i # 1
      <4>1. k[i - 1] = c[i - 1]
        BY <3>3
      <4> QED BY <3>0, <3>1, <3>3, <4>1
    <3> QED BY <3>2, <3>3
  <2>6. k \in [0..n -> Y]
    <3> DEFINE S == {i \in 0..n : k[i] \in Y}
    <3>1. 0 \in S
      BY <1>2, <2>4
    <3> HIDE DEF k
    <3>2. ASSUME NEW i \in 1..n, i - 1 \in S PROVE i \in S
      <4>1. k[i - 1] \in Y /\ s[i] \in Y /\ i \in 0..n
        BY <1>1, <3>2
      <4>2. k[i - 1] \o s[i] \in Y
        BY <1>j, <4>1
      <4>3. k[i] = k[i - 1] \o s[i]
        BY <2>5
      <4> QED BY <4>1, <4>2, <4>3
    <3>3. \A i \in 0..n : i \in S
      <4> HIDE DEF S
      <4>1. \A i \in 1..n : i - 1 \in S => i \in S
        BY <3>2
      <4> QED BY <3>1, <4>1, LoopInduction
    <3>4. \A i \in 0..n : k[i] \in Y
      BY <3>3
    <3> QED BY <3>4 DEF k
  <2> HIDE DEF k
  <2> QED BY <1>n, <1>y, <2>3, <2>4, <2>5, <2>6 DEF Joins
<1> QED BY <1>6, <1>7

\* Concatenation is associative, for all sequences over X at once.
Associates(Y) == \A x, y, z \in Y : (x \o y) \o z = x \o (y \o z)

LEMMA ConcatAssociates ==
    ASSUME NEW X
    PROVE  Associates(Seq(X))
BY ConcatAssociative DEF Associates

\* The parts of two sequences, one sequence behind the other.
LEMMA FlattenConcat ==
    ASSUME NEW X, NEW s \in Seq(Seq(X)), NEW t \in Seq(Seq(X))
    PROVE  FlattenSeq(s \o t) = FlattenSeq(s) \o FlattenSeq(t)
<1>m. PICK m \in Nat : m = Len(s)
  OBVIOUS
<1>n. PICK n \in Nat : n = Len(t)
  OBVIOUS
<1>y. PICK Y : Y = Seq(X)
  OBVIOUS
<1>s. s \o t \in Seq(Seq(X))
  BY ConcatProperties, Zenon
<1>r. PICK r \in Seq(Seq(X)) : r = s \o t
  BY <1>s, Zenon
<1>a. Associates(Y)
  BY <1>y, ConcatAssociates, Zenon
<1>e. \A x \in Y : x \o <<>> = x
  BY <1>y, ConcatEmptySeq, Zenon
<1>1. /\ \A i \in 1..m : r[i] = s[i] /\ s[i] \in Y
      /\ \A i \in 1..n : r[m + i] = t[i] /\ t[i] \in Y
      /\ Len(r) = m + n
  BY <1>m, <1>n, <1>r, <1>y, ConcatProperties
<1>2. PICK f \in [0..m -> Y] : /\ f[0] = <<>> /\ FlattenSeq(s) = f[m]
                               /\ \A i \in 1..m : f[i] = f[i - 1] \o s[i]
  <2>1. PICK f : Joins(f, s, X) /\ FlattenSeq(s) = f[Len(s)]
    BY FlattenJoins
  <2> QED BY <1>m, <1>y, <2>1 DEF Joins
<1>3. PICK g \in [0..n -> Y] : /\ g[0] = <<>> /\ FlattenSeq(t) = g[n]
                               /\ \A i \in 1..n : g[i] = g[i - 1] \o t[i]
  <2>1. PICK g : Joins(g, t, X) /\ FlattenSeq(t) = g[Len(t)]
    BY FlattenJoins
  <2> QED BY <1>n, <1>y, <2>1 DEF Joins
<1>4. PICK h \in [0..(m + n) -> Y] : /\ h[0] = <<>> /\ FlattenSeq(r) = h[m + n]
                                     /\ \A i \in 1..(m + n) : h[i] = h[i - 1] \o r[i]
  <2>1. PICK h : Joins(h, r, X) /\ FlattenSeq(r) = h[Len(r)]
    BY FlattenJoins
  <2> QED BY <1>1, <1>y, <2>1 DEF Joins
<1>5. \A i \in 0..m : h[i] = f[i]
  <2> DEFINE S == {i \in 0..m : h[i] = f[i]}
  <2>1. 0 \in S
    BY <1>2, <1>4
  <2>2. ASSUME NEW i \in 1..m, i - 1 \in S PROVE i \in S
    <3>1. i \in 0..m /\ i \in 1..(m + n) /\ h[i - 1] = f[i - 1]
      BY <2>2
    <3>2. h[i] = h[i - 1] \o r[i]
      BY <1>4, <3>1
    <3>3. f[i] = f[i - 1] \o s[i]
      BY <1>2
    <3>4. r[i] = s[i]
      BY <1>1
    <3> QED BY <3>1, <3>2, <3>3, <3>4
  <2>3. \A i \in 0..m : i \in S
    <3> HIDE DEF S
    <3>1. \A i \in 1..m : i - 1 \in S => i \in S
      BY <2>2
    <3> QED BY <2>1, <3>1, LoopInduction
  <2> QED BY <2>3
<1>6. \A i \in 0..n : h[m + i] = f[m] \o g[i]
  <2> DEFINE S == {i \in 0..n : h[m + i] = f[m] \o g[i]}
  <2>1. 0 \in S
    <3>1. f[m] \in Y /\ h[m] = f[m]
      BY <1>5
    <3>2. f[m] \o <<>> = f[m]
      BY <1>e, <3>1
    <3>3. h[m + 0] = f[m] \o g[0]
      BY <1>3, <3>1, <3>2
    <3> QED BY <3>3
  <2>2. ASSUME NEW i \in 1..n, i - 1 \in S PROVE i \in S
    <3>1. i \in 0..n /\ m + i \in 1..(m + n) /\ (m + i) - 1 = m + (i - 1) /\ i - 1 \in 0..n /\ m \in 0..m
      OBVIOUS
    <3>2. h[m + i] = h[m + (i - 1)] \o r[m + i]
      BY <1>4, <3>1
    <3>3. g[i] = g[i - 1] \o t[i]
      BY <1>3
    <3>4. r[m + i] = t[i] /\ t[i] \in Y
      BY <1>1
    <3>5. h[m + (i - 1)] = f[m] \o g[i - 1]
      BY <2>2
    <3>6. f[m] \in Y /\ g[i - 1] \in Y
      BY <3>1
    <3>7. (f[m] \o g[i - 1]) \o t[i] = f[m] \o (g[i - 1] \o t[i])
      BY <1>a, <3>4, <3>6 DEF Associates
    <3>8. h[m + i] = f[m] \o g[i]
      BY <3>2, <3>3, <3>4, <3>5, <3>7
    <3> QED BY <3>1, <3>8
  <2>3. \A i \in 0..n : i \in S
    <3> HIDE DEF S
    <3>1. \A i \in 1..n : i - 1 \in S => i \in S
      BY <2>2
    <3> QED BY <2>1, <3>1, LoopInduction
  <2> QED BY <2>3
<1>7. h[m + n] = f[m] \o g[n]
  BY <1>6
<1> QED BY <1>r, <1>2, <1>3, <1>4, <1>7

\* What the parts are together is of the kind of the parts.
LEMMA FlattenIsSeq ==
    ASSUME NEW X, NEW s \in Seq(Seq(X))
    PROVE  FlattenSeq(s) \in Seq(X)
<1>1. PICK f : Joins(f, s, X) /\ FlattenSeq(s) = f[Len(s)]
  BY FlattenJoins
<1>2. Len(s) \in 0..Len(s)
  OBVIOUS
<1>3. f \in [0..Len(s) -> Seq(X)]
  BY <1>1 DEF Joins
<1> QED BY <1>1, <1>2, <1>3

\* No part at all.
LEMMA FlattenNone == FlattenSeq(<<>>) = <<>>
BY Zenon DEF FlattenSeq

\* A single part.
LEMMA FlattenOne ==
    ASSUME NEW X, NEW e \in Seq(X)
    PROVE  FlattenSeq(<<e>>) = e
<1>1. <<e>> \in Seq(Seq(X)) /\ Len(<<e>>) = 1 /\ <<e>>[1] = e
  OBVIOUS
<1>2. PICK s \in Seq(Seq(X)) : s = <<e>>
  BY <1>1
<1>3. Len(s) = 1 /\ s[1] = e
  BY <1>1, <1>2
<1>4. PICK f : Joins(f, s, X) /\ FlattenSeq(s) = f[Len(s)]
  BY FlattenJoins
<1>5. f[0] = <<>> /\ f[1] = f[0] \o s[1]
  BY <1>3, <1>4 DEF Joins
<1>6. <<>> \o e = e
  BY ConcatEmptySeq
<1>7. FlattenSeq(s) = e
  BY <1>3, <1>4, <1>5, <1>6
<1> QED BY <1>2, <1>7

\* One more part.
LEMMA FlattenAppend ==
    ASSUME NEW X, NEW s \in Seq(Seq(X)), NEW e \in Seq(X)
    PROVE  FlattenSeq(Append(s, e)) = FlattenSeq(s) \o e
<1>1. Append(s, e) = s \o <<e>> /\ <<e>> \in Seq(Seq(X))
  BY AppendIsConcat
<1>2. FlattenSeq(s \o <<e>>) = FlattenSeq(s) \o FlattenSeq(<<e>>)
  BY <1>1, FlattenConcat
<1>3. FlattenSeq(<<e>>) = e
  BY FlattenOne
<1> QED BY <1>1, <1>2, <1>3

\* Parts that are not empty are together at least as long as there are parts.
LEMMA FlattenIsLong ==
    ASSUME NEW X, NEW s \in Seq(Seq(X) \ {<<>>})
    PROVE  /\ s \in Seq(Seq(X))
           /\ Len(FlattenSeq(s)) >= Len(s)
<1>n. PICK n \in Nat : n = Len(s)
  OBVIOUS
<1>y. PICK Y : Y = Seq(X)
  OBVIOUS
<1>1. \A i \in 1..n : s[i] \in Y /\ s[i] # <<>>
  BY <1>n, <1>y, ElementOfSeq
<1>2. s \in Seq(Seq(X))
  BY SeqMonotonic, Zenon
<1>3. PICK f \in [0..n -> Y] : /\ f[0] = <<>> /\ FlattenSeq(s) = f[n]
                               /\ \A i \in 1..n : f[i] = f[i - 1] \o s[i]
  <2>1. PICK f : Joins(f, s, X) /\ FlattenSeq(s) = f[Len(s)]
    BY <1>2, FlattenJoins
  <2> QED BY <1>n, <1>y, <2>1 DEF Joins
<1>4. \A x \in Y : Len(x) \in Nat /\ (x # <<>> => Len(x) > 0)
  BY <1>y, EmptySeq
<1>5. \A x, y \in Y : Len(x \o y) = Len(x) + Len(y)
  BY <1>y, ConcatProperties
<1> DEFINE S == {i \in 0..n : Len(f[i]) >= i}
<1>6. 0 \in S
  BY <1>3
<1>7. ASSUME NEW i \in 1..n, i - 1 \in S PROVE i \in S
  <2>1. f[i - 1] \in Y /\ Len(f[i - 1]) >= i - 1 /\ i \in 0..n
    BY <1>7
  <2>2. s[i] \in Y /\ s[i] # <<>>
    BY <1>1
  <2>3. Len(f[i - 1] \o s[i]) = Len(f[i - 1]) + Len(s[i])
    BY <1>5, <2>1, <2>2
  <2>4. Len(s[i]) > 0 /\ Len(s[i]) \in Nat /\ Len(f[i - 1]) \in Nat
    BY <1>4, <2>1, <2>2
  <2>5. f[i] = f[i - 1] \o s[i]
    BY <1>3
  <2>6. Len(f[i]) >= i
    <3>1. PICK a \in Nat : a = Len(f[i - 1])
      BY <2>4, Zenon
    <3>2. PICK b \in Nat : b = Len(s[i])
      BY <2>4, Zenon
    <3>3. Len(f[i]) = a + b
      BY <2>3, <2>5, <3>1, <3>2, Zenon
    <3>4. a >= i - 1 /\ b > 0
      BY <2>1, <2>4, <3>1, <3>2, Zenon
    <3>5. a + b >= i
      BY <3>4
    <3> QED BY <3>3, <3>5, Zenon
  <2> QED BY <2>1, <2>6
<1>8. \A i \in 0..n : i \in S
  <2> HIDE DEF S
  <2>1. \A i \in 1..n : i - 1 \in S => i \in S
    BY <1>7
  <2> QED BY <1>6, <2>1, LoopInduction
<1>9. Len(f[n]) >= n
  BY <1>8
<1> QED BY <1>n, <1>2, <1>3, <1>9

\* Parts of a single element each are together the sequence of the elements.
LEMMA FlattenSingles ==
    ASSUME NEW X, NEW s \in Seq(X)
    PROVE  /\ [i \in 1..Len(s) |-> <<s[i]>>] \in Seq(Seq(X) \ {<<>>})
           /\ FlattenSeq([i \in 1..Len(s) |-> <<s[i]>>]) = s
<1>n. PICK n \in Nat : n = Len(s)
  OBVIOUS
<1>1. \A i \in 1..n : s[i] \in X
  BY <1>n
<1>2. \A i \in 1..n : <<s[i]>> \in Seq(X) \ {<<>>}
  BY <1>1
<1>3. [i \in 1..n |-> <<s[i]>>] \in Seq(Seq(X) \ {<<>>})
  BY <1>2, IsASeq
<1>p. PICK p \in Seq(Seq(X) \ {<<>>}) : p = [i \in 1..n |-> <<s[i]>>]
  BY <1>3
<1>4. Len(p) = n /\ p \in Seq(Seq(X)) /\ \A i \in 1..n : p[i] = <<s[i]>>
  BY <1>p, FlattenIsLong
<1>5. PICK f : /\ f[0] = <<>> /\ FlattenSeq(p) = f[n]
               /\ \A i \in 1..n : f[i] = f[i - 1] \o p[i]
  <2>1. PICK f : Joins(f, p, X) /\ FlattenSeq(p) = f[Len(p)]
    BY <1>4, FlattenJoins
  <2> QED BY <1>4, <2>1 DEF Joins
<1>6. \A i \in 1..n : SubSeq(s, 1, i) = SubSeq(s, 1, i - 1) \o <<s[i]>>
  BY <1>n, SubSeqRecursiveSecond
<1>7. SubSeq(s, 1, 0) = <<>> /\ SubSeq(s, 1, n) = s
  BY <1>n, SubSeqEmpty, SubSeqFull
<1> DEFINE S == {i \in 0..n : f[i] = SubSeq(s, 1, i)}
<1>8. 0 \in S
  <2>1. f[0] = SubSeq(s, 1, 0)
    BY <1>5, <1>7, Zenon
  <2> QED BY <2>1
<1>9. ASSUME NEW i \in 1..n, i - 1 \in S PROVE i \in S
  <2>1. f[i] = f[i - 1] \o <<s[i]>>
    BY <1>4, <1>5
  <2>2. f[i - 1] = SubSeq(s, 1, i - 1) /\ i \in 0..n
    BY <1>9
  <2>3. f[i] = SubSeq(s, 1, i)
    BY <1>6, <2>1, <2>2
  <2> QED BY <2>2, <2>3
<1>10. \A i \in 0..n : i \in S
  <2> HIDE DEF S
  <2>1. \A i \in 1..n : i - 1 \in S => i \in S
    BY <1>9
  <2> QED BY <1>8, <2>1, LoopInduction
<1>11. f[n] = SubSeq(s, 1, n)
  BY <1>10
<1> QED BY <1>n, <1>3, <1>p, <1>5, <1>7, <1>11
=============================================================================
