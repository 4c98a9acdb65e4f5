-------------------------- MODULE ChnBytecodeProofs --------------------------
(***************************************************************************)
(* Theorems about the files of ChnBytecode, for any functions, programs    *)
(* and renaming, and any size of the registry: torn files are refused,     *)
(* code comes back as it was, bundles offer what they export, and, for     *)
(* programs whose names are clear, references back are linked.             *)
(***************************************************************************)
EXTENDS ChnBytecode, CommonLemmas

\* A program and whether names are shortened when it is written.
Writing == [prog : Programs, minify : BOOLEAN]

\* What was last written to each path.
Writings == {W \in [Paths -> Writing] : \A P \in Paths : W[P].prog.path = P}

Pieces(w) == ToSet(Written(w.prog, w.minify))

\* What is at a path are pieces of what was written there.
DiskInv(W) ==
    /\ DOMAIN disk = Paths
    /\ \A P \in Paths : disk[P] \in Seq(Pieces(W[P]))
    /\ writing = Idle \/ \E P \in Paths : \E s \in Seq(Pieces(W[P])) :
                            s # <<>> /\ writing = [path |-> P, todo |-> s]

\* While a process runs nothing is written, and it runs a file that it could open.
JobInv ==
    /\ job = NoJob => registry = <<>> /\ entry = <<>> /\ todo = <<>> /\ offered = <<>>
    /\ job # NoJob => writing = Idle
    /\ offered \in Seq(Range(offered))
    /\ job.kind \in {None, "source", "program", "bundle"}
    /\ job.kind = "program" => /\ \E p \in Programs : p.path = job.path /\ p.kind = "program"
                               /\ chno_open(disk[job.path]) = "ok"
    /\ job.kind = "bundle" => job.path \in Paths /\ cco_open(disk[job.path]) = "ok"

\* The functions stored at P.
StoredAt(w) == {StoredFunction(f, w.minify) : f \in InFile(w.prog)}

\* Function i of the registry was read from a file of S, those before it being there.
FromFile(reg, W, S, i) ==
    \E P \in S : \E o \in StoredAt(W[P]) : reg[i] = Loaded(o, SubSeq(reg, 1, i - 1))

\* The registry of a process that runs the source of p has its own functions and those it
\* imported; another has those of files.
SourceOrigins(W, p) ==
    /\ p.kind = "program" /\ ToSet(todo) \subseteq ToSet(p.imports)
    /\ \A i \in 1..Len(registry) :
          \/ \E f \in ToSet(p.units[1].funcs) : registry[i] = Compiled(f)
          \/ FromFile(registry, W, ToSet(p.imports), i)

Origins(W) ==
    IF job.kind = "source" THEN \E p \in Programs : SourceOrigins(W, p)
    ELSE \A i \in 1..Len(registry) : FromFile(registry, W, Paths, i)

RegistryInv(W) ==
    /\ registry \in Seq(Range(registry)) /\ Len(registry) <= MaxRegistry
    /\ todo \in Seq(Paths)
    /\ Origins(W)

\* The main code of a process was read from a file.
EntryInv ==
    entry = <<>> \/ \E f \in Id, m \in BOOLEAN : \E reg :
                       entry = <<Loaded(StoredMain(f, m), reg)>>

FileInv == \E W \in Writings : DiskInv(W) /\ RegistryInv(W)

Inv == FileInv /\ JobInv /\ EntryInv


----------------------------------------------------------------------------
(* Code                                                                    *)

\* The writer skips what the machine reads.
LEMMA OperandsAgree ==
    /\ opcode_extra = OperandBytes
    /\ OperandBytes \in [Byte -> Nat]
    /\ OperandBytes[OP_CONST] = 2
<1>1. \A op \in Byte :
         /\ opcode_extra[op] = OperandBytes[op]
         /\ OperandBytes[op] \in Nat
  BY DEF opcode_extra, OperandBytes, OP_CONST, OP_JUMP, OP_INPUT
<1>2. OperandBytes[OP_CONST] = 2
  BY DEF OperandBytes, OP_CONST, OP_JUMP, OP_INPUT, Byte
<1>3. /\ opcode_extra = [op \in Byte |-> opcode_extra[op]]
      /\ OperandBytes = [op \in Byte |-> OperandBytes[op]]
  BY DEF opcode_extra, OperandBytes
<1> QED BY <1>1, <1>2, <1>3

\* next lists where the walk over code goes on behind each byte.
Walks(next, code, extra) ==
    /\ next \in [0..Len(code) -> Nat] /\ next[0] = 1
    /\ \A n \in 1..Len(code) :
          next[n] = IF n < next[n - 1] THEN next[n - 1] ELSE n + 1 + extra[code[n]]

LEMMA InstructionsWalk ==
    ASSUME NEW code \in Seq(Byte), NEW extra \in [Byte -> Nat]
    PROVE  \E next : Walks(next, code, extra) /\ Instructions(code, extra) = {i \in 1..Len(code) : next[i - 1] = i}
<1>n. PICK n \in Nat : n = Len(code)
  OBVIOUS
<1>d. PICK d \in [1..n -> Nat] : \A i \in 1..n : d[i] = extra[code[i]]
  <2>1. [i \in 1..n |-> extra[code[i]]] \in [1..n -> Nat]
    BY <1>n
  <2> QED BY <2>1
<1> DEFINE On(m, i) == IF i < m THEN m ELSE i + 1 + d[i]
           F == [i \in 1..n |-> [m \in Nat |-> On(m, i)]]
<1>1. \A i \in 1..n : \A m \in Nat : On(m, i) \in Nat
  OBVIOUS
<1>2. \A i \in 1..n : \A m \in Nat : F[i][m] = On(m, i)
  <2> HIDE DEF On
  <2> QED OBVIOUS
<1>3. F \in Turns(1..n, Nat)
  <2> HIDE DEF On
  <2> QED BY <1>1 DEF Turns
<1> HIDE DEF F, On
<1>4. PICK f \in [0..n -> Nat] : f[0] = 1 /\ \A i \in 1..n : f[i] = F[i][f[i - 1]]
  <2>1. PICK X : X = Nat
    OBVIOUS
  <2>2. PICK b \in X : b = 1
    BY <2>1
  <2>3. F \in Turns(1..n, X)
    BY <1>3, <2>1, Zenon
  <2>4. PICK f \in [0..n -> X] : f[0] = b /\ \A i \in 1..n : f[i] = F[i][f[i - 1]]
    BY <2>3, LoopRuns
  <2> QED BY <2>1, <2>2, <2>4, Zenon
<1>5. \A i \in 1..n : f[i] = On(f[i - 1], i)
  <2> TAKE i \in 1..n
  <2>1. f[i - 1] \in Nat /\ f[i] = F[i][f[i - 1]]
    BY <1>4
  <2> QED BY <1>2, <2>1, Zenon
<1> USE DEF On
<1> DEFINE Solves(g) == g = [i \in 0..n |-> IF i = 0 THEN 1 ELSE LET m == g[i - 1] IN
                                            IF i < m THEN m ELSE i + 1 + extra[code[i]]]
           c == CHOOSE g : Solves(g)
<1>6. Solves(f)
  <2>1. \A i \in 0..n : f[i] = IF i = 0 THEN 1 ELSE On(f[i - 1], i)
    <3> HIDE DEF On
    <3> QED BY <1>4, <1>5
  <2>2. \A i \in 0..n : i # 0 => On(f[i - 1], i) = LET m == f[i - 1] IN IF i < m THEN m ELSE i + 1 + extra[code[i]]
    <3> TAKE i \in 0..n
    <3> HAVE i # 0
    <3>1. d[i] = extra[code[i]]
      BY <1>d
    <3> QED BY <3>1, Zenon
  <2> HIDE DEF On
  <2>3. f = [i \in 0..n |-> f[i]]
    OBVIOUS
  <2> QED BY <2>1, <2>2, <2>3
<1>7. Solves(c)
  <2> HIDE DEF Solves
  <2> QED BY <1>6
<1>8. Instructions(code, extra) = {i \in 1..n : c[i - 1] = i}
  BY <1>n, Zenon DEF Instructions
<1> HIDE DEF c
<1>9. c[0] = 1 /\ c = [i \in 0..n |-> c[i]]
  BY <1>7
<1>10. \A i \in 1..n : c[i] = IF i < c[i - 1] THEN c[i - 1] ELSE i + 1 + extra[code[i]]
  <2> TAKE i \in 1..n
  <2>1. i \in 0..n /\ i # 0
    OBVIOUS
  <2> QED BY <1>7, <2>1, Zenon
<1>11. \A i \in 0..n : c[i] = f[i]
  <2> DEFINE S == {i \in 0..n : c[i] = f[i]}
  <2>1. 0 \in S
    BY <1>4, <1>9
  <2>2. ASSUME NEW i \in 1..n, i - 1 \in S PROVE i \in S
    <3>1. c[i - 1] = f[i - 1] /\ d[i] = extra[code[i]] /\ i \in 0..n
      BY <1>d, <2>2
    <3>2. c[i] = On(c[i - 1], i)
      BY <1>10, <3>1, Zenon
    <3> QED BY <1>5, <3>1, <3>2, Zenon
  <2>3. \A i \in 0..n : i \in S
    <3> HIDE DEF S
    <3>1. \A i \in 1..n : i - 1 \in S => i \in S
      BY <2>2
    <3> QED BY <2>1, <3>1, LoopInduction
  <2> QED BY <2>3
<1>12. c \in [0..n -> Nat]
  BY <1>9, <1>11
<1>13. Walks(c, code, extra)
  BY <1>n, <1>9, <1>10, <1>12, Zenon DEF Walks
<1> QED BY <1>n, <1>8, <1>13, Zenon

\* No instruction begins among the operands of another.
LEMMA InstructionsApart ==
    ASSUME NEW code \in Seq(Byte), NEW extra \in [Byte -> Nat],
           NEW i \in Instructions(code, extra), NEW j \in Instructions(code, extra), i < j
    PROVE  i + extra[code[i]] < j
<1>n. PICK n \in Nat : n = Len(code)
  OBVIOUS
<1>1. PICK next : Walks(next, code, extra) /\ Instructions(code, extra) = {k \in 1..Len(code) : next[k - 1] = k}
  BY InstructionsWalk
<1>2. /\ next \in [0..n -> Nat]
      /\ \A k \in 1..n : next[k] = IF k < next[k - 1] THEN next[k - 1] ELSE k + 1 + extra[code[k]]
  BY <1>n, <1>1 DEF Walks
<1>3. i \in 1..n /\ j \in 1..n /\ next[i - 1] = i /\ next[j - 1] = j
  BY <1>n, <1>1
<1>4. \A k \in 1..n : extra[code[k]] \in Nat
  BY <1>n
<1>5. next[i] = i + 1 + extra[code[i]]
  BY <1>2, <1>3
<1> DEFINE S == {k \in 0..n : k >= i => next[k] >= next[i]}
<1>6. 0 \in S
  BY <1>3
<1>7. ASSUME NEW k \in 1..n, k - 1 \in S PROVE k \in S
  <2>1. CASE k <= i
    BY <1>3, <1>2, <2>1
  <2>2. CASE k > i
    <3>1. next[k - 1] >= next[i] /\ next[k - 1] \in Nat /\ next[i] \in Nat
      BY <1>2, <1>3, <1>7, <2>2
    <3>2. next[k] >= next[k - 1]
      <4>1. PICK m \in Nat : m = next[k - 1]
        BY <3>1
      <4>2. PICK e \in Nat : e = extra[code[k]]
        BY <1>4
      <4>3. next[k] = IF k < m THEN m ELSE k + 1 + e
        BY <1>2, <4>1, <4>2
      <4> QED BY <4>1, <4>3
    <3>3. next[k] \in Nat
      BY <1>2
    <3> QED BY <3>1, <3>2, <3>3
  <2> QED BY <1>3, <2>1, <2>2
<1>8. \A k \in 0..n : k \in S
  <2> HIDE DEF S
  <2>1. \A k \in 1..n : k - 1 \in S => k \in S
    BY <1>7
  <2> QED BY <1>6, <2>1, LoopInduction
<1>9. next[j - 1] >= next[i]
  BY <1>3, <1>8
<1> QED BY <1>3, <1>4, <1>5, <1>9

----------------------------------------------------------------------------
(* Constants                                                               *)

\* A pool that grows has what it had and what is appended.
LEMMA PoolGrows ==
    ASSUME NEW C, NEW pool \in Seq(C), NEW e \in C
    PROVE  /\ InPool(e, Append(pool, e))
           /\ \A c : InPool(c, pool) => InPool(c, Append(pool, e))
<1>n. PICK n \in Nat : n = Len(pool)
  OBVIOUS
<1>a. PICK a \in Seq(C) : a = Append(pool, e)
  BY AppendProperties
<1>1. Len(a) = n + 1 /\ a[n + 1] = e /\ \A j \in 1..n : a[j] = pool[j]
  BY <1>n, <1>a
<1>2. const_eq(e, e)
  BY DEF const_eq
<1>3. InPool(e, a)
  BY <1>1, <1>2 DEF InPool
<1>4. ASSUME NEW c, InPool(c, pool) PROVE InPool(c, a)
  <2>1. PICK j \in 1..n : const_eq(c, pool[j])
    BY <1>n, <1>4 DEF InPool
  <2>2. j \in 1..Len(a) /\ a[j] = pool[j]
    BY <1>1
  <2> QED BY <2>1, <2>2, Zenon DEF InPool
<1> QED BY <1>a, <1>3, <1>4, Zenon

\* kept lists the pools of the first constants.
Keeps(kept, consts, C) ==
    /\ kept \in [0..Len(consts) -> Seq(C)] /\ kept[0] = <<>>
    /\ \A i \in 1..Len(consts) :
          kept[i] = IF InPool(consts[i], kept[i - 1]) THEN kept[i - 1] ELSE Append(kept[i - 1], consts[i])

LEMMA DedupKeeps ==
    ASSUME NEW C, NEW consts \in Seq(C)
    PROVE  \E kept : Keeps(kept, consts, C) /\ dedup_constants(consts) = kept[Len(consts)]
<1>n. PICK n \in Nat : n = Len(consts)
  OBVIOUS
<1>y. PICK Y : Y = Seq(C)
  OBVIOUS
<1>b. <<>> \in Y
  BY <1>y
<1> DEFINE Turn(m, i) == IF InPool(consts[i], m) THEN m ELSE Append(m, consts[i])
<1>1. \A i \in 1..n : \A m \in Y : Turn(m, i) \in Y
  BY <1>n, <1>y
<1> HIDE DEF Turn
<1> DEFINE F == [i \in 1..n |-> [m \in Y |-> Turn(m, i)]]
<1>2. \A i \in 1..n : \A m \in Y : F[i][m] = Turn(m, i)
  OBVIOUS
<1>3. F \in Turns(1..n, Y)
  BY <1>1 DEF Turns
<1> HIDE DEF F
<1>4. PICK f \in [0..n -> Y] : f[0] = <<>> /\ \A i \in 1..n : f[i] = F[i][f[i - 1]]
  BY <1>b, <1>3, LoopRuns
<1>5. \A i \in 1..n : f[i] = Turn(f[i - 1], i)
  <2> TAKE i \in 1..n
  <2>1. f[i - 1] \in Y /\ f[i] = F[i][f[i - 1]]
    BY <1>4
  <2> QED BY <1>2, <2>1, Zenon
<1> DEFINE Solves(g) == g = [i \in 0..n |-> IF i = 0 THEN <<>> ELSE Turn(g[i - 1], i)]
           c == CHOOSE g : Solves(g)
<1>6. Solves(f)
  <2>1. \A i \in 0..n : f[i] = IF i = 0 THEN <<>> ELSE Turn(f[i - 1], i)
    BY <1>4, <1>5
  <2> QED BY <2>1
<1>7. Solves(c)
  <2> HIDE DEF Solves
  <2> QED BY <1>6
<1>8. dedup_constants(consts) = c[n]
  BY <1>n, Zenon DEF Turn, dedup_constants
<1> HIDE DEF c
<1>9. c[0] = <<>> /\ c = [i \in 0..n |-> c[i]]
  BY <1>7
<1>10. \A i \in 1..n : c[i] = Turn(c[i - 1], i)
  <2> TAKE i \in 1..n
  <2>1. i \in 0..n /\ i # 0
    OBVIOUS
  <2> QED BY <1>7, <2>1, Zenon
<1>11. \A i \in 0..n : c[i] \in Y
  <2> DEFINE S == {i \in 0..n : c[i] \in Y}
  <2>1. 0 \in S
    BY <1>b, <1>9
  <2>2. ASSUME NEW i \in 1..n, i - 1 \in S PROVE i \in S
    BY <1>1, <1>10, <2>2
  <2>3. \A i \in 0..n : i \in S
    <3> HIDE DEF S
    <3>1. \A i \in 1..n : i - 1 \in S => i \in S
      BY <2>2
    <3> QED BY <2>1, <3>1, LoopInduction
  <2> QED BY <2>3
<1>12. c \in [0..n -> Y]
  BY <1>9, <1>11
<1>13. Keeps(c, consts, C)
  BY <1>n, <1>y, <1>9, <1>10, <1>12, Zenon DEF Keeps, Turn
<1> QED BY <1>n, <1>8, <1>13, Zenon

\* The pool has an equal of every constant.
LEMMA PoolHasAll ==
    ASSUME NEW C, NEW consts \in Seq(C)
    PROVE  /\ dedup_constants(consts) \in Seq(C)
           /\ \A k \in 1..Len(consts) : InPool(consts[k], dedup_constants(consts))
<1>n. PICK n \in Nat : n = Len(consts)
  OBVIOUS
<1>0. PICK kept : Keeps(kept, consts, C) /\ dedup_constants(consts) = kept[n]
  BY <1>n, DedupKeeps
<1>1. /\ kept \in [0..n -> Seq(C)]
      /\ \A i \in 1..n : /\ consts[i] \in C
                         /\ kept[i] = IF InPool(consts[i], kept[i - 1]) THEN kept[i - 1]
                                      ELSE Append(kept[i - 1], consts[i])
  BY <1>n, <1>0 DEF Keeps
<1> DEFINE S == {i \in 0..n : \A k \in 1..i : InPool(consts[k], kept[i])}
<1>2. 0 \in S
  OBVIOUS
<1>3. ASSUME NEW i \in 1..n, i - 1 \in S PROVE i \in S
  <2>1. PICK pool \in Seq(C) : pool = kept[i - 1]
    BY <1>1
  <2>2. \A k \in 1..(i - 1) : InPool(consts[k], pool)
    BY <1>3, <2>1
  <2>3. consts[i] \in C /\ kept[i] = IF InPool(consts[i], pool) THEN pool ELSE Append(pool, consts[i])
    BY <1>1, <2>1
  <2>4. InPool(consts[i], kept[i]) /\ \A k \in 1..(i - 1) : InPool(consts[k], kept[i])
    BY <2>2, <2>3, PoolGrows, Zenon
  <2>5. \A k \in 1..i : k = i \/ k \in 1..(i - 1)
    OBVIOUS
  <2>6. i \in 0..n
    OBVIOUS
  <2> QED BY <2>4, <2>5, <2>6, Zenon
<1>4. \A i \in 0..n : i \in S
  <2> HIDE DEF S
  <2>1. \A i \in 1..n : i - 1 \in S => i \in S
    BY <1>3
  <2> QED BY <1>2, <2>1, LoopInduction
<1>5. n \in 0..n
  OBVIOUS
<1> QED BY <1>n, <1>0, <1>1, <1>4, <1>5

\* The index a constant gets is that of an equal one.
LEMMA RemapFinds ==
    ASSUME NEW C, NEW consts \in Seq(C), NEW k \in 1..Len(consts)
    PROVE  /\ remap(consts, k) \in 1..Len(dedup_constants(consts))
           /\ const_eq(consts[k], dedup_constants(consts)[remap(consts, k)])
           /\ dedup_constants(consts)[remap(consts, k)] \in C
<1>1. PICK pool \in Seq(C) : pool = dedup_constants(consts) /\ InPool(consts[k], pool)
  BY PoolHasAll
<1>2. \E j \in 1..Len(pool) : const_eq(consts[k], pool[j])
  BY <1>1 DEF InPool
<1>3. remap(consts, k) = CHOOSE j \in 1..Len(pool) : const_eq(consts[k], pool[j])
  BY <1>1, Zenon DEF remap
<1>4. remap(consts, k) \in 1..Len(pool) /\ const_eq(consts[k], pool[remap(consts, k)])
  BY <1>2, <1>3, Zenon
<1>5. pool[remap(consts, k)] \in C
  BY <1>4, ElementOfSeq
<1> QED BY <1>1, <1>4, <1>5, Zenon

----------------------------------------------------------------------------
(* What comes back                                                         *)

\* The facts of FunctionAssumption about one function.
LEMMA FunctionFacts ==
    ASSUME NEW f \in Id
    PROVE  /\ Function[f].code \in Seq(Byte)
           /\ Function[f].consts \in Seq(Range(Function[f].consts))
           /\ \A c \in Range(Function[f].consts) : IsConstant(c)
           /\ \A i \in Instructions(Function[f].code, OperandBytes) :
                 /\ i + OperandBytes[Function[f].code[i]] <= Len(Function[f].code)
                 /\ Function[f].code[i] = OP_CONST => Function[f].code[i + 1] < Len(Function[f].consts)
<1> DEFINE F == Function[f]
<1>1. /\ F.code \in Seq(Byte) /\ F.consts \in Seq(Range(F.consts))
      /\ \A k \in 1..Len(F.consts) : IsConstant(F.consts[k])
      /\ \A i \in Instructions(F.code, OperandBytes) :
            /\ i + OperandBytes[F.code[i]] <= Len(F.code)
            /\ F.code[i] = OP_CONST => F.code[i + 1] < Len(F.consts)
  BY FunctionAssumption, Zenon
<1>2. Range(F.consts) = {F.consts[k] : k \in DOMAIN F.consts} /\ DOMAIN F.consts = 1..Len(F.consts)
  BY <1>1 DEF Range
<1>3. \A c \in Range(F.consts) : IsConstant(c)
  BY <1>1, <1>2, Zenon
<1> QED BY <1>1, <1>3

\* Patching moves the operands of OP_CONST and nothing else.
LEMMA PatchMoves ==
    ASSUME NEW code \in Seq(Byte), NEW consts, NEW i \in Instructions(code, OperandBytes),
           i + OperandBytes[code[i]] <= Len(code)
    PROVE  LET new == patch_const_ops(code, consts) IN
           /\ Len(new) = Len(code) /\ new[i] = code[i]
           /\ code[i] # OP_CONST => \A b \in 1..OperandBytes[code[i]] : new[i + b] = code[i + b]
           /\ code[i] = OP_CONST => new[i + 1] = remap(consts, code[i + 1] + 1) - 1
<1>n. PICK n \in Nat : n = Len(code)
  OBVIOUS
<1>I. PICK I : I = Instructions(code, OperandBytes)
  OBVIOUS
<1>at. PICK at : at = {j \in I : code[j] = OP_CONST /\ j + 2 <= n}
  OBVIOUS
<1>new. PICK new : new = [j \in 1..n |-> IF j - 1 \in at THEN remap(consts, code[j] + 1) - 1 ELSE code[j]]
  OBVIOUS
<1>1. new = patch_const_ops(code, consts)
  BY <1>n, <1>I, <1>at, <1>new, OperandsAgree, Zenon DEF patch_const_ops
<1>2. I \subseteq 1..n
  BY <1>n, <1>I DEF Instructions
<1>e. PICK e \in Nat : e = OperandBytes[code[i]]
  <2>1. code[i] \in Byte
    BY <1>2, <1>I, <1>n
  <2> QED BY <2>1, OperandsAgree
<1>3. i \in 1..n /\ i + e <= n /\ (code[i] = OP_CONST => e = 2)
  BY <1>2, <1>I, <1>n, <1>e, OperandsAgree
<1>4. \A j \in I : i < j => i + e < j
  BY <1>I, <1>e, InstructionsApart, OperandsAgree
<1>5. \A j \in I : j < i => j + OperandBytes[code[j]] < i
  BY <1>I, InstructionsApart, OperandsAgree
<1>6. Len(new) = n
  BY <1>new
<1>7. new[i] = code[i]
  <2>1. i - 1 \notin at
    <3> SUFFICES ASSUME i - 1 \in at PROVE FALSE
      OBVIOUS
    <3>1. i - 1 \in I /\ code[i - 1] = OP_CONST
      BY <1>at
    <3>j. PICK j \in I : j = i - 1 /\ code[j] = OP_CONST
      BY <3>1, Zenon
    <3>2. j < i
      BY <1>3, <3>j
    <3>3. j + 2 < i
      BY <1>5, <3>j, <3>2, OperandsAgree, Zenon
    <3> QED BY <1>3, <3>j, <3>3
  <2> QED BY <1>new, <1>3, <2>1
<1>8. ASSUME code[i] # OP_CONST, NEW b \in 1..e PROVE new[i + b] = code[i + b]
  <2>1. i + b \in 1..n /\ (i + b) - 1 = i + (b - 1)
    BY <1>3
  <2>2. (i + b) - 1 \notin at
    <3> SUFFICES ASSUME (i + b) - 1 \in at PROVE FALSE
      OBVIOUS
    <3>1. (i + b) - 1 \in I /\ code[(i + b) - 1] = OP_CONST
      BY <1>at
    <3>2. CASE b = 1
      <4>1. (i + b) - 1 = i
        BY <1>3, <3>2
      <4> QED BY <1>8, <3>1, <4>1
    <3>3. CASE b # 1
      <4>1. i < (i + b) - 1
        BY <1>3, <3>3
      <4>2. i + e < (i + b) - 1
        BY <1>4, <3>1, <4>1
      <4> QED BY <1>3, <4>2
    <3> QED BY <3>2, <3>3
  <2> QED BY <1>new, <2>1, <2>2
<1>9. ASSUME code[i] = OP_CONST PROVE new[i + 1] = remap(consts, code[i + 1] + 1) - 1
  <2>1. i + 1 \in 1..n /\ (i + 1) - 1 = i /\ i + 2 <= n
    BY <1>3, <1>9
  <2>2. (i + 1) - 1 \in at
    BY <1>I, <1>at, <1>9, <2>1
  <2> QED BY <1>new, <2>1, <2>2
<1> QED BY <1>1, <1>e, <1>n, <1>6, <1>7, <1>8, <1>9, Zenon

\* The constants that are written and the index of each, as minified or not.
PoolOf(consts, m) == IF m THEN dedup_constants(consts) ELSE consts
IndexOf(consts, k, m) == IF m THEN remap(consts, k) ELSE k

LEMMA IndexFinds ==
    ASSUME NEW C, NEW consts \in Seq(C), NEW m \in BOOLEAN
    PROVE  /\ PoolOf(consts, m) \in Seq(C)
           /\ \A k \in 1..Len(consts) :
                 /\ IndexOf(consts, k, m) \in 1..Len(PoolOf(consts, m))
                 /\ const_eq(consts[k], PoolOf(consts, m)[IndexOf(consts, k, m)])
                 /\ PoolOf(consts, m)[IndexOf(consts, k, m)] \in C
<1>1. CASE m
  <2>1. PoolOf(consts, m) = dedup_constants(consts) /\ \A k : IndexOf(consts, k, m) = remap(consts, k)
    BY <1>1, Zenon DEF PoolOf, IndexOf
  <2>2. dedup_constants(consts) \in Seq(C)
    BY PoolHasAll
  <2> QED BY <2>1, <2>2, RemapFinds, Zenon
<1>2. CASE ~m
  <2>1. PoolOf(consts, m) = consts /\ \A k : IndexOf(consts, k, m) = k
    BY <1>2, Zenon DEF PoolOf, IndexOf
  <2>2. \A k \in 1..Len(consts) : const_eq(consts[k], consts[k]) /\ consts[k] \in C
    BY ElementOfSeq DEF const_eq
  <2> QED BY <2>1, <2>2, Zenon
<1> QED BY <1>1, <1>2

\* g has the code, and the constants as they are read back with the keys they were written with.
IsReadBack(g, of, name, consts, code, m, reg) ==
    /\ g.of = of /\ g.name = name
    /\ g.code = IF m THEN patch_const_ops(code, consts) ELSE code
    /\ \A k \in 1..Len(PoolOf(consts, m)) : \E key :
          g.consts[k] = rb_const_minified(StoredConst(PoolOf(consts, m)[k], key, m), key, reg)

\* A code object that is written and read has what it had.
LEMMA ReadBack ==
    ASSUME NEW of, NEW name, NEW seed, NEW exported, NEW C, NEW consts \in Seq(C), NEW code,
           NEW m \in BOOLEAN, NEW reg, NEW g,
           g = Loaded(wb_codeobj(of, name, seed, exported, consts, code, m), reg)
    PROVE  IsReadBack(g, of, name, consts, code, m, reg)
<1> DEFINE key(k) == IF seed = <<>> THEN <<>> ELSE Append(seed, k)
           newcode == IF m THEN patch_const_ops(code, consts) ELSE code
<1>p. PICK pool \in Seq(C) : pool = PoolOf(consts, m)
  BY IndexFinds
<1>n. PICK n \in Nat : n = Len(pool)
  OBVIOUS
<1>cs. PICK cs : cs = [k \in 1..n |-> StoredConst(pool[k], key(k), m)]
  OBVIOUS
<1>o. PICK o : o = wb_codeobj(of, name, seed, exported, consts, code, m)
  OBVIOUS
<1>1. o = [of |-> of, name |-> name, seed |-> seed, exported |-> exported, consts |-> cs,
           code |-> Masked(seed, newcode)]
  BY <1>o, <1>p, <1>n, <1>cs, Zenon DEF wb_codeobj, PoolOf, StringKey
<1>2. o.of = of /\ o.name = name /\ o.seed = seed /\ o.consts = cs /\ o.code = Masked(seed, newcode)
  <2> HIDE DEF newcode
  <2> QED BY <1>1
<1>3. Len(cs) = n
  <2> HIDE DEF key
  <2> QED BY <1>cs
<1>g. g = Loaded(o, reg)
  BY <1>o, Zenon
<1>rs. PICK rs : rs = [k \in 1..n |-> rb_const_minified(cs[k], key(k), reg)]
  OBVIOUS
<1>4. g = [of |-> o.of, name |-> o.name, exported |-> o.exported, consts |-> rs, code |-> Unmasked(o.seed, o.code)]
  BY <1>g, <1>rs, <1>2, <1>3, Zenon DEF Loaded
<1>5. g.of = of /\ g.name = name /\ g.consts = rs /\ g.code = Unmasked(seed, Masked(seed, newcode))
  <2> HIDE DEF newcode
  <2> QED BY <1>2, <1>4
<1>6. Unmasked(seed, Masked(seed, newcode)) = newcode
  <2> HIDE DEF newcode
  <2> QED BY DEF Masked, Unmasked
<1>7. ASSUME NEW k \in 1..n
      PROVE  rs[k] = rb_const_minified(StoredConst(pool[k], key(k), m), key(k), reg)
  <2> HIDE DEF key
  <2> QED BY <1>cs, <1>rs
<1> HIDE DEF key, newcode
<1>8. \A k \in 1..Len(pool) : \E x : g.consts[k] = rb_const_minified(StoredConst(pool[k], x, m), x, reg)
  BY <1>n, <1>5, <1>7, Zenon
<1>9. g.code = IF m THEN patch_const_ops(code, consts) ELSE code
  BY <1>5, <1>6, Zenon DEF newcode
<1> QED BY <1>p, <1>5, <1>8, <1>9, Zenon DEF IsReadBack

\* A constant that is no function is read back as it was, a function as what has its name.
LEMMA ConstantComesBack ==
    ASSUME NEW c, IsConstant(c), NEW key, NEW m \in BOOLEAN, NEW reg
    PROVE  rb_const_minified(StoredConst(c, key, m), key, reg) =
              IF c[1] = "func" THEN func_lookup(reg, RefName(c[2], m)) ELSE c
<1>s. PICK s : s = StoredConst(c, key, m)
  OBVIOUS
<1>0. SUFFICES rb_const_minified(s, key, reg) = IF c[1] = "func" THEN func_lookup(reg, RefName(c[2], m)) ELSE c
  BY <1>s, Zenon
<1>1. CASE c[1] = "num"
  <2>1. s = c
    BY <1>1, <1>s DEF StoredConst
  <2> QED BY <1>1, <2>1 DEF rb_const_minified
<1>2. CASE c[1] = "text"
  <2>1. s = <<"text", Masked(key, c[2])>>
    BY <1>2, <1>s DEF StoredConst
  <2>2. s[1] = "text" /\ s[2] = Masked(key, c[2])
    BY <2>1
  <2>3. Unmasked(key, s[2]) = c[2]
    BY <2>2 DEF Masked, Unmasked
  <2>4. rb_const_minified(s, key, reg) = <<"text", Unmasked(key, s[2])>>
    BY <2>2 DEF rb_const_minified
  <2>5. c = <<"text", c[2]>>
    BY <1>2 DEF IsConstant
  <2> QED BY <1>2, <2>3, <2>4, <2>5
<1>3. CASE c[1] = "func"
  <2>1. s = <<"ref", RefName(c[2], m)>>
    BY <1>3, <1>s DEF StoredConst
  <2>2. s[1] = "ref" /\ s[2] = RefName(c[2], m)
    BY <2>1
  <2> QED BY <1>3, <2>2 DEF rb_const_minified
<1> QED BY <1>1, <1>2, <1>3 DEF IsConstant

\* References that reach what bears the name of their function, or of another of that name.
RefersByName(g, reg, m) ==
    \A r \in References(g) :
        /\ Target(g, r) = <<"func", Target(g, r)[2]>> /\ Target(g, r)[2] \in Uses(g.of)
        /\ \E h \in Uses(g.of) : /\ Function[h].name = Function[Target(g, r)[2]].name
                                 /\ g.consts[g.code[r + 1] + 1] = func_lookup(reg, RefName(h, m))

\* The code of function f as it is stored, under any key.
IsStored(o, f, name, m) ==
    \E seed, exported : o = wb_codeobj(f, name, seed, exported, Function[f].consts, Function[f].code, m)

\* Code that is written and read means what it meant, and refers to functions by name.
ComesBack(g, f, name, reg, m) ==
    g.of = f /\ g.name = name /\ KeepsMeaning(g) /\ RefersByName(g, reg, m)

LEMMA CodeComesBack ==
    ASSUME NEW f \in Id, NEW name, NEW m \in BOOLEAN, NEW o, IsStored(o, f, name, m), NEW reg
    PROVE  ComesBack(Loaded(o, reg), f, name, reg, m)
<1>0. PICK seed, exported : o = wb_codeobj(f, name, seed, exported, Function[f].consts, Function[f].code, m)
  BY DEF IsStored
<1>g. PICK g : g = Loaded(o, reg)
  OBVIOUS
<1>c. PICK code \in Seq(Byte) : code = Function[f].code
  BY FunctionFacts
<1>C. PICK C : C = Range(Function[f].consts)
  OBVIOUS
<1>k. PICK consts \in Seq(C) : consts = Function[f].consts
  BY <1>C, FunctionFacts
<1>n. PICK n \in Nat : n = Len(code)
  OBVIOUS
<1>p. PICK pool \in Seq(C) : pool = PoolOf(consts, m)
  BY IndexFinds
<1>I. PICK I : I = Instructions(code, OperandBytes)
  OBVIOUS
<1>new. PICK new : new = IF m THEN patch_const_ops(code, consts) ELSE code
  OBVIOUS
<1>1. g = Loaded(wb_codeobj(f, name, seed, exported, consts, code, m), reg)
  BY <1>0, <1>g, <1>c, <1>k, Zenon
<1>2. /\ g.of = f /\ g.name = name /\ g.code = new
      /\ \A k \in 1..Len(pool) : \E key : g.consts[k] = rb_const_minified(StoredConst(pool[k], key, m), key, reg)
  <2>1. IsReadBack(g, f, name, consts, code, m, reg)
    BY <1>1, ReadBack, Zenon
  <2> QED BY <1>p, <1>new, <2>1, Zenon DEF IsReadBack
<1>3. /\ \A c \in C : IsConstant(c)
      /\ \A i \in I : /\ i + OperandBytes[code[i]] <= n
                      /\ code[i] = OP_CONST => code[i + 1] < Len(consts)
  BY <1>c, <1>C, <1>k, <1>n, <1>I, FunctionFacts, Zenon
<1>4. \A i \in I : i \in 1..n /\ code[i] \in Byte
  BY <1>n, <1>I DEF Instructions
<1>5. ASSUME NEW i \in I
      PROVE  /\ Len(new) = n /\ new[i] = code[i]
             /\ code[i] # OP_CONST => \A b \in 1..OperandBytes[code[i]] : new[i + b] = code[i + b]
  <2>1. CASE m
    <3>1. new = patch_const_ops(code, consts)
      BY <1>new, <2>1
    <3> QED BY <1>I, <1>n, <1>3, <3>1, PatchMoves, Zenon
  <2>2. CASE ~m
    BY <1>new, <1>n, <2>2
  <2> QED BY <2>1, <2>2
<1>6. ASSUME NEW i \in I, code[i] = OP_CONST
      PROVE  \E k \in 1..Len(consts) : \E c \in C :
                /\ k = code[i + 1] + 1 /\ const_eq(consts[k], c)
                /\ g.consts[new[i + 1] + 1] = IF c[1] = "func" THEN func_lookup(reg, RefName(c[2], m)) ELSE c
  <2>1. i + 1 \in 1..n /\ code[i + 1] < Len(consts)
    <3>1. i + 2 <= n /\ i \in 1..n
      BY <1>3, <1>4, <1>6, OperandsAgree
    <3> QED BY <1>3, <1>6, <3>1
  <2>2. code[i + 1] \in Byte
    BY <1>n, <2>1, ElementOfSeq
  <2>3. PICK k \in 1..Len(consts) : k = code[i + 1] + 1
    <3>1. PICK x \in 0..255 : x = code[i + 1]
      BY <2>2, Zenon DEF Byte
    <3>2. PICK l \in Nat : l = Len(consts)
      OBVIOUS
    <3>3. x < l
      BY <2>1, <3>1, <3>2, Zenon
    <3>4. x + 1 \in 1..l
      BY <3>3
    <3> QED BY <3>1, <3>2, <3>4, Zenon
  <2>4. PICK j \in 1..Len(pool) : j = IndexOf(consts, k, m) /\ const_eq(consts[k], pool[j]) /\ pool[j] \in C
    BY <1>p, IndexFinds
  <2>5. new[i + 1] + 1 = j
    <3>1. CASE m
      <4>1. new[i + 1] = remap(consts, code[i + 1] + 1) - 1
        BY <1>I, <1>n, <1>new, <1>3, <1>6, <3>1, PatchMoves
      <4>2. j = remap(consts, code[i + 1] + 1)
        BY <2>3, <2>4, <3>1 DEF IndexOf
      <4> QED BY <4>1, <4>2
    <3>2. CASE ~m
      <4>1. j = k /\ new = code
        BY <1>new, <2>4, <3>2 DEF IndexOf
      <4> QED BY <2>3, <4>1
    <3> QED BY <3>1, <3>2
  <2>6. PICK key : g.consts[j] = rb_const_minified(StoredConst(pool[j], key, m), key, reg)
    BY <1>2
  <2>7. IsConstant(pool[j])
    BY <1>3, <2>4
  <2>8. g.consts[j] = IF pool[j][1] = "func" THEN func_lookup(reg, RefName(pool[j][2], m)) ELSE pool[j]
    <3>1. rb_const_minified(StoredConst(pool[j], key, m), key, reg) =
             IF pool[j][1] = "func" THEN func_lookup(reg, RefName(pool[j][2], m)) ELSE pool[j]
      BY <2>7, ConstantComesBack
    <3> QED BY <2>6, <3>1, Zenon
  <2> QED BY <2>3, <2>4, <2>5, <2>8, Zenon
<1>7. ASSUME NEW i \in I, code[i] = OP_CONST, consts[code[i + 1] + 1][1] # "func"
      PROVE  g.consts[new[i + 1] + 1] = consts[code[i + 1] + 1]
  <2>1. PICK k \in 1..Len(consts), c \in C :
                /\ k = code[i + 1] + 1 /\ const_eq(consts[k], c)
                /\ g.consts[new[i + 1] + 1] = IF c[1] = "func" THEN func_lookup(reg, RefName(c[2], m)) ELSE c
    BY <1>6, <1>7
  <2>2. consts[k] = c
    BY <1>7, <2>1 DEF const_eq
  <2> QED BY <1>7, <2>1, <2>2
<1>8. KeepsMeaning(g)
  <2>1. Len(g.code) = Len(Function[g.of].code)
    <3>1. Len(new) = n
      <4>1. CASE m
        <5>1. new = [i \in 1..n |-> new[i]]
          BY <1>new, <1>n, <4>1 DEF patch_const_ops
        <5>2. DOMAIN new = 1..n
          BY <5>1
        <5> QED BY <5>1
      <4>2. CASE ~m
        BY <1>new, <1>n, <4>2
      <4> QED BY <4>1, <4>2
    <3> QED BY <1>2, <1>c, <1>n, <3>1
  <2>2. ASSUME NEW i \in I
        PROVE  /\ g.code[i] = code[i]
               /\ code[i] # OP_CONST => \A b \in 1..OperandBytes[code[i]] : g.code[i + b] = code[i + b]
               /\ code[i] = OP_CONST =>
                    (consts[code[i + 1] + 1][1] # "func" =>
                        g.consts[g.code[i + 1] + 1] = consts[code[i + 1] + 1])
    BY <1>2, <1>5, <1>7, Zenon
  <2> QED BY <1>2, <1>c, <1>k, <1>I, <2>1, <2>2 DEF KeepsMeaning
<1>9. RefersByName(g, reg, m)
  <2>1. ASSUME NEW r \in References(g)
        PROVE  /\ Target(g, r) = <<"func", Target(g, r)[2]>> /\ Target(g, r)[2] \in Uses(g.of)
               /\ \E h \in Uses(g.of) : /\ Function[h].name = Function[Target(g, r)[2]].name
                                        /\ g.consts[g.code[r + 1] + 1] = func_lookup(reg, RefName(h, m))
    <3>1. r \in I /\ code[r] = OP_CONST /\ Target(g, r) = consts[code[r + 1] + 1] /\ Target(g, r)[1] = "func"
      BY <1>2, <1>c, <1>k, <1>I, Zenon DEF References, Target
    <3>2. PICK k \in 1..Len(consts), c \in C :
                /\ k = code[r + 1] + 1 /\ const_eq(consts[k], c)
                /\ g.consts[new[r + 1] + 1] = IF c[1] = "func" THEN func_lookup(reg, RefName(c[2], m)) ELSE c
      BY <1>6, <3>1
    <3>3. PICK t \in C : t = Target(g, r) /\ t = consts[k]
      BY <3>1, <3>2
    <3>4. t[1] = "func" /\ IsConstant(t) /\ IsConstant(c)
      BY <1>3, <3>1, <3>3
    <3>5. t = <<"func", t[2]>>
      BY <3>4 DEF IsConstant
    <3>6. c[1] = "func" /\ Function[c[2]].name = Function[t[2]].name
      BY <3>2, <3>3, <3>4 DEF const_eq
    <3>7. c = <<"func", c[2]>> /\ c[2] \in Id /\ t[2] \in Id
      BY <3>4, <3>6 DEF IsConstant
    <3>8. \A x \in C : \E y \in DOMAIN consts : consts[y] = x
      BY <1>C, <1>k DEF Range
    <3>9. c[2] \in Uses(f) /\ t[2] \in Uses(f)
      BY <1>k, <3>5, <3>7, <3>8 DEF Uses
    <3> QED BY <1>2, <3>2, <3>3, <3>5, <3>6, <3>9, Zenon
  <2> QED BY <2>1, Zenon DEF RefersByName
<1> QED BY <1>g, <1>2, <1>8, <1>9, Zenon DEF ComesBack

----------------------------------------------------------------------------
(* The registry                                                            *)

\* Two registries, or a registry and what is to be registered, have the same functions by name.
SameNames(a, b) ==
    /\ Len(a) \in Nat /\ Len(a) = Len(b)
    /\ \A i \in 1..Len(a) : a[i].name = b[i].name /\ a[i].of = b[i].of

LEMMA LookupAgrees ==
    ASSUME NEW a, NEW b, SameNames(a, b), NEW name
    PROVE  func_lookup(a, name) = func_lookup(b, name)
<1>N. PICK N : N = Named(a, name)
  OBVIOUS
<1>1. N \in SUBSET Nat
  BY <1>N DEF Named, SameNames
<1>2. N = Named(b, name)
  BY <1>N DEF Named, SameNames
<1>3. CASE N = {}
  BY <1>N, <1>2, <1>3, Zenon DEF func_lookup
<1>4. CASE N # {}
  <2>1. PICK c : c = CHOOSE i \in N : \A j \in N : i <= j
    OBVIOUS
  <2>2. \E i \in N : \A j \in N : i <= j
    BY <1>1, <1>4, LeastExists
  <2>3. c \in N
    BY <2>1, <2>2
  <2>4. a[c].of = b[c].of
    BY <1>N, <2>3 DEF Named, SameNames
  <2>5. func_lookup(a, name) = <<"func", a[c].of>> /\ func_lookup(b, name) = <<"func", b[c].of>>
    BY <1>N, <1>2, <1>4, <2>1, Zenon DEF func_lookup
  <2> QED BY <2>4, <2>5
<1> QED BY <1>3, <1>4

\* If all that bear a name are one function, it is found.
OnlyNamed(reg, name, h) == \A j \in 1..Len(reg) : reg[j].name = name => reg[j].of = h

LEMMA LookupFinds ==
    ASSUME NEW X, NEW reg \in Seq(X), NEW i \in 1..Len(reg), NEW h, OnlyNamed(reg, reg[i].name, h)
    PROVE  func_lookup(reg, reg[i].name) = <<"func", h>>
<1>N. PICK N : N = Named(reg, reg[i].name)
  OBVIOUS
<1>1. N \in SUBSET Nat /\ i \in N
  BY <1>N DEF Named
<1>2. PICK c : c = CHOOSE k \in N : \A j \in N : k <= j
  OBVIOUS
<1>3. \E k \in N : \A j \in N : k <= j
  BY <1>1, LeastExists
<1>4. c \in N
  BY <1>2, <1>3
<1>5. reg[c].of = h
  BY <1>N, <1>4 DEF Named, OnlyNamed
<1>6. N # {}
  BY <1>1
<1>7. func_lookup(reg, reg[i].name) = <<"func", reg[c].of>>
  BY <1>N, <1>2, <1>6, Zenon DEF func_lookup
<1> QED BY <1>5, <1>7

\* What is loaded has its name, and depends on the names that are registered.
LEMMA LoadedFacts ==
    ASSUME NEW o, NEW a
    PROVE  /\ Loaded(o, a).name = o.name /\ Loaded(o, a).of = o.of
           /\ \A b : SameNames(a, b) => Loaded(o, a) = Loaded(o, b)
<1>1. Loaded(o, a).name = o.name /\ Loaded(o, a).of = o.of
  BY DEF Loaded
<1>2. ASSUME NEW b, SameNames(a, b) PROVE Loaded(o, a) = Loaded(o, b)
  <2>1. \A name : func_lookup(a, name) = func_lookup(b, name)
    BY <1>2, LookupAgrees
  <2>2. \A c, key : rb_const_minified(c, key, a) = rb_const_minified(c, key, b)
    BY <2>1, Zenon DEF rb_const_minified
  <2> DEFINE key(k) == IF o.seed = <<>> THEN <<>> ELSE Append(o.seed, k)
  <2> HIDE DEF key
  <2>3. [k \in 1..Len(o.consts) |-> rb_const_minified(o.consts[k], key(k), a)] =
        [k \in 1..Len(o.consts) |-> rb_const_minified(o.consts[k], key(k), b)]
    <3>1. \A k \in 1..Len(o.consts) : rb_const_minified(o.consts[k], key(k), a) =
                                      rb_const_minified(o.consts[k], key(k), b)
      BY <2>2
    <3> QED BY <3>1, Zenon
  <2> QED BY <2>3, Zenon DEF Loaded, key
<1> QED BY <1>1, <1>2

\* The beginning of a sequence, as a function.
LEMMA PrefixOf ==
    ASSUME NEW X, NEW s \in Seq(X), NEW n \in 0..Len(s)
    PROVE  SubSeq(s, 1, n) = [j \in 1..n |-> s[j]]
<1>1. /\ SubSeq(s, 1, n) \in Seq(X) /\ Len(SubSeq(s, 1, n)) = n
      /\ \A j \in 1..n : SubSeq(s, 1, n)[j] = s[j]
  BY SubSeqProperties
<1> QED BY <1>1

\* The registry keeps what it had, and each new function is one of those read, as it is loaded
\* when those before it are registered.
Grows(reg, new, O) ==
    /\ new \in Seq(Range(new)) /\ Len(new) <= MaxRegistry /\ Len(reg) <= Len(new)
    /\ \A i \in 1..Len(reg) : new[i] = reg[i] /\ SubSeq(new, 1, i - 1) = SubSeq(reg, 1, i - 1)
    /\ \A i \in 1..Len(new) : Len(reg) < i => \E o \in O : new[i] = Loaded(o, SubSeq(new, 1, i - 1))

LEMMA RegistryGrows ==
    ASSUME NEW X, NEW reg \in Seq(X), Len(reg) <= MaxRegistry, NEW O, NEW os \in Seq(O)
    PROVE  Grows(reg, RegistryAfter(reg, os), O)
<1>n. PICK n \in Nat : n = Len(reg)
  OBVIOUS
<1>l. PICK l \in Nat : l = Len(os)
  OBVIOUS
<1>m. MaxRegistry \in Nat /\ n <= MaxRegistry
  BY <1>n, ProgramAssumption
<1>Y. PICK Y : Y = X \cup O
  OBVIOUS
<1>1. reg \in Seq(Y) /\ os \in Seq(Y)
  BY <1>Y, SeqMonotonic
<1>a. PICK all \in Seq(Y) : all = reg \o os
  BY <1>1, ConcatProperties
<1>2. /\ Len(all) = n + l /\ \A i \in 1..n : all[i] = reg[i]
      /\ \A i \in 1..l : all[n + i] = os[i]
  BY <1>1, <1>a, <1>n, <1>l, ConcatProperties
<1>N. PICK N \in Nat : N = func_register(n + l) /\ n <= N /\ N <= n + l /\ N <= MaxRegistry
  BY <1>m DEF func_register
<1>new. PICK new : new = [i \in 1..N |-> IF i <= n THEN reg[i] ELSE Loaded(all[i], SubSeq(all, 1, i - 1))]
  OBVIOUS
<1>3. new = RegistryAfter(reg, os)
  BY <1>new, <1>a, <1>2, <1>N, <1>n, Zenon DEF RegistryAfter
<1>4. Len(new) = N /\ DOMAIN new = 1..N
  BY <1>new
<1>5. \A i \in 1..n : i \in 1..N /\ new[i] = reg[i]
  BY <1>new, <1>N
<1>6. \A i \in 1..N : ~(i <= n) => new[i] = Loaded(all[i], SubSeq(all, 1, i - 1))
  BY <1>new
<1>7. new \in Seq(Range(new))
  <2> PICK R : R = Range(new)
    OBVIOUS
  <2>1. \A i \in 1..N : new[i] \in R
    BY <1>4 DEF Range
  <2>2. [i \in 1..N |-> new[i]] \in Seq(R)
    BY <2>1, IsASeq
  <2>3. new = [i \in 1..N |-> new[i]]
    BY <1>new
  <2> QED BY <2>2, <2>3, Zenon
<1>8. ASSUME NEW i \in 1..n PROVE SubSeq(new, 1, i - 1) = SubSeq(reg, 1, i - 1)
  <2>1. \A j \in 1..(i - 1) : j \in 1..n
    OBVIOUS
  <2>2. SubSeq(new, 1, i - 1) = [j \in 1..(i - 1) |-> new[j]]
    BY <1>5, <1>7, <1>4, PrefixOf
  <2>3. SubSeq(reg, 1, i - 1) = [j \in 1..(i - 1) |-> reg[j]]
    BY <1>n, PrefixOf
  <2> QED BY <2>1, <2>2, <2>3, <1>5
<1>9. ASSUME NEW i \in 1..N, n < i
      PROVE  \E o \in O : new[i] = Loaded(o, SubSeq(new, 1, i - 1))
  <2>1. all[i] \in O
    <3>1. PICK j \in 1..l : i = n + j
      <4>1. i - n \in 1..l /\ i = n + (i - n)
        BY <1>9, <1>N
      <4> QED BY <4>1
    <3>2. all[i] = os[j]
      BY <1>2, <3>1
    <3> QED BY <1>l, <3>2, ElementOfSeq
  <2>2. new[i] = Loaded(all[i], SubSeq(all, 1, i - 1))
    BY <1>6, <1>9
  <2>3. SubSeq(all, 1, i - 1) = [j \in 1..(i - 1) |-> all[j]]
    BY <1>2, <1>N, PrefixOf
  <2>4. SubSeq(new, 1, i - 1) = [j \in 1..(i - 1) |-> new[j]]
    BY <1>7, <1>4, PrefixOf
  <2>5. ASSUME NEW j \in 1..(i - 1) PROVE all[j].name = new[j].name /\ all[j].of = new[j].of
    <3>1. CASE j <= n
      <4>1. all[j] = new[j]
        BY <1>2, <1>5, <3>1
      <4> QED BY <4>1
    <3>2. CASE ~(j <= n)
      <4>1. new[j] = Loaded(all[j], SubSeq(all, 1, j - 1))
        BY <1>6, <3>2
      <4> QED BY <4>1, LoadedFacts
    <3> QED BY <3>1, <3>2
  <2>6. SameNames(SubSeq(all, 1, i - 1), SubSeq(new, 1, i - 1))
    BY <2>3, <2>4, <2>5 DEF SameNames
  <2>7. new[i] = Loaded(all[i], SubSeq(new, 1, i - 1))
    BY <2>2, <2>6, LoadedFacts
  <2> QED BY <2>1, <2>7
<1> QED BY <1>3, <1>4, <1>5, <1>7, <1>8, <1>9, <1>N, <1>n, <1>m DEF Grows

----------------------------------------------------------------------------
(* Lists of functions                                                      *)

\* What is picked out of s is in s and in S.
LEMMA AmongIsSeq ==
    ASSUME NEW X, NEW s \in Seq(X), NEW S
    PROVE  Among(s, S) \in Seq(X \cap S)
<1>n. PICK n \in Nat : n = Len(s)
  OBVIOUS
<1>y. PICK Y : Y = Seq(X \cap S)
  OBVIOUS
<1>b. <<>> \in Y
  BY <1>y
<1> DEFINE Turn(m, i) == m \o (IF s[i] \in S THEN <<s[i]>> ELSE <<>>)
<1>1. \A i \in 1..n : \A m \in Y : Turn(m, i) \in Y
  <2> TAKE i \in 1..n
  <2> TAKE m \in Y
  <2>1. s[i] \in X
    BY <1>n
  <2>2. (IF s[i] \in S THEN <<s[i]>> ELSE <<>>) \in Y
    <3>1. CASE s[i] \in S
      <4>1. s[i] \in X \cap S
        BY <2>1, <3>1
      <4>2. <<s[i]>> \in Seq(X \cap S)
        BY <4>1, SingleIsSeq
      <4> QED BY <1>y, <3>1, <4>2, Zenon
    <3>2. CASE ~(s[i] \in S)
      BY <1>b, <3>2, Zenon
    <3> QED BY <3>1, <3>2
  <2>3. \A x, y \in Y : x \o y \in Y
    BY <1>y, ConcatProperties
  <2> QED BY <2>2, <2>3, Zenon
<1> HIDE DEF Turn
<1> DEFINE F == [i \in 1..n |-> [m \in Y |-> Turn(m, i)]]
<1>2. \A i \in 1..n : \A m \in Y : F[i][m] = Turn(m, i)
  OBVIOUS
<1>3. F \in Turns(1..n, Y)
  BY <1>1 DEF Turns
<1> HIDE DEF F
<1>4. PICK f \in [0..n -> Y] : f[0] = <<>> /\ \A i \in 1..n : f[i] = F[i][f[i - 1]]
  BY <1>b, <1>3, LoopRuns
<1>5. \A i \in 1..n : f[i] = Turn(f[i - 1], i)
  <2> TAKE i \in 1..n
  <2>1. f[i - 1] \in Y /\ f[i] = F[i][f[i - 1]]
    BY <1>4
  <2> QED BY <1>2, <2>1, Zenon
<1> DEFINE Solves(g) == g = [i \in 0..n |-> IF i = 0 THEN <<>> ELSE Turn(g[i - 1], i)]
           c == CHOOSE g : Solves(g)
<1>6. Solves(f)
  <2>1. \A i \in 0..n : f[i] = IF i = 0 THEN <<>> ELSE Turn(f[i - 1], i)
    BY <1>4, <1>5
  <2> QED BY <2>1
<1>7. Solves(c)
  <2> HIDE DEF Solves
  <2> QED BY <1>6
<1>8. Among(s, S) = c[n]
  BY <1>n, Zenon DEF Turn, Among
<1> HIDE DEF c
<1>9. c[0] = <<>> /\ c = [i \in 0..n |-> c[i]]
  BY <1>7
<1>10. \A i \in 1..n : c[i] = Turn(c[i - 1], i)
  <2> TAKE i \in 1..n
  <2>1. i \in 0..n /\ i # 0
    OBVIOUS
  <2> QED BY <1>7, <2>1, Zenon
<1>11. \A i \in 0..n : c[i] \in Y
  <2> DEFINE T == {i \in 0..n : c[i] \in Y}
  <2>1. 0 \in T
    BY <1>b, <1>9
  <2>2. ASSUME NEW i \in 1..n, i - 1 \in T PROVE i \in T
    BY <1>1, <1>10, <2>2
  <2>3. \A i \in 0..n : i \in T
    <3> HIDE DEF T
    <3>1. \A i \in 1..n : i - 1 \in T => i \in T
      BY <2>2
    <3> QED BY <2>1, <3>1, LoopInduction
  <2> QED BY <2>3
<1>12. n \in 0..n
  OBVIOUS
<1> QED BY <1>y, <1>8, <1>11, <1>12

\* upto lists the names offered of the first functions.
Offers(upto, os, X) ==
    /\ upto \in [0..Len(os) -> Seq(X)] /\ upto[0] = <<>>
    /\ \A i \in 1..Len(os) : upto[i] = OfferedOnce(upto[i - 1], os[i])

LEMMA NamesRun ==
    ASSUME NEW O, NEW os \in Seq(O), NEW X, X = {o.name : o \in O}
    PROVE  \E upto : Offers(upto, os, X) /\ NewNames(os) = upto[Len(os)]
<1>n. PICK n \in Nat : n = Len(os)
  OBVIOUS
<1>y. PICK Y : Y = Seq(X)
  OBVIOUS
<1>b. <<>> \in Y
  BY <1>y
<1> DEFINE Turn(m, i) == OfferedOnce(m, os[i])
<1>1. \A i \in 1..n : \A m \in Y : Turn(m, i) \in Y
  <2> TAKE i \in 1..n
  <2> TAKE m \in Y
  <2>1. os[i] \in O
    BY <1>n
  <2>2. os[i].name \in X
    BY <2>1
  <2>3. Append(m, os[i].name) \in Y
    BY <1>y, <2>2, AppendProperties
  <2> QED BY <2>3, Zenon DEF OfferedOnce
<1> HIDE DEF Turn
<1> DEFINE F == [i \in 1..n |-> [m \in Y |-> Turn(m, i)]]
<1>2. \A i \in 1..n : \A m \in Y : F[i][m] = Turn(m, i)
  OBVIOUS
<1>3. F \in Turns(1..n, Y)
  BY <1>1 DEF Turns
<1> HIDE DEF F
<1>4. PICK f \in [0..n -> Y] : f[0] = <<>> /\ \A i \in 1..n : f[i] = F[i][f[i - 1]]
  BY <1>b, <1>3, LoopRuns
<1>5. \A i \in 1..n : f[i] = Turn(f[i - 1], i)
  <2> TAKE i \in 1..n
  <2>1. f[i - 1] \in Y /\ f[i] = F[i][f[i - 1]]
    BY <1>4
  <2> QED BY <1>2, <2>1, Zenon
<1> DEFINE Solves(g) == g = [i \in 0..n |-> IF i = 0 THEN <<>> ELSE Turn(g[i - 1], i)]
           c == CHOOSE g : Solves(g)
<1>6. Solves(f)
  <2>1. \A i \in 0..n : f[i] = IF i = 0 THEN <<>> ELSE Turn(f[i - 1], i)
    BY <1>4, <1>5
  <2> QED BY <2>1
<1>7. Solves(c)
  <2> HIDE DEF Solves
  <2> QED BY <1>6
<1>8. NewNames(os) = c[n]
  BY <1>n, Zenon DEF Turn, NewNames
<1> HIDE DEF c
<1>9. c[0] = <<>> /\ c = [i \in 0..n |-> c[i]]
  BY <1>7
<1>10. \A i \in 1..n : c[i] = Turn(c[i - 1], i)
  <2> TAKE i \in 1..n
  <2>1. i \in 0..n /\ i # 0
    OBVIOUS
  <2> QED BY <1>7, <2>1, Zenon
<1>11. \A i \in 0..n : c[i] \in Y
  <2> DEFINE S == {i \in 0..n : c[i] \in Y}
  <2>1. 0 \in S
    BY <1>b, <1>9
  <2>2. ASSUME NEW i \in 1..n, i - 1 \in S PROVE i \in S
    BY <1>1, <1>10, <2>2
  <2>3. \A i \in 0..n : i \in S
    <3> HIDE DEF S
    <3>1. \A i \in 1..n : i - 1 \in S => i \in S
      BY <2>2
    <3> QED BY <2>1, <3>1, LoopInduction
  <2> QED BY <2>3
<1>12. c \in [0..n -> Y]
  BY <1>9, <1>11
<1>13. Offers(c, os, X)
  BY <1>n, <1>y, <1>9, <1>10, <1>12, Zenon DEF Offers, Turn
<1> QED BY <1>n, <1>8, <1>13, Zenon

\* Each name is offered, and once.
LEMMA NamesOnce ==
    ASSUME NEW O, NEW os \in Seq(O)
    PROVE  /\ NewNames(os) \in Seq({o.name : o \in O})
           /\ ToSet(NewNames(os)) = {o.name : o \in ToSet(os)}
           /\ IsInjective(NewNames(os))
<1>n. PICK n \in Nat : n = Len(os)
  OBVIOUS
<1>X. PICK X : X = {o.name : o \in O}
  OBVIOUS
<1>0. PICK upto : Offers(upto, os, X) /\ NewNames(os) = upto[n]
  BY <1>n, <1>X, NamesRun
<1>1. /\ upto \in [0..n -> Seq(X)] /\ upto[0] = <<>>
      /\ \A i \in 1..n : os[i] \in O /\ upto[i] = OfferedOnce(upto[i - 1], os[i])
  BY <1>n, <1>0 DEF Offers
<1> DEFINE Names(i) == {os[k].name : k \in 1..i}
           Once(ns, i) == ToSet(ns) = Names(i) /\ IsInjective(ns)
           S == {i \in 0..n : Once(upto[i], i)}
<1>2. 0 \in S
  <2>1. ToSet(<<>>) = {} /\ IsInjective(<<>>)
    <3>1. DOMAIN <<>> = {}
      OBVIOUS
    <3> QED BY <3>1, Zenon DEF ToSet, IsInjective
  <2>2. Names(0) = {}
    OBVIOUS
  <2> QED BY <1>1, <2>1, <2>2
<1>3. ASSUME NEW i \in 1..n, i - 1 \in S PROVE i \in S
  <2>1. PICK ns \in Seq(X) : ns = upto[i - 1]
    BY <1>1
  <2>2. Once(ns, i - 1)
    BY <1>3, <2>1
  <2>e. PICK e : e = os[i].name
    OBVIOUS
  <2>3. e \in X /\ upto[i] = IF Contains(ns, e) THEN ns ELSE Append(ns, e)
    <3>1. os[i] \in O
      BY <1>1
    <3>2. e \in X
      BY <1>X, <2>e, <3>1
    <3>3. upto[i] = OfferedOnce(ns, os[i])
      BY <1>1, <2>1
    <3> QED BY <2>e, <3>2, <3>3, Zenon DEF OfferedOnce
  <2>4. Names(i) = Names(i - 1) \cup {e}
    <3>1. 1..i = (1..(i - 1)) \cup {i}
      OBVIOUS
    <3> QED BY <2>e, <3>1
  <2>0. i \in 0..n
    OBVIOUS
  <2>k. PICK l \in Nat : l = Len(ns) /\ DOMAIN ns = 1..l
    OBVIOUS
  <2> HIDE DEF Names
  <2>5. CASE Contains(ns, e)
    <3>1. e \in ToSet(ns)
      BY <2>k, <2>5 DEF Contains, ToSet
    <3>2. upto[i] = ns /\ Names(i) = Names(i - 1)
      BY <2>2, <2>3, <2>4, <2>5, <3>1
    <3> QED BY <2>0, <2>2, <3>2
  <2>6. CASE ~Contains(ns, e)
    <3>a. PICK a : a = Append(ns, e)
      OBVIOUS
    <3>1. Len(a) = l + 1 /\ DOMAIN a = 1..(l + 1) /\ a[l + 1] = e /\ \A j \in 1..l : a[j] = ns[j]
      BY <2>k, <2>3, <3>a, AppendProperties
    <3>2. \A j \in 1..l : ns[j] # e
      BY <2>k, <2>6 DEF Contains
    <3>3. ToSet(a) = ToSet(ns) \cup {e}
      BY <2>k, <3>1 DEF ToSet
    <3>4. \A j \in 1..(l + 1) : j \in 1..l \/ j = l + 1
      OBVIOUS
    <3>5. IsInjective(a)
      <4>1. \A b, c \in 1..l : ns[b] = ns[c] => b = c
        BY <2>2, <2>k DEF IsInjective
      <4>2. ASSUME NEW b \in 1..(l + 1), NEW c \in 1..(l + 1), a[b] = a[c] PROVE b = c
        BY <3>1, <3>2, <3>4, <4>1, <4>2
      <4> QED BY <3>1, <4>2, Zenon DEF IsInjective
    <3>6. upto[i] = a /\ ToSet(a) = Names(i)
      BY <2>2, <2>3, <2>4, <2>6, <3>a, <3>3
    <3> QED BY <2>0, <3>5, <3>6
  <2> QED BY <2>5, <2>6
<1>4. \A i \in 0..n : i \in S
  <2> HIDE DEF S
  <2>1. \A i \in 1..n : i - 1 \in S => i \in S
    BY <1>3
  <2> QED BY <1>2, <2>1, LoopInduction
<1>5. n \in 0..n
  OBVIOUS
<1>6. Once(upto[n], n) /\ upto[n] \in Seq(X)
  BY <1>1, <1>4, <1>5
<1>7. Names(n) = {o.name : o \in ToSet(os)}
  BY <1>n DEF ToSet
<1> QED BY <1>X, <1>0, <1>6, <1>7

\* What the parts of a sequence are together has the elements of the parts.
LEMMA FlattenHasAll ==
    ASSUME NEW X, NEW s \in Seq(Seq(X))
    PROVE  ToSet(FlattenSeq(s)) = UNION {ToSet(s[i]) : i \in 1..Len(s)}
<1>n. PICK n \in Nat : n = Len(s)
  OBVIOUS
<1>y. PICK Y : Y = Seq(X)
  OBVIOUS
<1>1. \A i \in 1..n : s[i] \in Y
  BY <1>n, <1>y
<1>2. PICK f \in [0..n -> Y] : /\ f[0] = <<>> /\ FlattenSeq(s) = f[n]
                               /\ \A i \in 1..n : f[i] = f[i - 1] \o s[i]
  <2>1. PICK f : Joins(f, s, X) /\ FlattenSeq(s) = f[Len(s)]
    BY FlattenJoins
  <2> QED BY <1>n, <1>y, <2>1 DEF Joins
<1>3. ASSUME NEW a \in Seq(X), NEW b \in Seq(X)
      PROVE  ToSet(a \o b) = ToSet(a) \cup ToSet(b)
  <2>1. \A t : ToSet(t) = Range(t)
    BY Zenon DEF ToSet, Range
  <2>2. Range(a \o b) = Range(a) \cup Range(b)
    BY RangeConcatenation
  <2> QED BY <2>1, <2>2, Zenon
<1>4. \A a, b \in Y : ToSet(a \o b) = ToSet(a) \cup ToSet(b)
  BY <1>y, <1>3
<1> DEFINE Sets(i) == {ToSet(s[k]) : k \in 1..i}
           S == {i \in 0..n : ToSet(f[i]) = UNION Sets(i)}
<1>5. 0 \in S
  <2>1. ToSet(<<>>) = {}
    <3>1. DOMAIN <<>> = {}
      OBVIOUS
    <3> QED BY <3>1, Zenon DEF ToSet
  <2>2. Sets(0) = {}
    OBVIOUS
  <2> QED BY <1>2, <2>1, <2>2
<1>6. ASSUME NEW i \in 1..n, i - 1 \in S PROVE i \in S
  <2>1. ToSet(f[i - 1]) = UNION Sets(i - 1) /\ i \in 0..n /\ f[i - 1] \in Y /\ s[i] \in Y
    BY <1>1, <1>6
  <2>2. Sets(i) = Sets(i - 1) \cup {ToSet(s[i])}
    <3>1. 1..i = (1..(i - 1)) \cup {i}
      OBVIOUS
    <3> QED BY <3>1
  <2>3. f[i] = f[i - 1] \o s[i]
    BY <1>2
  <2>4. ToSet(f[i]) = ToSet(f[i - 1]) \cup ToSet(s[i])
    BY <1>4, <2>1, <2>3
  <2>5. UNION Sets(i) = (UNION Sets(i - 1)) \cup ToSet(s[i])
    <3> HIDE DEF Sets
    <3> QED BY <2>2
  <2> QED BY <2>1, <2>4, <2>5
<1>7. \A i \in 0..n : i \in S
  <2> HIDE DEF S
  <2>1. \A i \in 1..n : i - 1 \in S => i \in S
    BY <1>6
  <2> QED BY <1>5, <2>1, LoopInduction
<1>8. n \in 0..n
  OBVIOUS
<1>9. ToSet(f[n]) = UNION Sets(n)
  BY <1>7, <1>8
<1> QED BY <1>n, <1>2, <1>9

----------------------------------------------------------------------------
(* Files                                                                   *)

\* A section is the items of a piece of its type, or empty if there is none.
LEMMA SectionIs ==
    ASSUME NEW P, NEW pieces \in Seq(P), NEW t
    PROVE  \/ chno_section(pieces, t) = <<>> /\ \A i \in 1..Len(pieces) : pieces[i].type # t
           \/ \E x \in P : x.type = t /\ chno_section(pieces, t) = x.items
<1>n. PICK n \in Nat : n = Len(pieces) /\ DOMAIN pieces = 1..n
  OBVIOUS
<1>f. PICK found : found = {i \in DOMAIN pieces : pieces[i].type = t}
  OBVIOUS
<1>1. chno_section(pieces, t) = IF found = {} THEN <<>> ELSE pieces[Min(found)].items
  BY <1>f, Zenon DEF chno_section
<1>2. CASE found = {}
  BY <1>n, <1>f, <1>1, <1>2
<1>3. CASE found # {}
  <2>1. found \in SUBSET Nat
    BY <1>n, <1>f
  <2>2. \E i \in found : \A j \in found : i <= j
    BY <1>3, <2>1, LeastExists
  <2>3. Min(found) \in found
    BY <2>2 DEF Min
  <2>4. pieces[Min(found)] \in P /\ pieces[Min(found)].type = t
    BY <1>f, <1>n, <2>3
  <2> QED BY <1>1, <1>3, <2>4
<1> QED BY <1>2, <1>3

\* What a file starts with, and its sections.
Header(sections) == [type |-> "header", payload |-> sections]
Directory == [type |-> "directory"]

LEMMA FlushFacts ==
    ASSUME NEW X, NEW s \in Seq(X)
    PROVE  /\ flush_chno(s) \in Seq(ToSet(flush_chno(s))) /\ flush_chno(s) # <<>>
           /\ ToSet(flush_chno(s)) = {Header(s), Directory} \cup ToSet(s)
<1>Y. PICK Y : Y = X \cup {Header(s), Directory}
  OBVIOUS
<1>h. PICK h \in Seq(Y) : h = <<Header(s), Directory>>
  <2>1. PICK a \in Y : a = Header(s)
    BY <1>Y
  <2>2. PICK b \in Y : b = Directory
    BY <1>Y
  <2>3. <<a, b>> \in Seq(Y)
    OBVIOUS
  <2> QED BY <2>1, <2>2, <2>3
<1>1. s \in Seq(Y)
  BY <1>Y, SeqMonotonic
<1>f. PICK f \in Seq(Y) : f = flush_chno(s) /\ f = h \o s
  <2>1. h \o s \in Seq(Y)
    BY <1>1, ConcatProperties
  <2>2. flush_chno(s) = h \o s
    BY <1>h, Zenon DEF flush_chno, Header, Directory
  <2> QED BY <2>1, <2>2
<1>2. \A t : ToSet(t) = Range(t)
  BY Zenon DEF ToSet, Range
<1>3. f \in Seq(Range(f))
  BY SeqOfRange
<1>4. Range(f) = Range(h) \cup Range(s)
  BY <1>f, <1>1, RangeConcatenation
<1>5. DOMAIN h = 1..2 /\ h[1] = Header(s) /\ h[2] = Directory
  BY <1>h
<1>6. Range(h) = {Header(s), Directory}
  BY <1>5 DEF Range
<1>7. f # <<>>
  BY <1>f, <1>1, <1>h, ConcatEqualIffEmpty, ConcatProperties
<1> QED BY <1>f, <1>2, <1>3, <1>4, <1>6, <1>7, Zenon

\* The facts of ProgramAssumption about the units of a program.
LEMMA UnitFacts ==
    ASSUME NEW p \in Programs, NEW k \in 1..Len(p.units)
    PROVE  /\ p.units[k].funcs \in Seq(ToSet(p.units[k].funcs))
           /\ ToSet(p.units[k].funcs) \subseteq Id /\ p.units[k].main \in Id
           /\ p.kind # "functions" => ToSet(p.units[k].funcs) \subseteq InFile(p)
           /\ {f \in ToSet(p.units[k].funcs) : Function[f].exported} \subseteq InFile(p)
<1>1. IsUnit(p.units[k]) /\ p.units \in Seq(Range(p.units))
  BY ProgramAssumption
<1>u. PICK u : u = p.units[k]
  OBVIOUS
<1>2. u.funcs \in Seq(Id) /\ u.main \in Id
  BY <1>1, <1>u DEF IsUnit
<1>3. u.funcs \in Seq(Range(u.funcs)) /\ Range(u.funcs) \in SUBSET Id
  BY <1>2, SeqOfRange, RangeOfSeq
<1>4. ToSet(u.funcs) = Range(u.funcs)
  BY Zenon DEF ToSet, Range
<1>5. k \in DOMAIN p.units
  BY <1>1
<1>6. {f \in ToSet(u.funcs) : p.kind = "functions" => Function[f].exported} \subseteq InFile(p)
  BY <1>5, <1>u DEF InFile
<1> QED BY <1>2, <1>3, <1>4, <1>6, <1>u

\* Functions of a file, stored.
LEMMA StoredAreStored ==
    ASSUME NEW w \in Writing, NEW fs \in Seq(InFile(w.prog))
    PROVE  StoredFunctions(fs, w.minify) \in Seq(StoredAt(w))
<1>n. PICK n \in Nat : n = Len(fs)
  OBVIOUS
<1>S. PICK S : S = StoredAt(w)
  OBVIOUS
<1>1. \A i \in 1..n : StoredFunction(fs[i], w.minify) \in S
  <2>1. \A i \in 1..n : fs[i] \in InFile(w.prog)
    BY <1>n
  <2> QED BY <1>S, <2>1, Zenon DEF StoredAt
<1>2. [i \in 1..n |-> StoredFunction(fs[i], w.minify)] \in Seq(S)
  BY <1>1, IsASeq
<1> QED BY <1>n, <1>S, <1>2, Zenon DEF StoredFunctions

\* A unit of a bundle, as it is read.
UnitOf(u, w) ==
    /\ u.funcs \in Seq(StoredAt(w)) /\ u.internal \in Seq(StoredAt(w))
    /\ u.main = <<>> \/ \E f \in Id : u.main = <<StoredMain(f, w.minify)>>

LEMMA UnitComesBack ==
    ASSUME NEW w \in Writing, NEW k \in 1..Len(w.prog.units), w.prog.kind = "bundle"
    PROVE  UnitOf(StoredUnit(w.prog.units[k], w.minify), w)
<1>p. PICK p \in Programs : p = w.prog
  BY DEF Writing
<1>u. PICK u : u = p.units[k]
  OBVIOUS
<1>m. PICK m : m = w.minify
  OBVIOUS
<1>F. PICK F : F = ToSet(u.funcs)
  OBVIOUS
<1>1. u.funcs \in Seq(F) /\ F \subseteq InFile(p) /\ u.main \in Id
  BY <1>p, <1>u, <1>F, UnitFacts
<1>2. \A S : Among(u.funcs, S) \in Seq(InFile(p))
  <2> TAKE S
  <2>1. Among(u.funcs, S) \in Seq(F \cap S)
    BY <1>1, AmongIsSeq
  <2>2. F \cap S \subseteq InFile(p)
    BY <1>1
  <2> QED BY <2>1, <2>2, SeqMonotonic
<1>3. Exported(u.funcs) \in Seq(InFile(p)) /\ Internal(u.funcs) \in Seq(InFile(p))
  BY <1>2, Zenon DEF Exported, Internal
<1>s. PICK s : s = StoredUnit(u, m)
  OBVIOUS
<1>4. /\ s.funcs = StoredFunctions(Exported(u.funcs), m)
      /\ s.internal = StoredFunctions(Internal(u.funcs), m)
      /\ s.main = IF u.entry THEN <<StoredMain(u.main, m)>> ELSE <<>>
  BY <1>s DEF StoredUnit
<1>5. s.funcs \in Seq(StoredAt(w)) /\ s.internal \in Seq(StoredAt(w))
  BY <1>p, <1>m, <1>3, <1>4, StoredAreStored
<1>6. s.main = <<>> \/ \E f \in Id : s.main = <<StoredMain(f, m)>>
  BY <1>1, <1>4, Zenon
<1> QED BY <1>p, <1>u, <1>m, <1>s, <1>5, <1>6, Zenon DEF UnitOf

\* A piece of a file, as it is read.
PieceOf(x, w) ==
    /\ x.type = "funcs" => x.items \in Seq(StoredAt(w))
    /\ x.type = "imports" => x.items = w.prog.imports
    /\ x.type = "main" => \E f \in Id : x.items = <<StoredMain(f, w.minify)>>
    /\ x.type = "header" /\ w.prog.kind = "program" =>
          \E k \in 1..Len(x.payload) : x.payload[k].type = "main"
    /\ x.type = "bundle" => /\ w.prog.kind = "bundle" /\ x.payload \in Seq(Range(x.payload))
                            /\ \A k \in 1..Len(x.payload) : UnitOf(x.payload[k], w)

WrittenIs(w) ==
    /\ Written(w.prog, w.minify) \in Seq(Pieces(w)) /\ Written(w.prog, w.minify) # <<>>
    /\ \A x \in Pieces(w) : PieceOf(x, w)

LEMMA ProgramIs ==
    ASSUME NEW w \in Writing, w.prog.kind = "program"
    PROVE  WrittenIs(w)
<1>p. PICK p \in Programs : p = w.prog
  BY DEF Writing
<1>m. PICK m : m = w.minify
  OBVIOUS
<1>0. 1 \in 1..Len(p.units)
  BY ProgramAssumption, EmptySeq
<1>u. PICK u : u = p.units[1]
  OBVIOUS
<1>1. u.funcs \in Seq(ToSet(u.funcs)) /\ ToSet(u.funcs) \subseteq InFile(p) /\ u.main \in Id
  BY <1>0, <1>p, <1>u, UnitFacts
<1>2. u.funcs \in Seq(InFile(p))
  BY <1>1, SeqMonotonic
<1>a. PICK a : a = Section("imports", p.imports)
  OBVIOUS
<1>b. PICK b : b = Section("funcs", StoredFunctions(u.funcs, m))
  OBVIOUS
<1>c. PICK c : c = Section("main", <<StoredMain(u.main, m)>>)
  OBVIOUS
<1>3. a.type = "imports" /\ a.items = p.imports
  BY <1>a DEF Section
<1>4. b.type = "funcs" /\ b.items \in Seq(StoredAt(w))
  <2>1. StoredFunctions(u.funcs, m) \in Seq(StoredAt(w))
    BY <1>p, <1>m, <1>2, StoredAreStored
  <2>2. b.type = "funcs" /\ b.items = StoredFunctions(u.funcs, m)
    BY <1>b DEF Section
  <2> QED BY <2>1, <2>2
<1>5. c.type = "main" /\ c.items = <<StoredMain(u.main, m)>>
  BY <1>c DEF Section
<1>s. PICK s \in Seq({a, b, c}) : s = <<a, b, c>>
  <2>1. PICK Y : Y = {a, b, c}
    OBVIOUS
  <2>2. a \in Y /\ b \in Y /\ c \in Y
    BY <2>1
  <2>3. <<a, b, c>> \in Seq(Y)
    BY <2>2
  <2> QED BY <2>1, <2>3, Zenon
<1>6. Len(s) = 3 /\ s[3] = c /\ ToSet(s) = {a, b, c}
  BY <1>s DEF ToSet
<1>f. PICK f : f = flush_chno(s)
  OBVIOUS
<1>7. f = Written(p, m)
  <2>1. Written(p, m) = bc_write_program(p, m)
    BY <1>p DEF Written
  <2> QED BY <2>1, <1>f, <1>s, <1>a, <1>b, <1>c, <1>u, Zenon DEF bc_write_program
<1>8. f \in Seq(ToSet(f)) /\ f # <<>> /\ ToSet(f) = {Header(s), Directory} \cup {a, b, c}
  BY <1>f, <1>6, FlushFacts
<1>h. PICK h : h = Header(s)
  OBVIOUS
<1>d. PICK d : d = Directory
  OBVIOUS
<1>9. h.type = "header" /\ h.payload = s /\ d.type = "directory"
  BY <1>h, <1>d DEF Header, Directory
<1>10. PieceOf(h, w)
  <2>1. \E k \in 1..Len(h.payload) : h.payload[k].type = "main"
    <3>1. Len(h.payload) = 3 /\ h.payload[3].type = "main"
      BY <1>5, <1>6, <1>9, Zenon
    <3>2. 3 \in 1..3
      OBVIOUS
    <3> QED BY <3>1, <3>2, Zenon
  <2> QED BY <1>9, <2>1 DEF PieceOf
<1>11. PieceOf(d, w)
  BY <1>9 DEF PieceOf
<1>12. PieceOf(a, w)
  BY <1>3, <1>p DEF PieceOf
<1>13. PieceOf(b, w)
  BY <1>4 DEF PieceOf
<1>14. PieceOf(c, w)
  BY <1>1, <1>5, <1>m DEF PieceOf
<1>15. \A x \in ToSet(f) : x \in {h, d, a, b, c}
  BY <1>8, <1>h, <1>d
<1>16. \A x \in ToSet(f) : PieceOf(x, w)
  BY <1>10, <1>11, <1>12, <1>13, <1>14, <1>15
<1> QED BY <1>p, <1>m, <1>7, <1>8, <1>16, Zenon DEF WrittenIs, Pieces

LEMMA FunctionsFileIs ==
    ASSUME NEW w \in Writing, w.prog.kind = "functions"
    PROVE  WrittenIs(w)
<1>p. PICK p \in Programs : p = w.prog
  BY DEF Writing
<1>m. PICK m : m = w.minify
  OBVIOUS
<1>0. 1 \in 1..Len(p.units)
  BY ProgramAssumption, EmptySeq
<1>u. PICK u : u = p.units[1]
  OBVIOUS
<1>F. PICK F : F = ToSet(u.funcs)
  OBVIOUS
<1>1. u.funcs \in Seq(F) /\ F \subseteq Id /\ {f \in F : Function[f].exported} \subseteq InFile(p)
  BY <1>0, <1>p, <1>u, <1>F, UnitFacts
<1>2. Exported(u.funcs) \in Seq(InFile(p))
  <2>1. Exported(u.funcs) \in Seq(F \cap {f \in Id : Function[f].exported})
    BY <1>1, AmongIsSeq DEF Exported
  <2>2. F \cap {f \in Id : Function[f].exported} \subseteq InFile(p)
    BY <1>1
  <2> QED BY <2>1, <2>2, SeqMonotonic
<1>b. PICK b : b = Section("funcs", StoredFunctions(Exported(u.funcs), m))
  OBVIOUS
<1>4. b.type = "funcs" /\ b.items \in Seq(StoredAt(w))
  <2>1. StoredFunctions(Exported(u.funcs), m) \in Seq(StoredAt(w))
    BY <1>p, <1>m, <1>2, StoredAreStored
  <2>2. b.type = "funcs" /\ b.items = StoredFunctions(Exported(u.funcs), m)
    BY <1>b DEF Section
  <2> QED BY <2>1, <2>2
<1>s. PICK s \in Seq({b}) : s = <<b>>
  BY SingleIsSeq
<1>6. ToSet(s) = {b}
  BY <1>s DEF ToSet
<1>f. PICK f : f = flush_chno(s)
  OBVIOUS
<1>7. f = Written(p, m)
  <2>1. Written(p, m) = bc_write_functions(p, m)
    BY <1>p DEF Written
  <2> QED BY <2>1, <1>f, <1>s, <1>b, <1>u, Zenon DEF bc_write_functions
<1>8. f \in Seq(ToSet(f)) /\ f # <<>> /\ ToSet(f) = {Header(s), Directory} \cup {b}
  BY <1>f, <1>6, FlushFacts
<1>h. PICK h : h = Header(s)
  OBVIOUS
<1>d. PICK d : d = Directory
  OBVIOUS
<1>9. h.type = "header" /\ d.type = "directory"
  BY <1>h, <1>d DEF Header, Directory
<1>10. PieceOf(h, w) /\ PieceOf(d, w)
  BY <1>9 DEF PieceOf
<1>11. PieceOf(b, w)
  BY <1>4 DEF PieceOf
<1>12. \A x \in ToSet(f) : x \in {h, d, b}
  BY <1>8, <1>h, <1>d
<1>13. \A x \in ToSet(f) : PieceOf(x, w)
  BY <1>10, <1>11, <1>12
<1> QED BY <1>p, <1>m, <1>7, <1>8, <1>13, Zenon DEF WrittenIs, Pieces

LEMMA BundleIs ==
    ASSUME NEW w \in Writing, w.prog.kind = "bundle"
    PROVE  WrittenIs(w)
<1>p. PICK p \in Programs : p = w.prog
  BY DEF Writing
<1>m. PICK m : m = w.minify
  OBVIOUS
<1>n. PICK n \in Nat : n = Len(p.units)
  BY ProgramAssumption
<1>us. PICK us : us = [k \in 1..n |-> StoredUnit(p.units[k], m)]
  OBVIOUS
<1>1. \A k \in 1..n : UnitOf(us[k], w)
  BY <1>p, <1>m, <1>n, <1>us, UnitComesBack
<1>2. \A k \in 1..n : us[k].type = "unit"
  BY <1>us DEF StoredUnit
<1>R. PICK R : R = Range(us)
  OBVIOUS
<1>3. DOMAIN us = 1..n /\ Len(us) = n /\ us \in Seq(R)
  <2>1. DOMAIN us = 1..n
    BY <1>us
  <2>2. \A k \in 1..n : us[k] \in R
    BY <2>1, <1>R DEF Range
  <2>3. [k \in 1..n |-> us[k]] \in Seq(R)
    BY <2>2, IsASeq
  <2>4. us = [k \in 1..n |-> us[k]]
    BY <1>us
  <2> QED BY <2>1, <2>3, <2>4
<1>h. PICK h : h = [type |-> "bundle", payload |-> us, entry_unit |-> EntryUnit(p.units)]
  OBVIOUS
<1>4. h.type = "bundle" /\ h.payload = us
  BY <1>h
<1>Y. PICK Y : Y = R \cup {h}
  OBVIOUS
<1>5. us \in Seq(Y) /\ <<h>> \in Seq(Y)
  <2>1. us \in Seq(Y)
    BY <1>Y, <1>3, SeqMonotonic
  <2>2. h \in Y
    BY <1>Y
  <2> QED BY <2>1, <2>2
<1>s. PICK s \in Seq(Y) : s = <<h>>
  BY <1>5, Zenon
<1>f. PICK f \in Seq(Y) : f = s \o us
  <2>1. s \o us \in Seq(Y)
    BY <1>5, ConcatProperties
  <2> QED BY <2>1
<1>6. f = Written(p, m)
  <2>1. Written(p, m) = bc_write_cco(p, m)
    BY <1>p DEF Written
  <2> QED BY <2>1, <1>f, <1>s, <1>h, <1>us, <1>n, Zenon DEF bc_write_cco
<1>7. \A t : ToSet(t) = Range(t)
  BY Zenon DEF ToSet, Range
<1>8. f \in Seq(Range(f)) /\ Range(f) = Range(s) \cup R
  BY <1>f, <1>5, <1>R, SeqOfRange, RangeConcatenation
<1>9. Range(s) = {h}
  <2>1. DOMAIN s = {1} /\ s[1] = h
    BY <1>s
  <2> QED BY <2>1 DEF Range
<1>10. f # <<>>
  <2>1. s # <<>>
    BY <1>s
  <2> QED BY <1>f, <1>5, <2>1, ConcatEqualIffEmpty, ConcatProperties
<1>11. PieceOf(h, w)
  <2>1. h.payload \in Seq(Range(h.payload)) /\ \A k \in 1..Len(h.payload) : UnitOf(h.payload[k], w)
    BY <1>1, <1>3, <1>4, <1>R
  <2> QED BY <1>4, <2>1 DEF PieceOf
<1>12. \A x \in R : x.type = "unit"
  BY <1>2, <1>3, <1>R DEF Range
<1>13. \A x \in R : PieceOf(x, w)
  <2> TAKE x \in R
  <2>1. x.type = "unit"
    BY <1>12
  <2> QED BY <2>1 DEF PieceOf
<1>14. \A x \in Range(f) : PieceOf(x, w)
  BY <1>8, <1>9, <1>11, <1>13
<1> QED BY <1>p, <1>m, <1>6, <1>7, <1>8, <1>10, <1>14, Zenon DEF WrittenIs, Pieces

\* What is written of any program.
LEMMA WrittenFacts ==
    ASSUME NEW w \in Writing
    PROVE  WrittenIs(w)
<1>1. w.prog \in Programs
  BY DEF Writing
<1>2. w.prog.kind \in {"program", "functions", "bundle"}
  BY <1>1, ProgramAssumption
<1> QED BY <1>2, ProgramIs, FunctionsFileIs, BundleIs

\* A file that could be opened is there, and whole.
LEMMA OpenFacts ==
    ASSUME NEW P, NEW pieces \in Seq(P)
    PROVE  /\ chno_open(pieces) = "ok" =>
                 /\ pieces # <<>> /\ Len(pieces) > 1 /\ pieces[1] \in P /\ pieces[1].type = "header"
                 /\ SubSeq(pieces, 3, Len(pieces)) = pieces[1].payload
           /\ cco_open(pieces) = "ok" =>
                 /\ pieces # <<>> /\ pieces[1] \in P /\ pieces[1].type = "bundle"
                 /\ Len(pieces) = 1 \/ Tail(pieces) = pieces[1].payload
<1>n. PICK n \in Nat : n = Len(pieces)
  OBVIOUS
<1>t. PICK t : t = pieces[1].type
  OBVIOUS
<1>1. (pieces # <<>> => n # 0 /\ pieces[1] \in P) /\ (n # 0 => pieces # <<>>)
  BY <1>n, EmptySeq
<1>2. ASSUME chno_open(pieces) = "ok"
      PROVE  /\ pieces # <<>> /\ n > 1 /\ t = "header"
             /\ SubSeq(pieces, 3, n) = pieces[1].payload
  <2>1. pieces # <<>>
    BY <1>2 DEF chno_open
  <2>2. t = "header"
    BY <1>2, <2>1, <1>t DEF chno_open
  <2>3. n > 1
    BY <1>2, <1>1, <1>n, <1>t, <2>1, <2>2 DEF chno_open
  <2>4. adler32_matches(pieces[1], SubSeq(pieces, 3, n))
    BY <1>2, <1>n, <1>t, <2>1, <2>2, <2>3 DEF chno_open
  <2> QED BY <2>1, <2>2, <2>3, <2>4 DEF adler32_matches
<1>3. ASSUME cco_open(pieces) = "ok"
      PROVE  pieces # <<>> /\ t = "bundle" /\ (n = 1 \/ Tail(pieces) = pieces[1].payload)
  <2>1. pieces # <<>>
    BY <1>3 DEF cco_open
  <2>2. t = "bundle"
    BY <1>3, <2>1, <1>t DEF cco_open
  <2>3. n = 1 \/ n > 1
    BY <1>1, <2>1
  <2>4. n > 1 => adler32_matches(pieces[1], Tail(pieces))
    BY <1>3, <1>n, <1>t, <2>1, <2>2 DEF cco_open
  <2> QED BY <2>1, <2>2, <2>3, <2>4 DEF adler32_matches
<1> QED BY <1>n, <1>t, <1>1, <1>2, <1>3, Zenon

\* What is read of a file, whether it is whole or not.
LEMMA SectionsRead ==
    ASSUME NEW w \in Writing, NEW pieces \in Seq(Pieces(w))
    PROVE  /\ chno_section(pieces, "funcs") \in Seq(StoredAt(w))
           /\ chno_section(pieces, "imports") \in Seq(Paths)
           /\ chno_section(pieces, "imports") \in {<<>>, w.prog.imports}
<1>S. PICK S : S = StoredAt(w)
  OBVIOUS
<1>P. PICK P : P = Pieces(w)
  OBVIOUS
<1>1. \A x \in P : PieceOf(x, w)
  BY <1>P, WrittenFacts DEF WrittenIs
<1>2. chno_section(pieces, "funcs") = <<>> \/ \E x \in P : x.type = "funcs" /\ chno_section(pieces, "funcs") = x.items
  BY <1>P, SectionIs
<1>3. chno_section(pieces, "funcs") \in Seq(S)
  <2>1. <<>> \in Seq(S)
    OBVIOUS
  <2>2. \A x \in P : x.type = "funcs" => x.items \in Seq(S)
    BY <1>1, <1>S, Zenon DEF PieceOf
  <2> QED BY <1>2, <2>1, <2>2, Zenon
<1>4. chno_section(pieces, "imports") = <<>> \/ \E x \in P : x.type = "imports" /\ chno_section(pieces, "imports") = x.items
  BY <1>P, SectionIs
<1>5. \A x \in P : x.type = "imports" => x.items = w.prog.imports
  BY <1>1, Zenon DEF PieceOf
<1>6. <<>> \in Seq(Paths) /\ w.prog.imports \in Seq(Paths)
  <2>1. w.prog \in Programs
    BY DEF Writing
  <2> QED BY <2>1, ProgramAssumption
<1> QED BY <1>S, <1>3, <1>4, <1>5, <1>6, Zenon

\* A program that could be opened has its main code.
LEMMA MainRead ==
    ASSUME NEW w \in Writing, NEW pieces \in Seq(Pieces(w)), w.prog.kind = "program",
           chno_open(pieces) = "ok"
    PROVE  \E f \in Id : chno_section(pieces, "main")[1] = StoredMain(f, w.minify)
<1>n. PICK n \in Nat : n = Len(pieces)
  OBVIOUS
<1>P. PICK P : P = Pieces(w)
  OBVIOUS
<1>1. \A x \in P : PieceOf(x, w)
  BY <1>P, WrittenFacts DEF WrittenIs
<1>p. PICK payload : payload = SubSeq(pieces, 3, n)
  OBVIOUS
<1>2. /\ pieces # <<>> /\ n > 1 /\ pieces[1] \in P /\ pieces[1].type = "header" /\ payload = pieces[1].payload
  BY <1>n, <1>P, <1>p, OpenFacts
<1>3. PICK k \in 1..Len(payload) : payload[k].type = "main"
  BY <1>1, <1>2 DEF PieceOf
<1>4. Len(payload) = n - 2 /\ \A i \in 1..(n - 2) : payload[i] = pieces[i + 2]
  <2>1. 3 \in 1..(n + 1) /\ n \in (3 - 1)..n
    BY <1>2
  <2>2. Len(payload) = (IF 3 <= n THEN n - 3 + 1 ELSE 0) /\ \A i \in 1..(n - 3 + 1) : payload[i] = pieces[3 + i - 1]
    BY <1>n, <1>p, <2>1, SubSeqProperties
  <2>3. n - 3 + 1 = n - 2 /\ \A i \in 1..(n - 2) : 3 + i - 1 = i + 2
    BY <1>2
  <2> QED BY <1>2, <2>2, <2>3
<1>5. k + 2 \in 1..n /\ pieces[k + 2].type = "main"
  BY <1>3, <1>4
<1>6. PICK x \in P : x.type = "main" /\ chno_section(pieces, "main") = x.items
  BY <1>n, <1>P, <1>5, SectionIs
<1>7. PICK f \in Id : x.items = <<StoredMain(f, w.minify)>>
  BY <1>1, <1>6 DEF PieceOf
<1>8. chno_section(pieces, "main")[1] = StoredMain(f, w.minify)
  BY <1>6, <1>7
<1> QED BY <1>8

\* The units of a bundle that could be opened.
LEMMA UnitsRead ==
    ASSUME NEW w \in Writing, NEW pieces \in Seq(Pieces(w)), cco_open(pieces) = "ok"
    PROVE  /\ Units(pieces) \in Seq(Range(Units(pieces)))
           /\ \A k \in 1..Len(Units(pieces)) : UnitOf(Units(pieces)[k], w)
<1>P. PICK P : P = Pieces(w)
  OBVIOUS
<1>1. \A x \in P : PieceOf(x, w)
  BY <1>P, WrittenFacts DEF WrittenIs
<1>u. PICK us : us = Tail(pieces)
  OBVIOUS
<1>2. /\ pieces # <<>> /\ pieces[1] \in P /\ pieces[1].type = "bundle"
      /\ Len(pieces) = 1 \/ us = pieces[1].payload
  BY <1>P, <1>u, OpenFacts
<1>3. CASE Len(pieces) = 1
  <2>1. us \in Seq(P) /\ Len(us) = 0
    BY <1>P, <1>u, <1>2, <1>3, HeadTailProperties
  <2>2. us \in Seq(Range(us))
    BY <2>1, SeqOfRange
  <2> QED BY <1>u, <2>1, <2>2 DEF Units
<1>4. CASE us = pieces[1].payload
  <2>1. us \in Seq(Range(us)) /\ \A k \in 1..Len(us) : UnitOf(us[k], w)
    BY <1>1, <1>2, <1>4, Zenon DEF PieceOf
  <2> QED BY <1>u, <2>1, Zenon DEF Units
<1> QED BY <1>2, <1>3, <1>4

\* What a bundle has in its units, one behind the other.
LEMMA FunctionsRead ==
    ASSUME NEW w, NEW us, us \in Seq(Range(us)), \A k \in 1..Len(us) : UnitOf(us[k], w)
    PROVE  /\ FlattenSeq([k \in 1..Len(us) |-> us[k].funcs \o us[k].internal]) \in Seq(StoredAt(w))
           /\ FlattenSeq([k \in 1..Len(us) |-> us[k].internal \o us[k].funcs]) \in Seq(StoredAt(w))
           /\ ExportedOf(us) \in Seq(StoredAt(w))
           /\ ToSet(ExportedOf(us)) = UNION {ToSet(us[k].funcs) : k \in 1..Len(us)}
<1>n. PICK n \in Nat : n = Len(us)
  OBVIOUS
<1>S. PICK S : S = StoredAt(w)
  OBVIOUS
<1>Y. PICK Y : Y = Seq(S)
  OBVIOUS
<1>1. \A k \in 1..n : us[k].funcs \in Y /\ us[k].internal \in Y
  BY <1>n, <1>S, <1>Y, Zenon DEF UnitOf
<1>2. \A x, y \in Y : x \o y \in Y
  BY <1>Y, ConcatProperties
<1>a. PICK a \in Seq(Y) : a = [k \in 1..n |-> us[k].funcs \o us[k].internal]
  <2>1. \A k \in 1..n : us[k].funcs \o us[k].internal \in Y
    BY <1>1, <1>2
  <2>2. [k \in 1..n |-> us[k].funcs \o us[k].internal] \in Seq(Y)
    BY <2>1, IsASeq
  <2> QED BY <2>2
<1>b. PICK b \in Seq(Y) : b = [k \in 1..n |-> us[k].internal \o us[k].funcs]
  <2>1. \A k \in 1..n : us[k].internal \o us[k].funcs \in Y
    BY <1>1, <1>2
  <2>2. [k \in 1..n |-> us[k].internal \o us[k].funcs] \in Seq(Y)
    BY <2>1, IsASeq
  <2> QED BY <2>2
<1>c. PICK c \in Seq(Y) : c = [k \in 1..n |-> us[k].funcs]
  <2>1. [k \in 1..n |-> us[k].funcs] \in Seq(Y)
    BY <1>1, IsASeq
  <2> QED BY <2>1
<1>3. FlattenSeq(a) \in Seq(S) /\ FlattenSeq(b) \in Seq(S) /\ FlattenSeq(c) \in Seq(S)
  BY <1>Y, FlattenIsSeq
<1>4. Len(c) = n /\ \A k \in 1..n : c[k] = us[k].funcs
  BY <1>c
<1>5. ToSet(FlattenSeq(c)) = UNION {ToSet(c[k]) : k \in 1..Len(c)}
  BY <1>Y, FlattenHasAll
<1>6. ToSet(FlattenSeq(c)) = UNION {ToSet(us[k].funcs) : k \in 1..n}
  BY <1>4, <1>5
<1>7. FlattenSeq(c) = ExportedOf(us)
  BY <1>n, <1>c, Zenon DEF ExportedOf
<1> QED BY <1>n, <1>S, <1>a, <1>b, <1>3, <1>6, <1>7, Zenon

----------------------------------------------------------------------------
(* The invariant                                                           *)

\* What becomes of the origins of a registry when functions of a file of S are registered.
Extends(W, S, reg, new) ==
    /\ new \in Seq(Range(new)) /\ Len(new) <= MaxRegistry /\ Len(reg) <= Len(new)
    /\ \A i \in 1..Len(reg) : new[i] = reg[i] /\ (FromFile(reg, W, S, i) => FromFile(new, W, S, i))
    /\ \A i \in 1..Len(new) : Len(reg) < i => FromFile(new, W, S, i)

LEMMA OriginsKept ==
    ASSUME NEW W, NEW S, NEW P \in S, NEW X, NEW reg \in Seq(X), Len(reg) <= MaxRegistry,
           NEW os \in Seq(StoredAt(W[P])), NEW new, new = RegistryAfter(reg, os)
    PROVE  Extends(W, S, reg, new)
<1>1. Grows(reg, new, StoredAt(W[P]))
  BY RegistryGrows
<1>2. \A i \in 1..Len(reg) : FromFile(reg, W, S, i) => FromFile(new, W, S, i)
  BY <1>1, Zenon DEF Grows, FromFile
<1>3. \A i \in 1..Len(new) : Len(reg) < i => FromFile(new, W, S, i)
  BY <1>1, Zenon DEF Grows, FromFile
<1> QED BY <1>1, <1>2, <1>3, Zenon DEF Grows, Extends

\* The paths and the kinds of programs.
LEMMA PathFacts ==
    ASSUME NEW W \in Writings, NEW P \in Paths
    PROVE  /\ W[P] \in Writing /\ W[P].prog \in Programs /\ W[P].prog.path = P
           /\ \A p \in Programs : p.path = P => p.kind = W[P].prog.kind
<1>1. W[P] \in Writing /\ W[P].prog.path = P
  BY DEF Writings
<1>2. W[P].prog \in Programs
  BY <1>1 DEF Writing
<1> QED BY <1>1, <1>2, ProgramAssumption

\* There is no process.
Idles == job = NoJob /\ registry = <<>> /\ entry = <<>> /\ todo = <<>> /\ offered = <<>>

\* Without one, only the files matter.
LEMMA IdlesInv ==
    ASSUME NEW W \in Writings, DiskInv(W)', Idles'
    PROVE  Inv'
<1>1. job'.kind = None /\ job' = NoJob
  BY DEF Idles, NoJob, None
<1>2. None # "source" /\ None # "program" /\ None # "bundle"
  BY DEF None
<1>3. registry' = <<>> /\ entry' = <<>> /\ todo' = <<>> /\ offered' = <<>>
  BY DEF Idles
<1>4. <<>> \in Seq(Range(<<>>)) /\ Len(<<>>) = 0 /\ <<>> \in Seq(Paths)
  OBVIOUS
<1>5. RegistryInv(W)'
  <2>1. MaxRegistry \in Nat
    BY ProgramAssumption
  <2>2. Origins(W)'
    BY <1>1, <1>2, <1>3 DEF Origins
  <2> QED BY <1>3, <1>4, <2>1, <2>2 DEF RegistryInv
<1>6. JobInv'
  BY <1>1, <1>2, <1>3, <1>4, Zenon DEF JobInv
<1>7. EntryInv'
  BY <1>3, Zenon DEF EntryInv
<1> QED BY <1>5, <1>6, <1>7, Zenon DEF Inv, FileInv

\* At first there is nothing.
LEMMA InitInv ==
    Init => Inv
<1> SUFFICES ASSUME Init PROVE Inv
  OBVIOUS
<1> USE DEF Init
<1> DEFINE W == [P \in Paths |-> [prog |-> CHOOSE p \in Programs : p.path = P, minify |-> FALSE]]
<1>1. W \in Writings
  <2>1. \A P \in Paths : \E p \in Programs : p.path = P
    BY DEF Paths
  <2>2. \A P \in Paths : (CHOOSE p \in Programs : p.path = P) \in Programs
                         /\ (CHOOSE p \in Programs : p.path = P).path = P
    BY <2>1
  <2> QED BY <2>2 DEF Writings, Writing
<1> HIDE DEF W
<1>2. DiskInv(W)
  BY DEF DiskInv
<1>3. job.kind = None /\ None # "source" /\ None # "program" /\ None # "bundle"
  BY DEF NoJob, None
<1>4. <<>> \in Seq(Range(<<>>)) /\ Len(<<>>) = 0 /\ <<>> \in Seq(Paths)
  OBVIOUS
<1>5. RegistryInv(W)
  <2>1. MaxRegistry \in Nat
    BY ProgramAssumption
  <2>2. Origins(W)
    BY <1>3 DEF Origins
  <2> QED BY <1>4, <2>1, <2>2 DEF RegistryInv
<1>6. JobInv
  BY <1>3, <1>4, Zenon DEF JobInv
<1>7. EntryInv
  BY Zenon DEF EntryInv
<1> QED BY <1>1, <1>2, <1>5, <1>6, <1>7, Zenon DEF Inv, FileInv

\* While nothing is written, the files are what they were.
LEMMA DiskKept ==
    ASSUME NEW W, DiskInv(W), disk' = disk, writing' = writing
    PROVE  DiskInv(W)'
BY DEF DiskInv

\* When nothing changes.
LEMMA NothingKeeps ==
    ASSUME Inv, disk' = disk, writing' = writing, registry' = registry, todo' = todo, job' = job,
           offered' = offered, entry' = entry
    PROVE  Inv'
<1>1. PICK W \in Writings : DiskInv(W) /\ RegistryInv(W)
  BY DEF Inv, FileInv
<1>2. DiskInv(W)'
  BY <1>1, DiskKept
<1>3. RegistryInv(W)'
  BY <1>1 DEF RegistryInv, Origins, SourceOrigins, FromFile
<1>4. JobInv' /\ EntryInv'
  BY DEF Inv, JobInv, EntryInv
<1> QED BY <1>2, <1>3, <1>4, Zenon DEF Inv, FileInv

\* Emptying a file to write it.
LEMMA WriteFileInv ==
    ASSUME Inv, NEW p \in Programs, NEW m \in BOOLEAN, write_file(p, m)
    PROVE  Inv'
<1>0. PICK W \in Writings : DiskInv(W) /\ RegistryInv(W)
  BY DEF Inv, FileInv
<1>a. /\ job = NoJob /\ registry' = registry /\ entry' = entry /\ todo' = todo /\ offered' = offered
      /\ job' = job /\ disk' = [disk EXCEPT ![p.path] = <<>>]
      /\ writing' = [path |-> p.path, todo |-> Written(p, m)]
  BY DEF write_file, process
<1>Q. PICK Q \in Paths : Q = p.path
  BY DEF Paths
<1>w. PICK w \in Writing : w = [prog |-> p, minify |-> m] /\ w.prog = p /\ w.minify = m
  <2>1. [prog |-> p, minify |-> m] \in Writing
    BY DEF Writing
  <2> QED BY <2>1
<1>V. PICK V : V = [W EXCEPT ![Q] = w]
  OBVIOUS
<1>1. V \in Writings /\ V[Q] = w /\ \A P \in Paths : P # Q => V[P] = W[P]
  BY <1>Q, <1>w, <1>V DEF Writings
<1>2. Written(p, m) \in Seq(Pieces(w)) /\ Written(p, m) # <<>>
  BY <1>w, WrittenFacts DEF WrittenIs
<1>3. DOMAIN disk = Paths /\ \A P \in Paths : disk[P] \in Seq(Pieces(W[P]))
  BY <1>0 DEF DiskInv
<1>4. ASSUME NEW P \in Paths PROVE disk'[P] \in Seq(Pieces(V[P]))
  <2>1. CASE P = Q
    <3>1. disk'[P] = <<>>
      BY <1>a, <1>3, <1>Q, <2>1
    <3> QED BY <3>1
  <2>2. CASE P # Q
    BY <1>a, <1>1, <1>3, <1>Q, <2>2
  <2> QED BY <2>1, <2>2
<1>5. DiskInv(V)'
  <2>1. DOMAIN disk' = Paths
    BY <1>a, <1>3
  <2> QED BY <1>a, <1>Q, <1>1, <1>2, <1>4, <2>1, Zenon DEF DiskInv
<1>6. Idles'
  <2>1. registry = <<>> /\ entry = <<>> /\ todo = <<>> /\ offered = <<>>
    BY <1>a DEF Inv, JobInv
  <2>2. NoJob' = NoJob
    BY DEF NoJob, None
  <2> QED BY <1>a, <2>1, <2>2, Zenon DEF Idles
<1> QED BY <1>1, <1>5, <1>6, IdlesInv

\* Writing the next piece, or stopping.
LEMMA WritePieceInv ==
    ASSUME Inv, write_piece \/ write_cut_off
    PROVE  Inv'
<1>0. PICK W \in Writings : DiskInv(W) /\ RegistryInv(W)
  BY DEF Inv, FileInv
<1>a. /\ writing # Idle /\ registry' = registry /\ entry' = entry /\ todo' = todo /\ offered' = offered
      /\ job' = job
  BY DEF write_piece, write_cut_off, process
<1>p. PICK P \in Paths : \E s \in Seq(Pieces(W[P])) : s # <<>> /\ writing = [path |-> P, todo |-> s]
  BY <1>0, <1>a DEF DiskInv
<1>X. PICK X : X = Pieces(W[P])
  OBVIOUS
<1>1. PICK s \in Seq(X) : s # <<>> /\ writing = [path |-> P, todo |-> s]
  BY <1>p, <1>X
<1>2. DOMAIN disk = Paths /\ disk[P] \in Seq(X) /\ \A Q \in Paths : disk[Q] \in Seq(Pieces(W[Q]))
  BY <1>0, <1>X DEF DiskInv
<1>5. Idles'
  <2>1. job = NoJob /\ registry = <<>> /\ entry = <<>> /\ todo = <<>> /\ offered = <<>>
    BY <1>a DEF Inv, JobInv
  <2>2. NoJob' = NoJob
    BY DEF NoJob, None
  <2> QED BY <1>a, <2>1, <2>2, Zenon DEF Idles
<1>3. CASE write_cut_off
  <2>1. disk' = disk /\ writing' = Idle
    BY <1>3 DEF write_cut_off
  <2>2. Idle' = Idle
    BY DEF Idle, None
  <2>3. DiskInv(W)'
    BY <1>2, <2>1, <2>2, Zenon DEF DiskInv
  <2> QED BY <1>5, <2>3, IdlesInv
<1>4. CASE write_piece
  <2>1. /\ disk' = [disk EXCEPT ![writing.path] = Append(@, Head(writing.todo))]
        /\ writing' = IF Len(writing.todo) = 1 THEN Idle ELSE [writing EXCEPT !.todo = Tail(@)]
    BY <1>4, Zenon DEF write_piece
  <2>2. writing.path = P /\ writing.todo = s
    BY <1>1
  <2>e. [writing EXCEPT !.todo = Tail(@)] = [path |-> P, todo |-> Tail(s)]
    <3>1. PICK x : x = Tail(s)
      OBVIOUS
    <3>2. [writing EXCEPT !.todo = x] = [path |-> P, todo |-> x]
      BY <1>1
    <3>3. [writing EXCEPT !.todo = Tail(@)] = [writing EXCEPT !.todo = x]
      BY <2>2, <3>1
    <3> QED BY <3>1, <3>2, <3>3, Zenon
  <2>t. PICK t \in Seq(X) : t = Tail(s) /\ (Len(s) # 1 => t # <<>>)
    <3>1. s \in Seq(X) /\ s # <<>>
      BY <1>1
    <3>2. Tail(s) \in Seq(X) /\ Len(Tail(s)) = Len(s) - 1
      BY <3>1, HeadTailProperties
    <3>3. PICK n \in Nat : n = Len(s)
      OBVIOUS
    <3>4. n - 1 = 0 => n = 1
      OBVIOUS
    <3>5. Len(<<>>) = 0
      OBVIOUS
    <3> QED BY <3>2, <3>3, <3>4, <3>5, Zenon
  <2>h. Head(s) \in X
    BY <1>1, HeadTailProperties
  <2>3. disk' = [disk EXCEPT ![P] = Append(disk[P], Head(s))]
    BY <1>2, <2>1, <2>2
  <2>4. Append(disk[P], Head(s)) \in Seq(X)
    BY <1>2, <2>h, AppendProperties
  <2>5. ASSUME NEW Q \in Paths PROVE disk'[Q] \in Seq(Pieces(W[Q]))
    <3>1. CASE Q = P
      <4>1. disk'[Q] = Append(disk[P], Head(s))
        BY <1>2, <2>3, <3>1
      <4> QED BY <1>X, <2>4, <3>1, <4>1
    <3>2. CASE Q # P
      <4>1. disk'[Q] = disk[Q]
        BY <1>2, <2>3, <3>2
      <4> QED BY <1>2, <4>1
    <3> QED BY <3>1, <3>2
  <2>6. DOMAIN disk' = Paths
    BY <1>2, <2>3
  <2>7. Idle' = Idle
    BY DEF Idle, None
  <2>8. writing' = Idle \/ (t # <<>> /\ writing' = [path |-> P, todo |-> t])
    BY <2>1, <2>2, <2>e, <2>t, Zenon
  <2>9. DiskInv(W)'
    BY <1>X, <2>5, <2>6, <2>7, <2>8, <2>t, Zenon DEF DiskInv
  <2> QED BY <1>5, <2>9, IdlesInv
<1> QED BY <1>3, <1>4

\* The process ends.
LEMMA GoneInv ==
    ASSUME Inv, Gone
    PROVE  Inv'
<1>0. PICK W \in Writings : DiskInv(W)
  BY DEF Inv, FileInv
<1>1. DiskInv(W)'
  BY <1>0 DEF Gone, DiskInv, Idle
<1>2. Idles'
  BY DEF Gone, Idles, NoJob
<1> QED BY <1>1, <1>2, IdlesInv

\* A process begins with what it may begin with.
MayRun(path, kind, reg, imports) ==
    /\ imports \in Seq(Paths) /\ reg \in Seq(Range(reg)) /\ Len(reg) <= MaxRegistry
    /\ kind \in {"source", "program", "bundle"}
    /\ kind = "program" => (\E p \in Programs : p.path = path /\ p.kind = "program")
                           /\ chno_open(disk[path]) = "ok"
    /\ kind = "bundle" => path \in Paths /\ cco_open(disk[path]) = "ok"

LEMMA FreshInv ==
    ASSUME Inv, UNCHANGED <<disk, writing>>, Quiet, NEW path, NEW kind, NEW reg, NEW imports,
           Fresh(path, kind, reg, imports), MayRun(path, kind, reg, imports),
           \A W \in Writings : Origins(W)'
    PROVE  Inv'
<1> USE DEF MayRun
<1>0. PICK W \in Writings : DiskInv(W)
  BY DEF Inv, FileInv
<1>1. /\ disk' = disk /\ writing' = writing /\ writing = Idle
      /\ job' = [path |-> path, kind |-> kind] /\ registry' = reg /\ todo' = imports
      /\ offered' = <<>> /\ entry' = <<>>
  BY DEF Quiet, Fresh
<1>2. DiskInv(W)'
  BY <1>0, <1>1 DEF DiskInv, Idle
<1>3. job'.path = path /\ job'.kind = kind /\ Idle' = Idle
  BY <1>1 DEF Idle
<1>4. RegistryInv(W)'
  BY <1>0, <1>1, Zenon DEF RegistryInv
<1>5. job' # NoJob' /\ kind # None
  <2>1. kind # None
    BY DEF None
  <2>2. NoJob'.kind = None
    BY DEF NoJob, None
  <2> QED BY <1>3, <2>1, <2>2, Zenon
<1>6. <<>> \in Seq(Range(<<>>))
  OBVIOUS
<1>7. JobInv'
  BY <1>1, <1>3, <1>5, <1>6 DEF JobInv
<1>8. EntryInv'
  BY <1>1, Zenon DEF EntryInv
<1> QED BY <1>2, <1>4, <1>7, <1>8, Zenon DEF Inv, FileInv

\* A source file is compiled and begins to run.
LEMMA RunSourceInv ==
    ASSUME Inv, NEW p \in Programs, NEW k \in 0..Len(p.units[1].funcs), run_source_file(p, k)
    PROVE  Inv'
<1>1. 1 \in 1..Len(p.units)
  BY ProgramAssumption, EmptySeq
<1>fs. PICK fs : fs = p.units[1].funcs
  OBVIOUS
<1>2. fs \in Seq(ToSet(fs)) /\ p.imports \in Seq(Paths) /\ p.kind = "program"
  BY <1>1, <1>fs, UnitFacts, ProgramAssumption DEF run_source_file
<1>n. PICK n \in Nat : n = k /\ n <= Len(fs) /\ n <= MaxRegistry
  BY <1>fs, <1>2 DEF run_source_file
<1>reg. PICK reg : reg = [i \in 1..n |-> Compiled(fs[i])]
  OBVIOUS
<1>3. Fresh(None, "source", reg, p.imports) /\ Quiet /\ UNCHANGED <<disk, writing>>
  BY <1>fs, <1>n, <1>reg, Zenon DEF run_source_file
<1>4. Len(reg) = n /\ DOMAIN reg = 1..n /\ \A i \in 1..n : reg[i] = Compiled(fs[i])
  BY <1>reg
<1>5. reg \in Seq(Range(reg))
  <2> PICK R : R = Range(reg)
    OBVIOUS
  <2>1. \A i \in 1..n : reg[i] \in R
    BY <1>4 DEF Range
  <2>2. [i \in 1..n |-> reg[i]] \in Seq(R)
    BY <2>1, IsASeq
  <2>3. reg = [i \in 1..n |-> reg[i]]
    BY <1>reg
  <2> QED BY <2>2, <2>3, Zenon
<1>6. \A i \in 1..n : fs[i] \in ToSet(fs)
  BY <1>2, <1>n
<1>7. ASSUME NEW W PROVE Origins(W)'
  <2>1. job'.kind = "source" /\ registry' = reg /\ todo' = p.imports
    BY <1>3 DEF Fresh
  <2>2. \A i \in 1..Len(reg) : \E f \in ToSet(fs) : reg[i] = Compiled(f)
    BY <1>4, <1>6
  <2>3. SourceOrigins(W, p)'
    BY <1>2, <1>fs, <2>1, <2>2 DEF SourceOrigins
  <2> QED BY <2>1, <2>3 DEF Origins
<1>8. MayRun(None, "source", reg, p.imports)
  BY <1>2, <1>4, <1>5, <1>n DEF MayRun
<1> QED BY <1>3, <1>7, <1>8, FreshInv, Zenon

\* A program or bundle begins to run, or is refused.
LEMMA RunFileInv ==
    ASSUME Inv, NEW p \in Programs, run_chn2_file(p) \/ run_cco_file(p)
    PROVE  Inv'
<1>P. PICK P \in Paths : P = p.path
  BY DEF Paths
<1>0. PICK W \in Writings : DiskInv(W) /\ RegistryInv(W)
  BY DEF Inv, FileInv
<1>1. CASE UNCHANGED <<disk, writing, registry, todo, job, offered, entry>>
  <2>1. /\ disk' = disk /\ writing' = writing /\ registry' = registry /\ todo' = todo /\ job' = job
        /\ offered' = offered /\ entry' = entry
    BY <1>1
  <2> QED BY <2>1, NothingKeeps
<1>2. <<>> \in Seq(Range(<<>>)) /\ Len(<<>>) = 0 /\ MaxRegistry \in Nat /\ <<>> \in Seq(Paths)
  BY ProgramAssumption
<1>3. ASSUME NEW kind, kind # "source", NEW imports, Fresh(P, kind, <<>>, imports), NEW V
      PROVE  Origins(V)'
  <2>1. job'.kind # "source" /\ registry' = <<>>
    BY <1>3 DEF Fresh
  <2> QED BY <1>2, <2>1 DEF Origins
<1>4. CASE run_chn2_file(p) /\ ~UNCHANGED <<disk, writing, registry, todo, job, offered, entry>>
  <2>1. /\ Quiet /\ UNCHANGED <<disk, writing>> /\ p.kind = "program" /\ chno_open(disk[P]) = "ok"
        /\ Fresh(P, "program", <<>>, chno_section(disk[P], "imports"))
    BY <1>P, <1>4 DEF run_chn2_file
  <2>2. chno_section(disk[P], "imports") \in Seq(Paths)
    BY <1>0, PathFacts, SectionsRead DEF DiskInv
  <2>3. MayRun(P, "program", <<>>, chno_section(disk[P], "imports"))
    BY <1>P, <1>2, <2>1, <2>2 DEF MayRun
  <2>4. "program" # "source"
    OBVIOUS
  <2>5. \A V \in Writings : Origins(V)'
    BY <1>3, <2>1, <2>4, Zenon
  <2> QED BY <2>1, <2>3, <2>5, FreshInv, Zenon
<1>5. CASE run_cco_file(p) /\ ~UNCHANGED <<disk, writing, registry, todo, job, offered, entry>>
  <2>1. /\ Quiet /\ UNCHANGED <<disk, writing>> /\ cco_open(disk[P]) = "ok"
        /\ Fresh(P, "bundle", <<>>, <<>>)
    BY <1>P, <1>5 DEF run_cco_file
  <2>3. MayRun(P, "bundle", <<>>, <<>>)
    BY <1>2, <2>1 DEF MayRun
  <2>4. "bundle" # "source"
    OBVIOUS
  <2>5. \A V \in Writings : Origins(V)'
    BY <1>3, <2>1, <2>4, Zenon
  <2> QED BY <2>1, <2>3, <2>5, FreshInv, Zenon
<1> QED BY <1>1, <1>4, <1>5

\* A process runs on.
LEMMA RunsOn ==
    ASSUME JobInv, UNCHANGED <<disk, writing, job>>, job # NoJob, offered' \in Seq(Range(offered'))
    PROVE  JobInv'
<1>1. NoJob' = NoJob /\ Idle' = Idle
  BY DEF NoJob, Idle, None
<1>2. None' = None
  BY DEF None
<1> QED BY <1>1, <1>2 DEF JobInv

\* Functions of a file that may be imported are registered.
LEMMA RegistryKept ==
    ASSUME NEW W \in Writings, RegistryInv(W), NEW P \in Paths, job.kind = "source" => P \in ToSet(todo),
           NEW os \in Seq(StoredAt(W[P])), registry' = RegistryAfter(registry, os), job' = job,
           todo' \in Seq(Paths), ToSet(todo') \subseteq ToSet(todo)
    PROVE  RegistryInv(W)'
<1>1. registry \in Seq(Range(registry)) /\ Len(registry) <= MaxRegistry
  BY DEF RegistryInv
<1>2. ASSUME NEW S, P \in S PROVE Extends(W, S, registry, registry')
  BY <1>1, <1>2, OriginsKept
<1>3. registry' \in Seq(Range(registry')) /\ Len(registry') <= MaxRegistry
  BY <1>2 DEF Extends
<1>R. PICK R : R = Range(registry)
  OBVIOUS
<1>n. PICK n \in Nat : n = Len(registry)
  BY <1>1, <1>R
<1>m. PICK m \in Nat : m = Len(registry')
  BY <1>3
<1>4. CASE job.kind = "source"
  <2>1. PICK p \in Programs : SourceOrigins(W, p)
    BY <1>4 DEF RegistryInv, Origins
  <2>S. PICK S : S = ToSet(p.imports)
    OBVIOUS
  <2>2. /\ p.kind = "program" /\ ToSet(todo) \subseteq S
        /\ \A i \in 1..n : \/ \E f \in ToSet(p.units[1].funcs) : registry[i] = Compiled(f)
                           \/ FromFile(registry, W, S, i)
    BY <2>1, <2>S, <1>n DEF SourceOrigins
  <2>3. P \in S
    BY <1>4, <2>2
  <2>4. /\ \A i \in 1..n : /\ registry'[i] = registry[i]
                           /\ FromFile(registry, W, S, i) => FromFile(registry', W, S, i)
        /\ \A i \in 1..m : n < i => FromFile(registry', W, S, i)
    BY <1>2, <1>n, <1>m, <2>3 DEF Extends
  <2>5. \A i \in 1..m : \/ \E f \in ToSet(p.units[1].funcs) : registry'[i] = Compiled(f)
                        \/ FromFile(registry', W, S, i)
    <3> TAKE i \in 1..m
    <3>1. CASE n < i
      BY <2>4, <3>1
    <3>2. CASE ~(n < i)
      <4>1. i \in 1..n
        BY <3>2
      <4>2. /\ registry'[i] = registry[i]
            /\ FromFile(registry, W, S, i) => FromFile(registry', W, S, i)
        BY <2>4, <4>1, Zenon
      <4>3. CASE FromFile(registry, W, S, i)
        BY <4>2, <4>3
      <4>4. CASE \E f \in ToSet(p.units[1].funcs) : registry[i] = Compiled(f)
        <5>1. PICK f \in ToSet(p.units[1].funcs) : registry[i] = Compiled(f)
          BY <4>4
        <5>2. registry'[i] = Compiled(f)
          BY <4>2, <5>1
        <5> QED BY <5>2
      <4> QED BY <2>2, <4>1, <4>3, <4>4
    <3> QED BY <3>1, <3>2
  <2>6. SourceOrigins(W, p)'
    BY <1>m, <2>S, <2>2, <2>5 DEF SourceOrigins
  <2>7. Origins(W)'
    BY <1>4, <2>6 DEF Origins
  <2> QED BY <1>3, <2>7 DEF RegistryInv
<1>5. CASE job.kind # "source"
  <2>1. \A i \in 1..n : FromFile(registry, W, Paths, i)
    BY <1>5, <1>n DEF RegistryInv, Origins
  <2>2. /\ \A i \in 1..n : FromFile(registry, W, Paths, i) => FromFile(registry', W, Paths, i)
        /\ \A i \in 1..m : n < i => FromFile(registry', W, Paths, i)
    BY <1>2, <1>n, <1>m DEF Extends
  <2>3. \A i \in 1..m : FromFile(registry', W, Paths, i)
    <3> TAKE i \in 1..m
    <3>1. CASE n < i
      BY <2>2, <3>1
    <3>2. CASE ~(n < i)
      <4>1. i \in 1..n
        BY <3>2
      <4> QED BY <2>1, <2>2, <4>1
    <3> QED BY <3>1, <3>2
  <2>4. Paths' = Paths
    BY DEF Paths
  <2>5. Origins(W)'
    BY <1>5, <1>m, <2>3, <2>4 DEF Origins
  <2> QED BY <1>3, <2>5 DEF RegistryInv
<1> QED BY <1>4, <1>5

\* The imports still to load, without the first.
LEMMA TodoFacts ==
    ASSUME todo \in Seq(Paths), todo # <<>>
    PROVE  /\ Head(todo) \in Paths /\ Head(todo) \in ToSet(todo)
           /\ Tail(todo) \in Seq(Paths) /\ ToSet(Tail(todo)) \subseteq ToSet(todo)
<1>t. PICK t \in Seq(Paths) : t = todo /\ t # <<>>
  OBVIOUS
<1>n. PICK n \in Nat : n = Len(t)
  OBVIOUS
<1>1. n # 0
  BY <1>t, <1>n, EmptySeq
<1>s. PICK s \in Seq(Paths) : /\ s = Tail(t) /\ Len(s) = n - 1
                              /\ \A i \in 1..(n - 1) : s[i] = t[i + 1]
  <2>1. Tail(t) \in Seq(Paths) /\ Len(Tail(t)) = Len(t) - 1
        /\ \A i \in 1..Len(Tail(t)) : Tail(t)[i] = t[i + 1]
    BY <1>t, HeadTailProperties
  <2>2. PICK r \in Seq(Paths) : r = Tail(t)
    BY <2>1, Zenon
  <2> QED BY <1>n, <2>1, <2>2, Zenon
<1>2. Head(t) = t[1] /\ 1 \in 1..n
  BY <1>1, <1>n DEF Head
<1>3. \A i \in 1..n : t[i] \in ToSet(t) /\ t[i] \in Paths
  BY <1>n DEF ToSet
<1>4. \A x \in ToSet(s) : \E i \in 1..(n - 1) : x = s[i]
  BY <1>s DEF ToSet
<1>5. ToSet(s) \subseteq ToSet(t)
  BY <1>s, <1>3, <1>4
<1> QED BY <1>t, <1>s, <1>2, <1>3, <1>5

\* Importing a file registers functions stored in it, and offers names of such.
Reads(os, names) == registry' = RegistryAfter(registry, os) /\ offered' = offered \o names

LEMMA ImportReads ==
    ASSUME NEW w \in Writing, NEW pieces \in Seq(Pieces(w)), pieces = disk[Head(todo)], do_import
    PROVE  \/ registry' = registry /\ offered' = offered
           \/ \E os \in Seq(StoredAt(w)) : \E names \in Seq({o.name : o \in StoredAt(w)}) : Reads(os, names)
<1>S. PICK S : S = StoredAt(w)
  OBVIOUS
<1>N. PICK N : N = {o.name : o \in S}
  OBVIOUS
<1>us. PICK us : us = Units(pieces)
  OBVIOUS
<1>fs. PICK fs : fs = chno_section(pieces, "funcs")
  OBVIOUS
<1>a. \A os \in Seq(S) : Among(os, {o \in ToSet(os) : o.exported}) \in Seq(S)
  <2> TAKE os \in Seq(S)
  <2>1. PICK X : X = {o \in ToSet(os) : o.exported}
    OBVIOUS
  <2>2. Among(os, X) \in Seq(S \cap X)
    BY AmongIsSeq
  <2>3. S \cap X \subseteq S
    OBVIOUS
  <2> QED BY <2>1, <2>2, <2>3, SeqMonotonic
<1>1. CASE outcome' # "ok"
  BY <1>1, Zenon DEF do_import
<1>2. CASE outcome' = "ok" /\ pieces # <<>> /\ pieces[1].type = "bundle"
  <2>1. cco_open(pieces) = "ok" /\ Import(NewNames(ExportedOf(us)), bc_read_cco(registry, us))
    BY <1>2, <1>us, Zenon DEF do_import
  <2>2. us \in Seq(Range(us)) /\ \A k \in 1..Len(us) : UnitOf(us[k], w)
    BY <1>us, <2>1, UnitsRead
  <2>os. PICK os \in Seq(S) : os = FlattenSeq([k \in 1..Len(us) |-> us[k].funcs \o us[k].internal])
    BY <1>S, <2>2, FunctionsRead
  <2>3. ExportedOf(us) \in Seq(S)
    BY <1>S, <2>2, FunctionsRead
  <2>4. NewNames(ExportedOf(us)) \in Seq(N)
    BY <1>N, <2>3, NamesOnce
  <2>5. Reads(os, NewNames(ExportedOf(us)))
    BY <2>1, <2>os, Zenon DEF Reads, Import, bc_read_cco
  <2> QED BY <1>S, <1>N, <2>4, <2>5, Zenon
<1>3. CASE outcome' = "ok" /\ ~(pieces # <<>> /\ pieces[1].type = "bundle")
  <2>ex. PICK ex : ex = Among(fs, {o \in ToSet(fs) : o.exported})
    OBVIOUS
  <2>1. Import([i \in 1..Len(ex) |-> ex[i].name], RegistryAfter(registry, fs))
    BY <1>3, <1>fs, <2>ex, Zenon DEF do_import
  <2>2. fs \in Seq(S)
    BY <1>S, <1>fs, SectionsRead
  <2>3. ex \in Seq(S)
    BY <1>a, <2>2, <2>ex
  <2>n. PICK n \in Nat : n = Len(ex)
    BY <2>3
  <2>4. \A i \in 1..n : ex[i].name \in N
    <3>1. \A i \in 1..n : ex[i] \in S
      BY <2>3, <2>n
    <3> QED BY <1>N, <3>1
  <2>5. [i \in 1..n |-> ex[i].name] \in Seq(N)
    BY <2>4, IsASeq
  <2>6. Reads(fs, [i \in 1..n |-> ex[i].name])
    BY <2>1, <2>n, Zenon DEF Reads, Import
  <2> QED BY <1>S, <1>N, <2>2, <2>5, <2>6, Zenon
<1> QED BY <1>1, <1>2, <1>3

\* An import is loaded.
LEMMA ImportInv ==
    ASSUME Inv, do_import
    PROVE  Inv'
<1>0. PICK W \in Writings : DiskInv(W) /\ RegistryInv(W)
  BY DEF Inv, FileInv
<1>1. /\ todo # <<>> /\ todo' = Tail(todo) /\ job # NoJob /\ job' = job /\ disk' = disk
      /\ writing' = writing /\ entry' = entry
  BY DEF do_import
<1>2. todo \in Seq(Paths) /\ registry \in Seq(Range(registry)) /\ offered \in Seq(Range(offered))
  BY <1>0 DEF Inv, JobInv, RegistryInv
<1>3. PICK P \in Paths : /\ P = Head(todo) /\ P \in ToSet(todo)
                         /\ todo' \in Seq(Paths) /\ ToSet(todo') \subseteq ToSet(todo)
  BY <1>1, <1>2, TodoFacts
<1>w. PICK w \in Writing : w = W[P]
  BY PathFacts
<1>S. PICK S : S = StoredAt(w)
  OBVIOUS
<1>N. PICK N : N = {o.name : o \in S}
  OBVIOUS
<1>4. disk[P] \in Seq(Pieces(w))
  BY <1>0, <1>w DEF DiskInv
<1>5. \/ registry' = registry /\ offered' = offered
      \/ \E os \in Seq(S) : \E names \in Seq(N) : Reads(os, names)
  BY <1>3, <1>4, <1>S, <1>N, ImportReads
<1>6. offered' \in Seq(Range(offered'))
  <2>1. CASE offered' = offered
    BY <1>2, <2>1
  <2>2. ASSUME NEW os, NEW names \in Seq(N), Reads(os, names)
        PROVE  offered' \in Seq(Range(offered'))
    <3>R. PICK R : R = Range(offered) \cup N
      OBVIOUS
    <3>1. offered \in Seq(R) /\ names \in Seq(R)
      BY <1>2, <3>R, SeqMonotonic
    <3>2. offered \o names \in Seq(R)
      BY <3>1, ConcatProperties
    <3>3. offered' \in Seq(R)
      BY <2>2, <3>2 DEF Reads
    <3> QED BY <3>3, SeqOfRange
  <2> QED BY <1>5, <2>1, <2>2
<1>7. JobInv'
  BY <1>1, <1>6, RunsOn DEF Inv
<1>8. DiskInv(W)'
  BY <1>0, <1>1, DiskKept
<1>9. RegistryInv(W)'
  <2>1. ASSUME registry' = registry PROVE RegistryInv(W)'
    <3>1. registry' = registry /\ todo' \in Seq(Paths) /\ job' = job
      BY <1>1, <1>3, <2>1
    <3>2. ASSUME NEW p, SourceOrigins(W, p) PROVE SourceOrigins(W, p)'
      BY <1>3, <3>1, <3>2, Zenon DEF SourceOrigins, FromFile
    <3>3. Paths' = Paths
      BY DEF Paths
    <3>4. Origins(W)'
      BY <1>0, <3>1, <3>2, <3>3, Zenon DEF RegistryInv, Origins, FromFile
    <3> QED BY <1>0, <3>1, <3>3, <3>4, Zenon DEF RegistryInv
  <2>2. ASSUME NEW os \in Seq(S), NEW names \in Seq(N), Reads(os, names) PROVE RegistryInv(W)'
    <3>1. registry' = RegistryAfter(registry, os) /\ os \in Seq(StoredAt(W[P]))
      BY <1>S, <1>w, <2>2 DEF Reads
    <3> QED BY <1>0, <1>1, <1>3, <3>1, RegistryKept
  <2> QED BY <1>5, <2>1, <2>2
<1>10. EntryInv'
  BY <1>1 DEF Inv, EntryInv
<1> QED BY <1>7, <1>8, <1>9, <1>10, Zenon DEF Inv, FileInv

\* The program is read into a process that has loaded its imports.
LEMMA ReadProgramInv ==
    ASSUME Inv, bc_read_program
    PROVE  Inv'
<1>0. PICK W \in Writings : DiskInv(W) /\ RegistryInv(W)
  BY DEF Inv, FileInv
<1>1. /\ job.kind = "program" /\ todo' = todo /\ job' = job /\ disk' = disk /\ writing' = writing
      /\ offered' = offered
  BY DEF bc_read_program
<1>2. todo \in Seq(Paths) /\ offered \in Seq(Range(offered)) /\ job # NoJob
  <2>1. job # NoJob
    BY <1>1 DEF NoJob, None
  <2> QED BY <1>0, <2>1 DEF Inv, JobInv, RegistryInv
<1>3. (\E p \in Programs : p.path = job.path /\ p.kind = "program") /\ chno_open(disk[job.path]) = "ok"
  BY <1>1 DEF Inv, JobInv
<1>P. PICK P \in Paths : P = job.path
  BY <1>3 DEF Paths
<1>w. PICK w \in Writing : w = W[P] /\ w.prog.kind = "program"
  BY <1>3, <1>P, PathFacts
<1>pieces. PICK pieces \in Seq(Pieces(w)) : pieces = disk[P]
  BY <1>0, <1>w DEF DiskInv
<1>fs. PICK fs \in Seq(StoredAt(w)) : fs = chno_section(pieces, "funcs")
  BY SectionsRead
<1>4. /\ registry' = RegistryAfter(registry, fs)
      /\ entry' = <<Loaded(chno_section(pieces, "main")[1], RegistryAfter(registry, fs))>>
  BY <1>P, <1>pieces, <1>fs, Zenon DEF bc_read_program
<1>5. PICK f \in Id : chno_section(pieces, "main")[1] = StoredMain(f, w.minify)
  BY <1>P, <1>w, <1>3, <1>pieces, MainRead
<1>6. EntryInv'
  <2>1. w.minify \in BOOLEAN
    BY DEF Writing
  <2>2. entry' = <<Loaded(StoredMain(f, w.minify), RegistryAfter(registry, fs))>>
    BY <1>4, <1>5
  <2> QED BY <2>1, <2>2, Zenon DEF EntryInv
<1>7. RegistryInv(W)'
  BY <1>0, <1>1, <1>2, <1>4, <1>w, RegistryKept
<1>8. JobInv'
  BY <1>1, <1>2, RunsOn DEF Inv
<1>9. DiskInv(W)'
  BY <1>0, <1>1, DiskKept
<1> QED BY <1>6, <1>7, <1>8, <1>9, Zenon DEF Inv, FileInv

\* The units of a bundle are read into an empty registry, and the main code of one of them.
LEMMA ReadBundleInv ==
    ASSUME Inv, read_cco_entry
    PROVE  Inv'
<1>0. PICK W \in Writings : DiskInv(W) /\ RegistryInv(W)
  BY DEF Inv, FileInv
<1>1. /\ job.kind = "bundle" /\ todo' = todo /\ job' = job /\ disk' = disk /\ writing' = writing
      /\ offered' = offered
  BY DEF read_cco_entry
<1>2. todo \in Seq(Paths) /\ offered \in Seq(Range(offered)) /\ job # NoJob
  <2>1. job # NoJob
    BY <1>1 DEF NoJob, None
  <2> QED BY <1>0, <2>1 DEF Inv, JobInv, RegistryInv
<1>P. PICK P \in Paths : P = job.path /\ cco_open(disk[P]) = "ok"
  BY <1>1 DEF Inv, JobInv
<1>w. PICK w \in Writing : w = W[P]
  BY PathFacts
<1>pieces. PICK pieces \in Seq(Pieces(w)) : pieces = disk[P]
  BY <1>0, <1>w DEF DiskInv
<1>us. PICK us : us = Units(pieces)
  OBVIOUS
<1>ok. cco_open(pieces) = "ok"
  BY <1>P, <1>pieces
<1>3. us \in Seq(Range(us)) /\ \A k \in 1..Len(us) : UnitOf(us[k], w)
  <2>1. w \in Writing /\ pieces \in Seq(Pieces(w))
    BY <1>w, <1>pieces, Zenon
  <2>2. Units(pieces) \in Seq(Range(Units(pieces))) /\ \A k \in 1..Len(Units(pieces)) : UnitOf(Units(pieces)[k], w)
    BY <1>ok, <2>1, UnitsRead
  <2> QED BY <1>us, <2>2, Zenon
<1>os. PICK os \in Seq(StoredAt(w)) : os = FlattenSeq([k \in 1..Len(us) |-> us[k].internal \o us[k].funcs])
  BY <1>3, FunctionsRead
<1>4. registry' = RegistryAfter(<<>>, os)
  BY <1>P, <1>pieces, <1>us, <1>os, Zenon DEF read_cco_entry, bc_read_cco_entry
<1>5. RegistryInv(W)'
  <2>0. MaxRegistry \in Nat
    BY ProgramAssumption, Zenon
  <2>1. <<>> \in Seq(Paths) /\ Len(<<>>) = 0 /\ 0 <= MaxRegistry
    BY <2>0
  <2>e. PICK none \in Seq(Paths) : none = <<>> /\ Len(none) <= MaxRegistry
    BY <2>1, Zenon
  <2>p. os \in Seq(StoredAt(W[P])) /\ registry' = RegistryAfter(none, os)
    BY <1>w, <1>os, <1>4, <2>e, Zenon
  <2>2. Extends(W, Paths, <<>>, registry')
    <3>1. Extends(W, Paths, none, registry')
      BY <2>e, <2>p, OriginsKept
    <3> QED BY <2>e, <3>1, Zenon
  <2>3. registry' \in Seq(Range(registry')) /\ Len(registry') <= MaxRegistry
    BY <2>2 DEF Extends
  <2>m. PICK m \in Nat : m = Len(registry')
    BY <2>3
  <2>4. \A i \in 1..m : FromFile(registry', W, Paths, i)
    BY <2>1, <2>2, <2>m DEF Extends
  <2>5. Paths' = Paths /\ job'.kind # "source"
    BY <1>1 DEF Paths
  <2>6. Origins(W)'
    BY <2>4, <2>m, <2>5 DEF Origins
  <2> QED BY <1>1, <1>2, <2>3, <2>5, <2>6 DEF RegistryInv
<1>6. EntryInv'
  <2> DEFINE x == disk[job.path]
             before == {k \in 1..Len(Units(x)) : \A e \in x[1].entry_unit : k <= e}
             reg == bc_read_cco_entry(<<>>, SubSeq(Units(x), 1, Cardinality(before)))
             mains == UNION {ToSet(Units(x)[e].main) : e \in x[1].entry_unit \cap DOMAIN Units(x)}
             c == CHOOSE m \in mains : TRUE
  <2>1. entry' = IF mains = {} THEN <<>> ELSE <<Loaded(c, reg)>>
    BY Zenon DEF read_cco_entry
  <2>y. x = pieces /\ Units(x) = us
    BY <1>P, <1>pieces, <1>us, Zenon
  <2> HIDE DEF x
  <2>m. \A m \in mains : \E e \in DOMAIN us : m \in ToSet(us[e].main)
    BY <2>y
  <2> HIDE DEF before, reg, mains
  <2>2. ASSUME mains # {} PROVE \E f \in Id : c = StoredMain(f, w.minify)
    <3>1. c \in mains
      BY <2>2
    <3>2. PICK e \in DOMAIN us : c \in ToSet(us[e].main)
      BY <2>m, <3>1
    <3> HIDE DEF c
    <3>3. UnitOf(us[e], w)
      BY <1>3
    <3>4. us[e].main = <<>> \/ \E f \in Id : us[e].main = <<StoredMain(f, w.minify)>>
      BY <3>3, Zenon DEF UnitOf
    <3>5. ToSet(<<>>) = {} /\ \A a : ToSet(<<a>>) = {a}
      BY DEF ToSet
    <3>6. us[e].main # <<>>
      BY <3>2, <3>5
    <3>7. PICK f \in Id : us[e].main = <<StoredMain(f, w.minify)>>
      BY <3>4, <3>6
    <3>8. c \in {StoredMain(f, w.minify)}
      BY <3>2, <3>5, <3>7, Zenon
    <3> QED BY <3>8
  <2>3. w.minify \in BOOLEAN
    BY DEF Writing
  <2> HIDE DEF c
  <2> QED BY <2>1, <2>2, <2>3, Zenon DEF EntryInv
<1>8. JobInv'
  BY <1>1, <1>2, RunsOn DEF Inv
<1>9. DiskInv(W)'
  BY <1>0, <1>1, DiskKept
<1> QED BY <1>5, <1>6, <1>8, <1>9, Zenon DEF Inv, FileInv

\* Each step keeps the invariant.
LEMMA NextInv ==
    Inv /\ [Next]_vars => Inv'
<1> SUFFICES ASSUME Inv, [Next]_vars PROVE Inv'
  OBVIOUS
<1>1. ASSUME NEW p \in Programs, NEW minify \in BOOLEAN, write_file(p, minify) PROVE Inv'
  BY <1>1, WriteFileInv
<1>2. ASSUME NEW p \in Programs, NEW k \in 0..Len(p.units[1].funcs), run_source_file(p, k) PROVE Inv'
  BY <1>2, RunSourceInv
<1>3. CASE write_piece \/ write_cut_off
  BY <1>3, WritePieceInv
<1>4. ASSUME NEW p \in Programs, run_chn2_file(p) \/ run_cco_file(p) PROVE Inv'
  BY <1>4, RunFileInv
<1>5. CASE do_import
  BY <1>5, ImportInv
<1>6. CASE import_refused \/ exit
  BY <1>6, GoneInv DEF import_refused, exit
<1>7. CASE bc_read_program
  BY <1>7, ReadProgramInv
<1>8. CASE read_cco_entry
  BY <1>8, ReadBundleInv
<1>9. CASE UNCHANGED vars
  <2>1. /\ disk' = disk /\ writing' = writing /\ registry' = registry /\ todo' = todo /\ job' = job
        /\ offered' = offered /\ entry' = entry
    BY <1>9 DEF vars
  <2> QED BY <2>1, NothingKeeps
<1> QED BY <1>1, <1>2, <1>3, <1>4, <1>5, <1>6, <1>7, <1>8, <1>9, Zenon DEF Next

\* What is at a path are pieces of what was written there; a process has in its registry, in the
\* order of their loading, functions of the files it may load and those it was compiled with.
THEOREM FilesKeep ==
    Spec => []Inv
<1>1. Init => Inv
  BY InitInv
<1>2. Inv /\ [Next]_vars => Inv'
  BY NextInv
<1> QED BY <1>1, <1>2, PTL DEF Spec

----------------------------------------------------------------------------
(* Torn files                                                              *)

\* A file that could be opened is whole, or the header of a bundle.
LEMMA OpenedIsWhole ==
    ASSUME NEW P, NEW X, disk[P] \in Seq(X), chno_open(disk[P]) = "ok" \/ cco_open(disk[P]) = "ok"
    PROVE  Complete(P) \/ HeaderOnly(P)
<1>p. PICK pieces \in Seq(X) : pieces = disk[P]
  OBVIOUS
<1>1. CASE chno_open(pieces) = "ok"
  <2>1. pieces # <<>> /\ pieces[1].type = "header" /\ SubSeq(pieces, 3, Len(pieces)) = pieces[1].payload
    BY <1>1, OpenFacts
  <2> QED BY <1>p, <2>1, Zenon DEF Complete
<1>2. CASE cco_open(pieces) = "ok"
  <2>1. /\ pieces # <<>> /\ pieces[1].type = "bundle"
        /\ Len(pieces) = 1 \/ Tail(pieces) = pieces[1].payload
    BY <1>2, OpenFacts
  <2>2. Tail(pieces) = SubSeq(pieces, 2, Len(pieces))
    BY <2>1, TailIsSubSeq
  <2>3. pieces[1].type # "header"
    BY <2>1
  <2> QED BY <1>p, <2>1, <2>2, <2>3, Zenon DEF Complete, HeaderOnly
<1> QED BY <1>p, <1>1, <1>2

\* A process that begins with a file has opened it.
LEMMA JobBegins ==
    ASSUME [Next]_vars, job = NoJob, job'.path # None
    PROVE  \E p \in Programs : /\ job'.path = p.path
                               /\ chno_open(disk[p.path]) = "ok" \/ cco_open(disk[p.path]) = "ok"
<1>0. NoJob.path = None /\ NoJob.kind = None /\ None \notin {"source", "program", "bundle"}
  BY DEF NoJob, None
<1>1. ASSUME NEW p \in Programs, NEW minify, write_file(p, minify) PROVE FALSE
  BY <1>0, <1>1 DEF write_file, process
<1>2. ASSUME NEW p \in Programs, NEW k, run_source_file(p, k) PROVE FALSE
  BY <1>2 DEF run_source_file, Fresh
<1>3. ASSUME NEW p \in Programs, run_chn2_file(p) PROVE job'.path = p.path /\ chno_open(disk[p.path]) = "ok"
  BY <1>0, <1>3 DEF run_chn2_file, Fresh
<1>4. ASSUME NEW p \in Programs, run_cco_file(p) PROVE job'.path = p.path /\ cco_open(disk[p.path]) = "ok"
  BY <1>0, <1>4 DEF run_cco_file, Fresh
<1>5. ~write_piece /\ ~write_cut_off
  BY <1>0 DEF write_piece, write_cut_off, process
<1>6. ~do_import /\ ~import_refused /\ ~exit
  BY <1>0 DEF do_import, import_refused, exit
<1>7. ~bc_read_program /\ ~read_cco_entry
  BY <1>0 DEF bc_read_program, read_cco_entry
<1>8. ~UNCHANGED vars
  BY <1>0 DEF vars
<1> QED BY <1>1, <1>2, <1>3, <1>4, <1>5, <1>6, <1>7, <1>8, Zenon DEF Next

\* What is loaded or run could be opened.
LEMMA TornStep ==
    ASSUME Inv, [Next]_vars
    PROVE  /\ do_import /\ outcome' = "ok" => Complete(Head(todo)) \/ HeaderOnly(Head(todo))
           /\ job = NoJob /\ job'.path # None => Complete(job'.path) \/ HeaderOnly(job'.path)
<1>0. PICK W \in Writings : DiskInv(W) /\ RegistryInv(W)
  BY DEF Inv, FileInv
<1>1. \A P \in Paths : disk[P] \in Seq(Pieces(W[P]))
  BY <1>0 DEF DiskInv
<1>2. ASSUME do_import, outcome' = "ok" PROVE Complete(Head(todo)) \/ HeaderOnly(Head(todo))
  <2>1. todo \in Seq(Paths) /\ todo # <<>>
    BY <1>0, <1>2 DEF RegistryInv, do_import
  <2>2. PICK P \in Paths : P = Head(todo)
    BY <2>1, TodoFacts
  <2>3. cco_open(disk[P]) = "ok" \/ chno_open(disk[P]) = "ok"
    BY <1>2, <2>2, Zenon DEF do_import
  <2>4. Complete(P) \/ HeaderOnly(P)
    BY <1>1, <2>3, OpenedIsWhole
  <2> QED BY <2>2, <2>4
<1>3. ASSUME job = NoJob, job'.path # None PROVE Complete(job'.path) \/ HeaderOnly(job'.path)
  <2>1. PICK P \in Paths : job'.path = P /\ (chno_open(disk[P]) = "ok" \/ cco_open(disk[P]) = "ok")
    BY <1>3, JobBegins DEF Paths
  <2>2. Complete(P) \/ HeaderOnly(P)
    BY <1>1, <2>1, OpenedIsWhole
  <2> QED BY <2>1, <2>2
<1> QED BY <1>2, <1>3

\* Whatever is imported or run is whole, or an empty bundle: a file that was being written when
\* the compiler ended is refused (chno_open, cco_open).
THEOREM TornFilesAreRefused ==
    Spec => TornFilesRefused
<1>1. Inv /\ [Next]_vars =>
        /\ do_import /\ outcome' = "ok" => Complete(Head(todo)) \/ HeaderOnly(Head(todo))
        /\ job = NoJob /\ job'.path # None => Complete(job'.path) \/ HeaderOnly(job'.path)
  BY TornStep, Zenon
<1> QED BY <1>1, FilesKeep, PTL DEF Spec, TornFilesRefused

----------------------------------------------------------------------------
(* What is offered                                                         *)

\* What a sequence had added to it.
LEMMA AddedIs ==
    ASSUME NEW X, NEW s \in Seq(X), NEW t \in Seq(X)
    PROVE  SubSeq(s \o t, Len(s) + 1, Len(s \o t)) = t
<1>u. PICK u \in Seq(X) : u = s \o t
  <2>1. s \o t \in Seq(X)
    BY ConcatProperties
  <2> QED BY <2>1
<1>n. PICK n \in Nat : n = Len(s)
  OBVIOUS
<1>k. PICK k \in Nat : k = Len(t)
  OBVIOUS
<1>1. Len(u) = n + k /\ \A i \in 1..(n + k) : u[i] = IF i <= n THEN s[i] ELSE t[i - n]
  BY <1>u, <1>n, <1>k, ConcatProperties
<1>a. PICK a \in Int : a = n + 1
  OBVIOUS
<1>b. PICK b \in Int : b = n + k
  OBVIOUS
<1>2. \A i \in a..b : u[i] \in X
  BY <1>1, <1>a, <1>b
<1>v. PICK v \in Seq(X) : /\ v = SubSeq(u, a, b) /\ Len(v) = (IF a <= b THEN b - a + 1 ELSE 0)
                          /\ \A i \in 1..(b - a + 1) : v[i] = u[a + i - 1]
  <2>1. /\ SubSeq(u, a, b) \in Seq(X) /\ Len(SubSeq(u, a, b)) = (IF a <= b THEN b - a + 1 ELSE 0)
        /\ \A i \in 1..(b - a + 1) : SubSeq(u, a, b)[i] = u[a + i - 1]
    <3>1. SubSeq(u, a, b) \in Seq(X)
      BY <1>2, SubSeqProperties, Zenon
    <3>2. Len(SubSeq(u, a, b)) = (IF a <= b THEN b - a + 1 ELSE 0)
      BY <1>2, SubSeqProperties, Zenon
    <3>3. \A i \in 1..(b - a + 1) : SubSeq(u, a, b)[i] = u[a + i - 1]
      BY <1>2, SubSeqProperties
    <3> QED BY <3>1, <3>2, <3>3, Zenon
  <2> QED BY <2>1, Zenon
<1>3. Len(v) = k
  BY <1>a, <1>b, <1>v
<1>4. ASSUME NEW i \in 1..k PROVE v[i] = t[i]
  <2>1. i \in 1..(b - a + 1) /\ a + i - 1 = n + i
    BY <1>a, <1>b
  <2>2. v[i] = u[n + i]
    BY <1>v, <2>1
  <2>3. n + i \in 1..(n + k) /\ ~(n + i <= n) /\ (n + i) - n = i
    OBVIOUS
  <2> QED BY <1>1, <2>2, <2>3
<1>5. v = t
  <2>1. Len(v) = Len(t) /\ \A i \in 1..Len(v) : v[i] = t[i]
    BY <1>k, <1>3, <1>4, Zenon
  <2> QED BY <2>1, SeqEqual
<1>6. SubSeq(u, Len(s) + 1, Len(u)) = v
  BY <1>n, <1>1, <1>a, <1>b, <1>v, Zenon
<1> QED BY <1>u, <1>5, <1>6, Zenon

\* What importing a bundle that is there offers.
Offering(us, new) ==
    /\ ToSet(new) = UNION {{o.name : o \in ToSet(us[k].funcs)} : k \in 1..Len(us)}
    /\ IsInjective(new)

\* The names offered are those of the exported functions, once.
LEMMA OfferStep ==
    ASSUME Inv, do_import, outcome' = "ok", Complete(Head(todo)), disk[Head(todo)][1].type = "bundle"
    PROVE  Offering(Units(disk[Head(todo)]), SubSeq(offered', Len(offered) + 1, Len(offered')))
<1>0. PICK W \in Writings : DiskInv(W) /\ RegistryInv(W)
  BY DEF Inv, FileInv
<1>1. todo \in Seq(Paths) /\ todo # <<>> /\ offered \in Seq(Range(offered))
  BY <1>0 DEF Inv, JobInv, RegistryInv, do_import
<1>2. PICK P \in Paths : P = Head(todo)
  BY <1>1, TodoFacts
<1>w. PICK w \in Writing : w = W[P]
  BY PathFacts
<1>pieces. PICK pieces \in Seq(Pieces(w)) : pieces = disk[P]
  BY <1>0, <1>w DEF DiskInv
<1>us. PICK us : us = Units(pieces)
  OBVIOUS
<1>3. pieces # <<>> /\ pieces[1].type = "bundle"
  BY <1>2, <1>pieces DEF Complete
<1>4. cco_open(pieces) = "ok" /\ offered' = offered \o NewNames(ExportedOf(us))
  BY <1>2, <1>3, <1>pieces, <1>us, Zenon DEF do_import, Import
<1>5. us \in Seq(Range(us)) /\ \A k \in 1..Len(us) : UnitOf(us[k], w)
  <2>1. w \in Writing /\ pieces \in Seq(Pieces(w))
    BY <1>w, <1>pieces, Zenon
  <2>2. /\ Units(pieces) \in Seq(Range(Units(pieces)))
        /\ \A k \in 1..Len(Units(pieces)) : UnitOf(Units(pieces)[k], w)
    BY <1>4, <2>1, UnitsRead
  <2> QED BY <1>us, <2>2, Zenon
<1>6. ExportedOf(us) \in Seq(StoredAt(w)) /\ ToSet(ExportedOf(us)) = UNION {ToSet(us[k].funcs) : k \in 1..Len(us)}
  BY <1>5, FunctionsRead
<1>N. PICK N : N = {o.name : o \in StoredAt(w)}
  OBVIOUS
<1>new. PICK new \in Seq(N) : /\ new = NewNames(ExportedOf(us)) /\ IsInjective(new)
                              /\ ToSet(new) = {o.name : o \in ToSet(ExportedOf(us))}
  BY <1>6, <1>N, NamesOnce
<1>7. ToSet(new) = UNION {{o.name : o \in ToSet(us[k].funcs)} : k \in 1..Len(us)}
  BY <1>6, <1>new
<1>8. SubSeq(offered', Len(offered) + 1, Len(offered')) = new
  <2>R. PICK R : R = Range(offered) \cup N
    OBVIOUS
  <2>1. offered \in Seq(R) /\ new \in Seq(R)
    BY <1>1, <2>R, SeqMonotonic
  <2>2. SubSeq(offered \o new, Len(offered) + 1, Len(offered \o new)) = new
    BY <2>1, AddedIs
  <2>3. offered' = offered \o new
    BY <1>4, <1>new
  <2> QED BY <2>2, <2>3, Zenon
<1>9. Offering(us, new)
  BY <1>new, <1>7, Zenon DEF Offering
<1>10. us = Units(disk[Head(todo)])
  BY <1>2, <1>pieces, <1>us, Zenon
<1> QED BY <1>8, <1>9, <1>10, Zenon

\* Importing a whole bundle offers each name that a unit of it exports, and none twice.
THEOREM ExportsAreOffered ==
    Spec => ExportsOffered
<1>1. Inv /\ do_import /\ outcome' = "ok" /\ Complete(Head(todo)) /\ disk[Head(todo)][1].type = "bundle" =>
        LET new == SubSeq(offered', Len(offered) + 1, Len(offered'))
            us == Units(disk[Head(todo)])
        IN  /\ ToSet(new) = UNION {{o.name : o \in ToSet(us[k].funcs)} : k \in 1..Len(us)}
            /\ IsInjective(new)
  BY OfferStep, Zenon DEF Offering
<1> QED BY <1>1, FilesKeep, PTL DEF Spec, ExportsOffered

----------------------------------------------------------------------------
(* What code means                                                         *)

\* Functions of files are functions.
LEMMA InFileFacts ==
    ASSUME NEW p \in Programs
    PROVE  InFile(p) \subseteq Id
<1>1. DOMAIN p.units = 1..Len(p.units)
  BY ProgramAssumption
<1>2. \A k \in DOMAIN p.units : ToSet(p.units[k].funcs) \subseteq Id
  BY <1>1, UnitFacts
<1> QED BY <1>2 DEF InFile

\* A function that was read from a file.
LEMMA StoredComesBack ==
    ASSUME NEW w \in Writing, NEW o \in StoredAt(w), NEW reg
    PROVE  /\ w.minify \in BOOLEAN
           /\ \E f \in InFile(w.prog) :
                 f \in Id /\ ComesBack(Loaded(o, reg), f, StoredName(f, w.minify), reg, w.minify)
<1>p. PICK p \in Programs : p = w.prog
  BY DEF Writing
<1>m. PICK m \in BOOLEAN : m = w.minify
  BY DEF Writing
<1>f. PICK f \in InFile(p) : o = StoredFunction(f, m)
  BY <1>p, <1>m DEF StoredAt
<1>1. f \in Id
  BY <1>f, <1>p, InFileFacts
<1>2. IsStored(o, f, StoredName(f, m), m)
  BY <1>f, Zenon DEF StoredFunction, IsStored
<1>3. ComesBack(Loaded(o, reg), f, StoredName(f, m), reg, m)
  BY <1>1, <1>2, <1>m, CodeComesBack
<1> QED BY <1>p, <1>m, <1>f, <1>1, <1>3, Zenon

\* A function that the compiler put into the registry is what it is.
LEMMA CompiledIs ==
    ASSUME NEW f \in Id
    PROVE  KeepsMeaning(Compiled(f)) /\ Compiled(f).of = f /\ Compiled(f).name = Function[f].name
           /\ \A r \in References(Compiled(f)) : Reaches(Compiled(f), r)
<1>g. PICK g : g = Compiled(f)
  OBVIOUS
<1>1. g.of = f /\ g.name = Function[f].name /\ g.consts = Function[f].consts /\ g.code = Function[f].code
  BY <1>g DEF Compiled
<1>2. KeepsMeaning(g)
  BY <1>1, Zenon DEF KeepsMeaning
<1>3. \A r : Reaches(g, r)
  BY <1>1, Zenon DEF Reaches, Target
<1> QED BY <1>g, <1>1, <1>2, <1>3, Zenon

\* Function i of the registry is one of T, that were compiled, or was stored at a path of S.
CameFrom(W, S, T, i) ==
    \/ \E f \in T : registry[i] = Compiled(f)
    \/ \E P \in S : \E f \in InFile(W[P].prog) :
          f \in Id /\ ComesBack(registry[i], f, StoredName(f, W[P].minify), SubSeq(registry, 1, i - 1), W[P].minify)

\* Either nothing was compiled, or the functions of a program that imports the files.
Sources(S, T) == T = {} \/ \E p \in Programs : S = ToSet(p.imports) /\ T \subseteq InFile(p)

LEMMA RegistryOrigins ==
    ASSUME NEW W \in Writings, RegistryInv(W)
    PROVE  \E S \in SUBSET Paths : \E T \in SUBSET Id :
              Sources(S, T) /\ \A i \in 1..Len(registry) : CameFrom(W, S, T, i)
<1>1. ASSUME NEW S, S \subseteq Paths, NEW i, FromFile(registry, W, S, i) PROVE \A T : CameFrom(W, S, T, i)
  <2>1. PICK P \in S : \E o \in StoredAt(W[P]) : registry[i] = Loaded(o, SubSeq(registry, 1, i - 1))
    BY <1>1 DEF FromFile
  <2>2. W[P] \in Writing
    BY <1>1, <2>1, PathFacts
  <2>3. PICK o \in StoredAt(W[P]) : registry[i] = Loaded(o, SubSeq(registry, 1, i - 1))
    BY <2>1
  <2>4. \E f \in InFile(W[P].prog) :
           f \in Id /\ ComesBack(registry[i], f, StoredName(f, W[P].minify), SubSeq(registry, 1, i - 1), W[P].minify)
    BY <2>2, <2>3, StoredComesBack
  <2> QED BY <2>1, <2>4, Zenon DEF CameFrom
<1>2. CASE job.kind # "source"
  <2>1. \A i \in 1..Len(registry) : FromFile(registry, W, Paths, i)
    BY <1>2 DEF RegistryInv, Origins
  <2>2. \A i \in 1..Len(registry) : CameFrom(W, Paths, {}, i)
    BY <1>1, <2>1
  <2>3. Sources(Paths, {})
    BY DEF Sources
  <2> QED BY <2>2, <2>3
<1>3. CASE job.kind = "source"
  <2>1. PICK p \in Programs : SourceOrigins(W, p)
    BY <1>3 DEF RegistryInv, Origins
  <2>S. PICK S : S = ToSet(p.imports)
    OBVIOUS
  <2>T. PICK T : T = ToSet(p.units[1].funcs)
    OBVIOUS
  <2>2. S \subseteq Paths
    <3>1. p.imports \in Seq(Paths)
      BY ProgramAssumption
    <3>2. S = Range(p.imports)
      BY <2>S, Zenon DEF ToSet, Range
    <3> QED BY <3>1, <3>2, RangeOfSeq
  <2>3. T \subseteq Id /\ T \subseteq InFile(p)
    <3>1. 1 \in 1..Len(p.units) /\ p.kind # "functions"
      BY <2>1, ProgramAssumption, EmptySeq DEF SourceOrigins
    <3> QED BY <2>T, <3>1, UnitFacts
  <2>4. \A i \in 1..Len(registry) : (\E f \in T : registry[i] = Compiled(f)) \/ FromFile(registry, W, S, i)
    BY <2>1, <2>S, <2>T, Zenon DEF SourceOrigins
  <2>5. \A i \in 1..Len(registry) : CameFrom(W, S, T, i)
    <3> TAKE i \in 1..Len(registry)
    <3>1. CASE FromFile(registry, W, S, i)
      BY <1>1, <2>2, <3>1
    <3>2. CASE \E f \in T : registry[i] = Compiled(f)
      BY <3>2, Zenon DEF CameFrom
    <3> QED BY <2>4, <3>1, <3>2
  <2>6. Sources(S, T)
    BY <2>S, <2>3, Zenon DEF Sources
  <2> QED BY <2>2, <2>3, <2>5, <2>6
<1> QED BY <1>2, <1>3

\* All code in memory was compiled or read from a file.
LEMMA MeaningKept ==
    ASSUME Inv
    PROVE  CodeKeepsMeaning
<1>0. PICK W \in Writings : RegistryInv(W)
  BY DEF Inv, FileInv
<1>n. PICK n \in Nat : n = Len(registry) /\ DOMAIN registry = 1..n
  BY <1>0 DEF RegistryInv
<1>S. PICK S \in SUBSET Paths : \E T \in SUBSET Id : \A i \in 1..n : CameFrom(W, S, T, i)
  BY <1>0, <1>n, RegistryOrigins
<1>T. PICK T \in SUBSET Id : \A i \in 1..n : CameFrom(W, S, T, i)
  BY <1>S
<1>1. ASSUME NEW i \in 1..n PROVE KeepsMeaning(registry[i])
  <2>1. CASE \E f \in T : registry[i] = Compiled(f)
    BY <1>T, <2>1, CompiledIs
  <2>2. CASE ~\E f \in T : registry[i] = Compiled(f)
    BY <1>T, <2>2, Zenon DEF CameFrom, ComesBack
  <2> QED BY <2>1, <2>2
<1>2. ASSUME NEW g \in ToSet(registry) PROVE KeepsMeaning(g)
  <2>1. PICK i \in 1..n : g = registry[i]
    BY <1>n, <1>2 DEF ToSet
  <2> QED BY <1>1, <2>1
<1>3. ASSUME NEW g \in ToSet(entry) PROVE KeepsMeaning(g)
  <2>1. ToSet(<<>>) = {} /\ \A x : ToSet(<<x>>) = {x}
    BY DEF ToSet
  <2>f. PICK f \in Id : \E m \in BOOLEAN : \E reg : entry = <<Loaded(StoredMain(f, m), reg)>>
    BY <1>3, <2>1 DEF Inv, EntryInv
  <2>2. PICK m \in BOOLEAN : \E reg : entry = <<Loaded(StoredMain(f, m), reg)>>
    BY <2>f
  <2>r. PICK reg : entry = <<Loaded(StoredMain(f, m), reg)>>
    BY <2>2
  <2>3. g = Loaded(StoredMain(f, m), reg)
    <3>1. g \in {Loaded(StoredMain(f, m), reg)}
      BY <1>3, <2>1, <2>r, Zenon
    <3> QED BY <3>1
  <2>4. IsStored(StoredMain(f, m), f, "<module>", m)
    BY Zenon DEF StoredMain, IsStored
  <2>5. ComesBack(Loaded(StoredMain(f, m), reg), f, "<module>", reg, m)
    BY <2>f, <2>2, <2>4, CodeComesBack
  <2> QED BY <2>3, <2>5, Zenon DEF ComesBack
<1> QED BY <1>2, <1>3, Zenon DEF CodeKeepsMeaning, InMemory

\* Code in memory means what the compiler meant: instructions have their operands and constants
\* their values, whatever constants became equal and whether names were shortened
\* (wb_codeobj, dedup_constants, patch_const_ops, rb_codeobj).
THEOREM MeaningIsKept ==
    Spec => []CodeKeepsMeaning
<1>1. Inv => CodeKeepsMeaning
  BY MeaningKept
<1> QED BY <1>1, FilesKeep, PTL

----------------------------------------------------------------------------
(* References                                                              *)

\* A function of the registry has a reference's name if it is what is referred to.
LEMMA NameIsUsed ==
    ASSUME NamesAreClear, NEW W \in Writings, NEW S \in SUBSET Paths, NEW T \in SUBSET Id, Sources(S, T),
           NEW P \in S, NEW f \in InFile(W[P].prog), f \in Id, NEW t \in Uses(f), NEW h \in Uses(f),
           Function[h].name = Function[t].name,
           NEW j, CameFrom(W, S, T, j), registry[j].of = t
    PROVE  registry[j].name = RefName(h, W[P].minify)
<1>P. W[P].prog \in Programs /\ W[P].prog.path = P
  BY PathFacts
<1>m. PICK m : m = W[P].minify
  OBVIOUS
<1>1. Private(h) <=> Private(t)
  BY DEF NamesAreClear
<1>2. RefName(h, m) = StoredName(t, m)
  BY <1>1, Zenon DEF RefName, StoredName, Renamed
<1>3. ~Private(t) => \A x : StoredName(t, x) = Function[t].name
  BY Zenon DEF StoredName, Renamed
<1>4. CASE \E k \in T : registry[j] = Compiled(k)
  <2>1. PICK k \in T : registry[j] = Compiled(k)
    BY <1>4
  <2>2. k = t /\ registry[j].name = Function[t].name
    BY <2>1, CompiledIs
  <2>3. PICK p \in Programs : S = ToSet(p.imports) /\ T \subseteq InFile(p)
    BY <2>1 DEF Sources
  <2>4. t \in InFile(p)
    BY <2>1, <2>2, <2>3
  <2>5. p.path # P
    BY <2>3 DEF NamesAreClear
  <2>6. ~Private(t)
    BY <1>P, <2>4, <2>5 DEF NamesAreClear
  <2> QED BY <1>2, <1>3, <1>m, <2>2, <2>6
<1>5. CASE ~\E k \in T : registry[j] = Compiled(k)
  <2>1. PICK Q \in S : \E k \in InFile(W[Q].prog) : \E reg :
           ComesBack(registry[j], k, StoredName(k, W[Q].minify), reg, W[Q].minify)
    BY <1>5, Zenon DEF CameFrom
  <2>2. t \in InFile(W[Q].prog) /\ registry[j].name = StoredName(t, W[Q].minify)
    BY <2>1, Zenon DEF ComesBack
  <2>3. W[Q].prog \in Programs /\ W[Q].prog.path = Q
    BY PathFacts
  <2>4. Private(t) => P = Q
    BY <1>P, <2>2, <2>3 DEF NamesAreClear
  <2> QED BY <1>2, <1>3, <1>m, <2>2, <2>4
<1> QED BY <1>4, <1>5

\* A name that is looked up is borne by what was referred to.
LEMMA ReferencesBack ==
    ASSUME NamesAreClear, Inv
    PROVE  BackReferencesLinked
<1>0. PICK W \in Writings : RegistryInv(W)
  BY DEF Inv, FileInv
<1>R. PICK R : R = Range(registry)
  OBVIOUS
<1>n. PICK n \in Nat : n = Len(registry) /\ registry \in Seq(R)
  BY <1>0, <1>R DEF RegistryInv
<1>S. PICK S \in SUBSET Paths : \E T \in SUBSET Id : Sources(S, T) /\ \A i \in 1..n : CameFrom(W, S, T, i)
  BY <1>0, <1>n, RegistryOrigins
<1>T. PICK T \in SUBSET Id : Sources(S, T) /\ \A i \in 1..n : CameFrom(W, S, T, i)
  BY <1>S
<1> SUFFICES ASSUME NEW i \in 1..n, NEW r \in References(registry[i]), NEW j \in 1..(i - 1),
                    registry[j].of = Target(registry[i], r)[2], ~NameTaken(j)
             PROVE  Reaches(registry[i], r)
  BY <1>n, Zenon DEF BackReferencesLinked
<1>g. PICK g : g = registry[i]
  OBVIOUS
<1>j. j \in 1..n
  OBVIOUS
<1>1. CASE \E f \in T : g = Compiled(f)
  BY <1>g, <1>1, CompiledIs
<1>2. CASE ~\E f \in T : g = Compiled(f)
  <2>P. PICK P \in S : \E f \in InFile(W[P].prog) :
           f \in Id /\ ComesBack(g, f, StoredName(f, W[P].minify), SubSeq(registry, 1, i - 1), W[P].minify)
    BY <1>T, <1>g, <1>2, Zenon DEF CameFrom
  <2>reg. PICK reg : reg = SubSeq(registry, 1, i - 1)
    OBVIOUS
  <2>f. PICK f \in InFile(W[P].prog) : f \in Id /\ g.of = f /\ RefersByName(g, reg, W[P].minify)
    BY <2>P, <2>reg, Zenon DEF ComesBack
  <2>t. PICK t \in Uses(f) : t = Target(g, r)[2] /\ Target(g, r) = <<"func", t>>
    BY <1>g, <2>f, Zenon DEF RefersByName
  <2>h. PICK h \in Uses(f) : /\ Function[h].name = Function[t].name
                             /\ g.consts[g.code[r + 1] + 1] = func_lookup(reg, RefName(h, W[P].minify))
    BY <1>g, <2>f, <2>t, Zenon DEF RefersByName
  <2>1. registry[j].of = t
    BY <1>g, <2>t
  <2>2. registry[j].name = RefName(h, W[P].minify)
    BY <1>j, <1>T, <2>f, <2>t, <2>h, <2>1, NameIsUsed
  <2>3. /\ reg \in Seq(R) /\ Len(reg) = i - 1
        /\ \A k \in 1..(i - 1) : reg[k] = registry[k]
    <3>1. i - 1 \in 0..Len(registry)
      BY <1>n
    <3>2. reg = [k \in 1..(i - 1) |-> registry[k]]
      BY <1>n, <2>reg, <3>1, PrefixOf
    <3>3. i - 1 \in Nat /\ \A k \in 1..(i - 1) : registry[k] \in R
      BY <1>n
    <3>4. [k \in 1..(i - 1) |-> registry[k]] \in Seq(R)
      BY <3>3, IsASeq
    <3> QED BY <3>2, <3>3, <3>4
  <2>4. j \in 1..Len(reg) /\ reg[j] = registry[j]
    BY <2>3
  <2>5. OnlyNamed(reg, reg[j].name, t)
    <3> SUFFICES ASSUME NEW k \in 1..Len(reg) PROVE reg[k].name = reg[j].name => reg[k].of = t
      BY Zenon DEF OnlyNamed
    <3>1. k \in 1..n /\ reg[k] = registry[k]
      BY <2>3
    <3>2. k \in 1..Len(registry)
      BY <1>n, <3>1
    <3>3. ASSUME registry[k].name = registry[j].name, registry[k].of # registry[j].of PROVE FALSE
      <4>1. NameTaken(j)
        BY <3>2, <3>3, Zenon DEF NameTaken
      <4> QED BY <4>1
    <3> QED BY <2>1, <2>4, <3>1, <3>3, Zenon
  <2>6. func_lookup(reg, reg[j].name) = <<"func", t>>
    BY <2>3, <2>4, <2>5, LookupFinds
  <2> QED BY <1>g, <2>t, <2>h, <2>2, <2>4, <2>6, Zenon DEF Reaches
<1> QED BY <1>1, <1>2

\* A reference back reaches its function, if no other function bears the name, whatever files are
\* read, in which order and with which settings they were written: for programs whose names are
\* clear (func_lookup, minify_rename).
THEOREM ReferencesBackAreLinked ==
    ASSUME NamesAreClear
    PROVE  Spec => []BackReferencesLinked
<1>1. Inv => BackReferencesLinked
  BY ReferencesBack
<1> QED BY <1>1, FilesKeep, PTL
=============================================================================
