-------------------------- MODULE ChnSessionProofs ---------------------------
(***************************************************************************)
(* Theorems about the sessions of ChnSession, for any files, any limits    *)
(* and any number of texts and processes.                                  *)
(***************************************************************************)
EXTENDS ChnSession, CommonLemmas

----------------------------------------------------------------------------
(* The objects                                                             *)

\* Objects are numbered in the order in which they are made, every one of them is in one
\* place, and functions and code refer to objects that were made.
Numbered == \E n \in Nat : Objects = 1..n

ObjectInv == Numbered /\ FreedOnce /\ Roots \subseteq Objects

\* The number a new object gets is no other object's.
LEMMA NewObjectIsNew ==
    ASSUME Numbered
    PROVE  NewObject \notin Objects /\ \E n \in Nat : Objects \cup {NewObject} = 1..n
<1>1. PICK n \in Nat : Objects = 1..n
  BY DEF Numbered
<1>2. Cardinality(1..n) = n
  BY FS_Interval
<1>3. NewObject = n + 1
  BY <1>1, <1>2 DEF NewObject
<1>4. 1..n \cup {n + 1} = 1..(n + 1)
  OBVIOUS
<1> QED BY <1>1, <1>3, <1>4

\* Steps that move objects from one place to another.
LEMMA MovesKeepObjectInv ==
    ASSUME ObjectInv, Objects' = Objects, FreedOnce', Roots' \subseteq Roots
    PROVE  ObjectInv'
BY DEF ObjectInv, Numbered

\* Steps that make an object, put it on the list and may let a function or the code refer to it.
LEMMA NewObjectKeepsObjectInv ==
    ASSUME ObjectInv, heap' = heap \cup {NewObject}, UNCHANGED <<lost, freed>>,
           Roots' \subseteq Roots \cup {NewObject}
    PROVE  ObjectInv'
<1>1. NewObject \notin Objects /\ \E n \in Nat : Objects \cup {NewObject} = 1..n
  BY NewObjectIsNew DEF ObjectInv
<1>2. Objects' = Objects \cup {NewObject}
  BY DEF Objects
<1>3. FreedOnce'
  BY <1>1 DEF ObjectInv, FreedOnce, Objects
<1> QED BY <1>1, <1>2, <1>3 DEF ObjectInv, Numbered

\* No object was made yet.
LEMMA InitObjectInv == Init => ObjectInv
<1> SUFFICES ASSUME Init PROVE ObjectInv
  OBVIOUS
<1>1. Objects = 1..0
  BY DEF Init, Objects
<1> QED BY <1>1 DEF Init, ObjectInv, Numbered, FreedOnce, Roots

\* Whatever is made gets a new number, and whatever moves leaves the place it was in.
LEMMA ObjectInvStep == ObjectInv /\ [Next]_vars => ObjectInv'
<1> SUFFICES ASSUME ObjectInv, [Next]_vars PROVE ObjectInv'
  OBVIOUS
<1> USE DEF memory
<1>0. ASSUME UNCHANGED memory PROVE ObjectInv'
  BY <1>0, MovesKeepObjectInv DEF ObjectInv, FreedOnce, Objects, Roots
<1>1. ASSUME gc_init, globals' \in {globals, {}} PROVE ObjectInv'
  BY <1>1, MovesKeepObjectInv DEF gc_init, HeapAfterInit, ObjectInv, FreedOnce, Objects, Roots
<1>2. ASSUME freed' = freed \cup heap, heap' = {}, lost' = lost, Roots' \subseteq Roots PROVE ObjectInv'
  BY <1>2, MovesKeepObjectInv DEF ObjectInv, FreedOnce, Objects
<1>3. CASE Reading
  <2>1. ASSUME NEW d \in TextLine, read_text(d) PROVE ObjectInv'
    BY <1>0, <1>1, <2>1 DEF read_text, execute
  <2>2. ASSUME NEW m \in {"ast", "dis"}, read_snippet(m) PROVE ObjectInv'
    BY <1>1, <2>2 DEF read_snippet, execute
  <2>3. CASE execute_file
    BY <1>1, <2>3 DEF execute_file, execute
  <2>4. CASE reset
    BY <1>2, <2>4 DEF reset, Roots
  <2>5. CASE quit \/ run_source_file
    BY <1>0, <2>5 DEF quit, run_source_file
  <2>6. ASSUME NEW e \in Entry, restart(e) PROVE ObjectInv'
    <3>1. Objects' = 1..0
      BY <2>6 DEF restart, NewProcess, Objects
    <3> QED BY <2>6, <3>1 DEF restart, NewProcess, ObjectInv, Numbered, FreedOnce, Roots
  <2> QED BY <1>3, <2>1, <2>2, <2>3, <2>4, <2>5, <2>6 DEF Reading
<1>4. CASE Compiling
  <2>1. CASE func_register
    BY <2>1, NewObjectKeepsObjectInv DEF func_register, Roots
  <2>2. CASE compile_done
    BY <2>2, NewObjectKeepsObjectInv DEF compile_done, Roots
  <2>3. CASE ~func_register /\ ~compile_done
    BY <1>0, <1>4, <2>3 DEF Compiling, parser_parse, import_done, compile_error, import_failed,
       compile_and_import, compile_failed
  <2> QED BY <2>1, <2>2, <2>3
<1>5. CASE Running
  <2>1. CASE vm_run \/ run_chunk
    BY <1>0, <1>1, <2>1 DEF vm_run, run_chunk
  <2>2. CASE allocate
    BY <2>2, NewObjectKeepsObjectInv DEF allocate, Roots
  <2>3. CASE gc_collect
    BY <2>3, MovesKeepObjectInv DEF gc_collect, ObjectInv, FreedOnce, Objects, Roots
  <2>4. CASE error_runtime \/ vm_returns \/ oom
    BY <1>0, <2>4 DEF error_runtime, vm_returns, oom
  <2> QED BY <1>5, <2>1, <2>2, <2>3, <2>4 DEF Running
<1>6. CASE release
  <2>1. CASE UNCHANGED memory
    BY <1>0, <2>1
  <2>2. CASE gc_free_all /\ UNCHANGED <<lost, registry, chunk, globals>>
    BY <1>2, <2>2 DEF gc_free_all, HeapAfterFree, Roots
  <2>3. CASE chunk' = {} /\ UNCHANGED <<heap, lost, freed, registry, globals>>
    BY <2>3, MovesKeepObjectInv DEF ObjectInv, FreedOnce, Objects, Roots
  <2> QED BY <1>6, <2>1, <2>2, <2>3 DEF release
<1>7. CASE execute_returns \/ UNCHANGED vars
  BY <1>0, <1>7 DEF execute_returns, vars
<1> QED BY <1>3, <1>4, <1>5, <1>6, <1>7 DEF Next

\* No object is freed twice, or after it was lost, in any session: neither by a collection,
\* nor by the two guards that free the heap, nor by :reset (gc_free_all, gc_init).
THEOREM NothingFreedTwice == Spec => []FreedOnce
<1>1. ObjectInv => FreedOnce
  BY DEF ObjectInv
<1> QED BY InitObjectInv, ObjectInvStep, <1>1, PTL DEF Spec
----------------------------------------------------------------------------
(* The guards                                                              *)

Kinds == {"malloc", "defer", "ChunkGuard", "VMGuard"}
Guard == [kind : Kinds, of : Nat]

\* Is one of the guards of a kind in K still to be released?
Guarded(K) == \E i \in 1..Len(guards) : guards[i].kind \in K

\* The texts that guards free.
Owned == {guards[i].of : i \in {i \in 1..Len(guards) : guards[i].kind = "malloc"}}

\* No two guards free the same text.
OwnedOnce ==
    \A i, j \in 1..Len(guards) :
        guards[i].kind = "malloc" /\ guards[j].kind = "malloc" /\ i # j => guards[i].of # guards[j].of

\* A text is parsed or compiled, or compiled and not yet run.
Translating == pc \in {"parsing", "compiling", "failing", "compiled"}

\* In the loop: the heap has a guard from the beginning, the chunk once it is complete.
HeapGuarded ==
    /\ Translating \/ pc = "running" => Guarded({"defer"})
    /\ pc = "unwinding" => heap = {} \/ Guarded({"defer", "VMGuard"})
ChunkGuarded == pc \in {"running", "unwinding"} => chunk = {} \/ Guarded({"ChunkGuard"})

\* The text of the program, and those of the files being imported, innermost last.
Top == IF saved = <<>> THEN source ELSE saved[1]
Nested == IF saved = <<>> THEN {} ELSE {saved[i] : i \in 2..Len(saved)} \cup {source}

\* Importers come before what they import.
InOrder ==
    /\ \A i, j \in 1..Len(saved) : i < j => saved[i] < saved[j]
    /\ \A i \in 1..Len(saved) : saved[i] < source
    /\ source <= made

\* While it is compiled a program's texts are in memory, each with one owner.
TextsOwned ==
    Translating =>
        /\ buffers = Owned \cup Nested
        /\ Top \in Owned /\ \A x \in Owned : x <= Top
        /\ InOrder

GuardInv ==
    /\ entry \in {"repl", "file"}
    /\ pc \in {"prompt", "running", "unwinding", "ended"} \/ Translating
    /\ guards \in Seq(Guard) /\ saved \in Seq(Nat) /\ made \in Nat /\ source \in Nat
    /\ OwnedOnce
    /\ LineLeavesNothing
    /\ (pc \notin {"compiling", "failing", "ended"} => saved = <<>>)
    /\ (pc \in {"parsing", "compiling", "failing"} => chunk = {})
    /\ TextsOwned
    /\ (entry = "repl" => /\ HeapGuarded /\ ChunkGuarded
                          /\ pc \in {"running", "unwinding"} => buffers = Owned
                          /\ pc = "running" => source \in Owned)

\* At the first prompt there is nothing to release.
LEMMA InitGuardInv == Init => GuardInv
<1> SUFFICES ASSUME Init PROVE GuardInv
  OBVIOUS
<1>1. guards \in Seq(Guard) /\ saved \in Seq(Nat) /\ Len(guards) = 0
  BY EmptySeq DEF Init
<1>2. entry \in {"repl", "file"}
  BY SessionAssumption DEF Init
<1> QED BY <1>1, <1>2 DEF Init, GuardInv, OwnedOnce, LineLeavesNothing, Translating, TextsOwned,
           HeapGuarded, ChunkGuarded

\* A text is read: the guards of its copy, of the heap and, if there is one, of the file's text.
LEMMA ExecuteKeepsGuardInv ==
    ASSUME GuardInv, entry = "repl", pc = "prompt", NEW m, NEW load \in BOOLEAN, execute(m, load)
    PROVE  GuardInv'
<1> DEFINE owned == IF load THEN <<made + 1, made + 2>> ELSE <<made + 1>>
<1>0. made \in Nat
  BY DEF GuardInv
<1>1. PICK n \in {1, 2} :
          /\ owned \in Seq(Nat) /\ Len(owned) = n /\ Last(owned) = made + n
          /\ \A i \in 1..n : owned[i] = made + i
          /\ ToSet(owned) = {made + i : i \in 1..n}
  BY <1>0 DEF Last, ToSet
<1> HIDE DEF owned
<1>2. /\ guards' \in Seq(Guard) /\ Len(guards') = n + 1
      /\ \A i \in 1..n : guards'[i].kind = "malloc" /\ guards'[i].of = made + i
      /\ guards'[n + 1].kind = "defer"
  <2>1. \A i \in 1..n : [kind |-> "malloc", of |-> owned[i]] \in Guard
    BY <1>0, <1>1 DEF Guard, Kinds
  <2>2. Malloc(owned) = [i \in 1..n |-> [kind |-> "malloc", of |-> owned[i]]]
    BY <1>1 DEF Malloc
  <2>3. Malloc(owned) \in Seq(Guard) /\ Len(Malloc(owned)) = n
    BY <2>1, <2>2
  <2>4. \A i \in 1..n : Malloc(owned)[i].kind = "malloc" /\ Malloc(owned)[i].of = made + i
    BY <1>1, <2>2
  <2> DEFINE last == <<[kind |-> "defer", of |-> 0]>>
  <2>5. last \in Seq(Guard) /\ Len(last) = 1 /\ last[1].kind = "defer"
    BY DEF Guard, Kinds
  <2> HIDE DEF last
  <2>6. guards' = Malloc(owned) \o last
    BY DEF execute, owned, last, ExecuteGuards
  <2>7. /\ guards' \in Seq(Guard) /\ Len(guards') = Len(Malloc(owned)) + Len(last)
        /\ \A i \in 1..Len(Malloc(owned)) + Len(last) :
              guards'[i] = IF i <= Len(Malloc(owned)) THEN Malloc(owned)[i]
                           ELSE last[i - Len(Malloc(owned))]
    BY <2>3, <2>5, <2>6, ConcatProperties
  <2> QED BY <2>3, <2>4, <2>5, <2>7
<1>3. Owned' = {made + i : i \in 1..n}
  <2>1. {i \in 1..Len(guards') : guards'[i].kind = "malloc"} = 1..n
    BY <1>0, <1>2
  <2>2. \A i \in 1..n : guards'[i].of = made + i
    BY <1>0, <1>2
  <2> QED BY <2>1, <2>2 DEF Owned
<1>4. /\ pc' = "parsing" /\ made' = made + n /\ source' = made + n /\ saved' = <<>>
      /\ buffers' = {made + i : i \in 1..n} /\ chunk' = {} /\ entry' = "repl"
  BY <1>1 DEF execute, owned, gc_init, GuardInv, LineLeavesNothing
<1>5. TextsOwned'
  <2>1. Top' = made + n /\ Nested' = {}
    BY <1>4 DEF Top, Nested
  <2>2. \A x \in {made + i : i \in 1..n} : x <= made + n
    BY <1>1 DEF GuardInv
  <2>3. InOrder'
    BY <1>1, <1>4 DEF InOrder, GuardInv
  <2> QED BY <1>1, <1>3, <1>4, <2>1, <2>2, <2>3 DEF TextsOwned, Translating
<1>6. OwnedOnce'
  BY <1>0, <1>2 DEF OwnedOnce
<1>7. HeapGuarded'
  BY <1>1, <1>2, <1>4 DEF HeapGuarded, Guarded
<1> QED BY <1>1, <1>2, <1>4, <1>5, <1>6, <1>7 DEF GuardInv, LineLeavesNothing, Translating, ChunkGuarded

\* A sequence without its last element.
LEMMA FrontAndLast ==
    ASSUME NEW S, NEW s \in Seq(S), s # <<>>
    PROVE  /\ Len(s) \in Nat \ {0}
           /\ Front(s) \in Seq(S) /\ Len(Front(s)) = Len(s) - 1
           /\ \A i \in 1..Len(s) - 1 : Front(s)[i] = s[i]
           /\ Last(s) = s[Len(s)] /\ Last(s) \in S
           /\ Front(s) = <<>> <=> Len(s) = 1
<1>1. Len(s) \in Nat \ {0}
  BY EmptySeq
<1>2. /\ Front(s) \in Seq(S) /\ Len(Front(s)) = Len(s) - 1
      /\ \A i \in 1..Len(s) - 1 : Front(s)[i] = s[i]
  <2>1. PICK n \in Nat : n = Len(s) - 1
    BY <1>1
  <2>2. Front(s) = SubSeq(s, 1, n) /\ n <= Len(s)
    BY <1>1, <2>1 DEF Front
  <2>3. /\ SubSeq(s, 1, n) \in Seq(S) /\ Len(SubSeq(s, 1, n)) = n
        /\ \A i \in 1..n : SubSeq(s, 1, n)[i] = s[i]
    BY <2>2
  <2> QED BY <2>1, <2>2, <2>3
<1>3. Last(s) = s[Len(s)] /\ Last(s) \in S
  BY <1>1 DEF Last
<1>4. Front(s) = <<>> <=> Len(s) = 1
  BY <1>1, <1>2, EmptySeq
<1> QED BY <1>1, <1>2, <1>3, <1>4

\* The text of the file being compiled is in memory.
LEMMA SourceInMemory ==
    ASSUME GuardInv, Translating
    PROVE  source \in buffers
BY DEF GuardInv, TextsOwned, Top, Nested

\* An import begins: its text is the last one made.
LEMMA ImportKeepsGuardInv ==
    ASSUME GuardInv, NEW f, compile_and_import(f)
    PROVE  GuardInv'
<1> USE DEF compile_and_import, Stays, memory, input
<1>1. /\ saved \in Seq(Nat) /\ source \in Nat /\ made \in Nat
      /\ TextsOwned /\ Translating
  BY DEF GuardInv, Translating
<1>2. /\ saved' \in Seq(Nat) /\ Len(saved') = Len(saved) + 1 /\ saved' # <<>>
      /\ \A i \in 1..Len(saved) : saved'[i] = saved[i]
      /\ saved'[Len(saved) + 1] = source
      /\ source' = made + 1
  BY <1>1, AppendProperties
<1>3. Owned' = Owned /\ Top' = Top
  BY <1>1, <1>2 DEF Owned, Top
<1>4. Nested' = Nested \cup {made + 1}
  BY <1>1, <1>2 DEF Nested
<1>5. InOrder'
  BY <1>1, <1>2 DEF TextsOwned, InOrder
<1>6. TextsOwned'
  BY <1>1, <1>3, <1>4, <1>5 DEF TextsOwned
<1> QED BY <1>2, <1>6 DEF GuardInv, OwnedOnce, LineLeavesNothing, Translating, HeapGuarded, Guarded,
           ChunkGuarded

\* An import's text is freed, and its importer's is the source again.
ImportLeft ==
    saved # <<>> /\ buffers' = buffers \ {source} /\ source' = Last(saved) /\ saved' = Front(saved)

\* An import is over: its text is freed, and no other is.
LEMMA ImportLeftKeepsGuardInv ==
    ASSUME GuardInv, pc \in {"compiling", "failing"}, ImportLeft,
           UNCHANGED <<entry, pc, guards, made, heap, chunk>>
    PROVE  GuardInv'
<1>1. /\ saved \in Seq(Nat) /\ source \in Nat /\ made \in Nat /\ Len(saved) \in Nat \ {0}
      /\ TextsOwned /\ Translating
  BY EmptySeq DEF GuardInv, Translating, ImportLeft
<1>2. /\ saved' \in Seq(Nat) /\ Len(saved') = Len(saved) - 1
      /\ \A i \in 1..Len(saved) - 1 : saved'[i] = saved[i]
      /\ source' = saved[Len(saved)] /\ source' \in Nat
      /\ saved' = <<>> <=> Len(saved) = 1
  <2>1. saved # <<>> /\ source' = Last(saved) /\ saved' = Front(saved)
    BY DEF ImportLeft
  <2> QED BY <1>1, <2>1, FrontAndLast
<1>3. Owned' = Owned /\ Top' = Top
  <2>1. Owned' = Owned
    BY DEF Owned
  <2>2. Top' = Top
    <3>1. CASE Len(saved) = 1
      <4>1. saved' = <<>> /\ saved # <<>> /\ source' = saved[1]
        BY <1>1, <1>2, <3>1
      <4> QED BY <4>1 DEF Top
    <3>2. CASE Len(saved) # 1
      <4>1. saved' # <<>> /\ saved # <<>> /\ saved'[1] = saved[1]
        BY <1>1, <1>2, <3>2
      <4> QED BY <4>1 DEF Top
    <3> QED BY <3>1, <3>2
  <2> QED BY <2>1, <2>2
<1>4. \A x \in Owned \cup Nested' : x < source
  <2>1. \A x \in Owned : x <= Top /\ Top < source
    BY <1>1 DEF TextsOwned, Top, InOrder
  <2>2. \A x \in Owned : x \in Nat
    <3>1. \A i \in 1..Len(guards) : guards[i] \in Guard
      BY ElementOfSeq DEF GuardInv
    <3> QED BY <3>1 DEF Owned, Guard
  <2>3. \A x \in Nested' : \E i \in 1..Len(saved) : x = saved[i]
    BY <1>1, <1>2 DEF Nested
  <2> QED BY <1>1, <2>1, <2>2, <2>3 DEF TextsOwned, InOrder, Top
<1>5. Nested = Nested' \cup {source}
  <2>1. CASE Len(saved) = 1
    BY <1>1, <1>2, <2>1 DEF Nested
  <2>2. CASE Len(saved) # 1
    <3>1. 2..Len(saved) = (2..Len(saved')) \cup {Len(saved)}
      <4> PICK n \in Nat : n = Len(saved)
        BY <1>1
      <4>1. n \in Nat \ {0, 1} /\ Len(saved') = n - 1
        BY <1>1, <1>2, <2>2
      <4> QED BY <4>1
    <3>2. \A i \in 2..Len(saved') : saved'[i] = saved[i]
      BY <1>1, <1>2
    <3>3. Nested' = {saved'[i] : i \in 2..Len(saved')} \cup {saved[Len(saved)]}
      BY <1>1, <1>2, <2>2 DEF Nested
    <3>4. Nested' = {saved[i] : i \in 2..Len(saved')} \cup {saved[Len(saved)]}
      BY <3>2, <3>3
    <3>5. Nested = {saved[i] : i \in 2..Len(saved)} \cup {source}
      BY <1>1 DEF Nested
    <3> QED BY <3>1, <3>4, <3>5
  <2> QED BY <2>1, <2>2
<1>6. InOrder'
  <2>1. InOrder
    BY <1>1 DEF TextsOwned
  <2>2. source <= made /\ saved[Len(saved)] < source /\ saved[Len(saved)] \in Nat
    BY <1>1, <2>1 DEF InOrder
  <2>3. source' <= made
    BY <1>1, <1>2, <2>2
  <2>0. PICK n \in Nat \ {0} : n = Len(saved)
    BY <1>1
  <2>a. \A a \in 1..Len(saved') : a \in 1..n - 1 /\ saved'[a] = saved[a]
    BY <1>2, <2>0
  <2>b. \A a, b \in 1..n : a < b => saved[a] < saved[b]
    BY <2>0, <2>1 DEF InOrder
  <2>4. \A a, b \in 1..Len(saved') : a < b => saved'[a] < saved'[b]
    <3> TAKE a, b \in 1..Len(saved')
    <3>1. a \in 1..n /\ b \in 1..n /\ saved'[a] = saved[a] /\ saved'[b] = saved[b]
      BY <2>0, <2>a
    <3> QED BY <2>b, <3>1
  <2>5. \A a \in 1..Len(saved') : saved'[a] < source'
    <3> TAKE a \in 1..Len(saved')
    <3>1. a \in 1..n /\ n \in 1..n /\ a < n /\ saved'[a] = saved[a] /\ source' = saved[n]
      BY <1>2, <2>0, <2>a
    <3> QED BY <2>b, <3>1
  <2> QED BY <2>3, <2>4, <2>5 DEF InOrder
<1>7. buffers' = Owned \cup Nested'
  BY <1>1, <1>4, <1>5 DEF TextsOwned, ImportLeft
<1>8. TextsOwned'
  BY <1>1, <1>3, <1>6, <1>7 DEF TextsOwned
<1> QED BY <1>2, <1>8 DEF GuardInv, OwnedOnce, LineLeavesNothing, Translating, HeapGuarded, Guarded,
           ChunkGuarded

\* The text goes from one stage to the next, with the guards and texts it has.
LEMMA StageKeepsGuardInv ==
    ASSUME GuardInv, Translating, Translating' \/ pc' = "unwinding",
           pc' \in {"compiling", "failing"} \/ saved = <<>>,
           chunk' = {} \/ pc' = "compiled",
           UNCHANGED <<entry, guards, buffers, made, source, saved>>
    PROVE  GuardInv'
<1>1. OwnedOnce' /\ Owned' = Owned
  BY DEF GuardInv, OwnedOnce, Owned
<1>2. TextsOwned'
  <2>1. Top' = Top /\ Nested' = Nested /\ InOrder' = InOrder
    BY DEF Top, Nested, InOrder
  <2>2. TextsOwned /\ Translating
    BY DEF GuardInv
  <2> QED BY <1>1, <2>1, <2>2 DEF TextsOwned
<1>3. pc' = "unwinding" => buffers' = Owned'
  BY <1>1 DEF GuardInv, TextsOwned, Nested
<1>4. entry = "repl" => HeapGuarded' /\ ChunkGuarded'
  BY DEF GuardInv, HeapGuarded, ChunkGuarded, Guarded, Translating
<1> QED BY <1>1, <1>2, <1>3, <1>4 DEF GuardInv, LineLeavesNothing, Translating

\* The guard released is the innermost one.
LEMMA ReleaseKeepsGuardInv == GuardInv /\ release => GuardInv'
<1> SUFFICES ASSUME GuardInv, release PROVE GuardInv'
  OBVIOUS
<1> USE DEF release, memory, input
<1>1. guards \in Seq(Guard) /\ guards # <<>> /\ Len(guards) \in Nat \ {0}
  BY EmptySeq DEF GuardInv
<1> PICK n \in Nat \ {0} : n = Len(guards)
  BY <1>1
<1>2. /\ guards' \in Seq(Guard) /\ Len(guards') = n - 1
      /\ \A i \in 1..n - 1 : guards'[i] = guards[i]
      /\ Last(guards) = guards[n]
  BY <1>1, FrontAndLast
<1>3. pc = "unwinding" /\ pc' = "unwinding" /\ entry' = entry
  OBVIOUS
<1>4. OwnedOnce'
  <2>1. OwnedOnce /\ \A i \in 1..n - 1 : i \in 1..n
    BY DEF GuardInv
  <2> QED BY <1>2, <2>1 DEF OwnedOnce
<1>5. ASSUME entry = "repl" PROVE buffers' = Owned'
  <2>1. CASE guards[n].kind = "malloc"
    <3>1. Owned = Owned' \cup {guards[n].of}
      BY <1>1, <1>2, <2>1 DEF Owned
    <3>2. guards[n].of \notin Owned'
      BY <1>1, <1>2, <2>1 DEF Owned, GuardInv, OwnedOnce
    <3>3. buffers' = buffers \ {guards[n].of}
      BY <1>2, <2>1
    <3>4. buffers = Owned
      BY <1>3, <1>5 DEF GuardInv
    <3> QED BY <3>1, <3>2, <3>3, <3>4
  <2>2. CASE guards[n].kind # "malloc"
    <3>1. Owned = Owned'
      BY <1>1, <1>2, <2>2 DEF Owned
    <3> QED BY <1>2, <1>3, <1>5, <2>2, <3>1 DEF GuardInv
  <2> QED BY <2>1, <2>2
<1>6. ASSUME entry = "repl" PROVE HeapGuarded'
  <2>1. CASE guards[n].kind \in {"VMGuard", "defer"}
    BY <1>2, <1>3, <2>1 DEF gc_free_all, HeapAfterFree, HeapGuarded, Translating
  <2>2. CASE guards[n].kind \notin {"VMGuard", "defer"}
    <3>1. heap' = heap
      BY <1>2, <2>2
    <3>2. Guarded({"defer", "VMGuard"}) => Guarded({"defer", "VMGuard"})'
      BY <1>1, <1>2, <2>2 DEF Guarded
    <3> QED BY <1>3, <1>6, <3>1, <3>2 DEF GuardInv, HeapGuarded, Translating
  <2> QED BY <2>1, <2>2
<1>7. ASSUME entry = "repl" PROVE ChunkGuarded'
  <2>1. CASE guards[n].kind = "ChunkGuard"
    BY <1>2, <1>3, <2>1 DEF ChunkGuarded
  <2>2. CASE guards[n].kind # "ChunkGuard"
    <3>1. chunk' = chunk
      BY <1>2, <2>2
    <3>2. Guarded({"ChunkGuard"}) => Guarded({"ChunkGuard"})'
      BY <1>1, <1>2, <2>2 DEF Guarded
    <3> QED BY <1>3, <1>7, <3>1, <3>2 DEF GuardInv, ChunkGuarded
  <2> QED BY <2>1, <2>2
<1> QED BY <1>2, <1>3, <1>4, <1>5, <1>6, <1>7
        DEF GuardInv, LineLeavesNothing, TextsOwned, Translating

\* Guards are added, of which none frees a text and one frees the chunk.
Adds(new) ==
    /\ guards' = guards \o new
    /\ \A i \in 1..Len(new) : new[i].kind # "malloc"
    /\ \E i \in 1..Len(new) : new[i].kind = "ChunkGuard"

\* The loop adds the chunk's guard, and the machine's if the text is run.
LEMMA RunKeepsGuardInv ==
    ASSUME GuardInv, entry = "repl", pc = "compiled", pc' \in {"running", "unwinding"},
           NEW new \in Seq(Guard), Adds(new),
           UNCHANGED <<entry, buffers, made, source, saved>>
    PROVE  GuardInv'
<1>0. PICK n \in Nat, k \in Nat : n = Len(guards) /\ k = Len(new)
  BY LenProperties DEF GuardInv
<1>1. /\ guards' \in Seq(Guard) /\ Len(guards') = n + k
      /\ \A i \in 1..n + k : guards'[i] = IF i <= n THEN guards[i] ELSE new[i - n]
  BY <1>0, ConcatProperties DEF GuardInv, Adds
<1>2. \A i \in 1..n : guards'[i] = guards[i]
  BY <1>1
<1>3. \A i \in 1..k : guards'[n + i] = new[i]
  <2> TAKE i \in 1..k
  <2> PICK h \in 1..n + k : h = n + i /\ ~(h <= n) /\ h - n = i
    OBVIOUS
  <2>1. guards'[h] = new[h - n]
    BY <1>1
  <2> QED BY <2>1
<1>4. \A i \in 1..n + k : guards'[i].kind = "malloc" => i \in 1..n
  <2> SUFFICES ASSUME NEW i \in 1..n + k, i \notin 1..n PROVE guards'[i].kind # "malloc"
    OBVIOUS
  <2> PICK h \in 1..k : i = n + h
    <3>1. i - n \in 1..k /\ i = n + (i - n)
      OBVIOUS
    <3> QED BY <3>1
  <2>1. new[h].kind # "malloc"
    BY <1>0 DEF Adds
  <2> QED BY <1>3, <2>1
<1>5. OwnedOnce' /\ Owned' = Owned
  <2>1. OwnedOnce'
    <3>1. OwnedOnce
      BY DEF GuardInv
    <3>2. \A i, j \in 1..n : guards[i].kind = "malloc" /\ guards[j].kind = "malloc" /\ i # j =>
                guards[i].of # guards[j].of
      BY <1>0, <3>1 DEF OwnedOnce
    <3>3. \A i \in 1..n + k : guards'[i].kind = "malloc" => i \in 1..n /\ guards'[i] = guards[i]
      BY <1>2, <1>4
    <3>4. \A i, j \in 1..n + k : guards'[i].kind = "malloc" /\ guards'[j].kind = "malloc" /\ i # j =>
                guards'[i].of # guards'[j].of
      <4> SUFFICES ASSUME NEW i \in 1..n + k, NEW j \in 1..n + k, i # j,
                          guards'[i].kind = "malloc", guards'[j].kind = "malloc"
                   PROVE  guards'[i].of # guards'[j].of
        OBVIOUS
      <4>1. i \in 1..n /\ guards'[i] = guards[i] /\ j \in 1..n /\ guards'[j] = guards[j]
        BY <3>3
      <4>2. guards[i].kind = "malloc" /\ guards[j].kind = "malloc"
        BY <4>1
      <4> QED BY <3>2, <4>1, <4>2
    <3> QED BY <1>1, <3>4 DEF OwnedOnce
  <2>2. {i \in 1..n + k : guards'[i].kind = "malloc"} = {i \in 1..n : guards[i].kind = "malloc"}
    <3>1. \A i \in 1..n : i \in 1..n + k
      OBVIOUS
    <3> QED BY <1>2, <1>4, <3>1
  <2>3. Owned' = {guards'[i].of : i \in {i \in 1..n : guards[i].kind = "malloc"}}
    BY <1>1, <2>2 DEF Owned
  <2>4. Owned = {guards[i].of : i \in {i \in 1..n : guards[i].kind = "malloc"}}
    BY <1>0 DEF Owned
  <2> QED BY <1>2, <2>1, <2>3, <2>4
<1>6. Guarded({"defer"})'
  <2>1. Guarded({"defer"})
    BY DEF GuardInv, HeapGuarded, Translating
  <2>2. PICK i \in 1..n : guards[i].kind = "defer"
    BY <1>0, <2>1 DEF Guarded
  <2>3. guards'[i].kind \in {"defer"} /\ i \in 1..Len(guards')
    BY <1>1, <1>2, <2>2
  <2> QED BY <2>3 DEF Guarded
<1>7. Guarded({"ChunkGuard"})'
  <2>1. PICK i \in 1..k : new[i].kind = "ChunkGuard"
    BY <1>0 DEF Adds
  <2>2. n + i \in 1..Len(guards')
    BY <1>1
  <2>3. guards'[n + i].kind \in {"ChunkGuard"}
    BY <1>3, <2>1
  <2> QED BY <2>2, <2>3 DEF Guarded
<1>8. HeapGuarded'
  BY <1>6 DEF HeapGuarded, Guarded, Translating
<1>9. buffers' = Owned' /\ source' \in Owned'
  BY <1>5 DEF GuardInv, TextsOwned, Translating, Top, Nested
<1> QED BY <1>1, <1>5, <1>7, <1>8, <1>9
        DEF GuardInv, LineLeavesNothing, TextsOwned, Translating, ChunkGuarded

\* At each stage of a text the guards are the ones that will free what it took.
LEMMA GuardInvStep == GuardInv /\ [Next]_vars => GuardInv'
<1> SUFFICES ASSUME GuardInv, [Next]_vars PROVE GuardInv'
  OBVIOUS
<1> USE DEF input, text, memory
<1>1. ASSUME UNCHANGED <<entry, pc, guards, saved, made, source, buffers, heap, chunk>>
      PROVE  GuardInv'
  BY <1>1 DEF GuardInv, OwnedOnce, LineLeavesNothing, Translating, TextsOwned, Top, Nested,
     InOrder, Owned, HeapGuarded, ChunkGuarded, Guarded
<1>2. CASE Reading
  <2>1. ASSUME NEW d \in TextLine, read_text(d) PROVE GuardInv'
    BY <1>1, <2>1, ExecuteKeepsGuardInv DEF read_text, AtPrompt
  <2>2. ASSUME NEW m \in {"ast", "dis"}, read_snippet(m) PROVE GuardInv'
    BY <2>2, ExecuteKeepsGuardInv DEF read_snippet, AtPrompt
  <2>3. CASE execute_file
    BY <2>3, ExecuteKeepsGuardInv DEF execute_file, AtPrompt
  <2>4. CASE reset
    BY <1>1, <2>4 DEF reset, AtPrompt, GuardInv, LineLeavesNothing
  <2>5. CASE quit
    BY <2>5 DEF quit, GuardInv, OwnedOnce, LineLeavesNothing, Translating, TextsOwned,
       HeapGuarded, ChunkGuarded
  <2>6. CASE run_source_file
    <3> USE <2>6 DEF run_source_file
    <3>1. made \in Nat /\ saved = <<>>
      BY DEF GuardInv
    <3>2. guards' \in Seq(Guard) /\ Len(guards') = 1 /\ guards'[1].kind = "malloc"
          /\ guards'[1].of = made + 1
      BY <3>1 DEF Guard, Kinds
    <3>3. Owned' = {made + 1} /\ OwnedOnce'
      BY <3>2 DEF Owned, OwnedOnce
    <3>4. TextsOwned'
      BY <3>1, <3>3 DEF TextsOwned, Top, Nested, InOrder, GuardInv
    <3> QED BY <3>1, <3>2, <3>3, <3>4 DEF GuardInv, LineLeavesNothing, Translating
  <2>7. ASSUME NEW e \in Entry, restart(e) PROVE GuardInv'
    <3>1. guards' \in Seq(Guard) /\ saved' \in Seq(Nat) /\ Len(guards') = 0
      BY <2>7, EmptySeq DEF restart, NewProcess
    <3> QED BY <2>7, <3>1, SessionAssumption
            DEF restart, NewProcess, GuardInv, OwnedOnce, LineLeavesNothing, Translating, TextsOwned,
                HeapGuarded, ChunkGuarded
  <2> QED BY <1>2, <2>1, <2>2, <2>3, <2>4, <2>5, <2>6, <2>7 DEF Reading
<1>3. CASE Compiling
  <2>1. CASE parser_parse \/ compile_error \/ compile_failed \/ compile_done
    BY <2>1, StageKeepsGuardInv DEF parser_parse, compile_error, compile_failed, compile_done,
       Translating, GuardInv
  <2>2. CASE func_register
    <3>1. TextsOwned'
      BY <2>2 DEF func_register, Stays, GuardInv, TextsOwned, Top, Nested, InOrder, Owned, Translating
    <3> QED BY <2>2, <3>1 DEF func_register, Stays, GuardInv, OwnedOnce, LineLeavesNothing,
               Translating, HeapGuarded, ChunkGuarded, Guarded
  <2>3. ASSUME NEW f \in File, compile_and_import(f) PROVE GuardInv'
    BY <2>3, ImportKeepsGuardInv
  <2>4. CASE import_done \/ import_failed
    BY <2>4, ImportLeftKeepsGuardInv DEF ImportLeft, import_done, import_failed, Stays, SourceRestored
  <2> QED BY <1>3, <2>1, <2>2, <2>3, <2>4 DEF Compiling
<1>4. CASE Running
  <2>1. CASE vm_run
    <3> USE <2>1 DEF vm_run
    <3> DEFINE chunkGuard == [kind |-> "ChunkGuard", of |-> 0]
    <3> DEFINE vmGuard == [kind |-> "VMGuard", of |-> 0]
    <3>1. /\ chunkGuard \in Guard /\ chunkGuard.kind = "ChunkGuard"
          /\ vmGuard \in Guard /\ vmGuard.kind = "VMGuard"
      BY DEF Guard, Kinds
    <3>2. entry = "repl" /\ pc = "compiled" /\ UNCHANGED <<entry, buffers, made, source, saved>>
      OBVIOUS
    <3>3. /\ mode = "dis" => guards' = Append(guards, chunkGuard) /\ pc' = "unwinding"
          /\ mode # "dis" => guards' = guards \o <<chunkGuard, vmGuard>> /\ pc' = "running"
      OBVIOUS
    <3> HIDE DEF chunkGuard, vmGuard, vm_run
    <3>4. mode = "dis" => pc' = "unwinding" /\ guards' = guards \o <<chunkGuard>>
      BY <3>1, <3>3, AppendIsConcat DEF GuardInv
    <3>5. /\ <<chunkGuard>> \in Seq(Guard) /\ <<chunkGuard, vmGuard>> \in Seq(Guard)
          /\ Len(<<chunkGuard>>) = 1 /\ Len(<<chunkGuard, vmGuard>>) = 2
          /\ <<chunkGuard>>[1] = chunkGuard
          /\ <<chunkGuard, vmGuard>>[1] = chunkGuard /\ <<chunkGuard, vmGuard>>[2] = vmGuard
      BY <3>1
    <3>6. \E new \in Seq(Guard) : Adds(new) /\ pc' \in {"running", "unwinding"}
      <4>1. CASE mode = "dis"
        <5> <<chunkGuard>> \in Seq(Guard)
          BY <3>5
        <5> WITNESS <<chunkGuard>> \in Seq(Guard)
        <5> QED BY <3>1, <3>4, <3>5, <4>1 DEF Adds
      <4>2. CASE mode # "dis"
        <5> <<chunkGuard, vmGuard>> \in Seq(Guard)
          BY <3>5
        <5> WITNESS <<chunkGuard, vmGuard>> \in Seq(Guard)
        <5> QED BY <3>1, <3>3, <3>5, <4>2 DEF Adds
      <4> QED BY <4>1, <4>2
    <3>7. PICK new \in Seq(Guard) : Adds(new) /\ pc' \in {"running", "unwinding"}
      BY <3>6
    <3> QED BY <3>2, <3>7, RunKeepsGuardInv
  <2>2. CASE run_chunk
    <3>1. guards' \in Seq(Guard) /\ Len(guards') = 1
      BY <2>2 DEF run_chunk, Guard, Kinds
    <3> QED BY <2>2, <3>1 DEF run_chunk, gc_init, GuardInv, OwnedOnce, LineLeavesNothing,
               Translating, TextsOwned
  <2>3. CASE allocate \/ gc_collect \/ error_runtime \/ vm_returns
    <3>1. OwnedOnce' /\ Owned' = Owned
      BY <2>3 DEF allocate, gc_collect, error_runtime, vm_returns, Stays, GuardInv, OwnedOnce, Owned
    <3> QED BY <2>3, <3>1 DEF allocate, gc_collect, error_runtime, vm_returns, Stays, GuardInv,
               LineLeavesNothing, Translating, TextsOwned, HeapGuarded, ChunkGuarded, Guarded
  <2>4. CASE oom
    BY <2>4 DEF oom, GuardInv, OwnedOnce, LineLeavesNothing, Translating, TextsOwned,
       HeapGuarded, ChunkGuarded
  <2> QED BY <1>4, <2>1, <2>2, <2>3, <2>4 DEF Running
<1>5. CASE release
  BY <1>5, ReleaseKeepsGuardInv
<1>6. CASE execute_returns
  <2>1. guards = <<>> /\ Len(guards) = 0 /\ Owned = {}
    BY <1>6 DEF execute_returns, Owned
  <2> QED BY <1>6, <2>1 DEF execute_returns, GuardInv, OwnedOnce, LineLeavesNothing, Translating,
             TextsOwned, HeapGuarded, ChunkGuarded, Guarded
<1>7. CASE UNCHANGED vars
  BY <1>1, <1>7 DEF vars
<1> QED BY <1>2, <1>3, <1>4, <1>5, <1>6, <1>7 DEF Next

\* Whatever a text did, and however it ended, the prompt finds none of it: the guards freed
\* the heap, the chunk and every source text, those of imports that failed included, and
\* each of them once (execute, compile_and_import, the destructors of the guards).
THEOREM NothingLeftBehind == Spec => []LineLeavesNothing
<1>1. GuardInv => LineLeavesNothing
  BY DEF GuardInv
<1> QED BY InitGuardInv, GuardInvStep, <1>1, PTL DEF Spec

----------------------------------------------------------------------------
(* Careful users                                                           *)

\* An error at run time, or one in an importer's text, is about a text that is in memory.
LEMMA SourceAliveStep ==
    ASSUME Careful, GuardInv, SourceAlive, [Next]_vars
    PROVE  SourceAlive'
<1> USE DEF SourceAlive, text
<1>1. CASE UNCHANGED shown
  BY <1>1
<1>2. CASE parser_parse \/ compile_error
  BY <1>2, SourceInMemory DEF parser_parse, compile_error, print_diagnostic, Quoting, Translating
<1>3. CASE import_failed
  <2>1. GuardInv' /\ Translating'
    BY <1>3, ImportLeftKeepsGuardInv DEF ImportLeft, import_failed, Stays, SourceRestored, memory, Translating
  <2>2. source' \in buffers'
    BY <2>1 DEF GuardInv, TextsOwned, Top, Nested
  <2> QED BY <1>3, <2>2 DEF import_failed, Quoting
<1>4. CASE error_runtime
  BY <1>4 DEF error_runtime, print_diagnostic, Quoting, GuardInv
<1>5. CASE \E e \in Entry : restart(e)
  BY <1>5 DEF restart, NewProcess
<1> QED BY <1>1, <1>2, <1>3, <1>4, <1>5
        DEF Next, Reading, Compiling, Running, read_text, read_snippet, execute_file, execute, reset,
            quit, run_source_file, func_register, Stays, import_done, compile_and_import,
            compile_failed, compile_done, vm_run, run_chunk, allocate, gc_collect, vm_returns, oom,
            release, execute_returns, vars

\* In the loop a diagnostic never quotes a text that was freed, in whatever depth of imports
\* it arises (error_init, compile_and_import, execute). Users of "chn file" are careful if
\* their scripts raise no error at run time: there the text is freed before the script runs.
THEOREM DiagnosticsQuoteLiveText == ASSUME Careful PROVE Spec => []SourceAlive
<1>1. Init => SourceAlive
  BY DEF Init, SourceAlive
<1>2. GuardInv /\ SourceAlive /\ [Next]_vars => SourceAlive'
  BY SourceAliveStep
<1> QED BY InitGuardInv, GuardInvStep, <1>1, <1>2, PTL DEF Spec

\* Constants of functions are not on the list of objects when it is freed or collected: the
\* machine was set up in between, or nothing was compiled, or no function.
RootInv ==
    /\ (pc \in {"parsing", "failing"} => heap = {})
    /\ (pc \in {"compiling", "compiled"} /\ mode = "dis" => registry \cap heap = {})
    /\ (pc \in {"running", "unwinding"} => registry \cap heap = {})
    /\ (pc = "running" => chunk \cap heap = {})
    /\ registry \cap freed = {}
    /\ (pc \in {"compiled", "running"} => chunk \cap freed = {})
    /\ (pc = "running" => globals \cap freed = {})

\* What is on the list when it is freed or collected is no function's constant.
LEMMA RootInvStep ==
    ASSUME Careful, ObjectInv, GuardInv, RootInv, [Next]_vars
    PROVE  RootInv'
<1> USE DEF RootInv, memory
<1>0. NewObject \notin Objects
  BY NewObjectIsNew DEF ObjectInv
<1>1. CASE Reading
  <2>1. ASSUME NEW m, NEW load \in BOOLEAN, execute(m, load) PROVE RootInv'
    BY <2>1 DEF execute, gc_init, HeapAfterInit
  <2>2. ASSUME NEW d \in TextLine, read_text(d) PROVE RootInv'
    BY <2>1, <2>2 DEF read_text, AtPrompt
  <2>3. CASE execute_file \/ \E m \in {"ast", "dis"} : read_snippet(m)
    BY <2>1, <2>3 DEF read_snippet, execute_file
  <2>4. CASE reset \/ quit \/ run_source_file
    BY <2>4 DEF reset, quit, run_source_file, AtPrompt, GuardInv, LineLeavesNothing
  <2>5. CASE \E e \in Entry : restart(e)
    BY <2>5 DEF restart, NewProcess
  <2> QED BY <1>1, <2>2, <2>3, <2>4, <2>5 DEF Reading
<1>2. CASE Compiling
  <2>1. CASE parser_parse \/ import_done \/ import_failed \/ \E f \in File : compile_and_import(f)
    BY <2>1 DEF parser_parse, import_done, import_failed, compile_and_import, Stays
  <2>2. CASE func_register
    BY <1>0, <2>2 DEF func_register, Stays, Objects
  <2>3. CASE compile_error \/ compile_failed
    BY <2>3 DEF compile_error, compile_failed
  <2>4. CASE compile_done
    BY <1>0, <2>4 DEF compile_done, Objects, ObjectInv, Roots
  <2> QED BY <1>2, <2>1, <2>2, <2>3, <2>4 DEF Compiling
<1>3. CASE Running
  <2>1. CASE vm_run \/ run_chunk
    BY <2>1 DEF vm_run, run_chunk, gc_init, HeapAfterInit
  <2>2. CASE allocate
    BY <1>0, <2>2 DEF allocate, Stays, Objects, ObjectInv, Roots
  <2>3. CASE gc_collect
    BY <2>3 DEF gc_collect, Stays, Roots
  <2>4. CASE error_runtime \/ vm_returns \/ oom
    BY <2>4 DEF error_runtime, vm_returns, oom
  <2> QED BY <1>3, <2>1, <2>2, <2>3, <2>4 DEF Running
<1>4. CASE release
  BY <1>4 DEF release, gc_free_all, HeapAfterFree
<1>5. CASE execute_returns \/ UNCHANGED vars
  BY <1>5 DEF execute_returns, vars
<1> QED BY <1>1, <1>2, <1>3, <1>4, <1>5 DEF Next

\* A collection during a text finds no constant of an earlier text's functions freed: those
\* texts lost their constants to the machine's set-up before the guards freed the heap
\* (gc_init, vm_run, mark_vm_roots), unless a text that declares functions was only
\* disassembled, or failed behind one of them, which careful users see to.
THEOREM EarlierConstantsAlive == ASSUME Careful PROVE Spec => []RootsAreAlive
<1>1. Init => RootInv
  BY DEF Init, RootInv
<1>2. ObjectInv /\ GuardInv /\ RootInv /\ [Next]_vars => RootInv'
  BY RootInvStep
<1>3. RootInv => RootsAreAlive
  BY DEF RootInv, RootsAreAlive, Roots
<1> QED BY InitObjectInv, ObjectInvStep, InitGuardInv, GuardInvStep, <1>1, <1>2, <1>3, PTL DEF Spec

----------------------------------------------------------------------------
(* The history                                                             *)

Lines == Seq(Int)
Filled == Int \ {Blank}

\* No text begins with a blank line.
Texts == {e \in Lines : e # <<>> /\ e[1] # Blank}
Entries == Seq(Texts)

\* What is left of each line where blank ones are left out.
Parts(s) == [i \in 1..Len(s) |-> IF s[i] = Blank THEN <<>> ELSE <<s[i]>>]

\* Without its blank lines a sequence is a sequence of lines that are not blank.
LEMMA NonBlankIsFilled ==
    ASSUME NEW s \in Lines
    PROVE  /\ Parts(s) \in Seq(Seq(Filled)) /\ NonBlank(s) = FlattenSeq(Parts(s))
           /\ NonBlank(s) \in Seq(Filled) /\ NonBlank(s) \in Lines
<1>1. PICK n \in Nat : n = Len(s)
  BY DEF Lines
<1>2. \A i \in 1..n : s[i] \in Int
  BY <1>1, ElementOfSeq DEF Lines
<1>3. <<>> \in Seq(Filled) /\ \A x \in Filled : <<x>> \in Seq(Filled)
  BY EmptySeq, SingleIsSeq
<1>4. \A i \in 1..n : (IF s[i] = Blank THEN <<>> ELSE <<s[i]>>) \in Seq(Filled)
  BY <1>2, <1>3 DEF Filled
<1>5. Parts(s) \in Seq(Seq(Filled))
  BY <1>1, <1>4 DEF Parts
<1>6. NonBlank(s) = FlattenSeq(Parts(s))
  BY Zenon DEF NonBlank, Parts
<1>7. NonBlank(s) \in Seq(Filled)
  BY <1>5, <1>6, FlattenIsSeq
<1>8. NonBlank(s) \in Lines
  BY <1>7 DEF Lines, Filled
<1> QED BY <1>5, <1>6, <1>7, <1>8

\* Two sequences, one behind the other, without their blank lines.
LEMMA NonBlankConcat ==
    ASSUME NEW s \in Lines, NEW t \in Lines
    PROVE  NonBlank(s \o t) = NonBlank(s) \o NonBlank(t)
<1>1. PICK m \in Nat, n \in Nat : m = Len(s) /\ n = Len(t)
  BY DEF Lines
<1>a. /\ s \o t \in Seq(Int) /\ Len(s \o t) = m + n
      /\ \A i \in 1..(m + n) : (s \o t)[i] = IF i <= m THEN s[i] ELSE t[i - m]
  BY <1>1, ConcatProperties DEF Lines
<1>2. PICK r \in Lines : /\ r = s \o t /\ Len(r) = m + n
                         /\ \A i \in 1..(m + n) : r[i] = IF i <= m THEN s[i] ELSE t[i - m]
  BY <1>a, Zenon DEF Lines
<1>3. Parts(r) \in Seq(Seq(Filled)) /\ Parts(s) \in Seq(Seq(Filled)) /\ Parts(t) \in Seq(Seq(Filled))
  BY NonBlankIsFilled
<1>4. /\ Len(Parts(r)) = m + n /\ Len(Parts(s)) = m /\ Len(Parts(t)) = n
      /\ \A i \in 1..(m + n) : Parts(r)[i] = IF r[i] = Blank THEN <<>> ELSE <<r[i]>>
      /\ \A i \in 1..m : Parts(s)[i] = IF s[i] = Blank THEN <<>> ELSE <<s[i]>>
      /\ \A i \in 1..n : Parts(t)[i] = IF t[i] = Blank THEN <<>> ELSE <<t[i]>>
  BY <1>1, <1>2 DEF Parts
<1>b. PICK p \in Seq(Seq(Filled)), q \in Seq(Seq(Filled)), c \in Seq(Seq(Filled)) :
          p = Parts(s) /\ q = Parts(t) /\ c = Parts(r)
  BY <1>3
<1>c. /\ p \o q \in Seq(Seq(Filled)) /\ Len(p \o q) = m + n
      /\ \A i \in 1..(m + n) : (p \o q)[i] = IF i <= m THEN p[i] ELSE q[i - m]
  <2>1. /\ p \o q \in Seq(Seq(Filled)) /\ Len(p \o q) = Len(p) + Len(q)
        /\ \A i \in 1..(Len(p) + Len(q)) : (p \o q)[i] = IF i <= Len(p) THEN p[i] ELSE q[i - Len(p)]
    BY <1>b, ConcatProperties
  <2>2. Len(p) = m /\ Len(q) = n
    BY <1>4, <1>b, Zenon
  <2> QED BY <2>1, <2>2
<1>5. PICK pq \in Seq(Seq(Filled)) :
          /\ pq = p \o q /\ Len(pq) = m + n
          /\ \A i \in 1..(m + n) : pq[i] = IF i <= m THEN p[i] ELSE q[i - m]
  BY <1>c, Zenon
<1>6. \A i \in 1..(m + n) : c[i] = pq[i]
  <2> TAKE i \in 1..(m + n)
  <2>1. CASE i <= m
    <3>1. i \in 1..m
      BY <2>1
    <3>2. r[i] = s[i] /\ pq[i] = p[i]
      BY <1>2, <1>5, <2>1
    <3>3. /\ c[i] = IF r[i] = Blank THEN <<>> ELSE <<r[i]>>
          /\ p[i] = IF s[i] = Blank THEN <<>> ELSE <<s[i]>>
      BY <1>4, <1>b, <3>1, Zenon
    <3> QED BY <3>2, <3>3, Zenon
  <2>2. CASE ~(i <= m)
    <3>1. PICK j \in 1..n : j = i - m
      BY <2>2
    <3>2. r[i] = t[j] /\ pq[i] = q[j]
      BY <1>2, <1>5, <2>2, <3>1
    <3>3. /\ c[i] = IF r[i] = Blank THEN <<>> ELSE <<r[i]>>
          /\ q[j] = IF t[j] = Blank THEN <<>> ELSE <<t[j]>>
      BY <1>4, <1>b, Zenon
    <3> QED BY <3>2, <3>3, Zenon
  <2> QED BY <2>1, <2>2
<1>7. c = pq
  <2>1. Len(c) = Len(pq) /\ \A i \in 1..Len(c) : c[i] = pq[i]
    BY <1>4, <1>5, <1>6, <1>b
  <2> QED BY <2>1, SeqEqual
<1>d. Parts(r) = Parts(s) \o Parts(t)
  BY <1>5, <1>7, <1>b, Zenon
<1>8. FlattenSeq(Parts(r)) = FlattenSeq(Parts(s)) \o FlattenSeq(Parts(t))
  BY <1>3, <1>d, FlattenConcat
<1> QED BY <1>2, <1>8, NonBlankIsFilled

\* Where no line is blank none is left out.
LEMMA NonBlankOfFilled ==
    ASSUME NEW s \in Seq(Filled)
    PROVE  NonBlank(s) = s
<1>1. PICK n \in Nat : n = Len(s)
  OBVIOUS
<1>2. \A i \in 1..n : s[i] # Blank
  BY <1>1, ElementOfSeq DEF Filled
<1>3. Parts(s) = [i \in 1..n |-> <<s[i]>>]
  BY <1>1, <1>2 DEF Parts
<1>4. s \in Lines
  BY DEF Lines, Filled
<1> QED BY <1>1, <1>3, <1>4, NonBlankIsFilled, FlattenSingles

\* The first line of a text is left.
LEMMA NonBlankOfText ==
    ASSUME NEW e \in Texts
    PROVE  Len(NonBlank(e)) >= 1
<1>1. e \in Lines /\ e # <<>> /\ e[1] # Blank
  BY DEF Texts
<1>2. PICK n \in Nat \ {0} : n = Len(e)
  BY <1>1, EmptySeq DEF Lines
<1>3. \A i \in 1..n : e[i] \in Int
  BY <1>1, <1>2, ElementOfSeq DEF Lines
<1>4. PICK x \in Seq(Int) : x = SubSeq(e, 1, 1) /\ Len(x) = 1 /\ x[1] = e[1]
  <2>1. /\ SubSeq(e, 1, 1) \in Seq(Int) /\ Len(SubSeq(e, 1, 1)) = 1
        /\ SubSeq(e, 1, 1)[1] = e[1]
    BY <1>1, <1>2, <1>3 DEF Lines
  <2> QED BY <2>1, Zenon
<1>5. PICK y \in Seq(Int) : y = SubSeq(e, 2, n)
  <2>1. \A i \in 2..n : e[i] \in Int
    BY <1>3
  <2>2. SubSeq(e, 2, n) \in Seq(Int)
    BY <2>1, SubSeqProperties
  <2> QED BY <2>2, Zenon
<1>6. e = x \o y
  <2>1. 1 \in 1..(n + 1) /\ 1 \in 0..n /\ n \in 1..n /\ 1 + 1 = 2
    OBVIOUS
  <2>2. SubSeq(e, 1, 1) \o SubSeq(e, 2, n) = SubSeq(e, 1, n)
    BY <1>1, <1>2, <2>1, ConcatAdjacentSubSeq DEF Lines
  <2>3. SubSeq(e, 1, n) = e
    BY <1>1, <1>2, SubSeqFull DEF Lines
  <2> QED BY <1>4, <1>5, <2>2, <2>3, Zenon
<1>7. x \in Seq(Filled) /\ x \in Lines /\ y \in Lines
  BY <1>1, <1>4 DEF Filled, Lines
<1>8. NonBlank(e) = x \o NonBlank(y) /\ NonBlank(y) \in Seq(Int)
  <2>1. NonBlank(x \o y) = NonBlank(x) \o NonBlank(y) /\ NonBlank(x) = x /\ NonBlank(y) \in Lines
    BY <1>7, NonBlankConcat, NonBlankOfFilled, NonBlankIsFilled
  <2> QED BY <1>6, <2>1, Zenon DEF Lines
<1>9. PICK z \in Seq(Int) : z = NonBlank(y)
  BY <1>8
<1>10. Len(x \o z) = 1 + Len(z) /\ Len(z) \in Nat
  BY <1>4, ConcatProperties
<1>11. NonBlank(e) = x \o z
  BY <1>8, <1>9, Zenon
<1> QED BY <1>10, <1>11

\* The lines of entries, blank ones left out, are at least as many as the entries.
LEMMA EntriesHaveLines ==
    ASSUME NEW h \in Entries
    PROVE  Len(NonBlank(FlattenSeq(h))) >= Len(h)
<1> DEFINE S == {n \in Nat : \A l \in Entries : Len(l) = n => Len(NonBlank(FlattenSeq(l))) >= n}
<1>1. \A l \in Entries : l \in Seq(Lines) /\ FlattenSeq(l) \in Lines /\ NonBlank(FlattenSeq(l)) \in Lines
  <2> TAKE l \in Entries
  <2>1. l \in Seq(Lines)
    BY DEF Entries, Texts
  <2>2. FlattenSeq(l) \in Lines
    BY <2>1, FlattenIsSeq DEF Lines
  <2> QED BY <2>1, <2>2, NonBlankIsFilled
<1>2. 0 \in S
  <2>1. \A l \in Entries : Len(NonBlank(FlattenSeq(l))) \in Nat
    BY <1>1 DEF Lines
  <2> QED BY <2>1
<1>3. ASSUME NEW n \in S PROVE n + 1 \in S
  <2> SUFFICES ASSUME NEW l \in Entries, Len(l) = n + 1
               PROVE  Len(NonBlank(FlattenSeq(l))) >= n + 1
    OBVIOUS
  <2>0. n \in Nat /\ l # <<>>
    <3>1. n \in Nat
      OBVIOUS
    <3>2. Len(<<>>) = 0 /\ n + 1 # 0
      BY <3>1
    <3> QED BY <3>1, <3>2
  <2>1. PICK f, e : f = Front(l) /\ e = Last(l)
    OBVIOUS
  <2>2. /\ f \in Seq(Texts) /\ Len(f) = n /\ e \in Texts
        /\ \A i \in 1..n : f[i] = l[i]
        /\ e = l[n + 1]
    <3>1. l \in Seq(Texts)
      BY DEF Entries
    <3>2. /\ f \in Seq(Texts) /\ Len(f) = Len(l) - 1 /\ e \in Texts
          /\ \A i \in 1..Len(l) - 1 : f[i] = l[i]
          /\ e = l[Len(l)]
      BY <2>0, <2>1, <3>1, FrontAndLast, Zenon
    <3>3. Len(l) = n + 1 /\ Len(l) - 1 = n
      BY <2>0
    <3> QED BY <3>2, <3>3
  <2>a. /\ Append(f, e) \in Seq(Texts) /\ Len(Append(f, e)) = n + 1
        /\ \A i \in 1..n : Append(f, e)[i] = f[i]
        /\ Append(f, e)[n + 1] = e
    BY <2>2, AppendProperties
  <2>3. PICK c \in Seq(Texts) : /\ c = Append(f, e) /\ Len(c) = n + 1
                                /\ \A i \in 1..n : c[i] = f[i]
                                /\ c[n + 1] = e
    BY <2>a, Zenon
  <2>4. \A i \in 1..(n + 1) : c[i] = l[i]
    <3> TAKE i \in 1..(n + 1)
    <3>1. CASE i = n + 1
      BY <2>2, <2>3, <3>1, Zenon
    <3>2. CASE i # n + 1
      <4>1. i \in 1..n
        BY <2>0, <3>2
      <4> QED BY <2>2, <2>3, <4>1, Zenon
    <3> QED BY <3>1, <3>2
  <2>5. l = Append(f, e)
    <3>1. c = l
      <4>1. l \in Seq(Texts) /\ Len(c) = Len(l) /\ \A i \in 1..Len(c) : c[i] = l[i]
        BY <2>3, <2>4 DEF Entries
      <4> QED BY <4>1, SeqEqual
    <3> QED BY <2>3, <3>1, Zenon
  <2>6. e \in Lines /\ f \in Entries
    BY <2>2 DEF Texts, Entries
  <2>7. FlattenSeq(l) = FlattenSeq(f) \o e
    BY <1>1, <2>5, <2>6, FlattenAppend DEF Lines
  <2>8. NonBlank(FlattenSeq(l)) = NonBlank(FlattenSeq(f)) \o NonBlank(e)
    BY <1>1, <2>6, <2>7, NonBlankConcat
  <2>9. NonBlank(FlattenSeq(f)) \in Lines /\ NonBlank(e) \in Lines
    BY <1>1, <2>6, NonBlankIsFilled
  <2>10. /\ Len(NonBlank(FlattenSeq(l))) = Len(NonBlank(FlattenSeq(f))) + Len(NonBlank(e))
         /\ Len(NonBlank(FlattenSeq(f))) \in Nat /\ Len(NonBlank(e)) \in Nat
    BY <2>8, <2>9, ConcatProperties DEF Lines
  <2>11. Len(NonBlank(FlattenSeq(f))) >= n
    BY <2>2, <2>6
  <2>12. Len(NonBlank(e)) >= 1
    BY <2>2, NonBlankOfText
  <2> HIDE DEF S
  <2> QED BY <2>0, <2>10, <2>11, <2>12
<1>4. S \in SUBSET Nat
  OBVIOUS
<1>5. S = Nat
  <2> HIDE DEF S
  <2> QED BY <1>2, <1>3, <1>4, NatInductionOnSet
<1>6. Len(h) \in S
  <2>1. Len(h) \in Nat
    BY DEF Entries
  <2> HIDE DEF S
  <2> QED BY <1>5, <2>1
<1> QED BY <1>6

\* h is what r ends with: all of it, or as much as the history is to keep.
Ends(h, r) == \E u \in Lines : r = u \o h
Kept(h, r) == Ends(h, r) /\ (Len(h) >= kHistoryMax \/ h = r)

\* What a sequence ends with, and what that ends with.
LEMMA EndsOfEnds ==
    ASSUME NEW a \in Lines, NEW b \in Lines, NEW c \in Lines, Ends(a, b), Ends(b, c)
    PROVE  Ends(a, c)
<1>1. PICK u \in Lines : b = u \o a
  BY DEF Ends
<1>2. PICK v \in Lines : c = v \o b
  BY DEF Ends
<1>3. v \o u \in Lines
  BY ConcatProperties DEF Lines
<1>4. Associates(Lines)
  BY ConcatAssociates DEF Lines
<1>5. (v \o u) \o a = v \o (u \o a)
  BY <1>4 DEF Associates
<1>6. c = (v \o u) \o a
  BY <1>1, <1>2, <1>5, Zenon
<1> QED BY <1>3, <1>6 DEF Ends

\* A sequence ends with itself.
LEMMA EndsWithItself == \A h \in Lines : Ends(h, h)
<1> SUFFICES ASSUME NEW h \in Lines PROVE Ends(h, h)
  OBVIOUS
<1>1. <<>> \in Lines /\ h = <<>> \o h
  BY ConcatEmptySeq DEF Lines
<1> QED BY <1>1 DEF Ends

\* t is s, or the n last of it.
Newest(t, s, n, X) ==
    /\ t \in Seq(X)
    /\ \E u \in Seq(X) : s = u \o t
    /\ Len(s) > n => Len(t) = n
    /\ Len(s) <= n => t = s

\* What LastOf leaves out was at the beginning; it leaves out what is too much.
LEMMA LastOfEnds ==
    ASSUME NEW X, NEW s \in Seq(X), NEW n \in Nat
    PROVE  Newest(LastOf(s, n), s, n, X)
<1> USE DEF Newest
<1>1. PICK l \in Nat : l = Len(s)
  OBVIOUS
<1>2. \A i \in 1..l : s[i] \in X
  BY <1>1
<1>3. LastOf(s, n) = SubSeq(s, IF l > n THEN l - n + 1 ELSE 1, l)
  BY <1>1, Zenon DEF LastOf
<1>4. PICK t : t = LastOf(s, n)
  OBVIOUS
<1>5. SubSeq(s, 1, l) = s
  BY <1>1, SubSeqFull
<1>6. CASE l > n
  <2>1. t = SubSeq(s, l - n + 1, l)
    BY <1>3, <1>4, <1>6, Zenon
  <2>2. PICK m \in 1..l : m = l - n
    BY <1>6
  <2>3. m + 1 \in 1..(l + 1) /\ l - (m + 1) + 1 = n /\ \A i \in (m + 1)..l : s[i] \in X
    BY <1>2, <2>2
  <2>4. t = SubSeq(s, m + 1, l)
    BY <2>1, <2>2, Zenon
  <2>5. SubSeq(s, m + 1, l) \in Seq(X)
    BY <2>3, SubSeqProperties
  <2>6. Len(SubSeq(s, m + 1, l)) = IF m + 1 <= l THEN l - (m + 1) + 1 ELSE 0
    BY <2>3, SubSeqProperties
  <2>7. Len(SubSeq(s, m + 1, l)) = n
    BY <2>2, <2>6
  <2>8. SubSeq(s, 1, m) \in Seq(X)
    BY <1>2, SubSeqProperties
  <2>9. SubSeq(s, 1, m) \o SubSeq(s, m + 1, l) = SubSeq(s, 1, l)
    <3>1. 1 \in 1..(Len(s) + 1) /\ m \in 0..Len(s) /\ l \in m..Len(s)
      BY <1>1
    <3> QED BY <3>1, ConcatAdjacentSubSeq
  <2>10. s = SubSeq(s, 1, m) \o t
    BY <1>5, <2>4, <2>9, Zenon
  <2>11. ~(l <= n)
    BY <1>6
  <2>12. Len(t) = n /\ t \in Seq(X)
    BY <2>4, <2>5, <2>7, Zenon
  <2> QED BY <1>1, <1>4, <2>8, <2>10, <2>11, <2>12, Zenon
<1>7. CASE ~(l > n)
  <2>1. t = s
    BY <1>3, <1>4, <1>5, <1>7, Zenon
  <2>2. s = <<>> \o s /\ <<>> \in Seq(X)
    BY ConcatEmptySeq
  <2> QED BY <1>1, <1>4, <1>7, <2>1, <2>2, Zenon
<1> QED BY <1>6, <1>7, Zenon

\* Lines that are entered are at the end of both.
LEMMA KeptWithMore ==
    ASSUME NEW h \in Lines, NEW r \in Lines, NEW e \in Lines, Kept(h, r)
    PROVE  h \o e \in Lines /\ r \o e \in Lines /\ Kept(h \o e, r \o e)
<1>1. PICK u \in Lines : r = u \o h
  BY DEF Kept, Ends
<1>2. h \o e \in Lines /\ r \o e \in Lines /\ Len(h \o e) = Len(h) + Len(e)
  BY ConcatProperties DEF Lines
<1>3. Associates(Lines)
  BY ConcatAssociates DEF Lines
<1>4. (u \o h) \o e = u \o (h \o e)
  BY <1>3 DEF Associates
<1>5. Ends(h \o e, r \o e)
  BY <1>1, <1>4 DEF Ends
<1>6. Len(h \o e) >= kHistoryMax \/ h \o e = r \o e
  <2>1. CASE h = r
    BY <2>1
  <2>2. CASE Len(h) >= kHistoryMax
    <3>1. Len(h) \in Nat /\ Len(e) \in Nat /\ kHistoryMax \in Nat
      BY SessionAssumption DEF Lines
    <3> QED BY <1>2, <2>2, <3>1
  <2> QED BY <2>1, <2>2 DEF Kept
<1> QED BY <1>2, <1>5, <1>6 DEF Kept

\* Less of it is kept if it is enough.
LEMMA KeptPart ==
    ASSUME NEW g \in Lines, NEW h \in Lines, NEW r \in Lines, Kept(h, r), Ends(g, h),
           Len(g) >= kHistoryMax \/ g = h
    PROVE  Kept(g, r)
<1>1. Ends(g, r)
  BY EndsOfEnds DEF Kept
<1> QED BY <1>1 DEF Kept

\* The lines of the entries, blank ones left out.
Shown(h) == NonBlank(FlattenSeq(h))

LEMMA ShownIsLines ==
    ASSUME NEW h \in Entries
    PROVE  h \in Seq(Lines) /\ FlattenSeq(h) \in Lines /\ Shown(h) \in Lines
<1>1. h \in Seq(Lines)
  BY DEF Entries, Texts
<1>2. FlattenSeq(h) \in Lines
  BY <1>1, FlattenIsSeq DEF Lines
<1> QED BY <1>1, <1>2, NonBlankIsFilled DEF Shown

\* history_save: the entries that are left out are the oldest, and each of those that are kept
\* has a line that is not blank.
LEMMA SavedIsKept ==
    ASSUME NEW h \in Entries, NEW r \in Lines, Kept(Shown(h), r)
    PROVE  history_save(h) \in Lines /\ Kept(NonBlank(history_save(h)), r)
<1>k. PICK k \in Nat : k = kHistoryMax
  BY SessionAssumption
<1>0. Newest(LastOf(h, k), h, k, Texts)
  BY LastOfEnds DEF Entries
<1>1. PICK l \in Entries : l = LastOf(h, k) /\ Newest(l, h, k, Texts)
  BY <1>0, Zenon DEF Entries, Newest
<1>2. history_save(h) = FlattenSeq(l)
  BY <1>k, <1>1 DEF history_save, KeptEntries
<1>3. PICK u \in Entries : h = u \o l
  BY <1>1, Zenon DEF Entries, Newest
<1>4. /\ l \in Seq(Lines) /\ FlattenSeq(l) \in Lines /\ Shown(l) \in Lines
      /\ u \in Seq(Lines) /\ FlattenSeq(u) \in Lines /\ Shown(u) \in Lines
      /\ Shown(h) \in Lines
  BY ShownIsLines
<1>5. FlattenSeq(h) = FlattenSeq(u) \o FlattenSeq(l)
  BY <1>3, <1>4, FlattenConcat DEF Lines
<1>6. Shown(h) = Shown(u) \o Shown(l)
  BY <1>4, <1>5, NonBlankConcat DEF Shown
<1>7. Ends(Shown(l), Shown(h))
  BY <1>4, <1>6 DEF Ends
<1>8. Len(Shown(l)) >= kHistoryMax \/ Shown(l) = Shown(h)
  <2>1. CASE Len(h) > k
    <3>1. Len(l) = k
      BY <1>1, <2>1, Zenon DEF Newest
    <3>2. Len(Shown(l)) >= Len(l)
      BY EntriesHaveLines DEF Shown
    <3> QED BY <1>k, <3>1, <3>2
  <2>2. CASE Len(h) <= k
    <3>1. l = h
      BY <1>1, <2>2, Zenon DEF Newest
    <3> QED BY <3>1
  <2>3. Len(h) \in Nat
    BY DEF Entries
  <2> QED BY <2>1, <2>2, <2>3
<1>9. Kept(Shown(l), r)
  BY <1>4, <1>7, <1>8, KeptPart
<1> QED BY <1>2, <1>4, <1>9 DEF Shown

\* history_load: the newest lines of the file that are not blank, each an entry.
LEMMA LoadedIsKept ==
    ASSUME NEW f \in Lines, NEW r \in Lines, Kept(NonBlank(f), r)
    PROVE  history_load(f) \in Entries /\ Kept(Shown(history_load(f)), r)
<1>k. PICK k \in Nat : k = kHistoryMax
  BY SessionAssumption
<1>n. PICK n \in Seq(Filled) : n = NonBlank(f) /\ n \in Lines
  BY NonBlankIsFilled
<1>0. Newest(LastOf(n, k), n, k, Filled)
  BY LastOfEnds
<1>1. PICK l \in Seq(Filled) : l = LastOf(n, k) /\ Newest(l, n, k, Filled)
  BY <1>0, Zenon DEF Newest
<1>2. history_load(f) = [i \in 1..Len(l) |-> <<l[i]>>]
  BY <1>k, <1>n, <1>1 DEF history_load
<1>3. FlattenSeq(history_load(f)) = l
  BY <1>2, FlattenSingles
<1>4. history_load(f) \in Entries
  <2>1. PICK m \in Nat : m = Len(l)
    OBVIOUS
  <2>2. \A i \in 1..m : l[i] \in Filled
    BY <2>1, ElementOfSeq
  <2>3. \A x \in Filled : <<x>> \in Texts
    BY DEF Filled, Texts, Lines
  <2>4. \A i \in 1..m : <<l[i]>> \in Texts
    BY <2>2, <2>3
  <2> QED BY <1>2, <2>1, <2>4 DEF Entries
<1>5. Shown(history_load(f)) = l
  BY <1>3, NonBlankOfFilled DEF Shown
<1>6. l \in Lines
  BY DEF Lines, Filled
<1>7. Ends(l, n)
  <2>1. PICK u \in Seq(Filled) : n = u \o l
    BY <1>1, Zenon DEF Newest
  <2>2. u \in Lines
    BY DEF Lines, Filled
  <2> QED BY <2>1, <2>2 DEF Ends
<1>8. Len(l) >= kHistoryMax \/ l = n
  <2>1. CASE Len(n) > k
    <3>1. Len(l) = k
      BY <1>1, <2>1, Zenon DEF Newest
    <3> QED BY <1>k, <3>1
  <2>2. CASE Len(n) <= k
    BY <1>1, <2>2, Zenon DEF Newest
  <2>3. Len(n) \in Nat
    OBVIOUS
  <2> QED BY <2>1, <2>2, <2>3
<1> QED BY <1>n, <1>4, <1>5, <1>6, <1>7, <1>8, KeptPart

\* A sequence the other way round, from one end to the other.
LEMMA ReverseFacts ==
    ASSUME NEW s \in Lines
    PROVE  /\ Reverse(s) \in Lines /\ Len(Reverse(s)) = Len(s)
           /\ \A i \in 1..Len(s) : Reverse(s)[i] = s[Len(s) - i + 1]
<1>1. PICK n \in Nat : n = Len(s)
  BY DEF Lines
<1>2. Reverse(s) = [i \in 1..n |-> s[n - i + 1]]
  BY <1>1 DEF Reverse
<1>3. \A i \in 1..n : s[n - i + 1] \in Int
  <2> TAKE i \in 1..n
  <2>1. n - i + 1 \in 1..n
    OBVIOUS
  <2> QED BY <1>1, <2>1, ElementOfSeq DEF Lines
<1>4. [i \in 1..n |-> s[n - i + 1]] \in Lines
  BY <1>3 DEF Lines
<1>5. Len([i \in 1..n |-> s[n - i + 1]]) = n
  OBVIOUS
<1> QED BY <1>1, <1>2, <1>4, <1>5

\* What a sequence ends with is its suffix, as the property has it.
LEMMA EndsIsSuffix ==
    ASSUME NEW h \in Lines, NEW r \in Lines, Ends(h, r)
    PROVE  IsSuffix(h, r)
<1>m. PICK m \in Nat : m = Len(h)
  BY DEF Lines
<1>1. PICK u \in Lines : r = u \o h
  BY DEF Ends
<1>k. PICK k \in Nat : k = Len(u)
  BY DEF Lines
<1>2. /\ Len(u \o h) = k + m
      /\ \A i \in 1..(k + m) : (u \o h)[i] = IF i <= k THEN u[i] ELSE h[i - k]
  BY <1>m, <1>k, ConcatProperties DEF Lines
<1>3. PICK a \in Lines : /\ a = Reverse(h) /\ Len(a) = m
                         /\ \A i \in 1..m : a[i] = h[m - i + 1]
  BY <1>m, ReverseFacts
<1>4. Len(r) = k + m
  BY <1>1, <1>2
<1>5. PICK b \in Lines : /\ b = Reverse(r) /\ Len(b) = k + m
                         /\ \A i \in 1..(k + m) : b[i] = r[k + m - i + 1]
  BY <1>4, ReverseFacts
<1>6. ASSUME NEW i \in 1..m PROVE a[i] = b[i]
  <2>1. PICK j \in 1..(k + m) : j = k + m - i + 1 /\ ~(j <= k) /\ j - k = m - i + 1
    OBVIOUS
  <2>2. r[j] = h[m - i + 1]
    BY <1>1, <1>2, <2>1
  <2>3. i \in 1..(k + m)
    OBVIOUS
  <2> QED BY <1>3, <1>5, <2>1, <2>2, <2>3
<1>7. SubSeq(a, 1, m) = a
  BY <1>3, SubSeqFull DEF Lines
<1>8. \A i \in 1..m : b[i] \in Int
  <2> TAKE i \in 1..m
  <2>1. i \in 1..Len(b)
    BY <1>5
  <2> QED BY <2>1, ElementOfSeq DEF Lines
<1>9. PICK c \in Lines : c = SubSeq(b, 1, m) /\ Len(c) = m /\ \A i \in 1..m : c[i] = b[i]
  <2>1. /\ SubSeq(b, 1, m) \in Seq(Int)
        /\ Len(SubSeq(b, 1, m)) = IF 1 <= m THEN m - 1 + 1 ELSE 0
        /\ \A i \in 1..(m - 1 + 1) : SubSeq(b, 1, m)[i] = b[1 + i - 1]
    BY <1>8, SubSeqProperties
  <2>2. m - 1 + 1 = m /\ (~(1 <= m) => m = 0) /\ \A i \in 1..m : 1 + i - 1 = i
    OBVIOUS
  <2>3. Len(SubSeq(b, 1, m)) = m
    BY <2>1, <2>2, Zenon
  <2>4. \A i \in 1..m : SubSeq(b, 1, m)[i] = b[i]
    BY <2>1, <2>2, Zenon
  <2> QED BY <2>1, <2>3, <2>4, Zenon DEF Lines
<1>10. a = c
  <2>1. Len(a) = Len(c) /\ \A i \in 1..Len(a) : a[i] = c[i]
    BY <1>3, <1>6, <1>9
  <2> QED BY <2>1, SeqEqual DEF Lines
<1>11. IsPrefix(a, b)
  BY <1>3, <1>5, <1>7, <1>9, <1>10 DEF IsPrefix
<1> QED BY <1>3, <1>5, <1>11 DEF IsSuffix

\* But for blank lines the entries are what was recorded last, and so is the file once the process
\* has ended, and while a process that never writes it goes on.
HistoryInv ==
    /\ multi_buf \in Texts \cup {<<>>}
    /\ history \in Entries /\ histfile \in Lines /\ recorded \in Lines
    /\ pc # "ended" => Kept(Shown(history), NonBlank(recorded))
    /\ pc = "ended" \/ entry # "repl" => Kept(NonBlank(histfile), NonBlank(recorded))

\* Nothing was entered yet.
LEMMA InitHistoryInv == Init => HistoryInv
<1> SUFFICES ASSUME Init PROVE HistoryInv
  OBVIOUS
<1>1. <<>> \in Lines /\ <<>> \in Entries
  BY EmptySeq DEF Lines, Entries
<1>2. NonBlank(<<>>) = <<>> /\ Shown(<<>>) = <<>>
  BY FlattenNone, EmptySeq, NonBlankOfFilled DEF Shown
<1>3. Kept(<<>>, <<>>)
  BY <1>1, EndsWithItself DEF Kept
<1> QED BY <1>1, <1>2, <1>3 DEF Init, HistoryInv

\* A text that is not the same as the last becomes an entry.
LEMMA PushKeepsHistory ==
    ASSUME HistoryInv, pc # "ended", pc' # "ended", entry = "repl", UNCHANGED entry,
           NEW e \in Texts, history_push(e), multi_buf' \in Texts \cup {<<>>}
    PROVE  HistoryInv'
<1>1. CASE history # <<>> /\ Last(history) = e
  BY <1>1 DEF history_push, HistoryInv
<1>2. CASE ~(history # <<>> /\ Last(history) = e)
  <2>1. history' = Append(history, e) /\ recorded' = recorded \o e /\ histfile' = histfile
    BY <1>2 DEF history_push
  <2>2. history \in Entries /\ history' \in Entries
    BY <2>1 DEF HistoryInv, Entries
  <2>3. e \in Lines /\ NonBlank(e) \in Lines /\ recorded \in Lines /\ NonBlank(recorded) \in Lines
    BY NonBlankIsFilled DEF HistoryInv, Texts
  <2>4. history \in Seq(Lines) /\ FlattenSeq(history) \in Lines /\ Shown(history) \in Lines
    BY <2>2, ShownIsLines
  <2>5. FlattenSeq(history') = FlattenSeq(history) \o e
    BY <2>1, <2>3, <2>4, FlattenAppend DEF Lines
  <2>6. Shown(history') = Shown(history) \o NonBlank(e)
    BY <2>3, <2>4, <2>5, NonBlankConcat DEF Shown
  <2>7. recorded' \in Lines /\ NonBlank(recorded') = NonBlank(recorded) \o NonBlank(e)
    BY <2>1, <2>3, NonBlankConcat, ConcatProperties DEF Lines
  <2>8. Kept(Shown(history), NonBlank(recorded))
    BY DEF HistoryInv
  <2>9. Kept(Shown(history'), NonBlank(recorded'))
    BY <2>3, <2>4, <2>6, <2>7, <2>8, KeptWithMore
  <2> QED BY <2>1, <2>2, <2>7, <2>9 DEF HistoryInv
<1> QED BY <1>1, <1>2

\* Lines go into both, a process that ends well saves what it has, one that starts loads what
\* was saved, and a process that crashes loses what it did not save.
LEMMA HistoryInvStep == HistoryInv /\ [Next]_vars => HistoryInv'
<1> SUFFICES ASSUME HistoryInv, [Next]_vars PROVE HistoryInv'
  OBVIOUS
<1>1. CASE UNCHANGED <<multi_buf, past, entry>> /\ (pc = "ended" <=> pc' = "ended")
  BY <1>1 DEF HistoryInv, past
<1>2. ASSUME NEW d \in TextLine, read_text(d) PROVE HistoryInv'
  <2> DEFINE src == Append(multi_buf, d)
  <2>1. src \in Texts
    <3>a. multi_buf \in Texts \cup {<<>>} /\ <<>> \in Seq(Int)
      BY EmptySeq DEF HistoryInv
    <3>b. multi_buf \in Seq(Int)
      BY <3>a, Zenon DEF Texts, Lines
    <3>c. d \in Int
      BY DEF TextLine, Blank
    <3>1. multi_buf \in Seq(Int) /\ d \in Int
      BY <3>b, <3>c
    <3>2. /\ src \in Seq(Int) /\ Len(src) = Len(multi_buf) + 1
          /\ \A i \in 1..Len(multi_buf) : src[i] = multi_buf[i]
          /\ src[Len(multi_buf) + 1] = d
      BY <3>1, AppendProperties
    <3>3. src # <<>>
      BY <3>1, <3>2, EmptySeq
    <3>4. src[1] # Blank
      <4>1. CASE multi_buf = <<>>
        <5>1. Len(multi_buf) = 0 /\ d # Blank
          BY <1>2, <4>1 DEF read_text
        <5> QED BY <3>2, <5>1
      <4>2. CASE multi_buf # <<>>
        <5>1. 1 \in 1..Len(multi_buf) /\ multi_buf[1] # Blank
          BY <3>1, <4>2, EmptySeq DEF HistoryInv, Texts
        <5> QED BY <3>2, <5>1
      <4> QED BY <4>1, <4>2
    <3> QED BY <3>2, <3>3, <3>4 DEF Lines, Texts
  <2>2. pc = "prompt" /\ entry = "repl"
    BY <1>2 DEF read_text, AtPrompt
  <2> HIDE DEF src
  <2>3. CASE multi_buf' \in {src, <<>>} /\ UNCHANGED <<entry, pc, past>>
    BY <2>1, <2>3 DEF HistoryInv, past
  <2>4. CASE multi_buf' = <<>> /\ history_push(src) /\ execute("run", FALSE)
    <3>1. pc' = "parsing" /\ entry' = entry
      BY <2>4 DEF execute
    <3> QED BY <2>1, <2>2, <2>4, <3>1, PushKeepsHistory
  <2> QED BY <1>2, <2>3, <2>4 DEF read_text, src
<1>3. ASSUME NEW m \in {"ast", "dis"}, read_snippet(m) PROVE HistoryInv'
  <2>1. PICK e \in Texts : history_push(e)
    <3>1. <<IF m = "ast" THEN 2 ELSE 3>> \in Texts
      BY DEF Texts, Lines, Blank
    <3> QED BY <1>3, <3>1 DEF read_snippet
  <2>2. pc = "prompt" /\ entry = "repl" /\ pc' = "parsing" /\ entry' = entry /\ multi_buf' \in Texts \cup {<<>>}
    BY <1>3 DEF read_snippet, AtPrompt, execute, HistoryInv
  <2> QED BY <2>1, <2>2, PushKeepsHistory
<1>4. CASE quit
  <2>1. Kept(Shown(history), NonBlank(recorded)) /\ NonBlank(recorded) \in Lines
    BY <1>4, NonBlankIsFilled DEF quit, HistoryInv
  <2>2. history_save(history) \in Lines /\ Kept(NonBlank(history_save(history)), NonBlank(recorded))
    BY <2>1, SavedIsKept DEF HistoryInv
  <2> QED BY <1>4, <2>2 DEF quit, HistoryInv, input
<1>5. ASSUME NEW e \in Entry, restart(e) PROVE HistoryInv'
  <2>1. Kept(NonBlank(histfile), NonBlank(recorded)) /\ NonBlank(recorded) \in Lines
    BY <1>5, NonBlankIsFilled DEF restart, HistoryInv
  <2>2. /\ history_load(histfile) \in Entries
        /\ Kept(Shown(history_load(histfile)), NonBlank(recorded))
    BY <2>1, LoadedIsKept DEF HistoryInv
  <2> QED BY <1>5, <2>1, <2>2 DEF restart, NewProcess, HistoryInv
<1>6. CASE oom
  <2>1. Kept(NonBlank(histfile), NonBlank(histfile))
    BY NonBlankIsFilled, EndsWithItself DEF HistoryInv, Kept
  <2> QED BY <1>6, <2>1 DEF oom, HistoryInv, input
<1>7. CASE execute_returns
  BY <1>7 DEF execute_returns, HistoryInv, input, past
<1>8. CASE execute_file
  BY <1>1, <1>8 DEF execute_file, execute, AtPrompt
<1>9. CASE reset \/ run_source_file
  BY <1>1, <1>9 DEF reset, run_source_file, AtPrompt
<1>10. CASE Compiling
  BY <1>1, <1>10 DEF Compiling, parser_parse, func_register, import_done, compile_error, import_failed,
     compile_and_import, compile_failed, compile_done, Stays, input
<1>11. CASE vm_run \/ run_chunk \/ allocate \/ gc_collect \/ error_runtime \/ vm_returns
  BY <1>1, <1>11 DEF vm_run, run_chunk, allocate, gc_collect, error_runtime, vm_returns, Stays, input
<1>12. CASE release
  BY <1>1, <1>12 DEF release, input
<1>13. CASE UNCHANGED vars
  BY <1>1, <1>13 DEF vars, input
<1> QED BY <1>2, <1>3, <1>4, <1>5, <1>6, <1>7, <1>8, <1>9, <1>10, <1>11, <1>12, <1>13
        DEF Next, Reading, Running

\* While a process runs, the lines of its history that are not blank are the newest such lines of
\* all that were entered and not lost by a crash, and at least kHistoryMax of them if there are as
\* many: a text of several lines is one entry when it is saved, but when it is loaded as many as
\* it has lines that are not blank, and neither cuts off a line too much (history_push,
\* history_save, history_load).
THEOREM HistoryIsKept == Spec => []HistoryKept
<1>1. HistoryInv => HistoryKept
  <2> SUFFICES ASSUME HistoryInv, pc # "ended"
               PROVE  /\ IsSuffix(Shown(history), NonBlank(recorded))
                      /\ Len(Shown(history)) >= kHistoryMax \/ Shown(history) = NonBlank(recorded)
    BY DEF HistoryKept, Shown
  <2>1. Kept(Shown(history), NonBlank(recorded)) /\ recorded \in Lines /\ history \in Entries
    BY DEF HistoryInv
  <2>2. Shown(history) \in Lines /\ NonBlank(recorded) \in Lines
    BY <2>1, ShownIsLines, NonBlankIsFilled
  <2>3. IsSuffix(Shown(history), NonBlank(recorded))
    BY <2>1, <2>2, EndsIsSuffix DEF Kept
  <2> QED BY <2>1, <2>3 DEF Kept
<1> QED BY InitHistoryInv, HistoryInvStep, <1>1, PTL DEF Spec
=============================================================================
