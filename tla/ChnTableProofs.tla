--------------------------- MODULE ChnTableProofs ----------------------------
(***************************************************************************)
(* Theorems about the hash tables of gc.c. About the intern table of       *)
(* ChnStrings, for any texts, any hash function and any capacity; that the *)
(* heap has one string per text, for as many texts as the table has slots. *)
(* About the dict of ChnDict, for any texts, hashes, values and first      *)
(* capacity, if keys are interned and a key is deleted only where a run of *)
(* probes ends.                                                            *)
(***************************************************************************)
EXTENDS ChnStrings, ChnDict, CommonLemmas

----------------------------------------------------------------------------
(* The intern table                                                        *)

IsString(e) == e \in Object

\* The search for t arrives at slot p.
Comes(t, p) == \E i \in Reached(t) : SlotAt(t, i) = p

\* A string is in one slot, at which the search for its text arrives.
TableInv ==
    /\ intern \in [Slot -> Object \cup {Unused, Tombstone}]
    /\ objects \subseteq Object
    /\ \A p \in Slot : IsString(intern[p]) => intern[p] \in objects
    /\ \A p \in Slot, t \in Text : IsString(intern[p]) /\ TextOf(intern[p]) = t => Comes(t, p)
    /\ \A p, q \in Slot : IsString(intern[p]) /\ IsString(intern[q]) /\ TextOf(intern[p]) = TextOf(intern[q]) => p = q

\* Every string of the heap is in the table.
Interned == \A s \in objects : \E p \in Slot : intern[p] = s

----------------------------------------------------------------------------
(* Slots and strings                                                       *)

\* A search comes to each slot, and to none of them twice.
LEMMA SlotAtFacts ==
    ASSUME NEW t \in Text
    PROVE  /\ \A i \in Slot : SlotAt(t, i) \in Slot
           /\ \A i, j \in Slot : SlotAt(t, i) = SlotAt(t, j) => i = j
           /\ \A p \in Slot : \E i \in Slot : SlotAt(t, i) = p
<1> PICK n \in Nat \ {0} : n = InternCap
  BY StringsAssumption
<1> PICK h \in Nat : h = Hash[t]
  BY TextsAssumption
<1>1. Slot = 0..(n - 1) /\ \A i : SlotAt(t, i) = (h + i) % n
  BY DEF Slot, SlotAt
<1>2. \A i \in 0..(n - 1) : (h + i) % n \in 0..(n - 1)
  OBVIOUS
<1>3. \A i, j \in 0..(n - 1) : (h + i) % n = (h + j) % n => i = j
  BY ProbesDiffer
<1>4. \A p \in 0..(n - 1) : \E i \in 0..(n - 1) : (h + i) % n = p
  <2> TAKE p \in 0..(n - 1)
  <2> QED BY ProbesReach
<1>5. \A i \in Slot : SlotAt(t, i) \in Slot
  BY <1>1, <1>2
<1>6. \A i, j \in Slot : SlotAt(t, i) = SlotAt(t, j) => i = j
  <2> SUFFICES ASSUME NEW i \in 0..(n - 1), NEW j \in 0..(n - 1), (h + i) % n = (h + j) % n PROVE i = j
    BY <1>1
  <2> QED BY <1>3
<1>7. \A p \in Slot : \E i \in Slot : SlotAt(t, i) = p
  <2> SUFFICES ASSUME NEW p \in 0..(n - 1) PROVE \E i \in 0..(n - 1) : SlotAt(t, i) = p
    BY <1>1
  <2>1. PICK i \in 0..(n - 1) : (h + i) % n = p
    BY <1>4
  <2> QED BY <1>1, <2>1
<1> QED BY <1>5, <1>6, <1>7

\* Turns are numbers; those before a turn are turns.
LEMMA TurnFacts ==
    /\ Slot \subseteq Nat
    /\ \A i \in Slot : \A j \in Nat : j \in 0..(i - 1) <=> j < i
    /\ \A i \in Slot : \A j \in 0..(i - 1) : j \in Slot
BY StringsAssumption DEF Slot

\* A string and the states of a free slot differ; a string is one of the copies of its text.
LEMMA StringFacts ==
    ASSUME NEW e \in Object \cup {Unused, Tombstone}
    PROVE  /\ IsString(e) <=> e \notin {Unused, Tombstone}
           /\ IsString(e) => TextOf(e) \in Text
           /\ \A t \in Text : e \in {t} \X Copy <=> IsString(e) /\ TextOf(e) = t
<1>1. {Unused, Tombstone} \cap Object = {}
  BY StringsAssumption
<1>2. \A x \in Object : TextOf(x) \in Text /\ x = <<TextOf(x), x[2]>> /\ x[2] \in Copy
  BY DEF Object, TextOf
<1>3. \A t \in Text : \A x \in {t} \X Copy : x \in Object /\ TextOf(x) = t
  BY DEF Object, TextOf
<1>4. \A t \in Text : \A x \in Object : TextOf(x) = t => x \in {t} \X Copy
  BY <1>2
<1> QED BY <1>1, <1>2, <1>3, <1>4 DEF IsString

\* The least of the turns at which a slot is in a certain state.
LEMMA FirstTurn ==
    ASSUME NEW t \in Text, NEW e, NEW i \in Slot, intern[SlotAt(t, i)] = e
    PROVE  \E m \in Slot : intern[SlotAt(t, m)] = e /\ \A j \in 0..(m - 1) : intern[SlotAt(t, j)] # e
<1> DEFINE S == {j \in Slot : intern[SlotAt(t, j)] = e}
<1>1. S \in SUBSET Nat /\ S # {}
  BY TurnFacts
<1>2. PICK m \in S : \A j \in S : m <= j
  <2> HIDE DEF S
  <2> QED BY <1>1, LeastExists
<1>3. ASSUME NEW j \in 0..(m - 1) PROVE intern[SlotAt(t, j)] # e
  <2>1. j \in Slot /\ j < m /\ j \in Nat /\ m \in Nat
    BY TurnFacts
  <2>2. j \notin S
    BY <1>2, <2>1
  <2> QED BY <2>1, <2>2
<1> QED BY <1>3

----------------------------------------------------------------------------
(* Searching                                                               *)

\* The string of a slot is what is found for its text.
LEMMA OneHit ==
    ASSUME TableInv, NEW p \in Slot, IsString(intern[p])
    PROVE  intern_find(TextOf(intern[p])) = {intern[p]}
<1> PICK t \in Text : t = TextOf(intern[p])
  BY StringFacts DEF TableInv
<1>1. PICK i \in Reached(t) : SlotAt(t, i) = p
  BY DEF TableInv, Comes
<1>2. i \in Slot /\ Reached(t) \subseteq Slot /\ i \in Nat
  BY TurnFacts DEF Reached
<1> DEFINE hits == {j \in Reached(t) : intern[SlotAt(t, j)] \in {t} \X Copy}
<1>3. hits = {i}
  <2>1. i \in hits
    <3>1. intern[p] \in {t} \X Copy
      BY StringFacts DEF TableInv
    <3> QED BY <1>1, <3>1
  <2>2. ASSUME NEW j \in hits PROVE j = i
    <3>1. j \in Slot /\ SlotAt(t, j) \in Slot /\ intern[SlotAt(t, j)] \in {t} \X Copy
      BY <1>2, SlotAtFacts
    <3>2. IsString(intern[SlotAt(t, j)]) /\ TextOf(intern[SlotAt(t, j)]) = t
      BY <3>1, StringFacts DEF TableInv
    <3>3. SlotAt(t, j) = p
      BY <3>1, <3>2 DEF TableInv
    <3> QED BY <1>1, <1>2, <3>1, <3>3, SlotAtFacts
  <2> QED BY <2>1, <2>2
<1>4. intern_find(t) = {intern[SlotAt(t, j)] : j \in {j \in hits : \A k \in hits : j <= k}}
  BY DEF intern_find
<1> HIDE DEF hits
<1>5. {j \in hits : \A k \in hits : j <= k} = {i}
  BY <1>2, <1>3
<1> QED BY <1>1, <1>4, <1>5

\* A text for which nothing is found is in no slot.
LEMMA NotFound ==
    ASSUME TableInv, NEW t \in Text, intern_find(t) = {}
    PROVE  \A p \in Slot : IsString(intern[p]) => TextOf(intern[p]) # t
BY OneHit

\* At most one slot is chosen for a new string, one that holds no string and that the search reaches.
LEMMA InsertionFacts ==
    ASSUME NEW t \in Text
    PROVE  /\ \A n \in Insertion(t) : /\ n \in Reached(t) /\ n \in Slot
                                      /\ intern[SlotAt(t, n)] \in {Unused, Tombstone}
           /\ \A m, n \in Insertion(t) : m = n
<1>1. \A n \in Reached(t) : n \in Slot /\ n \in Nat
  BY TurnFacts DEF Reached
<1>2. \A e : \A m, n \in FirstIn(t, e) : m = n
  <2> SUFFICES ASSUME NEW e, NEW m \in FirstIn(t, e), NEW n \in FirstIn(t, e), m # n PROVE FALSE
    OBVIOUS
  <2>1. /\ intern[SlotAt(t, m)] = e /\ \A j \in 0..(m - 1) : intern[SlotAt(t, j)] # e
        /\ intern[SlotAt(t, n)] = e /\ \A j \in 0..(n - 1) : intern[SlotAt(t, j)] # e
        /\ m \in Reached(t) /\ n \in Reached(t)
    BY DEF FirstIn
  <2>2. m \in Nat /\ n \in Nat
    BY <1>1, <2>1
  <2>3. m \in 0..(n - 1) \/ n \in 0..(m - 1)
    BY <2>2
  <2> QED BY <2>1, <2>3
<1> QED BY <1>1, <1>2 DEF Insertion, FirstIn

----------------------------------------------------------------------------
(* Making and freeing strings                                              *)

\* A string that is put where there was none hides no other.
LEMMA InsertKeeps ==
    ASSUME TableInv, NEW s \in Object, intern_find(TextOf(s)) = {}, intern_insert(s),
           objects' = objects \cup {s}
    PROVE  TableInv' /\ (Interned /\ Insertion(TextOf(s)) # {} => Interned')
<1> PICK t \in Text : t = TextOf(s)
  BY DEF Object, TextOf
<1>1. intern' = [i \in Slot |-> IF \E n \in Insertion(t) : i = SlotAt(t, n) THEN s ELSE intern[i]]
  BY DEF intern_insert
<1>2. IsString(s) /\ s # Unused /\ s # Tombstone
  BY StringFacts DEF IsString
<1>3. CASE Insertion(t) = {}
  <2>1. intern' = intern
    BY <1>1, <1>3 DEF TableInv
  <2>2. \A u, p : Comes(u, p)' = Comes(u, p)
    BY <2>1 DEF Comes, Reached, SlotAt
  <2> QED BY <1>3, <2>1, <2>2 DEF TableInv, IsString
<1>4. CASE Insertion(t) # {}
  <2> PICK n \in Insertion(t) : TRUE
    BY <1>4
  <2> PICK x \in Slot : x = SlotAt(t, n)
    BY InsertionFacts, SlotAtFacts
  <2>1. n \in Reached(t) /\ n \in Slot /\ intern[x] \in {Unused, Tombstone} /\ ~IsString(intern[x])
    <3>1. n \in Reached(t) /\ n \in Slot /\ intern[x] \in {Unused, Tombstone}
      BY InsertionFacts
    <3> QED BY <3>1, StringFacts
  <2>2. intern' = [i \in Slot |-> IF i = x THEN s ELSE intern[i]]
    <3>1. \A i : (\E m \in Insertion(t) : i = SlotAt(t, m)) <=> i = x
      BY InsertionFacts
    <3> QED BY <1>1, <3>1
  <2>3. /\ intern' \in [Slot -> Object \cup {Unused, Tombstone}] /\ intern'[x] = s
        /\ \A p \in Slot : p # x => intern'[p] = intern[p]
    BY <2>2 DEF TableInv
  <2>4. ASSUME NEW u \in Text PROVE Reached(u) \subseteq Reached(u)'
    <3>1. \A i \in Slot : \A j \in 0..(i - 1) : SlotAt(u, j) \in Slot
      BY TurnFacts, SlotAtFacts
    <3>2. Reached(u)' = {i \in Slot : \A j \in 0..(i - 1) : intern'[SlotAt(u, j)] # Unused}
      BY DEF Reached, SlotAt
    <3> QED BY <1>2, <2>3, <3>1, <3>2 DEF Reached
  <2>5. ASSUME NEW p \in Slot, IsString(intern'[p]) PROVE intern'[p] \in objects'
    BY <2>3, <2>5 DEF TableInv
  <2>6. ASSUME NEW p \in Slot, NEW u \in Text, IsString(intern'[p]), TextOf(intern'[p]) = u
        PROVE  Comes(u, p)'
    <3>1. Comes(u, p)
      <4>1. CASE p = x
        <5>1. u = t
          BY <2>3, <2>6, <4>1
        <5> QED BY <2>1, <4>1, <5>1 DEF Comes
      <4>2. CASE p # x
        BY <2>3, <2>6, <4>2 DEF TableInv
      <4> QED BY <4>1, <4>2
    <3> QED BY <2>4, <3>1 DEF Comes, SlotAt
  <2>7. ASSUME NEW p \in Slot, NEW q \in Slot, IsString(intern'[p]), IsString(intern'[q]),
               TextOf(intern'[p]) = TextOf(intern'[q])
        PROVE  p = q
    <3>1. \A r \in Slot : IsString(intern[r]) => TextOf(intern[r]) # t
      BY NotFound
    <3> QED BY <2>3, <2>7, <3>1 DEF TableInv
  <2>8. objects' \subseteq Object
    BY DEF TableInv
  <2>9. TableInv'
    BY <2>3, <2>5, <2>6, <2>7, <2>8 DEF TableInv, IsString
  <2>10. Interned => Interned'
    <3> SUFFICES ASSUME Interned, NEW o \in objects' PROVE \E p \in Slot : intern'[p] = o
      BY DEF Interned
    <3>1. CASE o = s
      BY <2>3, <3>1
    <3>2. CASE o \in objects
      <4>1. PICK p \in Slot : intern[p] = o
        BY <3>2 DEF Interned
      <4>2. p # x
        BY <2>1, <3>2, <4>1 DEF TableInv, IsString
      <4> QED BY <2>3, <4>1, <4>2
    <3> QED BY <3>1, <3>2
  <2> QED BY <2>9, <2>10
<1> QED BY <1>3, <1>4

\* Freeing strings takes them out of the table, and hides no other.
LEMMA EvictKeeps ==
    ASSUME TableInv, NEW D \in SUBSET objects, intern_evict(D), objects' = objects \ D
    PROVE  TableInv' /\ (Interned => Interned')
<1>1. \A p \in Slot : (\E s \in D : p \in EvictedSlots(s)) <=> intern[p] \in D
  <2>1. ASSUME NEW p \in Slot, NEW s \in D, p \in EvictedSlots(s) PROVE intern[p] \in D
    BY <2>1 DEF EvictedSlots
  <2>2. ASSUME NEW p \in Slot, intern[p] \in D PROVE \E s \in D : p \in EvictedSlots(s)
    <3>1. IsString(intern[p]) /\ TextOf(intern[p]) \in Text
      BY <2>2, StringFacts DEF TableInv, IsString
    <3>2. PICK i \in Reached(TextOf(intern[p])) : SlotAt(TextOf(intern[p]), i) = p
      BY <3>1 DEF TableInv, Comes
    <3>3. p \in EvictedSlots(intern[p])
      BY <3>2 DEF EvictedSlots
    <3> QED BY <2>2, <3>3
  <2> QED BY <2>1, <2>2
<1>2. intern' = [p \in Slot |-> IF intern[p] \in D THEN Tombstone ELSE intern[p]]
  BY <1>1 DEF intern_evict
<1>3. intern' \in [Slot -> Object \cup {Unused, Tombstone}] /\ Tombstone # Unused /\ ~IsString(Tombstone)
  BY <1>2, StringsAssumption DEF TableInv, IsString
<1>4. ASSUME NEW p \in Slot, IsString(intern'[p]) PROVE intern'[p] = intern[p] /\ intern[p] \notin D
  BY <1>2, <1>3, <1>4
<1>5. ASSUME NEW u \in Text PROVE Reached(u) \subseteq Reached(u)'
  <2>1. \A i \in Slot : \A j \in 0..(i - 1) : SlotAt(u, j) \in Slot
    BY TurnFacts, SlotAtFacts
  <2>2. Reached(u)' = {i \in Slot : \A j \in 0..(i - 1) : intern'[SlotAt(u, j)] # Unused}
    BY DEF Reached, SlotAt
  <2>3. \A p \in Slot : intern[p] # Unused => intern'[p] # Unused
    BY <1>2, <1>3
  <2> QED BY <2>1, <2>2, <2>3 DEF Reached
<1>6. ASSUME NEW p \in Slot, NEW u \in Text, IsString(intern'[p]), TextOf(intern'[p]) = u
      PROVE  Comes(u, p)'
  <2>1. Comes(u, p)
    BY <1>4, <1>6 DEF TableInv
  <2> QED BY <1>5, <2>1 DEF Comes, SlotAt
<1>7. \A p \in Slot : IsString(intern'[p]) => intern'[p] \in objects'
  BY <1>4 DEF TableInv
<1>8. ASSUME NEW p \in Slot, NEW q \in Slot, IsString(intern'[p]), IsString(intern'[q]),
             TextOf(intern'[p]) = TextOf(intern'[q])
      PROVE  p = q
  BY <1>4, <1>8 DEF TableInv
<1>9. TableInv'
  BY <1>3, <1>6, <1>7, <1>8 DEF TableInv, IsString
<1>10. ASSUME Interned, NEW o \in objects' PROVE \E p \in Slot : intern'[p] = o
  <2>1. PICK p \in Slot : intern[p] = o /\ o \notin D
    BY <1>10 DEF Interned
  <2> QED BY <1>2, <2>1
<1> QED BY <1>9, <1>10 DEF Interned

\* A table with more slots than other texts has room for a text that is not in it.
LEMMA RoomIsFound ==
    ASSUME TableInv, IsFiniteSet(Text), Cardinality(Text) <= InternCap, NEW t \in Text, intern_find(t) = {}
    PROVE  Insertion(t) # {}
<1>1. \A p \in Slot : IsString(intern[p]) => TextOf(intern[p]) \in Text \ {t}
  BY NotFound, StringFacts DEF TableInv
<1>2. PICK p \in Slot : ~IsString(intern[p])
  <2> SUFFICES ASSUME \A p \in Slot : IsString(intern[p]) PROVE FALSE
    OBVIOUS
  <2> DEFINE f == [p \in Slot |-> TextOf(intern[p])]
  <2>1. f \in [Slot -> Text \ {t}]
    BY <1>1
  <2>2. IsFiniteSet(Text \ {t}) /\ Cardinality(Text \ {t}) = Cardinality(Text) - 1 /\ Cardinality(Text) \in Nat
    BY FS_RemoveElement, FS_CardinalityType
  <2>3. IsFiniteSet(Slot) /\ Cardinality(Slot) = InternCap
    <3>1. InternCap \in Nat \ {0} /\ 0 \in Int /\ InternCap - 1 \in Int
      BY StringsAssumption
    <3> QED BY <3>1, FS_Interval DEF Slot
  <2>4. Cardinality(Text \ {t}) < Cardinality(Slot)
    BY <2>2, <2>3, StringsAssumption
  <2>5. PICK p \in Slot, q \in Slot : p # q /\ f[p] = f[q]
    <3> HIDE DEF f
    <3> QED BY <2>1, <2>2, <2>3, <2>4, FS_PigeonHole
  <2> QED BY <2>5 DEF TableInv
<1>3. intern[p] \in {Unused, Tombstone}
  BY <1>2, StringFacts DEF TableInv
<1>4. ASSUME NEW q \in Slot, intern[q] = Unused PROVE Insertion(t) # {}
  <2>1. PICK i \in Slot : SlotAt(t, i) = q
    BY SlotAtFacts
  <2>2. PICK m \in Slot : intern[SlotAt(t, m)] = Unused /\ \A j \in 0..(m - 1) : intern[SlotAt(t, j)] # Unused
    BY <1>4, <2>1, FirstTurn
  <2>3. m \in FirstIn(t, Unused)
    BY <2>2 DEF FirstIn, Reached
  <2> QED BY <2>3 DEF Insertion
<1>5. ASSUME \A q \in Slot : intern[q] # Unused PROVE Insertion(t) # {}
  <2>1. PICK i \in Slot : SlotAt(t, i) = p
    BY SlotAtFacts
  <2>2. PICK m \in Slot : intern[SlotAt(t, m)] = Tombstone /\ \A j \in 0..(m - 1) : intern[SlotAt(t, j)] # Tombstone
    BY <1>3, <1>5, <2>1, FirstTurn
  <2>3. m \in Reached(t)
    BY <1>5, TurnFacts, SlotAtFacts DEF Reached
  <2>4. m \in FirstIn(t, Tombstone)
    BY <2>2, <2>3 DEF FirstIn
  <2> QED BY <2>4 DEF Insertion
<1> QED BY <1>4, <1>5

\* A string is found or made.
LEMMA StringKeeps ==
    ASSUME TableInv, NEW t \in Text, NEW s \in {t} \X Copy, gc_string(t, s)
    PROVE  TableInv' /\ (IsFiniteSet(Text) /\ Cardinality(Text) <= InternCap /\ Interned => Interned')
<1>1. s \in Object /\ TextOf(s) = t
  BY DEF Object, TextOf
<1>2. CASE UNCHANGED <<intern, objects>>
  <2>1. \A u, p : Comes(u, p)' = Comes(u, p)
    BY <1>2 DEF Comes, Reached, SlotAt
  <2> QED BY <1>2, <2>1 DEF TableInv, Interned, IsString
<1>3. CASE intern_find(t) = {} /\ intern_insert(s) /\ objects' = objects \cup {s}
  BY <1>1, <1>3, InsertKeeps, RoomIsFound
<1> QED BY <1>2, <1>3 DEF gc_string

\* Every step keeps the table in order, and every string in it where there is room for all.
LEMMA TableStep ==
    ASSUME TableInv, [InternNext]_internVars
    PROVE  TableInv' /\ (IsFiniteSet(Text) /\ Cardinality(Text) <= InternCap /\ Interned => Interned')
<1>1. ASSUME UNCHANGED <<intern, objects>> PROVE TableInv' /\ (Interned => Interned')
  <2>1. \A u, p : Comes(u, p)' = Comes(u, p)
    BY <1>1 DEF Comes, Reached, SlotAt
  <2> QED BY <1>1, <2>1 DEF TableInv, Interned, IsString
<1>2. CASE run_chunk
  <2>1. intern' = AllUnused /\ objects' = {}
    BY <1>2 DEF run_chunk
  <2>2. ~IsString(Unused)
    BY StringsAssumption DEF IsString
  <2> QED BY <2>1, <2>2 DEF TableInv, Interned, AllUnused, IsString
<1>3. CASE run_cco_file
  BY <1>1, <1>3 DEF run_cco_file
<1>4. ASSUME NEW t \in Text, constant(t) \/ string(t)
      PROVE  TableInv' /\ (IsFiniteSet(Text) /\ Cardinality(Text) <= InternCap /\ Interned => Interned')
  <2>1. PICK s \in {t} \X Copy : gc_string(t, s)
    BY <1>4 DEF constant, string
  <2> QED BY <2>1, StringKeeps
<1>5. ASSUME NEW s, push_constant(s) \/ drop(s) PROVE TableInv' /\ (Interned => Interned')
  BY <1>1, <1>5 DEF push_constant, drop
<1>6. ASSUME NEW D \in SUBSET objects, sweep(D) PROVE TableInv' /\ (Interned => Interned')
  BY <1>6, EvictKeeps DEF sweep
<1>7. CASE UNCHANGED internVars
  BY <1>1, <1>7 DEF internVars
<1> QED BY <1>2, <1>3, <1>4, <1>5, <1>6, <1>7 DEF InternNext

\* The empty table is in order.
LEMMA TableInit == InternInit => TableInv /\ Interned
<1>1. ~IsString(Unused)
  BY StringsAssumption DEF IsString
<1> QED BY <1>1 DEF InternInit, TableInv, Interned, AllUnused, IsString

\* The table refers to strings that were not freed, and each is found under its text, whatever
\* was freed and stored in slots that were freed (intern_find, intern_insert, intern_evict).
THEOREM StoredIsFound == InternSpec => []InternFinds
<1>1. TableInv => InternFinds
  <2> SUFFICES ASSUME TableInv, NEW i \in Slot, intern[i] \notin {Unused, Tombstone}
               PROVE  intern[i] \in objects /\ intern_find(TextOf(intern[i])) = {intern[i]}
    BY DEF InternFinds
  <2>1. IsString(intern[i])
    BY StringFacts DEF TableInv
  <2> QED BY <2>1, OneHit DEF TableInv
<1> QED BY <1>1, TableInit, TableStep, PTL DEF InternSpec

\* The heap has one string per text if there are no more texts than slots: then a slot is found
\* for each of them (gc_string, intern_insert).
THEOREM EachTextOnce ==
    ASSUME IsFiniteSet(Text), Cardinality(Text) <= InternCap
    PROVE  InternSpec => []OnePerTextInHeap
<1>1. TableInv /\ Interned => OnePerTextInHeap
  <2> SUFFICES ASSUME TableInv, Interned, NEW s \in objects, NEW u \in objects, TextOf(s) = TextOf(u)
               PROVE  s = u
    BY DEF OnePerTextInHeap
  <2>1. PICK p \in Slot : intern[p] = s
    BY DEF Interned
  <2>2. PICK q \in Slot : intern[q] = u
    BY DEF Interned
  <2>3. IsString(s) /\ IsString(u)
    BY DEF TableInv, IsString
  <2>4. p = q
    BY <2>1, <2>2, <2>3 DEF TableInv
  <2> QED BY <2>1, <2>2, <2>4
<1>2. TableInv /\ Interned /\ [InternNext]_internVars => TableInv' /\ Interned'
  BY TableStep
<1> QED BY <1>1, <1>2, TableInit, PTL DEF InternSpec

----------------------------------------------------------------------------
(* The dict                                                                *)

Slots(n) == [0..(n - 1) -> Entry \cup {Empty}]

IsTable(e) == \E n \in Nat : e \in Slots(n)

\* The search for t arrives at slot p, over slots that are taken.
Arrives(e, t, p) ==
    \E i \in DOMAIN e : Probe(e, t, i) = p /\ \A j \in 0..(i - 1) : e[Probe(e, t, j)] # Empty

TextAt(e, p) == TextOf(e[p].key)

\* The entries of a table are found, and no two have one text.
Sound(e) ==
    /\ IsTable(e)
    /\ \A p \in Taken(e) : Arrives(e, TextAt(e, p), p)
    /\ \A p, q \in Taken(e) : TextAt(e, p) = TextAt(e, q) => p = q

Texts(e) == {TextAt(e, p) : p \in Taken(e)}

----------------------------------------------------------------------------
(* Tables                                                                  *)

\* The capacity of a table and its slots.
LEMMA TableFacts ==
    ASSUME NEW n \in Nat, NEW e \in Slots(n)
    PROVE  DOMAIN e = 0..(n - 1) /\ Cap(e) = n
<1>1. DOMAIN e = 0..(n - 1)
  BY DEF Slots
<1>2. Cardinality(0..(n - 1)) = n
  BY FS_Interval
<1> QED BY <1>1, <1>2 DEF Cap

\* Slots are finitely many numbers.
LEMMA SlotFacts ==
    ASSUME NEW e, IsTable(e)
    PROVE  /\ Cap(e) \in Nat /\ DOMAIN e = 0..(Cap(e) - 1) /\ e \in Slots(Cap(e))
           /\ \A i \in DOMAIN e : i \in Nat /\ \A j \in 0..(i - 1) : j \in DOMAIN e /\ j \in Nat /\ j < i
           /\ DOMAIN e \subseteq Nat
           /\ IsFiniteSet(DOMAIN e) /\ IsFiniteSet(Taken(e)) /\ Taken(e) \subseteq DOMAIN e
<1> PICK n \in Nat : e \in Slots(n)
  BY DEF IsTable
<1>1. DOMAIN e = 0..(n - 1) /\ Cap(e) = n
  BY TableFacts
<1>2. IsFiniteSet(0..(n - 1))
  BY FS_Interval
<1>3. Taken(e) \subseteq DOMAIN e
  BY DEF Taken
<1>4. IsFiniteSet(Taken(e))
  BY <1>1, <1>2, <1>3, FS_Subset
<1> QED BY <1>1, <1>2, <1>3, <1>4

\* An entry is not an empty slot; its key is a string, which has a text.
LEMMA EntryFacts ==
    /\ Empty \notin Entry
    /\ \A x \in Entry : x.key \in Key /\ x.value \in Val /\ TextOf(x.key) \in Text
    /\ \A k \in Key : TextOf(k) \in Text
<1>1. \A k \in Key : TextOf(k) \in Text
  BY DEF Key, TextOf
<1>2. \A x \in Entry : x.key \in Key /\ x.value \in Val
  BY DEF Entry
<1>3. Empty.key = Nil
  BY DEF Empty
<1> QED BY <1>1, <1>2, <1>3, DictAssumption

\* What a taken slot holds.
LEMMA TakenFacts ==
    ASSUME NEW e, IsTable(e)
    PROVE  /\ \A p \in Taken(e) : e[p] \in Entry /\ TextAt(e, p) \in Text
           /\ \A p \in DOMAIN e : e[p] # Empty => p \in Taken(e)
           /\ \A p \in DOMAIN e : e[p] = Empty => p \notin Taken(e)
<1>1. \A p \in DOMAIN e : e[p] \in Entry \cup {Empty}
  BY SlotFacts DEF Slots
<1> QED BY <1>1, EntryFacts DEF Taken, TextAt

\* A search comes to each slot, and to none of them twice.
LEMMA ProbeFacts ==
    ASSUME NEW e, IsTable(e), NEW t \in Text
    PROVE  /\ \A i \in DOMAIN e : Probe(e, t, i) \in DOMAIN e
           /\ \A i, j \in DOMAIN e : Probe(e, t, i) = Probe(e, t, j) => i = j
           /\ \A p \in DOMAIN e : \E i \in DOMAIN e : Probe(e, t, i) = p
           /\ \A i \in DOMAIN e : Probe(e, t, i + 1) = (Probe(e, t, i) + 1) % Cap(e)
<1>n. PICK n \in Nat : n = Cap(e) /\ DOMAIN e = 0..(n - 1)
  BY SlotFacts
<1>h. PICK h \in Nat : h = Hash[t]
  BY TextsAssumption
<1>1. CASE n = 0
  BY <1>n, <1>1
<1>2. CASE n # 0
  <2>0. n \in Nat \ {0}
    BY <1>2
  <2>1. \A i : Probe(e, t, i) = (h + i) % n
    BY <1>n, <1>h DEF Probe
  <2>2. \A i \in 0..(n - 1) : (h + i) % n \in 0..(n - 1)
    BY <2>0
  <2>3. \A i, j \in 0..(n - 1) : (h + i) % n = (h + j) % n => i = j
    BY <2>0, ProbesDiffer
  <2>4. \A p \in 0..(n - 1) : \E i \in 0..(n - 1) : (h + i) % n = p
    <3> TAKE p \in 0..(n - 1)
    <3> QED BY <2>0, ProbesReach
  <2>5. \A i \in 0..(n - 1) : (h + (i + 1)) % n = (((h + i) % n) + 1) % n
    <3> TAKE i \in 0..(n - 1)
    <3> PICK a \in Nat : a = h + i
      OBVIOUS
    <3>1. (a + 1) % n = ((a % n) + 1) % n
      BY <2>0, ProbesStepOn
    <3>2. h + (i + 1) = a + 1
      OBVIOUS
    <3> QED BY <3>1, <3>2
  <2>6. \A i \in DOMAIN e : Probe(e, t, i) \in DOMAIN e
    BY <1>n, <2>1, <2>2
  <2>7. \A i, j \in DOMAIN e : Probe(e, t, i) = Probe(e, t, j) => i = j
    <3> SUFFICES ASSUME NEW i \in 0..(n - 1), NEW j \in 0..(n - 1), (h + i) % n = (h + j) % n
                 PROVE  i = j
      BY <1>n, <2>1
    <3> QED BY <2>3
  <2>8. \A p \in DOMAIN e : \E i \in DOMAIN e : Probe(e, t, i) = p
    <3> SUFFICES ASSUME NEW p \in 0..(n - 1) PROVE \E i \in 0..(n - 1) : Probe(e, t, i) = p
      BY <1>n
    <3>1. PICK i \in 0..(n - 1) : (h + i) % n = p
      BY <2>4
    <3> QED BY <2>1, <3>1
  <2>9. \A i \in DOMAIN e : Probe(e, t, i + 1) = (Probe(e, t, i) + 1) % Cap(e)
    BY <1>n, <2>1, <2>5
  <2> QED BY <2>6, <2>7, <2>8, <2>9
<1> QED BY <1>1, <1>2

----------------------------------------------------------------------------
(* Searching                                                               *)

\* A search that can end does so in the first slot where it may, having passed taken ones.
LEMMA SearchEnds ==
    ASSUME NEW e, IsTable(e), NEW t \in Text, NEW Goal,
           NEW p \in DOMAIN e, e[p] = Empty \/ p \in Goal
    PROVE  /\ FirstOf(e, t, Goal) \in DOMAIN e
           /\ e[FirstOf(e, t, Goal)] = Empty \/ FirstOf(e, t, Goal) \in Goal
           /\ \E i \in DOMAIN e :
                 /\ Probe(e, t, i) = FirstOf(e, t, Goal)
                 /\ \A j \in 0..(i - 1) : e[Probe(e, t, j)] # Empty /\ Probe(e, t, j) \notin Goal
<1> DEFINE S == {i \in DOMAIN e : e[Probe(e, t, i)] = Empty \/ Probe(e, t, i) \in Goal}
<1>1. PICK k \in DOMAIN e : Probe(e, t, k) = p
  BY ProbeFacts
<1>2. S \in SUBSET Nat /\ S # {}
  BY <1>1, SlotFacts
<1>3. Min(S) \in S /\ \A y \in S : Min(S) <= y
  <2> HIDE DEF S
  <2>1. \E m \in S : \A y \in S : m <= y
    BY <1>2, LeastExists
  <2> QED BY <2>1 DEF Min
<1>4. FirstOf(e, t, Goal) = Probe(e, t, Min(S))
  BY DEF FirstOf
<1>5. ASSUME NEW j \in 0..(Min(S) - 1) PROVE e[Probe(e, t, j)] # Empty /\ Probe(e, t, j) \notin Goal
  <2> PICK m \in DOMAIN e : m = Min(S) /\ \A y \in S : m <= y
    BY <1>3
  <2>1. j \in DOMAIN e /\ j \in Nat /\ j < m /\ m \in Nat
    BY SlotFacts
  <2>2. j \notin S
    BY <2>1
  <2> QED BY <2>1, <2>2
<1>6. Min(S) \in DOMAIN e /\ (e[Probe(e, t, Min(S))] = Empty \/ Probe(e, t, Min(S)) \in Goal)
  BY <1>3
<1> HIDE DEF S
<1> QED BY <1>4, <1>5, <1>6, ProbeFacts

\* An entry is the one found for its text.
LEMMA EntryIsFound ==
    ASSUME NEW e, Sound(e), NEW p \in Taken(e)
    PROVE  /\ {q \in Taken(e) : TextAt(e, q) = TextAt(e, p)} = {p}
           /\ FirstOf(e, TextAt(e, p), {p}) = p
           /\ Found(e, TextAt(e, p)) = {p}
<1> PICK t : t = TextAt(e, p)
  OBVIOUS
<1>0. IsTable(e) /\ t \in Text /\ p \in DOMAIN e
  BY TakenFacts, SlotFacts DEF Sound
<1>1. {q \in Taken(e) : TextAt(e, q) = t} = {p}
  BY DEF Sound
<1>2. FirstOf(e, t, {p}) = p
  <2> PICK q : q = FirstOf(e, t, {p})
    OBVIOUS
  <2>1. PICK i \in DOMAIN e : Probe(e, t, i) = p /\ \A j \in 0..(i - 1) : e[Probe(e, t, j)] # Empty
    BY DEF Sound, Arrives
  <2>2. /\ q \in DOMAIN e /\ (e[q] = Empty \/ q = p)
        /\ \E m \in DOMAIN e : Probe(e, t, m) = q
              /\ \A j \in 0..(m - 1) : e[Probe(e, t, j)] # Empty /\ Probe(e, t, j) \notin {p}
    BY <1>0, SearchEnds
  <2>3. PICK m \in DOMAIN e : /\ Probe(e, t, m) = q
                              /\ \A j \in 0..(m - 1) : Probe(e, t, j) # p
    BY <2>2
  <2>4. i \in Nat /\ m \in Nat
    BY <1>0, SlotFacts
  <2>5. CASE m < i
    <3>1. m \in 0..(i - 1)
      BY <2>4, <2>5
    <3> QED BY <2>1, <2>2, <2>3, <3>1
  <2>6. CASE i < m
    <3>1. i \in 0..(m - 1)
      BY <2>4, <2>6
    <3> QED BY <2>1, <2>3, <3>1
  <2>7. CASE i = m
    BY <2>1, <2>3, <2>7, Zenon
  <2> QED BY <2>4, <2>5, <2>6, <2>7
<1>3. Found(e, t) = {p}
  <2>1. {q \in Taken(e) : TextOf(e[q].key) = t} = {p}
    BY <1>1 DEF TextAt
  <2> QED BY <1>2, <2>1 DEF Found
<1> QED BY <1>1, <1>2, <1>3

\* What a lookup gives.
LEMMA LookupFacts ==
    ASSUME NEW e, Sound(e)
    PROVE  /\ \A p \in Taken(e) : gc_dict_get(e, TextAt(e, p)) = e[p].value
           /\ \A t : t \notin Texts(e) => Found(e, t) = {} /\ gc_dict_get(e, t) = Nil
<1>1. ASSUME NEW p \in Taken(e) PROVE gc_dict_get(e, TextAt(e, p)) = e[p].value
  <2> PICK t : t = TextAt(e, p)
    OBVIOUS
  <2>1. Found(e, t) = {p}
    BY EntryIsFound
  <2>2. (CHOOSE i \in {p} : TRUE) = p
    OBVIOUS
  <2> QED BY <2>1, <2>2 DEF gc_dict_get
<1>2. ASSUME NEW t, t \notin Texts(e) PROVE Found(e, t) = {} /\ gc_dict_get(e, t) = Nil
  <2>1. {q \in Taken(e) : TextOf(e[q].key) = t} = {}
    BY <1>2 DEF Texts, TextAt
  <2>2. Found(e, t) = {}
    BY <2>1 DEF Found
  <2> QED BY <2>2 DEF gc_dict_get
<1> QED BY <1>1, <1>2

----------------------------------------------------------------------------
(* Filling, overwriting and emptying a slot                                *)

\* Table f is e but for slot p, which has x.
Changes(e, f, p, x) == f = [e EXCEPT ![p] = x]

\* Tables of one capacity are probed alike.
LEMMA SameProbes ==
    ASSUME NEW e, NEW f, DOMAIN f = DOMAIN e
    PROVE  Cap(f) = Cap(e) /\ \A t, i : Probe(f, t, i) = Probe(e, t, i)
BY DEF Cap, Probe

\* A search over slots of e that are taken in f.
LEMMA ArrivesToo ==
    ASSUME NEW e, NEW f, DOMAIN f = DOMAIN e, NEW t, NEW i \in DOMAIN e,
           \A j \in 0..(i - 1) : f[Probe(e, t, j)] # Empty
    PROVE  Arrives(f, t, Probe(e, t, i))
<1>1. Probe(f, t, i) = Probe(e, t, i) /\ \A j \in 0..(i - 1) : f[Probe(f, t, j)] # Empty
  BY SameProbes
<1> QED BY <1>1 DEF Arrives

\* A slot at which the search for a new text ends is filled.
LEMMA Fills ==
    ASSUME NEW e, Sound(e), NEW p \in DOMAIN e, e[p] = Empty,
           NEW x \in Entry, Arrives(e, TextOf(x.key), p), TextOf(x.key) \notin Texts(e),
           NEW f, Changes(e, f, p, x)
    PROVE  /\ Sound(f) /\ DOMAIN f = DOMAIN e
           /\ Taken(f) = Taken(e) \cup {p} /\ p \notin Taken(e)
           /\ \A q \in Taken(e) : f[q] = e[q]
           /\ f[p] = x
<1> USE DEF Changes
<1> PICK t : t = TextOf(x.key)
  OBVIOUS
<1>0. IsTable(e)
  BY DEF Sound
<1>1. DOMAIN f = DOMAIN e /\ f[p] = x /\ \A q \in DOMAIN e : q # p => f[q] = e[q]
  OBVIOUS
<1>2. p \notin Taken(e) /\ Taken(f) = Taken(e) \cup {p} /\ \A q \in Taken(e) : f[q] = e[q]
  BY <1>1, EntryFacts DEF Taken
<1>3. IsTable(f)
  <2>1. f \in Slots(Cap(e)) /\ Cap(e) \in Nat
    BY <1>0, SlotFacts DEF Slots
  <2> QED BY <2>1 DEF IsTable
<1>4. \A q \in Taken(e) : TextAt(f, q) = TextAt(e, q)
  BY <1>2 DEF TextAt
<1>5. TextAt(f, p) = t
  BY <1>1 DEF TextAt
<1>6. ASSUME NEW u, NEW q, Arrives(e, u, q), u \in Text PROVE Arrives(f, u, q)
  <2>1. PICK i \in DOMAIN e : Probe(e, u, i) = q /\ \A j \in 0..(i - 1) : e[Probe(e, u, j)] # Empty
    BY <1>6 DEF Arrives
  <2>2. ASSUME NEW j \in 0..(i - 1) PROVE f[Probe(e, u, j)] # Empty
    <3>1. Probe(e, u, j) \in DOMAIN e
      BY <1>0, <1>6, SlotFacts, ProbeFacts
    <3>2. e[Probe(e, u, j)] # Empty
      BY <2>1
    <3> QED BY <1>1, <3>1, <3>2
  <2> QED BY <1>1, <2>1, <2>2, ArrivesToo
<1>7. \A q \in Taken(f) : Arrives(f, TextAt(f, q), q)
  <2>1. \A q \in Taken(e) : Arrives(f, TextAt(f, q), q)
    BY <1>0, <1>4, <1>6, TakenFacts DEF Sound
  <2>2. Arrives(f, TextAt(f, p), p)
    BY <1>5, <1>6, EntryFacts
  <2> QED BY <1>2, <2>1, <2>2
<1>8. \A q, r \in Taken(f) : TextAt(f, q) = TextAt(f, r) => q = r
  <2>1. \A q \in Taken(e) : TextAt(f, q) \in Texts(e)
    BY <1>4 DEF Texts
  <2>2. \A q, r \in Taken(e) : TextAt(f, q) = TextAt(f, r) => q = r
    BY <1>4 DEF Sound
  <2> SUFFICES ASSUME NEW q \in Taken(e) \cup {p}, NEW r \in Taken(e) \cup {p}, TextAt(f, q) = TextAt(f, r)
               PROVE  q = r
    BY <1>2
  <2>3. CASE q = p /\ r # p
    BY <1>5, <2>1, <2>3
  <2>4. CASE q # p /\ r = p
    BY <1>5, <2>1, <2>4
  <2> QED BY <2>2, <2>3, <2>4
<1> QED BY <1>1, <1>2, <1>3, <1>7, <1>8 DEF Sound

\* The value of an entry is changed.
LEMMA Overwrites ==
    ASSUME NEW e, Sound(e), NEW p \in Taken(e), NEW x \in Entry, TextOf(x.key) = TextAt(e, p),
           NEW f, Changes(e, f, p, x)
    PROVE  /\ Sound(f) /\ DOMAIN f = DOMAIN e
           /\ Taken(f) = Taken(e)
           /\ \A q \in Taken(e) : q # p => f[q] = e[q]
           /\ f[p] = x
<1> USE DEF Changes
<1>0. IsTable(e) /\ p \in DOMAIN e
  BY SlotFacts DEF Sound
<1>1. DOMAIN f = DOMAIN e /\ f[p] = x /\ \A q \in DOMAIN e : q # p => f[q] = e[q]
  BY <1>0
<1>2. Taken(f) = Taken(e) /\ \A q \in DOMAIN e : e[q] # Empty => f[q] # Empty
  BY <1>0, <1>1, EntryFacts DEF Taken
<1>3. IsTable(f)
  <2>1. f \in Slots(Cap(e)) /\ Cap(e) \in Nat
    BY <1>0, SlotFacts DEF Slots
  <2> QED BY <2>1 DEF IsTable
<1>4. \A q \in Taken(e) : TextAt(f, q) = TextAt(e, q)
  BY <1>0, <1>1, SlotFacts DEF TextAt
<1>5. \A q \in Taken(e) : Arrives(f, TextAt(f, q), q)
  <2> TAKE q \in Taken(e)
  <2> PICK u : u = TextAt(e, q)
    OBVIOUS
  <2>1. PICK i \in DOMAIN e : Probe(e, u, i) = q /\ \A j \in 0..(i - 1) : e[Probe(e, u, j)] # Empty
    BY DEF Sound, Arrives
  <2>2. ASSUME NEW j \in 0..(i - 1) PROVE f[Probe(e, u, j)] # Empty
    <3>1. Probe(e, u, j) \in DOMAIN e
      BY <1>0, SlotFacts, ProbeFacts, TakenFacts
    <3>2. e[Probe(e, u, j)] # Empty
      BY <2>1
    <3> QED BY <1>2, <3>1, <3>2
  <2>3. Arrives(f, u, q)
    <3>1. Arrives(f, u, Probe(e, u, i))
      BY <1>1, <2>2, ArrivesToo
    <3> QED BY <2>1, <3>1
  <2>4. u = TextAt(f, q)
    BY <1>4
  <2> QED BY <2>3, <2>4
<1>6. \A q, r \in Taken(f) : TextAt(f, q) = TextAt(f, r) => q = r
  <2> SUFFICES ASSUME NEW q \in Taken(f), NEW r \in Taken(f), TextAt(f, q) = TextAt(f, r) PROVE q = r
    OBVIOUS
  <2>1. q \in Taken(e) /\ r \in Taken(e)
    BY <1>2
  <2>2. TextAt(e, q) = TextAt(e, r)
    BY <1>4, <2>1
  <2> QED BY <2>1, <2>2 DEF Sound
<1>7. \A q \in Taken(e) : q # p => f[q] = e[q]
  BY <1>0, <1>1, SlotFacts
<1> QED BY <1>1, <1>2, <1>3, <1>5, <1>6, <1>7 DEF Sound

\* A slot is emptied behind which no search goes on.
LEMMA Empties ==
    ASSUME NEW e, Sound(e), NEW p \in Taken(e), e[(p + 1) % Cap(e)] = Empty,
           NEW f, Changes(e, f, p, Empty)
    PROVE  /\ Sound(f) /\ DOMAIN f = DOMAIN e
           /\ Taken(f) = Taken(e) \ {p}
           /\ \A q \in Taken(f) : f[q] = e[q]
<1> USE DEF Changes
<1>0. IsTable(e) /\ p \in DOMAIN e
  BY SlotFacts DEF Sound
<1>1. DOMAIN f = DOMAIN e /\ f[p] = Empty /\ \A q \in DOMAIN e : q # p => f[q] = e[q]
  BY <1>0
<1>2. Taken(f) = Taken(e) \ {p} /\ \A q \in Taken(f) : f[q] = e[q]
  BY <1>0, <1>1 DEF Taken
<1>3. IsTable(f)
  <2>1. f \in Slots(Cap(e)) /\ Cap(e) \in Nat
    BY <1>0, SlotFacts DEF Slots
  <2> QED BY <2>1 DEF IsTable
<1>4. \A q \in Taken(f) : TextAt(f, q) = TextAt(e, q)
  BY <1>2 DEF TextAt
<1>5. \A q \in Taken(f) : Arrives(f, TextAt(f, q), q)
  <2> TAKE q \in Taken(f)
  <2> PICK u : u = TextAt(e, q)
    OBVIOUS
  <2>0. q \in Taken(e) /\ q # p /\ u \in Text
    BY <1>0, <1>2, TakenFacts
  <2>1. PICK i \in DOMAIN e : Probe(e, u, i) = q /\ \A j \in 0..(i - 1) : e[Probe(e, u, j)] # Empty
    BY <2>0 DEF Sound, Arrives
  <2>2. ASSUME NEW j \in 0..(i - 1) PROVE f[Probe(e, u, j)] # Empty
    <3>1. j \in DOMAIN e /\ Probe(e, u, j) \in DOMAIN e /\ i \in Nat /\ j \in Nat /\ j < i
      BY <1>0, <2>0, SlotFacts, ProbeFacts
    <3>2. e[Probe(e, u, j)] # Empty
      BY <2>1
    <3>3. Probe(e, u, j) # p
      <4> SUFFICES ASSUME Probe(e, u, j) = p PROVE FALSE
        OBVIOUS
      <4>1. e[Probe(e, u, j + 1)] = Empty
        BY <1>0, <2>0, <3>1, ProbeFacts
      <4>2. CASE j + 1 = i
        BY <2>0, <2>1, <4>1, <4>2 DEF Taken
      <4>3. CASE j + 1 # i
        <5>1. j + 1 \in 0..(i - 1)
          BY <3>1, <4>3
        <5> QED BY <2>1, <4>1, <5>1
      <4> QED BY <4>2, <4>3
    <3> QED BY <1>1, <3>1, <3>2, <3>3
  <2>3. Arrives(f, u, q)
    <3>1. Arrives(f, u, Probe(e, u, i))
      BY <1>1, <2>2, ArrivesToo
    <3> QED BY <2>1, <3>1
  <2>4. u = TextAt(f, q)
    BY <1>4
  <2> QED BY <2>3, <2>4
<1>6. \A q, r \in Taken(f) : TextAt(f, q) = TextAt(f, r) => q = r
  <2> SUFFICES ASSUME NEW q \in Taken(f), NEW r \in Taken(f), TextAt(f, q) = TextAt(f, r) PROVE q = r
    OBVIOUS
  <2>1. q \in Taken(e) /\ r \in Taken(e)
    BY <1>2
  <2>2. TextAt(e, q) = TextAt(e, r)
    BY <1>4, <2>1
  <2> QED BY <2>1, <2>2 DEF Sound
<1> QED BY <1>1, <1>2, <1>3, <1>5, <1>6 DEF Sound

----------------------------------------------------------------------------
(* What a script sees of a table                                           *)

AsMap(e) == [t \in Text |-> gc_dict_get(e, t)]

AllNil == [t \in Text |-> Nil]

\* An entry was stored: it is what its text finds, and every other text finds what it found.
LEMMA MapAfterStore ==
    ASSUME NEW e, Sound(e), NEW f, Sound(f), NEW p, Taken(f) = Taken(e) \cup {p},
           NEW t \in Text, t = TextAt(f, p), p \in Taken(e) => TextAt(e, p) = t,
           \A q \in Taken(e) : q # p => f[q] = e[q]
    PROVE  AsMap(f) = [AsMap(e) EXCEPT ![t] = f[p].value] /\ Texts(f) = Texts(e) \cup {t}
<1>1. \A q \in Taken(e) : q # p => TextAt(f, q) = TextAt(e, q)
  BY DEF TextAt
<1>2. Texts(f) = Texts(e) \cup {t}
  <2>1. ASSUME NEW q \in Taken(f) PROVE TextAt(f, q) \in Texts(e) \cup {t}
    BY <1>1 DEF Texts
  <2>2. ASSUME NEW q \in Taken(e) PROVE TextAt(e, q) \in Texts(f)
    BY <1>1 DEF Texts
  <2>3. t \in Texts(f)
    BY DEF Texts
  <2>4. \A u \in Texts(f) : u \in Texts(e) \cup {t}
    BY <2>1 DEF Texts
  <2>5. \A u \in Texts(e) : u \in Texts(f)
    BY <2>2 DEF Texts
  <2> QED BY <2>3, <2>4, <2>5
<1>3. gc_dict_get(f, t) = f[p].value
  BY LookupFacts
<1>4. ASSUME NEW u \in Text, u # t PROVE gc_dict_get(f, u) = gc_dict_get(e, u)
  <2>1. CASE u \in Texts(e)
    <3> PICK q \in Taken(e) : u = TextAt(e, q)
      BY <2>1 DEF Texts
    <3>1. q # p /\ f[q] = e[q] /\ TextAt(f, q) = u
      BY <1>1, <1>4
    <3>2. gc_dict_get(e, u) = e[q].value /\ gc_dict_get(f, u) = f[q].value
      BY <3>1, LookupFacts
    <3> QED BY <3>1, <3>2
  <2>2. CASE u \notin Texts(e)
    BY <1>2, <1>4, <2>2, LookupFacts
  <2> QED BY <2>1, <2>2
<1> QED BY <1>2, <1>3, <1>4 DEF AsMap

\* An entry is gone: its text finds nothing, and every other text finds what it found.
LEMMA MapAfterDelete ==
    ASSUME NEW e, Sound(e), NEW f, Sound(f), NEW p \in Taken(e), Taken(f) = Taken(e) \ {p},
           NEW t \in Text, t = TextAt(e, p), \A q \in Taken(f) : f[q] = e[q]
    PROVE  AsMap(f) = [AsMap(e) EXCEPT ![t] = Nil]
<1>1. \A q \in Taken(f) : TextAt(f, q) = TextAt(e, q)
  BY DEF TextAt
<1>2. t \notin Texts(f)
  BY <1>1 DEF Texts, Sound
<1>3. gc_dict_get(f, t) = Nil
  BY <1>2, LookupFacts
<1>4. ASSUME NEW u \in Text, u # t PROVE gc_dict_get(f, u) = gc_dict_get(e, u)
  <2>1. CASE u \in Texts(e)
    <3> PICK q \in Taken(e) : u = TextAt(e, q)
      BY <2>1 DEF Texts
    <3>1. q \in Taken(f) /\ f[q] = e[q] /\ TextAt(f, q) = u
      BY <1>1, <1>4
    <3>2. gc_dict_get(e, u) = e[q].value /\ gc_dict_get(f, u) = f[q].value
      BY <3>1, LookupFacts
    <3> QED BY <3>1, <3>2
  <2>2. CASE u \notin Texts(e)
    <3>1. u \notin Texts(f)
      BY <1>1, <2>2 DEF Texts
    <3> QED BY <2>2, <3>1, LookupFacts
  <2> QED BY <2>1, <2>2
<1> QED BY <1>3, <1>4 DEF AsMap

----------------------------------------------------------------------------
(* Storing                                                                 *)

\* Every text has one string object.
OneCopy == \E c : Copy = {c}

\* With one object per text, a key has the text of another only if it is that key.
LEMMA KeyIsText ==
    ASSUME OneCopy, NEW k \in Key, NEW l \in Key, TextOf(k) = TextOf(l)
    PROVE  k = l
BY DEF OneCopy, Key, TextOf

\* A table that is not full has an empty slot.
LEMMA HasRoom ==
    ASSUME NEW e, IsTable(e), Cardinality(Taken(e)) < Cap(e)
    PROVE  \E p \in DOMAIN e : e[p] = Empty
<1> SUFFICES ASSUME \A p \in DOMAIN e : e[p] # Empty PROVE FALSE
  OBVIOUS
<1>1. Taken(e) = DOMAIN e
  BY DEF Taken
<1>2. Cap(e) \in Nat /\ Cardinality(Taken(e)) = Cap(e)
  BY <1>1, SlotFacts DEF Cap
<1> QED BY <1>2

\* Where an empty slot is found for a new text.
LEMMA EmptySlotIsFound ==
    ASSUME NEW e, IsTable(e), Cardinality(Taken(e)) < Cap(e), NEW t \in Text
    PROVE  /\ FirstOf(e, t, {}) \in DOMAIN e
           /\ e[FirstOf(e, t, {})] = Empty
           /\ Arrives(e, t, FirstOf(e, t, {}))
<1> PICK p : p = FirstOf(e, t, {})
  OBVIOUS
<1>1. PICK q \in DOMAIN e : e[q] = Empty
  BY HasRoom
<1>0. PICK Goal : Goal = {}
  OBVIOUS
<1>2. /\ FirstOf(e, t, Goal) \in DOMAIN e
      /\ e[FirstOf(e, t, Goal)] = Empty \/ FirstOf(e, t, Goal) \in Goal
      /\ \E i \in DOMAIN e :
            /\ Probe(e, t, i) = FirstOf(e, t, Goal)
            /\ \A j \in 0..(i - 1) : e[Probe(e, t, j)] # Empty /\ Probe(e, t, j) \notin Goal
  BY <1>1, SearchEnds
<1>3. p = FirstOf(e, t, Goal) /\ p \notin Goal
  BY <1>0
<1>4. p \in DOMAIN e /\ e[p] = Empty
  BY <1>2, <1>3
<1>5. Arrives(e, t, p)
  BY <1>2, <1>3 DEF Arrives
<1> QED BY <1>4, <1>5

IsPut(e, f, k, v) == f = Put(e, k, v)

\* A key is stored in the slot of its entry or, if it has none, in an empty one.
LEMMA PutStores ==
    ASSUME OneCopy, NEW e, Sound(e), Cardinality(Taken(e)) < Cap(e),
           NEW k \in Key, NEW v \in Val, NEW f, IsPut(e, f, k, v)
    PROVE  /\ Sound(f) /\ Cap(f) = Cap(e)
           /\ Texts(f) = Texts(e) \cup {TextOf(k)}
           /\ AsMap(f) = [AsMap(e) EXCEPT ![TextOf(k)] = v]
           /\ Cardinality(Taken(f)) = CountAfterSet(e, k, Cardinality(Taken(e)))
           /\ Cardinality(Taken(e)) \in Nat
           /\ Cardinality(Taken(f)) \in {Cardinality(Taken(e)), Cardinality(Taken(e)) + 1}
<1> DEFINE x == [key |-> k, value |-> v]
           p == PlaceFor(e, k)
<1> PICK t : t = TextOf(k)
  OBVIOUS
<1>1. x \in Entry /\ TextOf(x.key) = t /\ x.value = v /\ t \in Text
  BY EntryFacts DEF Entry
<1>2. Changes(e, f, p, x)
  BY DEF IsPut, Put, Changes
<1>3. IsTable(e) /\ IsFiniteSet(Taken(e)) /\ Cardinality(Taken(e)) \in Nat
  BY SlotFacts, FS_CardinalityType DEF Sound
<1>4. {i \in Taken(e) : e[i].key = k} = {i \in Taken(e) : TextAt(e, i) = t}
  BY <1>3, KeyIsText, TakenFacts, EntryFacts DEF TextAt
<1>5. CASE t \in Texts(e)
  <2>1. PICK q \in Taken(e) : TextAt(e, q) = t
    BY <1>5 DEF Texts
  <2>2. p = q
    <3>1. {i \in Taken(e) : e[i].key = k} = {q} /\ FirstOf(e, t, {q}) = q
      BY <1>4, <2>1, EntryIsFound
    <3> QED BY <3>1 DEF PlaceFor
  <2> HIDE DEF p, x
  <2>3. /\ Sound(f) /\ DOMAIN f = DOMAIN e /\ Taken(f) = Taken(e)
        /\ \A r \in Taken(e) : r # q => f[r] = e[r]
        /\ f[q] = x
    BY <1>1, <1>2, <2>1, <2>2, Overwrites
  <2>4. TextAt(f, q) = t
    BY <1>1, <2>3 DEF TextAt
  <2>5. AsMap(f) = [AsMap(e) EXCEPT ![t] = v] /\ Texts(f) = Texts(e) \cup {t}
    <3>1. Taken(f) = Taken(e) \cup {q} /\ f[q].value = v
      BY <1>1, <2>3
    <3> QED BY <1>1, <2>1, <2>3, <2>4, <3>1, MapAfterStore
  <2>6. CountAfterSet(e, k, Cardinality(Taken(e))) = Cardinality(Taken(e))
    <3>1. e[q] # Empty
      BY DEF Taken
    <3> QED BY <2>2, <3>1 DEF CountAfterSet, p
  <2> QED BY <1>3, <2>3, <2>5, <2>6 DEF Cap
<1>6. CASE t \notin Texts(e)
  <2>1. p = FirstOf(e, t, {})
    <3>1. {i \in Taken(e) : e[i].key = k} = {}
      BY <1>4, <1>6 DEF Texts
    <3> QED BY <3>1 DEF PlaceFor
  <2>2. CountAfterSet(e, k, Cardinality(Taken(e))) =
           IF e[p] = Empty THEN Cardinality(Taken(e)) + 1 ELSE Cardinality(Taken(e))
    BY DEF CountAfterSet
  <2> HIDE DEF p, x
  <2>3. p \in DOMAIN e /\ e[p] = Empty /\ Arrives(e, t, p)
    BY <1>1, <1>3, <2>1, EmptySlotIsFound
  <2>4. /\ Sound(f) /\ DOMAIN f = DOMAIN e
        /\ Taken(f) = Taken(e) \cup {p} /\ p \notin Taken(e)
        /\ \A q \in Taken(e) : f[q] = e[q]
        /\ f[p] = x
    BY <1>1, <1>2, <1>6, <2>3, Fills
  <2>5. TextAt(f, p) = t
    BY <1>1, <2>4 DEF TextAt
  <2>6. AsMap(f) = [AsMap(e) EXCEPT ![t] = v] /\ Texts(f) = Texts(e) \cup {t}
    <3>1. f[p].value = v
      BY <1>1, <2>4
    <3> QED BY <1>1, <2>4, <2>5, <3>1, MapAfterStore
  <2>7. Cardinality(Taken(f)) = Cardinality(Taken(e)) + 1
    BY <1>3, <2>4, FS_AddElement
  <2> QED BY <1>3, <2>2, <2>3, <2>4, <2>6, <2>7 DEF Cap
<1> QED BY <1>5, <1>6

----------------------------------------------------------------------------
(* The loops over the slots of a table                                     *)

\* What is in the slots before slot i.
TakenBelow(e, i) == {p \in Taken(e) : p < i}
TextsBelow(e, i) == {TextAt(e, p) : p \in TakenBelow(e, i)}

\* Map m after storing what table e has below slot i.
Overlay(e, i, m) == [t \in Text |-> IF t \in TextsBelow(e, i) THEN gc_dict_get(e, t) ELSE m[t]]

\* A loop begins with nothing and ends with all.
LEMMA BelowEnds ==
    ASSUME NEW e, Sound(e), NEW m, m = [t \in Text |-> m[t]]
    PROVE  /\ TakenBelow(e, 0) = {} /\ TextsBelow(e, 0) = {} /\ Overlay(e, 0, m) = m
           /\ TakenBelow(e, Cap(e)) = Taken(e) /\ TextsBelow(e, Cap(e)) = Texts(e)
           /\ Overlay(e, Cap(e), AllNil) = AsMap(e)
<1>1. \A p \in Taken(e) : p \in Nat /\ p < Cap(e) /\ ~(p < 0)
  BY SlotFacts DEF Sound
<1>2. TakenBelow(e, 0) = {} /\ TextsBelow(e, 0) = {}
  BY <1>1 DEF TakenBelow, TextsBelow
<1>3. TakenBelow(e, Cap(e)) = Taken(e) /\ TextsBelow(e, Cap(e)) = Texts(e)
  BY <1>1 DEF TakenBelow, TextsBelow, Texts
<1>4. Overlay(e, 0, m) = m
  BY <1>2 DEF Overlay
<1>5. Overlay(e, Cap(e), AllNil) = AsMap(e)
  <2>1. \A t \in Text : t \notin Texts(e) => gc_dict_get(e, t) = AllNil[t]
    BY LookupFacts DEF AllNil
  <2> QED BY <1>3, <2>1 DEF Overlay, AsMap
<1> QED BY <1>2, <1>3, <1>4, <1>5

\* A turn of a loop at an empty slot and at a taken one.
LEMMA BelowStep ==
    ASSUME NEW e, Sound(e), NEW i \in 1..Cap(e), NEW m
    PROVE  /\ i - 1 \in DOMAIN e
           /\ e[i - 1] = Empty =>
                 /\ TakenBelow(e, i) = TakenBelow(e, i - 1)
                 /\ TextsBelow(e, i) = TextsBelow(e, i - 1)
                 /\ Overlay(e, i, m) = Overlay(e, i - 1, m)
           /\ e[i - 1] # Empty =>
                 /\ e[i - 1] \in Entry
                 /\ TakenBelow(e, i) = TakenBelow(e, i - 1) \cup {i - 1} /\ i - 1 \notin TakenBelow(e, i - 1)
                 /\ TextsBelow(e, i) = TextsBelow(e, i - 1) \cup {TextAt(e, i - 1)}
                 /\ TextAt(e, i - 1) \notin TextsBelow(e, i - 1)
                 /\ Overlay(e, i, m) = [Overlay(e, i - 1, m) EXCEPT ![TextAt(e, i - 1)] = e[i - 1].value]
<1>0. IsTable(e)
  BY DEF Sound
<1> PICK j \in DOMAIN e : j = i - 1
  BY <1>0, SlotFacts
<1>1. \A p \in Taken(e) : p \in Nat /\ (p < i <=> p < j \/ p = j)
  BY <1>0, SlotFacts
<1>2. ASSUME e[j] = Empty
      PROVE  /\ TakenBelow(e, i) = TakenBelow(e, j) /\ TextsBelow(e, i) = TextsBelow(e, j)
             /\ Overlay(e, i, m) = Overlay(e, j, m)
  <2>1. j \notin Taken(e)
    BY <1>2 DEF Taken
  <2>2. TakenBelow(e, i) = TakenBelow(e, j)
    BY <1>1, <2>1 DEF TakenBelow
  <2> QED BY <2>2 DEF TextsBelow, Overlay
<1>3. ASSUME e[j] # Empty
      PROVE  /\ e[j] \in Entry
             /\ TakenBelow(e, i) = TakenBelow(e, j) \cup {j} /\ j \notin TakenBelow(e, j)
             /\ TextsBelow(e, i) = TextsBelow(e, j) \cup {TextAt(e, j)}
             /\ TextAt(e, j) \notin TextsBelow(e, j)
             /\ Overlay(e, i, m) = [Overlay(e, j, m) EXCEPT ![TextAt(e, j)] = e[j].value]
  <2>1. j \in Taken(e) /\ e[j] \in Entry
    BY <1>0, <1>3, TakenFacts
  <2>2. TakenBelow(e, i) = TakenBelow(e, j) \cup {j} /\ j \notin TakenBelow(e, j)
    BY <1>1, <2>1 DEF TakenBelow
  <2>3. TextsBelow(e, i) = TextsBelow(e, j) \cup {TextAt(e, j)}
    BY <2>2 DEF TextsBelow
  <2>4. TextAt(e, j) \notin TextsBelow(e, j)
    <3>1. \A p \in TakenBelow(e, j) : p \in Taken(e) /\ p # j
      BY <2>2 DEF TakenBelow
    <3> QED BY <2>1, <3>1 DEF TextsBelow, Sound
  <2>5. gc_dict_get(e, TextAt(e, j)) = e[j].value
    BY <2>1, LookupFacts
  <2>6. Overlay(e, i, m) = [Overlay(e, j, m) EXCEPT ![TextAt(e, j)] = e[j].value]
    BY <2>3, <2>5 DEF Overlay
  <2> QED BY <2>1, <2>2, <2>3, <2>4, <2>6
<1> QED BY <1>2, <1>3

\* The tables dict_grow's loop goes through.
LEMMA GrowRuns ==
    ASSUME NEW e, IsTable(e)
    PROVE  \E m : /\ dict_grow(e) = m[Cap(e)]
                  /\ m[0] = EmptyTable(NewCap(e))
                  /\ \A i \in 1..Cap(e) : m[i] = Reinserted(m[i - 1], e[i - 1])
<1> DEFINE Step(m) == [n \in 0..Cap(e) |->
                         IF n = 0 THEN EmptyTable(NewCap(e)) ELSE Reinserted(m[n - 1], e[n - 1])]
           m == CHOOSE m : m = Step(m)
<1>1. dict_grow(e) = m[Cap(e)]
  BY DEF dict_grow
<1> DEFINE N == Cap(e)
           X == Slots(NewCap(e))
           F == [i \in 1..N |-> [x \in X |-> Reinserted(x, e[i - 1])]]
<1>2. N \in Nat /\ \A i \in 1..N : e[i - 1] \in Entry \cup {Empty}
  BY SlotFacts DEF Slots
<1>3. F \in Turns(1..N, X)
  <2>1. \A x \in X, y \in Entry \cup {Empty} : Reinserted(x, y) \in X
    BY DEF Reinserted, Slots
  <2> HIDE DEF X, N
  <2> QED BY <1>2, <2>1 DEF Turns
<1>4. EmptyTable(NewCap(e)) \in X
  BY DEF EmptyTable, Slots
<1>5. \E f : f = Step(f)
  <2> HIDE DEF X, N, F
  <2>1. PICK f \in [0..N -> X] : f[0] = EmptyTable(NewCap(e)) /\ \A i \in 1..N : f[i] = F[i][f[i - 1]]
    BY <1>2, <1>3, <1>4, LoopRuns
  <2>2. \A i \in 1..N : f[i] = Reinserted(f[i - 1], e[i - 1])
    <3> TAKE i \in 1..N
    <3>1. f[i - 1] \in X
      BY <1>2
    <3> QED BY <2>1, <3>1 DEF F
  <2>3. f = [i \in 0..N |-> IF i = 0 THEN EmptyTable(NewCap(e)) ELSE Reinserted(f[i - 1], e[i - 1])]
    <3>1. \A i \in 0..N : i = 0 \/ i \in 1..N
      BY <1>2
    <3>2. \A i \in 0..N : f[i] = IF i = 0 THEN EmptyTable(NewCap(e)) ELSE Reinserted(f[i - 1], e[i - 1])
      BY <2>1, <2>2, <3>1
    <3>3. f = [i \in 0..N |-> f[i]]
      OBVIOUS
    <3> QED BY <3>2, <3>3
  <2>4. f = Step(f)
    BY <2>3 DEF N
  <2> QED BY <2>4
<1>6. m = Step(m)
  <2> HIDE DEF Step
  <2> QED BY <1>5
<1>7. m[0] = EmptyTable(NewCap(e)) /\ \A i \in 1..N : m[i] = Reinserted(m[i - 1], e[i - 1])
  <2> HIDE DEF m
  <2>1. \A i \in 0..N : m[i] = IF i = 0 THEN EmptyTable(NewCap(e)) ELSE Reinserted(m[i - 1], e[i - 1])
    BY <1>6
  <2> HIDE DEF Step, N
  <2> QED BY <1>2, <2>1
<1> HIDE DEF m
<1> QED BY <1>1, <1>7

\* A table that has what e has below slot i, and room for all of it.
MovedBelow(e, i, f) ==
    /\ Sound(f) /\ Cap(f) = NewCap(e)
    /\ Texts(f) = TextsBelow(e, i)
    /\ AsMap(f) = Overlay(e, i, AllNil)
    /\ Cardinality(Taken(f)) = Cardinality(TakenBelow(e, i))

\* An empty table.
LEMMA EmptyTableFacts ==
    ASSUME NEW n \in Nat
    PROVE  /\ Sound(EmptyTable(n)) /\ Cap(EmptyTable(n)) = n
           /\ Taken(EmptyTable(n)) = {} /\ Texts(EmptyTable(n)) = {}
           /\ AsMap(EmptyTable(n)) = AllNil /\ Cardinality(Taken(EmptyTable(n))) = 0
<1> PICK e : e = EmptyTable(n)
  OBVIOUS
<1>1. e \in Slots(n) /\ Taken(e) = {}
  BY DEF EmptyTable, Slots, Taken
<1>2. Cap(e) = n /\ IsTable(e)
  BY <1>1, TableFacts DEF IsTable
<1>3. Texts(e) = {} /\ Sound(e)
  BY <1>1, <1>2 DEF Texts, Sound
<1>4. AsMap(e) = AllNil
  BY <1>3, LookupFacts DEF AsMap, AllNil
<1>5. Cardinality({}) = 0
  BY FS_EmptySet
<1> QED BY <1>1, <1>2, <1>3, <1>4, <1>5

\* dict_grow keeps the entries: it finds an empty slot for each of them, and compares no keys
\* because no two have one text.
LEMMA GrowKeeps ==
    ASSUME NEW e, Sound(e), NewCap(e) \in Nat, Cardinality(Taken(e)) < NewCap(e)
    PROVE  /\ Sound(dict_grow(e)) /\ Cap(dict_grow(e)) = NewCap(e)
           /\ Texts(dict_grow(e)) = Texts(e) /\ AsMap(dict_grow(e)) = AsMap(e)
           /\ Cardinality(Taken(dict_grow(e))) = Cardinality(Taken(e))
<1>0. IsTable(e) /\ Cap(e) \in Nat /\ IsFiniteSet(Taken(e)) /\ DOMAIN e = 0..(Cap(e) - 1)
  BY SlotFacts DEF Sound
<1>1. PICK m : /\ dict_grow(e) = m[Cap(e)]
               /\ m[0] = EmptyTable(NewCap(e))
               /\ \A i \in 1..Cap(e) : m[i] = Reinserted(m[i - 1], e[i - 1])
  BY <1>0, GrowRuns
<1> DEFINE S == {i \in 0..Cap(e) : MovedBelow(e, i, m[i])}
<1>2. AllNil = [t \in Text |-> AllNil[t]]
  BY DEF AllNil
<1>3. 0 \in S
  <2>1. Texts(m[0]) = TextsBelow(e, 0) /\ AsMap(m[0]) = Overlay(e, 0, AllNil)
    BY <1>1, <1>2, BelowEnds, EmptyTableFacts
  <2>2. Cardinality(Taken(m[0])) = Cardinality(TakenBelow(e, 0))
    <3>1. TakenBelow(e, 0) = {} /\ Taken(m[0]) = {}
      BY <1>1, <1>2, BelowEnds, EmptyTableFacts
    <3> QED BY <3>1
  <2>3. Sound(m[0]) /\ Cap(m[0]) = NewCap(e) /\ 0 \in 0..Cap(e)
    BY <1>0, <1>1, EmptyTableFacts
  <2> QED BY <2>1, <2>2, <2>3 DEF MovedBelow
<1>4. ASSUME NEW i \in 1..Cap(e), i - 1 \in S PROVE i \in S
  <2> PICK j \in 0..Cap(e) : j = i - 1
    BY <1>0
  <2>1. MovedBelow(e, j, m[j]) /\ m[i] = Reinserted(m[j], e[j]) /\ j \in DOMAIN e
    BY <1>1, <1>4, BelowStep
  <2>2. CASE e[j] = Empty
    <3>1. m[i] = m[j]
      BY <2>1, <2>2 DEF Reinserted
    <3>2. /\ TakenBelow(e, i) = TakenBelow(e, j) /\ TextsBelow(e, i) = TextsBelow(e, j)
          /\ Overlay(e, i, AllNil) = Overlay(e, j, AllNil)
      BY <2>2, BelowStep
    <3>3. MovedBelow(e, i, m[i])
      BY <2>1, <3>1, <3>2 DEF MovedBelow
    <3> QED BY <3>3
  <2>3. CASE e[j] # Empty
    <3> DEFINE x == e[j]
               t == TextAt(e, j)
               p == FirstOf(m[j], t, {})
    <3>1. /\ x \in Entry
          /\ TakenBelow(e, i) = TakenBelow(e, j) \cup {j} /\ j \notin TakenBelow(e, j)
          /\ TextsBelow(e, i) = TextsBelow(e, j) \cup {t}
          /\ t \notin TextsBelow(e, j)
          /\ Overlay(e, i, AllNil) = [Overlay(e, j, AllNil) EXCEPT ![t] = x.value]
      BY <2>3, BelowStep
    <3>2. t = TextOf(x.key) /\ t \in Text
      BY <3>1, EntryFacts DEF TextAt
    <3>3. /\ IsFiniteSet(TakenBelow(e, j)) /\ Cardinality(TakenBelow(e, j)) \in Nat
          /\ Cardinality(TakenBelow(e, i)) = Cardinality(TakenBelow(e, j)) + 1
          /\ Cardinality(TakenBelow(e, i)) <= Cardinality(Taken(e)) /\ Cardinality(Taken(e)) \in Nat
      <4>1. TakenBelow(e, i) \subseteq Taken(e) /\ TakenBelow(e, j) \subseteq Taken(e)
        BY DEF TakenBelow
      <4>2. IsFiniteSet(TakenBelow(e, i)) /\ IsFiniteSet(TakenBelow(e, j))
        BY <1>0, <4>1, FS_Subset
      <4> QED BY <1>0, <3>1, <4>1, <4>2, FS_Subset, FS_AddElement, FS_CardinalityType
    <3>4. /\ Sound(m[j]) /\ IsTable(m[j]) /\ Cap(m[j]) = NewCap(e)
          /\ Cardinality(Taken(m[j])) < Cap(m[j]) /\ IsFiniteSet(Taken(m[j]))
      <4>1. Sound(m[j]) /\ Cap(m[j]) = NewCap(e) /\ Cardinality(Taken(m[j])) = Cardinality(TakenBelow(e, j))
        BY <2>1 DEF MovedBelow
      <4>2. IsTable(m[j]) /\ IsFiniteSet(Taken(m[j]))
        BY <4>1, SlotFacts DEF Sound
      <4> QED BY <3>3, <4>1, <4>2
    <3>5. Changes(m[j], m[i], p, x)
      BY <2>1, <2>3 DEF Reinserted, Changes, TextAt
    <3>6. p \in DOMAIN m[j] /\ m[j][p] = Empty /\ Arrives(m[j], t, p) /\ t \notin Texts(m[j])
      BY <2>1, <3>1, <3>2, <3>4, EmptySlotIsFound DEF MovedBelow
    <3> HIDE DEF x, p
    <3>7. /\ Sound(m[i]) /\ DOMAIN m[i] = DOMAIN m[j]
          /\ Taken(m[i]) = Taken(m[j]) \cup {p} /\ p \notin Taken(m[j])
          /\ \A q \in Taken(m[j]) : m[i][q] = m[j][q]
          /\ m[i][p] = x
      BY <3>1, <3>2, <3>4, <3>5, <3>6, Fills
    <3>8. /\ AsMap(m[i]) = [AsMap(m[j]) EXCEPT ![t] = m[i][p].value]
          /\ Texts(m[i]) = Texts(m[j]) \cup {t}
      <4>1. t = TextAt(m[i], p)
        BY <3>2, <3>7 DEF TextAt
      <4> HIDE DEF t
      <4> QED BY <3>2, <3>4, <3>7, <4>1, MapAfterStore
    <3>9. Cardinality(Taken(m[i])) = Cardinality(Taken(m[j])) + 1
      BY <3>4, <3>7, FS_AddElement
    <3>10. MovedBelow(e, i, m[i])
      <4>1. Cap(m[i]) = Cap(m[j])
        BY <3>7 DEF Cap
      <4> HIDE DEF t
      <4> QED BY <2>1, <3>1, <3>3, <3>4, <3>7, <3>8, <3>9, <4>1 DEF MovedBelow
    <3> QED BY <3>10
  <2> QED BY <2>2, <2>3
<1>5. Cap(e) \in S
  <2> HIDE DEF S
  <2>1. \A i \in 1..Cap(e) : i - 1 \in S => i \in S
    BY <1>4
  <2>2. \A i \in 0..Cap(e) : i \in S
    BY <1>0, <1>3, <2>1, LoopInduction
  <2> QED BY <1>0, <2>2
<1>6. MovedBelow(e, Cap(e), dict_grow(e))
  BY <1>1, <1>5
<1> QED BY <1>2, <1>6, BelowEnds DEF MovedBelow

----------------------------------------------------------------------------
(* Dicts                                                                   *)

\* Every capacity is the double of the one before, and more than its number.
LEMMA CapacityFacts ==
    /\ Capacity[0] = MinCap
    /\ \A k \in Nat : /\ Capacity[k + 1] = 2 * Capacity[k]
                      /\ Capacity[k] \in Nat /\ Capacity[k] >= MinCap
                      /\ 3 * Capacity[k] >= 4 * (k + 1)
<1> DEFINE Step(f) == [k \in Nat |-> IF k = 0 THEN MinCap ELSE 2 * f[k - 1]]
           c == CHOOSE f : f = Step(f)
           F == [i \in Nat \ {0} |-> [x \in Nat |-> 2 * x]]
<1>1. Capacity = c
  BY DEF Capacity
<1>2. \E f : f = Step(f)
  <2>1. F \in Turns(Nat \ {0}, Nat) /\ MinCap \in Nat
    BY DictAssumption DEF Turns
  <2>2. PICK f \in [Nat -> Nat] : f[0] = MinCap /\ \A i \in Nat : f[i + 1] = F[i + 1][f[i]]
    <3> HIDE DEF F, Step, c
    <3>1. PICK X : X = Nat
      OBVIOUS
    <3>2. MinCap \in X /\ F \in Turns(Nat \ {0}, X)
      BY <2>1, <3>1
    <3>3. \E f \in [Nat -> X] : f[0] = MinCap /\ \A i \in Nat : f[i + 1] = F[i + 1][f[i]]
      BY <3>2, EndlessLoopRuns
    <3> QED BY <3>1, <3>3
  <2>3. \A i \in Nat : f[i + 1] = 2 * f[i]
    <3> TAKE i \in Nat
    <3>1. i + 1 \in Nat \ {0} /\ f[i] \in Nat
      OBVIOUS
    <3> QED BY <2>2, <3>1
  <2>4. \A k \in Nat : f[k] = IF k = 0 THEN MinCap ELSE 2 * f[k - 1]
    <3> TAKE k \in Nat
    <3>1. CASE k = 0
      BY <2>2, <3>1
    <3>2. CASE k # 0
      <4>1. k - 1 \in Nat /\ (k - 1) + 1 = k
        BY <3>2
      <4> QED BY <2>3, <3>2, <4>1
    <3> QED BY <3>1, <3>2
  <2>5. f = [k \in Nat |-> f[k]]
    OBVIOUS
  <2>6. f = Step(f)
    BY <2>4, <2>5
  <2> QED BY <2>6
<1>3. c = Step(c)
  <2> HIDE DEF Step
  <2> QED BY <1>2
<1>4. \A k \in Nat : Capacity[k] = IF k = 0 THEN MinCap ELSE 2 * Capacity[k - 1]
  <2> HIDE DEF c
  <2> QED BY <1>1, <1>3
<1> HIDE DEF Step, c
<1>5. Capacity[0] = MinCap /\ \A k \in Nat : Capacity[k + 1] = 2 * Capacity[k]
  BY <1>4
<1> DEFINE S == {k \in Nat : /\ Capacity[k] \in Nat /\ Capacity[k] >= MinCap
                             /\ 3 * Capacity[k] >= 4 * (k + 1)}
<1>6. 0 \in S
  BY <1>5, DictAssumption
<1>7. ASSUME NEW k \in S PROVE k + 1 \in S
  <2> PICK x \in Nat : x = Capacity[k] /\ x >= MinCap /\ 3 * x >= 4 * (k + 1)
    OBVIOUS
  <2>1. Capacity[k + 1] = 2 * x /\ k \in Nat /\ k + 1 \in Nat
    BY <1>5
  <2>2. 2 * x \in Nat /\ 2 * x >= MinCap /\ 3 * (2 * x) >= 4 * ((k + 1) + 1)
    BY <2>1, DictAssumption
  <2> QED BY <2>1, <2>2
<1>8. S = Nat
  <2>1. S \in SUBSET Nat
    OBVIOUS
  <2> HIDE DEF S
  <2> QED BY <1>6, <1>7, <2>1, NatInductionOnSet
<1>9. \A k \in Nat : Capacity[k] \in Nat /\ Capacity[k] >= MinCap /\ 3 * Capacity[k] >= 4 * (k + 1)
  <2> TAKE k \in Nat
  <2>1. k \in S
    BY <1>8
  <2> QED BY <2>1
<1> QED BY <1>5, <1>9

\* The k-th doubling was needed: there are more keys than doublings.
WithinKeys(k) == IsFiniteSet(Text) => k <= Cardinality(Key)

\* A table e of n entries as scripts come to have them.
DictInv(e, n) ==
    /\ Sound(e) /\ n = Cardinality(Taken(e))
    /\ 4 * n <= 3 * Cap(e)
    /\ Cap(e) = 0 \/ \E k \in Nat : Cap(e) = Capacity[k] /\ WithinKeys(k)

\* A table has no more entries than there are keys.
LEMMA EntriesAreKeys ==
    ASSUME OneCopy, NEW e, Sound(e), IsFiniteSet(Text)
    PROVE  Cardinality(Taken(e)) <= Cardinality(Key) /\ Cardinality(Key) \in Nat
<1> DEFINE f == [p \in Taken(e) |-> e[p].key]
<1>1. f \in [Taken(e) -> Key]
  BY TakenFacts, EntryFacts DEF Sound
<1>2. \A p, q \in Taken(e) : f[p] = f[q] => p = q
  BY DEF Sound, TextAt
<1>3. f \in Injection(Taken(e), Key)
  BY <1>1, <1>2 DEF Injection, IsInjective
<1>4. IsFiniteSet(Key)
  <2>1. \A c : IsFiniteSet({c})
    BY FS_Singleton
  <2>2. IsFiniteSet(Copy)
    BY <2>1 DEF OneCopy
  <2> QED BY <2>2, FS_Product DEF Key
<1> HIDE DEF f
<1> QED BY <1>3, <1>4, FS_Injection, FS_CardinalityType

\* gc_dict_set stores one entry, in a table grown for it if need be.
LEMMA SetStores ==
    ASSUME OneCopy, NEW e, NEW n, DictInv(e, n), NEW k \in Key, NEW v \in Val
    PROVE  /\ DictInv(gc_dict_set(e, n, k, v).entries, gc_dict_set(e, n, k, v).count)
           /\ AsMap(gc_dict_set(e, n, k, v).entries) = [AsMap(e) EXCEPT ![TextOf(k)] = v]
           /\ Texts(gc_dict_set(e, n, k, v).entries) = Texts(e) \cup {TextOf(k)}
<1> PICK r : r = IF Full(e, n) THEN dict_grow(e) ELSE e
  OBVIOUS
<1> PICK f : f = Put(r, k, v)
  OBVIOUS
<1>0. gc_dict_set(e, n, k, v) = [entries |-> f, count |-> CountAfterSet(r, k, n)]
  BY DEF gc_dict_set
<1>1. /\ Sound(e) /\ IsTable(e) /\ Cap(e) \in Nat /\ n \in Nat /\ n = Cardinality(Taken(e))
      /\ 4 * n <= 3 * Cap(e)
  BY SlotFacts, FS_CardinalityType DEF DictInv, Sound
<1>2. ASSUME NewCap(e) \in Nat, Cardinality(Taken(e)) < NewCap(e)
      PROVE  /\ Sound(dict_grow(e)) /\ Cap(dict_grow(e)) = NewCap(e)
             /\ Texts(dict_grow(e)) = Texts(e) /\ AsMap(dict_grow(e)) = AsMap(e)
             /\ Cardinality(Taken(dict_grow(e))) = Cardinality(Taken(e))
  BY <1>1, <1>2, GrowKeeps
<1>3. /\ Sound(r) /\ Texts(r) = Texts(e) /\ AsMap(r) = AsMap(e) /\ Cardinality(Taken(r)) = n
      /\ Cap(r) \in Nat /\ 4 * (n + 1) <= 3 * Cap(r)
      /\ \E j \in Nat : Cap(r) = Capacity[j] /\ WithinKeys(j)
  <2>1. CASE ~Full(e, n)
    <3>1. r = e /\ 4 * (n + 1) <= 3 * Cap(e) /\ Cap(e) # 0
      BY <1>1, <2>1 DEF Full
    <3> QED BY <1>1, <3>1 DEF DictInv
  <2>2. CASE Full(e, n) /\ Cap(e) = 0
    <3>1. NewCap(e) = MinCap /\ MinCap \in Nat /\ MinCap >= 2 /\ n = 0
      BY <1>1, <2>2, DictAssumption DEF NewCap
    <3>2. r = dict_grow(e) /\ 4 * (n + 1) <= 3 * NewCap(e)
      BY <2>2, <3>1
    <3>3. /\ Sound(r) /\ Cap(r) = NewCap(e) /\ Texts(r) = Texts(e) /\ AsMap(r) = AsMap(e)
          /\ Cardinality(Taken(r)) = n
      BY <1>1, <1>2, <3>1, <3>2
    <3>4. WithinKeys(0)
      BY <1>1, EntriesAreKeys DEF WithinKeys
    <3> QED BY <3>1, <3>2, <3>3, <3>4, CapacityFacts
  <2>3. CASE Full(e, n) /\ Cap(e) # 0
    <3> PICK j \in Nat : Cap(e) = Capacity[j] /\ WithinKeys(j)
      BY <2>3 DEF DictInv
    <3> PICK c \in Nat : c = Cap(e)
      BY <1>1
    <3>1. c >= MinCap /\ Capacity[j + 1] = 2 * c /\ 3 * c >= 4 * (j + 1) /\ c >= 2
      BY CapacityFacts, DictAssumption
    <3>2. NewCap(e) = 2 * c
      BY <3>1, DictAssumption DEF NewCap
    <3>3. r = dict_grow(e) /\ 4 * (n + 1) <= 3 * NewCap(e) /\ n < NewCap(e) /\ NewCap(e) \in Nat
      BY <1>1, <2>3, <3>1, <3>2
    <3>4. /\ Sound(r) /\ Cap(r) = NewCap(e) /\ Texts(r) = Texts(e) /\ AsMap(r) = AsMap(e)
          /\ Cardinality(Taken(r)) = n
      BY <1>1, <3>3, <1>2
    <3>5. WithinKeys(j + 1)
      <4>1. n >= j + 1
        BY <1>1, <2>3, <3>1 DEF Full
      <4> QED BY <1>1, <4>1, EntriesAreKeys DEF WithinKeys
    <3> QED BY <3>1, <3>2, <3>3, <3>4, <3>5
  <2> QED BY <2>1, <2>2, <2>3
<1>4. /\ Sound(f) /\ Cap(f) = Cap(r)
      /\ Texts(f) = Texts(r) \cup {TextOf(k)}
      /\ AsMap(f) = [AsMap(r) EXCEPT ![TextOf(k)] = v]
      /\ Cardinality(Taken(f)) = CountAfterSet(r, k, n)
      /\ Cardinality(Taken(f)) \in {n, n + 1}
  <2>1. IsPut(r, f, k, v) /\ Cardinality(Taken(r)) < Cap(r)
    BY <1>1, <1>3 DEF IsPut
  <2>2. Sound(r) /\ Cardinality(Taken(r)) = n
    BY <1>3
  <2> QED BY <2>1, <2>2, PutStores
<1>5. DictInv(f, CountAfterSet(r, k, n))
  <2>1. 4 * Cardinality(Taken(f)) <= 3 * Cap(f)
    BY <1>1, <1>3, <1>4
  <2>2. \E j \in Nat : Cap(f) = Capacity[j] /\ WithinKeys(j)
    BY <1>3, <1>4
  <2> QED BY <1>4, <2>1, <2>2 DEF DictInv
<1> QED BY <1>0, <1>3, <1>4, <1>5

----------------------------------------------------------------------------
(* Merging                                                                 *)

Dicts == {d \in [entries : UNION {Slots(n) : n \in Nat}, count : Nat] : DictInv(d.entries, d.count)}

\* The dicts are the tables and counts with the invariant.
LEMMA DictsAreThese ==
    /\ \A d \in Dicts : DictInv(d.entries, d.count)
    /\ \A e, n : DictInv(e, n) => [entries |-> e, count |-> n] \in Dicts
<1>1. ASSUME NEW e, NEW n, DictInv(e, n) PROVE [entries |-> e, count |-> n] \in Dicts
  <2>1. n \in Nat /\ e \in UNION {Slots(m) : m \in Nat}
    BY <1>1, SlotFacts, FS_CardinalityType DEF DictInv, Sound
  <2> QED BY <1>1, <2>1 DEF Dicts
<1> QED BY <1>1 DEF Dicts

\* One turn of the loop of METHOD_DICT_MERGE.
LEMMA WithSlotFacts ==
    ASSUME OneCopy, NEW d \in Dicts, NEW x \in Entry \cup {Empty}
    PROVE  /\ WithSlot(d, x) \in Dicts
           /\ x = Empty => WithSlot(d, x) = d
           /\ x # Empty => AsMap(WithSlot(d, x).entries) = [AsMap(d.entries) EXCEPT ![TextOf(x.key)] = x.value]
<1>1. CASE x = Empty
  BY <1>1 DEF WithSlot
<1>2. CASE x # Empty
  <2> PICK k \in Key, v \in Val : k = x.key /\ v = x.value
    BY <1>2, EntryFacts
  <2> DEFINE f == gc_dict_set(d.entries, d.count, k, v)
  <2>1. WithSlot(d, x) = f
    BY <1>2 DEF WithSlot
  <2>2. f = [entries |-> f.entries, count |-> f.count]
    BY DEF gc_dict_set
  <2>3. DictInv(d.entries, d.count)
    BY DictsAreThese
  <2>4. DictInv(f.entries, f.count) /\ AsMap(f.entries) = [AsMap(d.entries) EXCEPT ![TextOf(k)] = v]
    BY <2>3, SetStores
  <2> HIDE DEF f
  <2>5. f \in Dicts
    BY <2>2, <2>4, DictsAreThese
  <2> QED BY <1>2, <2>1, <2>4, <2>5
<1> QED BY <1>1, <1>2

\* The dicts the loop goes through.
LEMMA MergeRuns ==
    ASSUME OneCopy, NEW d \in Dicts, NEW e, IsTable(e)
    PROVE  \E u : /\ Merged(d, e) = u[Cap(e)]
                  /\ u[0] = d
                  /\ \A i \in 1..Cap(e) : u[i] = WithSlot(u[i - 1], e[i - 1])
<1> DEFINE Step(u) == [n \in 0..Cap(e) |-> IF n = 0 THEN d ELSE WithSlot(u[n - 1], e[n - 1])]
           u == CHOOSE u : u = Step(u)
<1>1. Merged(d, e) = u[Cap(e)]
  BY DEF Merged
<1> DEFINE N == Cap(e)
           F == [i \in 1..N |-> [x \in Dicts |-> WithSlot(x, e[i - 1])]]
<1>2. N \in Nat /\ \A i \in 1..N : e[i - 1] \in Entry \cup {Empty}
  BY SlotFacts DEF Slots
<1>3. F \in Turns(1..N, Dicts)
  <2> HIDE DEF N
  <2>1. \A i \in 1..N, x \in Dicts : WithSlot(x, e[i - 1]) \in Dicts
    BY <1>2, WithSlotFacts
  <2> QED BY <2>1 DEF Turns
<1>4. \E f : f = Step(f)
  <2> HIDE DEF N, F
  <2>1. PICK f \in [0..N -> Dicts] : f[0] = d /\ \A i \in 1..N : f[i] = F[i][f[i - 1]]
    BY <1>2, <1>3, LoopRuns
  <2>2. \A i \in 1..N : f[i] = WithSlot(f[i - 1], e[i - 1])
    <3> TAKE i \in 1..N
    <3>1. f[i - 1] \in Dicts
      BY <1>2
    <3> QED BY <2>1, <3>1 DEF F
  <2>3. f = [i \in 0..N |-> IF i = 0 THEN d ELSE WithSlot(f[i - 1], e[i - 1])]
    <3>1. \A i \in 0..N : i = 0 \/ i \in 1..N
      BY <1>2
    <3>2. \A i \in 0..N : f[i] = IF i = 0 THEN d ELSE WithSlot(f[i - 1], e[i - 1])
      BY <2>1, <2>2, <3>1
    <3>3. f = [i \in 0..N |-> f[i]]
      OBVIOUS
    <3> QED BY <3>2, <3>3
  <2>4. f = Step(f)
    BY <2>3 DEF N
  <2> QED BY <2>4
<1>5. u = Step(u)
  <2> HIDE DEF Step
  <2> QED BY <1>4
<1>6. u[0] = d /\ \A i \in 1..N : u[i] = WithSlot(u[i - 1], e[i - 1])
  <2> HIDE DEF u
  <2>1. \A i \in 0..N : u[i] = IF i = 0 THEN d ELSE WithSlot(u[i - 1], e[i - 1])
    BY <1>5
  <2> HIDE DEF Step, N
  <2> QED BY <1>2, <2>1
<1> HIDE DEF u
<1> QED BY <1>1, <1>6

\* Merging stores what the other table has over what the dict had.
LEMMA MergeStores ==
    ASSUME OneCopy, NEW d \in Dicts, NEW e, Sound(e)
    PROVE  /\ Merged(d, e) \in Dicts
           /\ AsMap(Merged(d, e).entries) = Overlay(e, Cap(e), AsMap(d.entries))
<1>0. IsTable(e) /\ Cap(e) \in Nat
  BY SlotFacts DEF Sound
<1>1. PICK u : /\ Merged(d, e) = u[Cap(e)]
               /\ u[0] = d
               /\ \A i \in 1..Cap(e) : u[i] = WithSlot(u[i - 1], e[i - 1])
  BY <1>0, MergeRuns
<1> DEFINE m == AsMap(d.entries)
           S == {i \in 0..Cap(e) : u[i] \in Dicts /\ AsMap(u[i].entries) = Overlay(e, i, m)}
<1>2. 0 \in S
  <2>1. m = [t \in Text |-> m[t]]
    BY DEF AsMap
  <2> HIDE DEF m
  <2>2. Overlay(e, 0, m) = m
    BY <2>1, BelowEnds
  <2> QED BY <1>0, <1>1, <2>2 DEF m
<1>3. ASSUME NEW i \in 1..Cap(e), i - 1 \in S PROVE i \in S
  <2> HIDE DEF m
  <2> PICK j \in 0..Cap(e) : j = i - 1
    BY <1>0
  <2>1. /\ u[j] \in Dicts /\ AsMap(u[j].entries) = Overlay(e, j, m)
        /\ u[i] = WithSlot(u[j], e[j]) /\ j \in DOMAIN e
    BY <1>1, <1>3, BelowStep
  <2>2. e[j] \in Entry \cup {Empty}
    BY <1>0, <2>1, SlotFacts DEF Slots
  <2>3. /\ u[i] \in Dicts
        /\ e[j] = Empty => u[i] = u[j]
        /\ e[j] # Empty => AsMap(u[i].entries) = [AsMap(u[j].entries) EXCEPT ![TextOf(e[j].key)] = e[j].value]
    BY <2>1, <2>2, WithSlotFacts
  <2>4. /\ e[j] = Empty => Overlay(e, i, m) = Overlay(e, j, m)
        /\ e[j] # Empty => Overlay(e, i, m) = [Overlay(e, j, m) EXCEPT ![TextAt(e, j)] = e[j].value]
    BY BelowStep
  <2>5. AsMap(u[i].entries) = Overlay(e, i, m)
    BY <2>1, <2>3, <2>4 DEF TextAt
  <2> QED BY <2>3, <2>5
<1>4. Cap(e) \in S
  <2> HIDE DEF S
  <2>1. \A i \in 1..Cap(e) : i - 1 \in S => i \in S
    BY <1>3
  <2>2. \A i \in 0..Cap(e) : i \in S
    BY <1>0, <1>2, <2>1, LoopInduction
  <2> QED BY <1>0, <2>2
<1> QED BY <1>1, <1>4

\* What a merge with a dict of at most one pair does to a map.
LEMMA OtherFacts ==
    ASSUME OneCopy, NEW other \in Others, NEW m, m = [t \in Text |-> m[t]]
    PROVE  /\ Sound(other)
           /\ \/ Overlay(other, Cap(other), m) = m
              \/ \E t \in Text, v \in Val : Overlay(other, Cap(other), m) = [m EXCEPT ![t] = v]
<1>1. CASE other = EmptyTable(0)
  <2>1. Sound(other) /\ Cap(other) = 0
    BY <1>1, EmptyTableFacts
  <2> QED BY <2>1, BelowEnds
<1>2. CASE other # EmptyTable(0)
  <2> PICK k \in Key, v \in Val : other = gc_dict_set(EmptyTable(0), 0, k, v).entries
    BY <1>2 DEF Others
  <2> PICK t \in Text : t = TextOf(k)
    BY EntryFacts
  <2>1. DictInv(EmptyTable(0), 0)
    BY EmptyTableFacts DEF DictInv
  <2>2. /\ Sound(other)
        /\ AsMap(other) = [AsMap(EmptyTable(0)) EXCEPT ![t] = v]
        /\ Texts(other) = Texts(EmptyTable(0)) \cup {t}
    BY <2>1, SetStores DEF DictInv
  <2>3. Texts(other) = {t}
    BY <2>2, EmptyTableFacts
  <2>4. gc_dict_get(other, t) = v
    <3>1. AsMap(other)[t] = v
      BY <2>2 DEF AsMap
    <3> QED BY <3>1 DEF AsMap
  <2>5. TextsBelow(other, Cap(other)) = {t}
    BY <2>2, <2>3, BelowEnds
  <2>6. Overlay(other, Cap(other), m) = [m EXCEPT ![t] = v]
    BY <2>4, <2>5 DEF Overlay
  <2> QED BY <2>2, <2>6
<1> QED BY <1>1, <1>2

----------------------------------------------------------------------------
(* Steps                                                                   *)

Inv == DictInv(entries, count)

\* Storing a pair.
LEMMA SetStep ==
    ASSUME OneCopy, Inv, NEW k \in Key, NEW v \in Val, dict_set(k, v)
    PROVE  Inv' /\ AsMap(entries') = [AsMap(entries) EXCEPT ![TextOf(k)] = v]
BY SetStores DEF Inv, dict_set, Becomes

\* Deleting a key that ends a run of probes, or one that is not there.
LEMMA DeleteStep ==
    ASSUME Inv, ~DeletesAnywhere, NEW t \in Text, gc_dict_delete(t), entries' # entries
    PROVE  Inv' /\ AsMap(entries') = [AsMap(entries) EXCEPT ![t] = Nil]
<1>1. PICK i \in Found(entries, t) :
         EndsRun(i) /\ entries' = Without(i) /\ count' = count - 1
  BY DEF gc_dict_delete, dictVars
<1>2. Sound(entries) /\ IsTable(entries) /\ IsFiniteSet(Taken(entries)) /\ count = Cardinality(Taken(entries))
  BY SlotFacts DEF Inv, DictInv, Sound
<1>3. i \in Taken(entries) /\ TextAt(entries, i) = t
  <2>1. Found(entries, t) # {}
    BY <1>1
  <2>2. t \in Texts(entries)
    BY <1>2, <2>1, LookupFacts
  <2>3. PICK p \in Taken(entries) : TextAt(entries, p) = t
    BY <2>2 DEF Texts
  <2>4. Found(entries, t) = {p}
    BY <1>2, <2>3, EntryIsFound
  <2> QED BY <1>1, <2>3, <2>4
<1>4. Changes(entries, entries', i, Empty) /\ entries[(i + 1) % Cap(entries)] = Empty
  BY <1>1 DEF Without, Changes, EndsRun
<1>5. /\ Sound(entries') /\ DOMAIN entries' = DOMAIN entries
      /\ Taken(entries') = Taken(entries) \ {i}
      /\ \A q \in Taken(entries') : entries'[q] = entries[q]
  BY <1>2, <1>3, <1>4, Empties
<1>6. AsMap(entries') = [AsMap(entries) EXCEPT ![t] = Nil]
  BY <1>2, <1>3, <1>5, MapAfterDelete
<1>7. Cardinality(Taken(entries')) = count - 1 /\ count \in Nat
  BY <1>2, <1>3, <1>5, FS_RemoveElement, FS_CardinalityType
<1>8. Cap(entries') = Cap(entries) /\ Cap(entries) \in Nat
  BY <1>2, <1>5, SlotFacts DEF Cap
<1>9. Inv'
  <2>1. 4 * count' <= 3 * Cap(entries')
    BY <1>1, <1>7, <1>8 DEF Inv, DictInv
  <2>2. Cap(entries') = 0 \/ \E k \in Nat : Cap(entries') = Capacity[k] /\ WithinKeys(k)
    BY <1>8 DEF Inv, DictInv
  <2>3. DictInv(entries', count')
    BY <1>1, <1>5, <1>7, <2>1, <2>2 DEF DictInv
  <2> QED BY <2>3 DEF Inv
<1> QED BY <1>6, <1>9

\* Merging: the new dict has what the old one had, and the other's pair.
LEMMA MergeStep ==
    ASSUME OneCopy, Inv, NEW other \in Others, dict_merge(other)
    PROVE  /\ Inv'
           /\ \/ AsMap(entries') = AsMap(entries)
              \/ \E t \in Text, v \in Val : AsMap(entries') = [AsMap(entries) EXCEPT ![t] = v]
<1>1. NewDict \in Dicts /\ AsMap(NewDict.entries) = AllNil
  <2>1. DictInv(EmptyTable(0), 0) /\ AsMap(EmptyTable(0)) = AllNil
    BY EmptyTableFacts DEF DictInv
  <2> QED BY <2>1, DictsAreThese DEF NewDict
<1>2. Sound(entries) /\ AsMap(entries) = [t \in Text |-> AsMap(entries)[t]]
  BY DEF Inv, DictInv, AsMap
<1> PICK d : d = Merged(NewDict, entries)
  OBVIOUS
<1>3. d \in Dicts /\ AsMap(d.entries) = AsMap(entries)
  <2>1. Merged(NewDict, entries) \in Dicts /\
        AsMap(Merged(NewDict, entries).entries) = Overlay(entries, Cap(entries), AsMap(NewDict.entries))
    BY <1>1, <1>2, MergeStores
  <2>2. Overlay(entries, Cap(entries), AllNil) = AsMap(entries)
    <3>1. AllNil = [t \in Text |-> AllNil[t]]
      BY DEF AllNil
    <3> QED BY <1>2, <3>1, BelowEnds
  <2> QED BY <1>1, <2>1, <2>2
<1>4. /\ Sound(other)
      /\ \/ Overlay(other, Cap(other), AsMap(entries)) = AsMap(entries)
         \/ \E t \in Text, v \in Val : Overlay(other, Cap(other), AsMap(entries)) = [AsMap(entries) EXCEPT ![t] = v]
  BY <1>2, OtherFacts
<1>5. /\ Merged(d, other) \in Dicts
      /\ AsMap(Merged(d, other).entries) = Overlay(other, Cap(other), AsMap(d.entries))
  BY <1>3, <1>4, MergeStores
<1>6. entries' = Merged(d, other).entries /\ count' = Merged(d, other).count
  BY DEF dict_merge, Becomes
<1>7. Inv'
  BY <1>5, <1>6, DictsAreThese DEF Inv
<1> QED BY <1>3, <1>4, <1>5, <1>6, <1>7

\* The first table is none.
LEMMA Begins == DictInit => Inv /\ AsMap(entries) = AllNil
BY EmptyTableFacts DEF DictInit, Inv, DictInv

\* Every step keeps the invariant and, to a script, stores or deletes one key or changes nothing.
LEMMA Steps ==
    ASSUME OneCopy, ~DeletesAnywhere, Inv, [DictNext]_dictVars
    PROVE  /\ Inv'
           /\ \/ AsMap(entries') = AsMap(entries)
              \/ \E t \in Text : \/ AsMap(entries') = [AsMap(entries) EXCEPT ![t] = Nil]
                                 \/ \E v \in Val : AsMap(entries') = [AsMap(entries) EXCEPT ![t] = v]
<1>1. ASSUME NEW k \in Key, NEW v \in Val, dict_set(k, v)
      PROVE  /\ Inv'
             /\ \E t \in Text : AsMap(entries') = [AsMap(entries) EXCEPT ![t] = v]
  BY <1>1, SetStep, EntryFacts
<1>2. ASSUME UNCHANGED dictVars PROVE Inv' /\ AsMap(entries') = AsMap(entries)
  BY <1>2 DEF dictVars, Inv
<1>3. ASSUME NEW t \in Text, gc_dict_delete(t)
      PROVE  /\ Inv'
             /\ \/ AsMap(entries') = AsMap(entries)
                \/ AsMap(entries') = [AsMap(entries) EXCEPT ![t] = Nil]
  <2>1. CASE entries' = entries
    <3>1. CASE UNCHANGED dictVars
      BY <1>2, <3>1
    <3>2. ASSUME NEW i \in Found(entries, t), entries' = Without(i) PROVE FALSE
      <4>1. Sound(entries) /\ Found(entries, t) # {}
        BY <3>2 DEF Inv, DictInv
      <4>2. i \in Taken(entries)
        BY <3>2, <4>1 DEF Found
      <4> QED BY <2>1, <3>2, <4>2 DEF Without, Taken
    <3> QED BY <1>3, <3>1, <3>2 DEF gc_dict_delete
  <2>2. CASE entries' # entries
    BY <1>3, <2>2, DeleteStep
  <2> QED BY <2>1, <2>2
<1>4. ASSUME NEW other \in Others, dict_merge(other)
      PROVE  /\ Inv'
             /\ \/ AsMap(entries') = AsMap(entries)
                \/ \E t \in Text, v \in Val : AsMap(entries') = [AsMap(entries) EXCEPT ![t] = v]
  BY <1>4, MergeStep
<1>5. CASE \E k \in Key, v \in Val : dict_set(k, v)
  BY <1>1, <1>5
<1>6. CASE \E t \in Text : gc_dict_delete(t)
  BY <1>3, <1>6
<1>7. CASE \E other \in Others : dict_merge(other)
  BY <1>4, <1>7
<1>8. CASE UNCHANGED dictVars
  BY <1>2, <1>8
<1> QED BY <1>5, <1>6, <1>7, <1>8 DEF DictNext

----------------------------------------------------------------------------
(* Theorems                                                                *)

\* With interned keys, and deletions only at the ends of runs, the count is that of the
\* entries, a quarter of the table is empty, so that the search of a store ends, and the table
\* was doubled no oftener than there are keys (gc_dict_set, dict_grow, gc_dict_delete).
THEOREM StoresEnd ==
    ASSUME OneCopy, ~DeletesAnywhere, IsFiniteSet(Text)
    PROVE  DictSpec => []TypeOK
<1>1. Inv => TypeOK
  <2> SUFFICES ASSUME Inv PROVE TypeOK
    OBVIOUS
  <2>1. IsTable(entries) /\ entries \in Slots(Cap(entries))
    BY SlotFacts DEF Inv, DictInv, Sound
  <2>2. Cap(entries) \in {0} \cup {Capacity[k] : k \in 0..Cardinality(Key)}
    <3>1. Cardinality(Key) \in Nat
      BY EntriesAreKeys DEF Inv, DictInv
    <3>2. ASSUME NEW k \in Nat, WithinKeys(k) PROVE k \in 0..Cardinality(Key)
      BY <3>1, <3>2 DEF WithinKeys
    <3> QED BY <3>2 DEF Inv, DictInv
  <2>3. count = Cardinality(Taken(entries)) /\ 4 * count <= 3 * Cap(entries)
    BY DEF Inv, DictInv
  <2> QED BY <2>1, <2>2, <2>3 DEF TypeOK, Slots
<1>2. DictInit => Inv
  BY Begins
<1>3. Inv /\ [DictNext]_dictVars => Inv'
  BY Steps
<1> QED BY <1>1, <1>2, <1>3, PTL DEF DictSpec

\* With interned keys, and deletions only at the ends of runs, every entry is found under its
\* text and no text has two, whatever was stored, moved by growing, merged and deleted.
THEOREM EntriesAreFound ==
    ASSUME OneCopy, ~DeletesAnywhere
    PROVE  DictSpec => []KeysAreFound
<1>1. Inv => KeysAreFound
  BY EntryIsFound DEF Inv, DictInv, KeysAreFound, TextAt
<1>2. DictInit => Inv
  BY Begins
<1>3. Inv /\ [DictNext]_dictVars => Inv'
  BY Steps
<1> QED BY <1>1, <1>2, <1>3, PTL DEF DictSpec

\* With interned keys, and deletions only at the ends of runs, the table implements MapSpec: a
\* script that stores, deletes, grows and merges sees a map from texts to values.
THEOREM DictImplementsMap ==
    ASSUME OneCopy, ~DeletesAnywhere
    PROVE  DictSpec => ImplementsMapSpec
<1> DEFINE map == [t \in Text |-> gc_dict_get(entries, t)]
<1>1. DictInit => Inv /\ Map!Init
  BY Begins DEF AsMap, AllNil, Map!Init
<1>2. Inv /\ [DictNext]_dictVars => Inv'
  BY Steps
<1>3. Inv /\ [DictNext]_dictVars => [Map!Next]_map
  <2> SUFFICES ASSUME Inv, [DictNext]_dictVars PROVE Map!Next \/ map' = map
    OBVIOUS
  <2>1. map = AsMap(entries) /\ map' = AsMap(entries')
    BY DEF AsMap
  <2>2. \/ map' = map
        \/ \E t \in Text : map' = [map EXCEPT ![t] = Nil] \/ \E v \in Val : map' = [map EXCEPT ![t] = v]
    BY <2>1, Steps
  <2> QED BY <2>2 DEF Map!Next, Map!Delete, Map!Set
<1> QED BY <1>1, <1>2, <1>3, PTL DEF DictSpec, ImplementsMapSpec, Map!Spec
=============================================================================
