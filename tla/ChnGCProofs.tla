---------------------------- MODULE ChnGCProofs ----------------------------
(***************************************************************************)
(* Theorems about the collector of ChnGC, for any number of objects and    *)
(* any values of its tuning constants.                                     *)
(***************************************************************************)
EXTENDS ChnGC, FiniteSetTheorems, TLAPS

----------------------------------------------------------------------------
(* Types                                                                   *)

\* A young object has survived fewer than PromoteAge sweeps.
YoungIsUnderAge == \A o \in Obj : gen[o] = "young" => age[o] < PromoteAge

TypeInv == TypeOK /\ YoungIsUnderAge

\* The types and the finiteness of the heap hold at the start.
LEMMA InitTypeInv == Init => TypeInv
<1> SUFFICES ASSUME Init PROVE TypeInv
  OBVIOUS
<1> USE TuningAssumption DEF Init, gc_init
<1>1. /\ refs \in [Obj -> SUBSET Obj] /\ color \in [Obj -> Colors]
      /\ gen \in [Obj -> {"young", "old"}]
  BY DEF Colors
<1>2. age \in [Obj -> 0..PromoteAge] /\ YoungIsUnderAge
  BY DEF YoungIsUnderAge
<1>3. minor \in 0..MajorEvery /\ budget \in 0..StepSize
  OBVIOUS
<1> QED BY <1>1, <1>2, <1>3 DEF TypeInv, TypeOK

\* A set of objects is finite, so its size is a natural number.
LEMMA ObjectsCount == \A S \in SUBSET Obj : IsFiniteSet(S) /\ Cardinality(S) \in Nat
BY KindsAssumption, FS_Subset, FS_CardinalityType

\* gray_push leaves colours colours and queues only objects.
LEMMA GrayPushType ==
    ASSUME TypeInv, NEW V \in SUBSET Obj, gray_push(V)
    PROVE  gray' \in SUBSET Obj /\ color' \in [Obj -> Colors]
BY DEF TypeInv, TypeOK, gray_push, Pushable, Colors

\* A sweep leaves generations and ages in their types.
LEMMA SweepType ==
    ASSUME TypeInv, NEW major \in BOOLEAN, sweep_generation(major)
    PROVE  /\ heap' \subseteq heap
           /\ roots' = roots /\ gray' = gray
           /\ refs' \in [Obj -> SUBSET Obj]
           /\ color' \in [Obj -> Colors]
           /\ gen' \in [Obj -> {"young", "old"}]
           /\ age' \in [Obj -> 0..PromoteAge]
           /\ YoungIsUnderAge'
<1> USE DEF TypeInv, TypeOK, sweep_generation
<1>1. heap' \subseteq heap /\ roots' = roots /\ gray' = gray
  OBVIOUS
<1>2. refs' \in [Obj -> SUBSET Obj]
  OBVIOUS
<1>3. color' \in [Obj -> Colors]
  BY DEF ColorAfterMinor, Colors
<1>4. gen' \in [Obj -> {"young", "old"}]
  OBVIOUS
<1>5. /\ age' \in [Obj -> 0..PromoteAge]
      /\ YoungIsUnderAge'
  BY TuningAssumption DEF YoungIsUnderAge, Promotes
<1> QED BY <1>1, <1>2, <1>3, <1>4, <1>5

\* Every step of the script and of the collector keeps the types.
LEMMA TypeInvStep == TypeInv /\ [Next]_vars => TypeInv'
<1> SUFFICES ASSUME TypeInv, [Next]_vars PROVE TypeInv'
  OBVIOUS
<1> USE TuningAssumption DEF TypeInv, YoungIsUnderAge, TypeOK, heapVars, headers, tuning
<1>1. CASE UNCHANGED vars
  BY <1>1 DEF vars
<1>2. CASE VMStep
  <2>1. ASSUME NEW o \in Obj, alloc_obj(o) PROVE TypeInv'
    BY <2>1 DEF alloc_obj, Colors
  <2>2. ASSUME NEW s \in Str, gc_string(s) PROVE TypeInv'
    BY <2>1, <2>2 DEF gc_string, Obj
  <2>3. ASSUME NEW a \in Arr, gc_array(a) PROVE TypeInv'
    BY <2>1, <2>3 DEF gc_array, Obj
  <2>4. ASSUME NEW d \in Dict, gc_dict(d) PROVE TypeInv'
    BY <2>1, <2>4 DEF gc_dict, Obj
  <2>5. ASSUME NEW a \in Arr, NEW v \in Obj, gc_arr_push(a, v) PROVE TypeInv'
    BY <2>5 DEF gc_arr_push
  <2>6. ASSUME NEW a \in Arr, NEW v \in Obj, NEW D \in SUBSET Obj, array_set(a, v, D)
        PROVE TypeInv'
    <3>1. gray' \in SUBSET Obj /\ color' \in [Obj -> Colors]
      BY <2>6, GrayPushType DEF array_set, GC_WRITE_BARRIER
    <3> QED BY <2>6, <3>1 DEF array_set
  <2>7. ASSUME NEW d \in Dict, NEW k \in Str, NEW v \in Obj, NEW D \in SUBSET Obj,
               gc_dict_set(d, k, v, D)
        PROVE TypeInv'
    <3>1. gray' \in SUBSET Obj /\ color' \in [Obj -> Colors]
      BY <2>7, GrayPushType DEF gc_dict_set, GC_WRITE_BARRIER, Obj
    <3> QED BY <2>7, <3>1 DEF gc_dict_set
  <2>8. ASSUME NEW d \in Dict, NEW D \in SUBSET Obj, gc_dict_delete(d, D) PROVE TypeInv'
    BY <2>8 DEF gc_dict_delete
  <2>9. ASSUME NEW a \in Arr, NEW v \in Obj, NEW D \in SUBSET Obj, arr_pop(a, v, D)
        PROVE TypeInv'
    BY <2>9 DEF arr_pop
  <2>10. ASSUME NEW c \in Arr \cup Dict, NEW v \in Obj, array_index(c, v) PROVE TypeInv'
    BY <2>10 DEF array_index
  <2>11. ASSUME NEW v \in Obj, drop_root(v) PROVE TypeInv'
    BY <2>11 DEF drop_root
  <2> QED
    <3>1. /\ \A c \in Obj : refs[c] \in SUBSET Obj
          /\ Arr \subseteq Obj /\ Dict \subseteq Obj
      BY DEF Obj
    <3>2. \A n, S : S \in SUBSET Obj => AtMost(n, S) \subseteq SUBSET Obj
      BY DEF AtMost
    <3>3. \A v \in Obj : SUBSET {v} \subseteq SUBSET Obj
      OBVIOUS
    <3> QED BY <1>2, <2>2, <2>3, <2>4, <2>5, <2>6, <2>7, <2>8, <2>9, <2>10, <2>11,
               <3>1, <3>2, <3>3 DEF VMStep
<1>3. CASE step_resume
  BY <1>3 DEF step_resume
<1>4. CASE step_collect
  BY <1>4, GrayPushType DEF step_collect, mark_vm_roots, Live, Reachable
<1>5. CASE step_start
  BY <1>5, GrayPushType DEF step_start, mark_vm_roots, Live, Reachable
<1>6. CASE trace_next
  <2>1. gray' \in SUBSET Obj /\ color' \in [Obj -> Colors]
    BY <1>6 DEF trace_next, trace_obj, Pushable, Colors
  <2> QED BY <1>6, <2>1 DEF trace_next
<1>7. CASE step_suspend
  BY <1>7 DEF step_suspend
<1>8. CASE step_finish
  <2>1. /\ heap' \subseteq heap /\ roots' = roots /\ gray' = gray
        /\ refs' \in [Obj -> SUBSET Obj] /\ color' \in [Obj -> Colors]
        /\ gen' \in [Obj -> {"young", "old"}] /\ age' \in [Obj -> 0..PromoteAge]
        /\ YoungIsUnderAge'
    BY <1>8, SweepType DEF step_finish
  <2>2. next_gc_young' \in Nat
    BY <1>8, <2>1, ObjectsCount DEF step_finish, YoungLimit
  <2>3. minor' \in 0..MajorEvery /\ budget' \in 0..StepSize
    BY <1>8 DEF step_finish, count_minor
  <2> QED BY <1>8, <2>1, <2>2, <2>3 DEF step_finish
<1>9. CASE collect_finish
  <2>1. /\ heap' \subseteq heap /\ roots' = roots /\ gray' = gray
        /\ refs' \in [Obj -> SUBSET Obj] /\ color' \in [Obj -> Colors]
        /\ gen' \in [Obj -> {"young", "old"}] /\ age' \in [Obj -> 0..PromoteAge]
        /\ YoungIsUnderAge'
    BY <1>9, SweepType DEF collect_finish, collect_is_major
  <2>2. Cardinality(heap') \in Nat
    BY <2>1, ObjectsCount
  <2>3. next_gc_young' \in Nat /\ next_gc_major' \in Nat
    BY <1>9, <2>2 DEF collect_finish, YoungLimit, MajorLimit
  <2>4. minor' \in 0..MajorEvery
    BY <1>9 DEF collect_finish, count_minor
  <2> QED BY <1>9, <2>1, <2>3, <2>4 DEF collect_finish
<1> QED BY <1>1, <1>2, <1>3, <1>4, <1>5, <1>6, <1>7, <1>8, <1>9
        DEF Next, Safepoint, Collector

\* Every variable keeps its type: in particular an age never passes PromoteAge and
\* no count or limit leaves its range, for any heap (gc.c as a whole).
THEOREM TypeCorrect == Spec => []TypeOK
<1>1. TypeInv => TypeOK
  BY DEF TypeInv
<1> QED BY InitTypeInv, TypeInvStep, <1>1, PTL DEF Spec

----------------------------------------------------------------------------
(* Reachability                                                            *)

\* The reachable set lies in every closed set around the roots, and is one itself.
LEMMA ReachableIsLeast ==
    ASSUME NEW U, NEW R \in SUBSET U, NEW f \in [U -> SUBSET U]
    PROVE  /\ \A S \in SUBSET U : R \subseteq S /\ Closed(S, f) => Reachable(U, R, f) \subseteq S
           /\ R \subseteq Reachable(U, R, f)
           /\ Reachable(U, R, f) \subseteq U
           /\ Closed(Reachable(U, R, f), f)
<1> USE DEF Reachable
<1>1. Closed(Reachable(U, R, f), f)
  <2> SUFFICES ASSUME NEW o \in Reachable(U, R, f), NEW v \in f[o],
                      NEW S \in SUBSET U, R \subseteq S, Closed(S, f)
               PROVE  v \in S
    BY DEF Closed
  <2> QED BY DEF Closed
<1> QED BY <1>1

----------------------------------------------------------------------------
(* The inductive invariant                                                 *)

\* The regimes in which the collector is safe: the script takes hold of nothing new
\* while a mark is suspended, or no mark is ever suspended because one safepoint can
\* trace every object there is.
Regime == ~GrowsWhileMarking \/ StepSize >= Cardinality(Obj)

Untraced == {o \in Obj : color[o] # "black"}
Touched == {o \in Obj : color[o] # "white"}

\* With a budget for every object, the VM never runs during a mark: what is left to
\* trace never exceeds what is left of the budget.
MarksAreWhole ==
    StepSize >= Cardinality(Obj) =>
        /\ pc = "vm" => ~marking
        /\ pc = "step" => Cardinality(Untraced) <= budget

GrayIsQueued == gray = {o \in Obj : color[o] = "gray"}

\* What is not allocated is as gc_realloc left it: nothing was marked through it.
FreeIsBlank == \A o \in Obj \ heap : color[o] = "white" /\ refs[o] = {}

StringsAreLeaves == \A s \in Str : refs[s] = {}

PcMatchesMark ==
    /\ pc # "vm" => marking
    /\ pc = "vm" /\ marking => gray # {}

\* S is allocated, holds the roots and everything marked, and refers to nothing outside.
Covers(S) == roots \subseteq S /\ Closed(S, refs) /\ Touched \subseteq S

\* Old garbage may refer to freed objects, so not all of the heap is closed: some part
\* of it is, and during a mark it is what was reachable when the mark began.
HeapIsSound == \E S \in SUBSET heap : Covers(S) /\ (marking => S = liveAtMark)

\* Nothing happens between the start and the sweep of gc_collect but the trace.
CollectIsAtomic ==
    pc = "collect" => liveAtMark = Live /\ bytes_allocated > next_gc_major

IInv ==
    /\ TypeInv
    /\ MarksAreWhole
    /\ GrayIsQueued
    /\ FreeIsBlank
    /\ StringsAreLeaves
    /\ PcMatchesMark
    /\ MarkStartsClean
    /\ TriColor
    /\ HeapIsSound
    /\ CollectIsAtomic

\* The empty heap satisfies the inductive invariant.
LEMMA InitIInv == Init => IInv
<1> SUFFICES ASSUME Init PROVE IInv
  OBVIOUS
<1> USE DEF Init, gc_init
<1>1. TypeInv
  BY InitTypeInv
<1>2. MarksAreWhole /\ GrayIsQueued /\ FreeIsBlank /\ PcMatchesMark /\ MarkStartsClean
      /\ TriColor /\ CollectIsAtomic
  BY DEF MarksAreWhole, GrayIsQueued, FreeIsBlank, PcMatchesMark, MarkStartsClean,
         TriColor, CollectIsAtomic
<1>3. StringsAreLeaves
  BY DEF StringsAreLeaves, Obj
<1>4. HeapIsSound
  <2>1. Covers({})
    BY DEF Covers, Closed, Touched
  <2> QED BY <2>1 DEF HeapIsSound
<1> QED BY <1>1, <1>2, <1>3, <1>4 DEF IInv

\* In either regime the script gains a root only outside a mark.
LEMMA GrowsOnlyOutsideMarks ==
    ASSUME Regime, IInv, MayGainRoot
    PROVE  /\ ~marking /\ gray = {}
           /\ Touched = {}
           /\ \A o \in Obj : color[o] = "white"
BY DEF Regime, IInv, MarksAreWhole, MayGainRoot, VMRuns, MarkStartsClean, Touched

\* Steps that leave the collector's state alone keep the facts about it.
LEMMA CollectorUntouched ==
    ASSUME IInv, TypeInv', UNCHANGED <<color, gray, marking, pc, budget, liveAtMark>>, pc = "vm"
    PROVE  MarksAreWhole' /\ GrayIsQueued' /\ PcMatchesMark' /\ MarkStartsClean'
           /\ CollectIsAtomic'
BY DEF IInv, MarksAreWhole, Untraced, GrayIsQueued, PcMatchesMark, MarkStartsClean,
       CollectIsAtomic

----------------------------------------------------------------------------
(* The steps of the VM                                                     *)

\* A new object is white and a root: where the regime lets one be made, the marks stay whole (alloc_obj).
LEMMA AllocKeepsIInv ==
    ASSUME Regime, IInv, TypeInv', NEW o \in Obj, MayGainRoot, alloc_obj(o)
    PROVE  IInv'
<1> USE DEF alloc_obj
<1>1. ~marking /\ gray = {} /\ Touched = {} /\ \A x \in Obj : color[x] = "white"
  BY GrowsOnlyOutsideMarks
<1>2. color' = color
  BY <1>1 DEF IInv, TypeInv, TypeOK
<1>3. pc = "vm"
  BY DEF MayGainRoot, VMRuns
<1>4. MarksAreWhole' /\ GrayIsQueued' /\ PcMatchesMark' /\ MarkStartsClean' /\ CollectIsAtomic'
  BY <1>2, <1>3, CollectorUntouched
<1>5. FreeIsBlank' /\ StringsAreLeaves' /\ TriColor'
  BY <1>1, <1>2 DEF IInv, FreeIsBlank, StringsAreLeaves, TriColor
<1>6. HeapIsSound'
  <2>1. PICK S \in SUBSET heap : Covers(S)
    BY DEF IInv, HeapIsSound
  <2>2. S \cup {o} \in SUBSET heap'
    OBVIOUS
  <2>3. Covers(S \cup {o})'
    BY <1>1, <1>2, <2>1 DEF Covers, Closed, Touched, IInv, FreeIsBlank
  <2> QED BY <1>1, <2>2, <2>3 DEF HeapIsSound
<1> QED BY <1>4, <1>5, <1>6 DEF IInv

\* gc_string finding a string of the intern table: the script takes a reference out of nothing.
LEMMA FindStringKeepsIInv ==
    ASSUME Regime, IInv, TypeInv', NEW s \in Str, MayGainRoot, s \in heap,
           roots' = roots \cup {s},
           UNCHANGED <<heap, refs, headers, gray, marking, tuning, pc, budget, liveAtMark>>
    PROVE  IInv'
<1> USE DEF headers
<1>1. ~marking /\ gray = {} /\ Touched = {} /\ \A x \in Obj : color[x] = "white"
  BY GrowsOnlyOutsideMarks
<1>2. pc = "vm"
  BY DEF MayGainRoot, VMRuns
<1>3. MarksAreWhole' /\ GrayIsQueued' /\ PcMatchesMark' /\ MarkStartsClean' /\ CollectIsAtomic'
  BY <1>2, CollectorUntouched
<1>4. FreeIsBlank' /\ StringsAreLeaves' /\ TriColor'
  BY <1>1 DEF IInv, FreeIsBlank, StringsAreLeaves, TriColor
<1>5. HeapIsSound'
  <2>1. PICK S \in SUBSET heap : Covers(S)
    BY DEF IInv, HeapIsSound
  <2>2. Covers(S \cup {s})'
    BY <2>1 DEF Covers, Closed, Touched, IInv, StringsAreLeaves
  <2> QED BY <1>1, <2>1, <2>2 DEF HeapIsSound
<1> QED BY <1>3, <1>4, <1>5 DEF IInv

\* A store, a deletion or a load: c comes to refer to E, drawn from what it referred to
\* and what the script holds, and the script may take hold of R, found in c.
LEMMA UpdateKeepsIInv ==
    ASSUME Regime, IInv, TypeInv', pc = "vm",
           NEW c \in Obj \ Str, c \in roots,
           NEW E \in SUBSET (refs[c] \cup roots), NEW R \in SUBSET refs[c],
           R = {} \/ MayGainRoot,
           refs' = [refs EXCEPT ![c] = E], roots' = roots \cup R,
           UNCHANGED <<heap, color, gray, marking, pc, budget, liveAtMark>>
    PROVE  IInv'
<1>1. MarksAreWhole' /\ GrayIsQueued' /\ PcMatchesMark' /\ MarkStartsClean' /\ CollectIsAtomic'
  BY CollectorUntouched
<1>2. PICK S \in SUBSET heap : Covers(S) /\ (marking => S = liveAtMark)
  BY DEF IInv, HeapIsSound
<1>3. c \in S
  BY <1>2 DEF Covers
<1>4. FreeIsBlank' /\ StringsAreLeaves'
  BY <1>3 DEF IInv, TypeInv, TypeOK, FreeIsBlank, StringsAreLeaves
<1>5. TriColor'
  <2> SUFFICES ASSUME marking PROVE TriColor'
    BY DEF TriColor
  <2>1. R = {}
    BY GrowsOnlyOutsideMarks
  <2>2. ASSUME NEW o \in heap, color[o] = "black", NEW v \in refs'[o]
        PROVE  color[v] # "white"
    BY <2>2 DEF IInv, TypeInv, TypeOK, TriColor
  <2> QED BY <2>1, <2>2 DEF IInv, TriColor
<1>6. HeapIsSound'
  <2>1. Closed(S, refs')
    <3> SUFFICES ASSUME NEW o \in S PROVE refs'[o] \subseteq S
      BY DEF Closed
    <3>1. CASE o = c
      BY <1>2, <3>1 DEF Covers, Closed, IInv, TypeInv, TypeOK
    <3>2. CASE o # c
      BY <1>2, <3>2 DEF Covers, Closed, IInv, TypeInv, TypeOK
    <3> QED BY <3>1, <3>2
  <2>2. roots' \subseteq S
    BY <1>2, <1>3 DEF Covers, Closed
  <2> QED BY <1>2, <2>1, <2>2 DEF HeapIsSound, Covers, Touched
<1> QED BY <1>1, <1>4, <1>5, <1>6 DEF IInv

\* During a mark every held value is queued or traced already, so the barrier has
\* nothing to queue.
LEMMA BarrierHasNothingToDo ==
    ASSUME IInv, NEW c, NEW V \in SUBSET roots, GC_WRITE_BARRIER(c, V)
    PROVE  UNCHANGED <<color, gray>>
<1>1. CASE gen[c] = "old" /\ marking
  <2>1. Pushable(V) = {}
    BY <1>1 DEF Pushable, IInv, TriColor
  <2> QED BY <1>1, <2>1 DEF GC_WRITE_BARRIER, gray_push, IInv, TypeInv, TypeOK
<1> QED BY <1>1 DEF GC_WRITE_BARRIER

\* A reference dropped: what was reachable may become garbage, nothing else changes.
LEMMA DropKeepsIInv ==
    ASSUME IInv, TypeInv', NEW v \in Obj, drop_root(v)
    PROVE  IInv'
<1> USE DEF drop_root, VMRuns, headers
<1>1. MarksAreWhole' /\ GrayIsQueued' /\ PcMatchesMark' /\ MarkStartsClean' /\ CollectIsAtomic'
  BY CollectorUntouched
<1>2. FreeIsBlank' /\ StringsAreLeaves' /\ TriColor'
  BY DEF IInv, FreeIsBlank, StringsAreLeaves, TriColor
<1>3. HeapIsSound'
  BY DEF IInv, HeapIsSound, Covers, Touched
<1> QED BY <1>1, <1>2, <1>3 DEF IInv

\* Any operation of the script, between two steps of the collector.
LEMMA VMStepKeepsIInv == Regime /\ IInv /\ TypeInv' /\ VMStep => IInv'
<1> SUFFICES ASSUME Regime, IInv, TypeInv', VMStep PROVE IInv'
  OBVIOUS
<1> USE KindsAssumption DEF headers
<1>1. ASSUME NEW s \in Str, gc_string(s) PROVE IInv'
  BY <1>1, AllocKeepsIInv, FindStringKeepsIInv DEF gc_string, Obj
<1>2. ASSUME NEW a \in Arr, gc_array(a) PROVE IInv'
  BY <1>2, AllocKeepsIInv DEF gc_array, Obj
<1>3. ASSUME NEW d \in Dict, gc_dict(d) PROVE IInv'
  BY <1>3, AllocKeepsIInv DEF gc_dict, Obj
<1>4. ASSUME NEW a \in Arr, NEW v \in Obj, gc_arr_push(a, v) PROVE IInv'
  <2>1. a \in Obj \ Str /\ {} \in SUBSET refs[a] /\ roots' = roots \cup {}
    BY <1>4 DEF Obj, gc_arr_push
  <2>2. refs[a] \cup {v} \in SUBSET (refs[a] \cup roots)
    BY <1>4 DEF gc_arr_push
  <2> QED BY <1>4, <2>1, <2>2, UpdateKeepsIInv DEF gc_arr_push, VMRuns
<1>5. ASSUME NEW a \in Arr, NEW v \in Obj, NEW D, array_set(a, v, D) PROVE IInv'
  <2>1. a \in Obj \ Str /\ {} \in SUBSET refs[a] /\ roots' = roots \cup {}
    BY <1>5 DEF Obj, array_set
  <2>2. (refs[a] \ D) \cup {v} \in SUBSET (refs[a] \cup roots)
    BY <1>5 DEF array_set
  <2>3. UNCHANGED <<color, gray>>
    BY <1>5, BarrierHasNothingToDo DEF array_set
  <2> QED BY <1>5, <2>1, <2>2, <2>3, UpdateKeepsIInv DEF array_set, VMRuns
<1>6. ASSUME NEW d \in Dict, NEW k \in Str, NEW v \in Obj, NEW D, gc_dict_set(d, k, v, D)
      PROVE IInv'
  <2>1. d \in Obj \ Str /\ {} \in SUBSET refs[d] /\ roots' = roots \cup {}
    BY <1>6 DEF Obj, gc_dict_set
  <2>2. (refs[d] \ D) \cup {k, v} \in SUBSET (refs[d] \cup roots)
    BY <1>6 DEF gc_dict_set
  <2>3. UNCHANGED <<color, gray>>
    BY <1>6, BarrierHasNothingToDo DEF gc_dict_set
  <2> QED BY <1>6, <2>1, <2>2, <2>3, UpdateKeepsIInv DEF gc_dict_set, VMRuns
<1>7. ASSUME NEW d \in Dict, NEW D, gc_dict_delete(d, D) PROVE IInv'
  <2>1. d \in Obj \ Str /\ {} \in SUBSET refs[d] /\ roots' = roots \cup {}
    BY <1>7 DEF Obj, gc_dict_delete
  <2>2. refs[d] \ D \in SUBSET (refs[d] \cup roots)
    OBVIOUS
  <2> QED BY <1>7, <2>1, <2>2, UpdateKeepsIInv DEF gc_dict_delete, VMRuns
<1>8. ASSUME NEW a \in Arr, NEW v \in Obj, NEW D, arr_pop(a, v, D) PROVE IInv'
  <2>1. a \in Obj \ Str /\ {v} \in SUBSET refs[a]
    BY <1>8 DEF Obj, arr_pop
  <2>2. refs[a] \ D \in SUBSET (refs[a] \cup roots)
    OBVIOUS
  <2> QED BY <1>8, <2>1, <2>2, UpdateKeepsIInv DEF arr_pop, MayGainRoot, VMRuns
<1>9. ASSUME NEW c \in Arr \cup Dict, NEW v \in Obj, array_index(c, v) PROVE IInv'
  <2>1. c \in Obj \ Str /\ {v} \in SUBSET refs[c] /\ refs[c] \in SUBSET (refs[c] \cup roots)
    BY <1>9 DEF Obj, array_index
  <2>2. refs' = [refs EXCEPT ![c] = refs[c]]
    BY <1>9, <2>1 DEF array_index, IInv, TypeInv, TypeOK
  <2> QED BY <1>9, <2>1, <2>2, UpdateKeepsIInv DEF array_index, MayGainRoot, VMRuns
<1>10. ASSUME NEW v \in Obj, drop_root(v) PROVE IInv'
  BY <1>10, DropKeepsIInv
<1> QED BY <1>1, <1>2, <1>3, <1>4, <1>5, <1>6, <1>7, <1>8, <1>9, <1>10 DEF VMStep

----------------------------------------------------------------------------
(* The steps of the collector                                              *)

\* A mark begins: the reachable set becomes the cover of the mark.
LEMMA MarkStartKeepsIInv ==
    ASSUME IInv, TypeInv', ~(marking /\ gray # {}), pc = "vm", marking', mark_vm_roots,
           liveAtMark' = Live, UNCHANGED heapVars,
           \/ pc' = "collect" /\ bytes_allocated > next_gc_major /\ UNCHANGED tuning
           \/ pc' = "step" /\ budget' = StepSize
    PROVE  IInv'
<1> USE DEF heapVars, mark_vm_roots
<1>1. ~marking /\ gray = {} /\ \A o \in Obj : color[o] = "white"
  BY DEF IInv, PcMatchesMark, MarkStartsClean
<1>2. /\ color' = [o \in Obj |-> IF o \in roots THEN "gray" ELSE "white"]
      /\ gray' = roots
  BY <1>1 DEF gray_push, Pushable, IInv, TypeInv, TypeOK
<1>3. MarksAreWhole'
  <2> SUFFICES ASSUME StepSize >= Cardinality(Obj), pc' = "step"
               PROVE  Cardinality(Untraced') <= budget'
    BY DEF MarksAreWhole
  <2>1. Cardinality(Untraced') <= Cardinality(Obj)
    BY KindsAssumption, FS_Subset DEF Untraced
  <2> QED BY <2>1, ObjectsCount, TuningAssumption DEF Untraced
<1>4. GrayIsQueued' /\ PcMatchesMark' /\ MarkStartsClean' /\ TriColor' /\ StringsAreLeaves'
  BY <1>2 DEF IInv, TypeInv, TypeOK, GrayIsQueued, PcMatchesMark, MarkStartsClean,
              TriColor, StringsAreLeaves
<1>5. roots \subseteq Live /\ Live \subseteq Obj /\ Closed(Live, refs)
  BY ReachableIsLeast DEF IInv, TypeInv, TypeOK, Live
<1>6. Live \subseteq heap
  <2>1. PICK S \in SUBSET heap : Covers(S)
    BY DEF IInv, HeapIsSound
  <2> QED BY <2>1, ReachableIsLeast DEF IInv, TypeInv, TypeOK, Live, Covers
<1>7. FreeIsBlank'
  BY <1>2, <1>5, <1>6 DEF IInv, FreeIsBlank
<1>8. HeapIsSound'
  <2>1. Covers(Live)'
    BY <1>2, <1>5 DEF Covers, Closed, Touched, Live
  <2>2. Live \in SUBSET heap'
    BY <1>6
  <2>3. Live' = Live
    BY DEF Live
  <2> QED BY <2>1, <2>2, <2>3 DEF HeapIsSound
<1>9. CollectIsAtomic'
  BY DEF CollectIsAtomic, Live, bytes_allocated, tuning
<1> QED BY <1>3, <1>4, <1>7, <1>8, <1>9 DEF IInv

\* trace_next: one gray object becomes black and its children gray.
LEMMA TraceKeepsIInv == IInv /\ TypeInv' /\ trace_next => IInv'
<1> SUFFICES ASSUME IInv, TypeInv', trace_next PROVE IInv'
  OBVIOUS
<1> USE DEF trace_next, heapVars
<1>1. PICK o \in gray : trace_obj(o)
  OBVIOUS
<1>2. o \in Obj /\ color[o] = "gray" /\ marking
  BY DEF IInv, GrayIsQueued, PcMatchesMark
<1>3. PICK S \in SUBSET heap : Covers(S) /\ S = liveAtMark
  BY <1>2 DEF IInv, HeapIsSound
<1>4. o \in S /\ refs[o] \subseteq S
  BY <1>2, <1>3 DEF Covers, Closed, Touched
<1>5. /\ color' \in [Obj -> Colors]
      /\ \A x \in Obj : /\ color'[x] = IF x = o THEN "black"
                                      ELSE IF x \in refs[o] /\ color[x] = "white" THEN "gray"
                                      ELSE color[x]
      /\ gray' = (gray \ {o}) \cup {x \in refs[o] \ {o} : color[x] = "white"}
  BY <1>1, <1>2 DEF trace_obj, Pushable, TypeInv, TypeOK
<1>6. MarksAreWhole'
  <2> SUFFICES ASSUME StepSize >= Cardinality(Obj), pc = "step"
               PROVE  Cardinality(Untraced') <= budget'
    BY DEF MarksAreWhole, IInv, TypeInv, TypeOK
  <2>1. Untraced' = Untraced \ {o} /\ o \in Untraced
    BY <1>2, <1>5 DEF Untraced
  <2>2. Cardinality(Untraced') = Cardinality(Untraced) - 1
    <3>1. IsFiniteSet(Untraced)
      BY ObjectsCount DEF Untraced
    <3> QED BY <2>1, <3>1, FS_RemoveElement
  <2>3. Cardinality(Untraced) <= budget
    BY DEF IInv, MarksAreWhole
  <2> QED BY <2>2, <2>3, ObjectsCount DEF Untraced, IInv, TypeInv, TypeOK
<1>7. GrayIsQueued'
  BY <1>2, <1>5 DEF IInv, TypeInv, TypeOK, GrayIsQueued
<1>8. FreeIsBlank'
  BY <1>4, <1>5 DEF IInv, FreeIsBlank
<1>9. TriColor'
  <2>1. \A x \in Obj : color[x] # "white" => color'[x] # "white"
    BY <1>5
  <2>2. \A v \in refs[o] : color'[v] # "white"
    BY <1>2, <1>5 DEF IInv, TypeInv, TypeOK
  <2>3. ASSUME NEW x \in heap, color'[x] = "black", NEW v \in refs[x]
        PROVE  color'[v] # "white"
    BY <1>2, <1>5, <2>1, <2>2, <2>3 DEF IInv, TypeInv, TypeOK, TriColor
  <2>4. \A x \in roots : color'[x] # "white"
    BY <1>2, <2>1 DEF IInv, TypeInv, TypeOK, TriColor
  <2> QED BY <2>3, <2>4 DEF TriColor
<1>10. HeapIsSound'
  <2>1. Covers(S)'
    BY <1>3, <1>4, <1>5 DEF Covers, Closed, Touched
  <2> QED BY <1>3, <2>1 DEF HeapIsSound
<1>11. StringsAreLeaves' /\ PcMatchesMark' /\ MarkStartsClean' /\ CollectIsAtomic'
  BY <1>2 DEF IInv, StringsAreLeaves, PcMatchesMark, MarkStartsClean, CollectIsAtomic, Live,
              bytes_allocated, tuning
<1> QED BY <1>6, <1>7, <1>8, <1>9, <1>10, <1>11 DEF IInv

\* A step of the collector whose budget is spent leaves the mark to the next one.
LEMMA SuspendKeepsIInv == IInv /\ TypeInv' /\ step_suspend => IInv'
<1> SUFFICES ASSUME IInv, TypeInv', step_suspend PROVE IInv'
  OBVIOUS
<1> USE DEF step_suspend, heapVars, headers
<1>1. MarksAreWhole'
  <2> SUFFICES ASSUME StepSize >= Cardinality(Obj) PROVE FALSE
    BY DEF MarksAreWhole
  <2>1. PICK o \in Untraced : TRUE
    BY DEF IInv, GrayIsQueued, Untraced
  <2>2. IsFiniteSet(Untraced) /\ Cardinality(Untraced) \in Nat
    BY ObjectsCount DEF Untraced
  <2>3. Cardinality(Untraced) # 0
    BY <2>1, <2>2, FS_EmptySet
  <2> QED BY <2>2, <2>3 DEF IInv, MarksAreWhole
<1>2. GrayIsQueued' /\ FreeIsBlank' /\ StringsAreLeaves' /\ MarkStartsClean' /\ TriColor'
  BY DEF IInv, GrayIsQueued, FreeIsBlank, StringsAreLeaves, MarkStartsClean, TriColor
<1>3. PcMatchesMark' /\ CollectIsAtomic'
  BY DEF PcMatchesMark, CollectIsAtomic
<1>4. HeapIsSound'
  BY DEF IInv, HeapIsSound, Covers, Touched
<1> QED BY <1>1, <1>2, <1>3, <1>4 DEF IInv

\* With nothing left to trace, what is black is closed around the roots.
LEMMA BlackIsClosed ==
    ASSUME IInv, marking, gray = {}
    PROVE  LET black == {o \in heap : color[o] = "black"} IN
           /\ roots \subseteq black
           /\ Closed(black, refs)
           /\ Live \subseteq black
           /\ black \subseteq liveAtMark
<1> DEFINE black == {o \in heap : color[o] = "black"}
<1> HIDE DEF black
<1>1. \A o \in Obj : color[o] # "white" => o \in black
  BY DEF black, IInv, TypeInv, TypeOK, Colors, GrayIsQueued, FreeIsBlank
<1>2. roots \subseteq black
  BY <1>1 DEF IInv, TypeInv, TypeOK, TriColor
<1>3. Closed(black, refs)
  BY <1>1 DEF Closed, black, IInv, TypeInv, TypeOK, TriColor
<1>4. Live \subseteq black
  BY <1>2, <1>3, ReachableIsLeast DEF black, Live, IInv, TypeInv, TypeOK
<1>5. black \subseteq liveAtMark
  BY DEF black, IInv, TypeInv, TypeOK, HeapIsSound, Covers, Touched
<1> QED BY <1>2, <1>3, <1>4, <1>5 DEF black

\* A sweep when no object is gray: the white objects it frees are unreachable.
LEMMA SweepKeepsIInv ==
    ASSUME IInv, TypeInv', pc # "vm", gray = {}, NEW major \in BOOLEAN,
           sweep_generation(major), ~marking', pc' = "vm"
    PROVE  IInv'
<1> USE DEF sweep_generation
<1>1. marking
  BY DEF IInv, PcMatchesMark
<1> PICK black : black = {o \in heap : color[o] = "black"}
  OBVIOUS
<1>2. roots \subseteq black /\ Closed(black, refs)
  BY <1>1, BlackIsClosed
<1>3. black \subseteq heap' /\ heap' \subseteq heap
  BY DEF Survives
<1>4. \A o \in Obj : color'[o] = "white"
  BY DEF ColorAfterMinor
<1>5. \A o \in Obj : refs'[o] = IF o \in heap' THEN refs[o] ELSE {}
  OBVIOUS
<1>6. MarksAreWhole' /\ GrayIsQueued' /\ PcMatchesMark' /\ MarkStartsClean' /\ TriColor'
      /\ CollectIsAtomic'
  BY <1>4 DEF MarksAreWhole, GrayIsQueued, PcMatchesMark, MarkStartsClean, TriColor,
              CollectIsAtomic
<1>7. FreeIsBlank' /\ StringsAreLeaves'
  BY <1>4, <1>5 DEF IInv, FreeIsBlank, StringsAreLeaves, Obj
<1>8. HeapIsSound'
  <2>1. Covers(black)'
    BY <1>2, <1>3, <1>4, <1>5 DEF Covers, Closed, Touched, TypeInv, TypeOK
  <2> QED BY <1>3, <2>1 DEF HeapIsSound
<1> QED BY <1>6, <1>7, <1>8 DEF IInv

\* Every step keeps the inductive invariant.
LEMMA IInvStep == Regime /\ IInv /\ [Next]_vars => IInv'
<1> SUFFICES ASSUME Regime, IInv, [Next]_vars PROVE IInv'
  OBVIOUS
<1>0. TypeInv'
  BY TypeInvStep DEF IInv
<1>1. CASE UNCHANGED vars
  <2> USE <1>1 DEF vars
  <2>1. MarksAreWhole' /\ GrayIsQueued' /\ FreeIsBlank' /\ StringsAreLeaves' /\ PcMatchesMark'
    BY DEF IInv, MarksAreWhole, Untraced, GrayIsQueued, FreeIsBlank, StringsAreLeaves,
           PcMatchesMark
  <2>2. MarkStartsClean' /\ TriColor' /\ HeapIsSound' /\ CollectIsAtomic'
    BY DEF IInv, MarkStartsClean, TriColor, HeapIsSound, Covers, Touched, CollectIsAtomic, Live,
           bytes_allocated
  <2> QED BY <1>0, <2>1, <2>2 DEF IInv
<1>2. CASE VMStep
  BY <1>0, <1>2, VMStepKeepsIInv
<1>3. CASE step_resume
  <2> USE <1>3 DEF step_resume, VMRuns, heapVars, headers
  <2>1. MarksAreWhole'
    <3>1. StepSize >= Cardinality(Obj) => FALSE
      BY DEF IInv, MarksAreWhole
    <3> QED BY <3>1 DEF MarksAreWhole
  <2>2. GrayIsQueued' /\ FreeIsBlank' /\ StringsAreLeaves' /\ PcMatchesMark' /\ MarkStartsClean'
    BY DEF IInv, GrayIsQueued, FreeIsBlank, StringsAreLeaves, PcMatchesMark, MarkStartsClean
  <2>3. TriColor' /\ HeapIsSound' /\ CollectIsAtomic'
    BY DEF IInv, TriColor, HeapIsSound, Covers, Touched, CollectIsAtomic
  <2> QED BY <1>0, <2>1, <2>2, <2>3 DEF IInv
<1>4. CASE step_collect
  BY <1>0, <1>4, MarkStartKeepsIInv DEF step_collect, VMRuns
<1>5. CASE step_start
  BY <1>0, <1>5, MarkStartKeepsIInv DEF step_start, VMRuns
<1>6. CASE trace_next
  BY <1>0, <1>6, TraceKeepsIInv
<1>7. CASE step_suspend
  BY <1>0, <1>7, SuspendKeepsIInv
<1>8. CASE step_finish
  BY <1>0, <1>8, SweepKeepsIInv DEF step_finish
<1>9. CASE collect_finish
  BY <1>0, <1>9, SweepKeepsIInv DEF collect_finish, collect_is_major
<1> QED BY <1>1, <1>2, <1>3, <1>4, <1>5, <1>6, <1>7, <1>8, <1>9
        DEF Next, Safepoint, Collector

\* The inductive invariant holds throughout: what is traced never refers to what is
\* untouched, for a script that keeps to Regime.
THEOREM Inductive == ASSUME Regime PROVE Spec => []IInv
<1>1. IInv /\ [Next]_vars => IInv'
  BY IInvStep
<1> QED BY InitIInv, <1>1, PTL DEF Spec

\* The set that IInv speaks of holds everything the script can reach.
LEMMA IInvIsSafe == IInv => NoLiveObjectFreed
<1> SUFFICES ASSUME IInv PROVE Live \subseteq heap
  BY DEF NoLiveObjectFreed
<1>1. PICK S \in SUBSET heap : Covers(S)
  BY DEF IInv, HeapIsSound
<1> QED BY <1>1, ReachableIsLeast DEF IInv, TypeInv, TypeOK, Live, Covers

----------------------------------------------------------------------------
(* The theorems                                                            *)

\* In either regime no object the script can reach is ever freed: neither a sweep of
\* the young objects behind old ones, nor a mark resumed after stores, nor an interned
\* string found again loses one (gc_step, gc_collect, sweep_generation).
THEOREM Safety == ASSUME Regime PROVE Spec => []NoLiveObjectFreed
BY Inductive, IInvIsSafe, PTL

\* In either regime a mark that begins meets only white objects and an empty gray stack
\* (gray_push, the whitening of sweep_generation).
THEOREM MarkMeetsWhite == ASSUME Regime PROVE Spec => []MarkStartsClean
<1>1. IInv => MarkStartsClean
  BY DEF IInv
<1> QED BY Inductive, <1>1, PTL

\* In either regime, while a mark is on, every root is marked and no traced object refers to
\* an untouched one (gray_push, trace_obj, the stores).
THEOREM MarkIsSound == ASSUME Regime PROVE Spec => []TriColor
<1>1. IInv => TriColor
  BY DEF IInv
<1> QED BY Inductive, <1>1, PTL

\* In either regime a sweep keeps of the young objects only those that were reachable
\* when its mark began, and gc_collect keeps nothing but what is reachable.
THEOREM SweepExactness == ASSUME Regime PROVE Spec => SweepIsExact
<1>1. ASSUME IInv, step_finish PROVE {o \in heap' : gen[o] = "young"} \subseteq liveAtMark
  <2>1. marking /\ gray = {}
    BY <1>1 DEF step_finish, IInv, PcMatchesMark
  <2>2. {o \in heap : color[o] = "black"} \subseteq liveAtMark
    BY <1>1, <2>1, BlackIsClosed
  <2> QED BY <1>1, <2>2 DEF step_finish, sweep_generation, Survives
<1>2. ASSUME IInv, collect_finish PROVE heap' \subseteq Live
  <2> USE <1>2 DEF collect_finish
  <2>1. marking /\ gray = {}
    BY DEF IInv, PcMatchesMark
  <2>2. {o \in heap : color[o] = "black"} \subseteq Live
    BY <2>1, BlackIsClosed DEF IInv, CollectIsAtomic
  <2>3. collect_is_major
    BY DEF IInv, CollectIsAtomic, collect_is_major
  <2> QED BY <2>2, <2>3 DEF sweep_generation, Survives
<1>3. IInv /\ [Next]_vars => [ /\ step_finish => {o \in heap' : gen[o] = "young"} \subseteq liveAtMark
                               /\ collect_finish => heap' \subseteq Live ]_vars
  BY <1>1, <1>2
<1> QED BY Inductive, <1>3, PTL DEF Spec, SweepIsExact

\* Whatever the script does, an object is promoted by surviving PromoteAge sweeps and an
\* old object dies in gc_collect's sweep only (sweep_generation, in both its modes).
THEOREM Generations == Spec => OldDiesInMajorOnly
<1> DEFINE Fate(o) == /\ o \notin heap' /\ gen[o] = "old" => collect_finish
                      /\ gen[o] = "young" /\ gen'[o] = "old" => age'[o] = PromoteAge
<1>1. ASSUME TypeInv, Next, NEW o \in heap PROVE Fate(o)
  <2> USE DEF TypeInv, TypeOK, headers, heapVars
  <2>1. CASE VMStep
    <3>1. o \in heap' /\ gen'[o] = gen[o]
      BY <1>1, <2>1 DEF VMStep, gc_string, gc_array, gc_dict, alloc_obj, gc_arr_push, array_set,
         gc_dict_set, gc_dict_delete, arr_pop, array_index, drop_root
    <3> QED BY <3>1
  <2>2. CASE Safepoint \/ trace_next \/ step_suspend
    BY <1>1, <2>2 DEF Safepoint, step_resume, step_collect, step_start, trace_next, step_suspend
  <2>3. ASSUME NEW major \in BOOLEAN, sweep_generation(major)
        PROVE  /\ o \notin heap' /\ gen[o] = "old" => major
               /\ gen[o] = "young" /\ gen'[o] = "old" => age'[o] = PromoteAge
    BY <1>1, <2>3, TuningAssumption DEF sweep_generation, Survives, Promotes, YoungIsUnderAge
  <2>4. CASE step_finish
    BY <2>3, <2>4 DEF step_finish
  <2>5. CASE collect_finish
    BY <2>3, <2>5 DEF collect_finish, collect_is_major
  <2> QED BY <1>1, <2>1, <2>2, <2>4, <2>5 DEF Next, Collector
<1>2. TypeInv /\ [Next]_vars => [\A o \in heap : Fate(o)]_vars
  BY <1>1
<1>3. Spec => []TypeInv
  BY InitTypeInv, TypeInvStep, PTL DEF Spec
<1> QED BY <1>2, <1>3, PTL DEF Spec, OldDiesInMajorOnly

----------------------------------------------------------------------------
(* The collector implements HeapSpec                                       *)

\* The empty heap gc_init leaves is an empty abstract heap.
LEMMA InitRefines == Init => Abstract!Init
BY DEF Init, gc_init, Abstract!Init

\* An operation of the script is one of the abstract heap, or changes nothing it can see.
LEMMA VMStepRefines == IInv /\ VMStep => Abstract!Next
<1> SUFFICES ASSUME IInv, VMStep PROVE Abstract!Next
  OBVIOUS
<1> USE KindsAssumption DEF IInv, TypeInv, TypeOK
<1>0. ASSUME NEW c \in Obj, NEW D \in SUBSET refs[c], NEW V \in SUBSET roots,
             Abstract!Update(c, D, V)
      PROVE  Abstract!Next
  BY <1>0 DEF Abstract!Next
<1>1. ASSUME NEW o \in Obj, alloc_obj(o) PROVE Abstract!Next
  BY <1>1 DEF alloc_obj, Abstract!Next, Abstract!Allocate
<1>2. ASSUME NEW s \in Str, gc_string(s) PROVE Abstract!Next
  <2>1. CASE s \in heap /\ roots' = roots \cup {s} /\ UNCHANGED <<heap, refs>>
    BY <2>1 DEF Abstract!Next, Abstract!FindString
  <2> QED BY <1>1, <1>2, <2>1 DEF gc_string, Obj
<1>3. ASSUME NEW a \in Arr, gc_array(a) PROVE Abstract!Next
  BY <1>1, <1>3 DEF gc_array, Obj
<1>4. ASSUME NEW d \in Dict, gc_dict(d) PROVE Abstract!Next
  BY <1>1, <1>4 DEF gc_dict, Obj
<1>5. ASSUME NEW a \in Arr, NEW v \in Obj, gc_arr_push(a, v) PROVE Abstract!Next
  <2>1. Abstract!Update(a, {}, {v}) /\ a \in Obj
    BY <1>5 DEF gc_arr_push, Abstract!Update, Obj
  <2> QED BY <1>0, <1>5, <2>1 DEF gc_arr_push
<1>6. ASSUME NEW a \in Arr, NEW v \in Obj, NEW D \in SUBSET refs[a], array_set(a, v, D)
      PROVE  Abstract!Next
  <2>1. Abstract!Update(a, D, {v}) /\ a \in Obj
    BY <1>6 DEF array_set, Abstract!Update, Obj
  <2> QED BY <1>0, <1>6, <2>1 DEF array_set
<1>7. ASSUME NEW d \in Dict, NEW k \in Str, NEW v \in Obj, NEW D \in SUBSET refs[d],
             gc_dict_set(d, k, v, D)
      PROVE  Abstract!Next
  <2>1. Abstract!Update(d, D, {k, v}) /\ d \in Obj
    BY <1>7 DEF gc_dict_set, Abstract!Update, Obj
  <2> QED BY <1>0, <1>7, <2>1 DEF gc_dict_set
<1>8. ASSUME NEW d \in Dict, NEW D \in SUBSET refs[d], gc_dict_delete(d, D)
      PROVE  Abstract!Next
  <2>1. Abstract!Update(d, D, {}) /\ d \in Obj
    BY <1>8 DEF gc_dict_delete, Abstract!Update, Obj
  <2> QED BY <1>0, <2>1
<1>9. ASSUME NEW c \in Obj, NEW v \in Obj, c \in roots, v \in refs[c],
             roots' = roots \cup {v}, UNCHANGED <<heap, refs>>
      PROVE  Abstract!Next
  BY <1>9 DEF Abstract!Next, Abstract!Follow
<1>10. ASSUME NEW a \in Arr, NEW v \in Obj, NEW D \in SUBSET {v}, arr_pop(a, v, D)
       PROVE  Abstract!Next
  <2>1. CASE D = {v}
    <3>1. Abstract!Update(a, {v}, {}) /\ a \in Obj /\ {v} \in SUBSET refs[a]
      BY <1>10, <2>1 DEF arr_pop, Abstract!Update, Obj
    <3> QED BY <1>0, <3>1
  <2>2. CASE D = {}
    BY <1>9, <1>10, <2>2 DEF arr_pop, Obj
  <2> QED BY <1>10, <2>1, <2>2
<1>11. ASSUME NEW c \in Arr \cup Dict, NEW v \in Obj, array_index(c, v) PROVE Abstract!Next
  BY <1>9, <1>11 DEF array_index, Obj
<1>12. ASSUME NEW v \in Obj, drop_root(v) PROVE Abstract!Next
  BY <1>12 DEF drop_root, Abstract!Next, Abstract!Drop
<1> QED BY <1>2, <1>3, <1>4, <1>5, <1>6, <1>7, <1>8, <1>10, <1>11, <1>12 DEF VMStep, AtMost

\* A sweep is a step of the abstract heap in which only unreachable objects vanish.
LEMMA SweepRefines ==
    ASSUME IInv, pc # "vm", gray = {}, NEW major \in BOOLEAN, sweep_generation(major)
    PROVE  Abstract!Next
<1> DEFINE D == heap \ heap'
<1>1. Live \subseteq heap'
  <2>1. marking
    BY DEF IInv, PcMatchesMark
  <2> QED BY <2>1, BlackIsClosed DEF sweep_generation, Survives
<1>2. D \cap Abstract!Reachable(Obj, roots, refs) = {}
  BY <1>1 DEF Live, Reachable, Closed, Abstract!Reachable, Abstract!Closed
<1>3. heap' = heap \ D
  BY DEF sweep_generation
<1>4. refs' = [o \in Obj |-> IF o \in D THEN {} ELSE refs[o]]
  BY DEF sweep_generation, IInv, FreeIsBlank, TypeInv, TypeOK
<1>5. Abstract!Reclaim(D) /\ D \in SUBSET heap
  BY <1>2, <1>3, <1>4 DEF Abstract!Reclaim, sweep_generation
<1> QED BY <1>5 DEF Abstract!Next

\* In either regime the collector implements HeapSpec: a script sees its heap change by
\* its own operations only, and by the disappearance of what it cannot reach.
THEOREM Refinement == ASSUME Regime PROVE Spec => ImplementsHeapSpec
<1>1. ASSUME IInv, [Next]_vars PROVE [Abstract!Next]_(Abstract!vars)
  <2> USE <1>1 DEF Abstract!vars
  <2>1. CASE UNCHANGED vars
    BY <2>1 DEF vars
  <2>2. CASE VMStep
    BY <2>2, VMStepRefines
  <2>3. CASE Safepoint \/ trace_next \/ step_suspend
    BY <2>3 DEF Safepoint, step_resume, step_collect, step_start, trace_next, step_suspend,
                heapVars
  <2>4. CASE step_finish
    BY <2>4, SweepRefines DEF step_finish
  <2>5. CASE collect_finish
    BY <2>5, SweepRefines DEF collect_finish, collect_is_major
  <2> QED BY <2>1, <2>2, <2>3, <2>4, <2>5 DEF Next, Collector
<1> QED BY InitRefines, <1>1, Inductive, PTL DEF Spec, Abstract!Spec, ImplementsHeapSpec
=============================================================================
