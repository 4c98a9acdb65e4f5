------------------------------- MODULE ChnGC -------------------------------
(***************************************************************************)
(* The garbage collector of CHN 1.1 (src/v1.1/gc.c) and the VM operations  *)
(* that allocate, link and drop objects between its safepoints.            *)
(*                                                                         *)
(* gc_step runs at a safepoint: it starts a mark, traces at most StepSize  *)
(* objects, and returns to the VM with the mark suspended when gray objects*)
(* are left; the VM then runs on until the next safepoint. pc says who     *)
(* runs: "vm", or the body of gc_step ("step") or gc_collect ("collect"),  *)
(* whose trace loop is one TLA+ step per object. No allocation collects,   *)
(* so nothing else interleaves.                                            *)
(*                                                                         *)
(* What an object refers to is a set (positions and multiplicity are left  *)
(* out: an update may or may not remove the last copy of a reference), a   *)
(* string object is its content (gc_string interns), and bytes_allocated   *)
(* is the number of objects. A freed object's fields are reset, so that a  *)
(* state does not depend on the garbage left in freed memory.              *)
(***************************************************************************)
EXTENDS Naturals, FiniteSets, HeapGraph

CONSTANTS
    Arr, Dict,          \* addresses the allocator can hand out for arrays, for dicts
    Str,                \* string contents the script uses
    StepSize,           \* GC_STEP_SIZE: objects traced per safepoint
    PromoteAge,         \* GC_PROMOTE_AGE
    MajorEvery,         \* GC_MAJOR_EVERY
    YoungThreshold,     \* GC_YOUNG_THRESHOLD
    MajorThreshold,     \* GC_MAJOR_THRESHOLD
    GrowthFactor,       \* GC_GROWTH_FACTOR
    GrowsWhileMarking   \* may the script allocate or load references while a
                        \* mark is suspended? FALSE: it only stores and drops

Obj == Arr \cup Dict \cup Str

ASSUME KindsAssumption ==
    /\ Arr \cap Dict = {} /\ Arr \cap Str = {} /\ Dict \cap Str = {}
    /\ IsFiniteSet(Obj)
ASSUME TuningAssumption ==
    /\ StepSize \in Nat \ {0} /\ PromoteAge \in Nat \ {0} /\ MajorEvery \in Nat \ {0}
    /\ YoungThreshold \in Nat /\ MajorThreshold \in Nat /\ GrowthFactor \in Nat
    /\ GrowsWhileMarking \in BOOLEAN

VARIABLES
    heap, refs, roots,  \* gc.objects, array items and dict entries, stack and globals
    color, gen, age,    \* the Obj header
    gray,               \* gc.gray.stack: popped in any order, its order being data
    marking,            \* gc.marking
    minor,              \* gc.minor_collections: 0 before the first, then in 1..MajorEvery
    next_gc_young, next_gc_major,
    pc, budget,         \* who runs; gc_step's n
    liveAtMark          \* history: what was reachable when the mark began

heapVars == <<heap, refs, roots>>
headers == <<color, gen, age>>
tuning == <<minor, next_gc_young, next_gc_major>>
vars == <<heap, refs, roots, color, gen, age, gray, marking, minor,
          next_gc_young, next_gc_major, pc, budget, liveAtMark>>

Colors == {"white", "gray", "black"}

TypeOK ==
    /\ heap \subseteq Obj /\ roots \subseteq Obj /\ gray \subseteq Obj
    /\ refs \in [Obj -> SUBSET Obj]
    /\ color \in [Obj -> Colors]
    /\ gen \in [Obj -> {"young", "old"}]
    /\ age \in [Obj -> 0..PromoteAge]
    /\ marking \in BOOLEAN
    /\ minor \in 0..MajorEvery
    /\ next_gc_young \in Nat /\ next_gc_major \in Nat
    /\ pc \in {"vm", "step", "collect"}
    /\ budget \in 0..StepSize
    /\ liveAtMark \subseteq Obj

gc_init ==
    /\ heap = {} /\ roots = {} /\ gray = {}
    /\ refs = [o \in Obj |-> {}]
    /\ color = [o \in Obj |-> "white"]
    /\ gen = [o \in Obj |-> "young"]
    /\ age = [o \in Obj |-> 0]
    /\ marking = FALSE
    /\ minor = 0
    /\ next_gc_young = YoungThreshold
    /\ next_gc_major = MajorThreshold
    /\ pc = "vm" /\ budget = 0
    /\ liveAtMark = {}

Live == Reachable(Obj, roots, refs)

----------------------------------------------------------------------------
(* Marking                                                                 *)

\* Mutant: gray_push queues an object whatever its colour.
PushableAnyColor(S) == S

\* The objects of S that gray_push queues: it ignores all but white ones.
Pushable(S) == {o \in S : color[o] = "white"}

gray_push(S) ==
    /\ color' = [o \in Obj |-> IF o \in Pushable(S) THEN "gray" ELSE color[o]]
    /\ gray' = gray \cup Pushable(S)

\* The barrier queues the stored values if the container is old and a mark is on.
GC_WRITE_BARRIER(c, V) ==
    IF gen[c] = "old" /\ marking THEN gray_push(V) ELSE UNCHANGED <<color, gray>>

mark_vm_roots == gray_push(roots)

\* Mutant: the elements of a dict are not traced, only its keys are.
trace_keys_only(o) ==
    LET found == Pushable(IF o \in Dict THEN refs[o] \cap Str ELSE refs[o]) IN
    /\ color' = [x \in Obj |-> IF x = o THEN "black"
                               ELSE IF x \in found THEN "gray" ELSE color[x]]
    /\ gray' = (gray \ {o}) \cup found

\* Pop o, blacken it, queue what it refers to. Nothing gray is ever black, so
\* the early return of trace_obj is never taken.
trace_obj(o) ==
    LET found == Pushable(refs[o] \ {o}) IN
    /\ color' = [x \in Obj |-> IF x = o THEN "black"
                               ELSE IF x \in found THEN "gray" ELSE color[x]]
    /\ gray' = (gray \ {o}) \cup found

----------------------------------------------------------------------------
(* The VM between safepoints                                               *)

VMRuns == pc = "vm"

\* The script may take hold of one more object.
MayGainRoot == VMRuns /\ (GrowsWhileMarking \/ ~marking)

\* The header every allocation writes, and the object linked in.
alloc_obj(o) ==
    /\ o \notin heap
    /\ heap' = heap \cup {o}
    /\ roots' = roots \cup {o}
    /\ color' = [color EXCEPT ![o] = "white"]
    /\ gen' = [gen EXCEPT ![o] = "young"]
    /\ age' = [age EXCEPT ![o] = 0]
    /\ UNCHANGED <<refs, gray, marking, tuning, pc, budget, liveAtMark>>

\* A string of this content: the interned object if there is one, else a new one.
gc_string(s) ==
    /\ MayGainRoot
    /\ \/ /\ s \in heap
          /\ roots' = roots \cup {s}
          /\ UNCHANGED <<heap, refs, headers, gray, marking, tuning, pc, budget, liveAtMark>>
       \/ alloc_obj(s)

gc_array(a) == MayGainRoot /\ alloc_obj(a)

gc_dict(d) == MayGainRoot /\ alloc_obj(d)

\* a.push(v): no barrier.
gc_arr_push(a, v) ==
    /\ VMRuns
    /\ a \in roots /\ v \in roots
    /\ refs' = [refs EXCEPT ![a] = @ \cup {v}]
    /\ UNCHANGED <<heap, roots, headers, gray, marking, tuning, pc, budget, liveAtMark>>

\* a[i] = v, where a[i] referred to what D holds, if it held a reference.
array_set(a, v, D) ==
    /\ VMRuns
    /\ a \in roots /\ v \in roots
    /\ refs' = [refs EXCEPT ![a] = (@ \ D) \cup {v}]
    /\ GC_WRITE_BARRIER(a, {v})
    /\ UNCHANGED <<heap, roots, gen, age, marking, tuning, pc, budget, liveAtMark>>

\* d[k] = v
gc_dict_set(d, k, v, D) ==
    /\ VMRuns
    /\ d \in roots /\ k \in roots /\ v \in roots
    /\ refs' = [refs EXCEPT ![d] = (@ \ D) \cup {k, v}]
    /\ GC_WRITE_BARRIER(d, {k, v})
    /\ UNCHANGED <<heap, roots, gen, age, marking, tuning, pc, budget, liveAtMark>>

\* d.delete(k): the key and the value go; the result is a boolean.
gc_dict_delete(d, D) ==
    /\ VMRuns
    /\ d \in roots
    /\ refs' = [refs EXCEPT ![d] = @ \ D]
    /\ UNCHANGED <<heap, roots, headers, gray, marking, tuning, pc, budget, liveAtMark>>

\* a.pop(): the last element, on the stack; another copy of it may stay.
arr_pop(a, v, D) ==
    /\ MayGainRoot
    /\ a \in roots /\ v \in refs[a]
    /\ refs' = [refs EXCEPT ![a] = @ \ D]
    /\ roots' = roots \cup {v}
    /\ UNCHANGED <<heap, headers, gray, marking, tuning, pc, budget, liveAtMark>>

\* c[i], c.k: the value, on the stack.
array_index(c, v) ==
    /\ MayGainRoot
    /\ c \in roots /\ v \in refs[c]
    /\ roots' = roots \cup {v}
    /\ UNCHANGED <<heap, refs, headers, gray, marking, tuning, pc, budget, liveAtMark>>

\* The last stack slot or global holding v is popped, overwritten or returned from.
drop_root(v) ==
    /\ VMRuns
    /\ v \in roots
    /\ roots' = roots \ {v}
    /\ UNCHANGED <<heap, refs, headers, gray, marking, tuning, pc, budget, liveAtMark>>

AtMost(n, S) == {D \in SUBSET S : Cardinality(D) <= n}

VMStep ==
    \/ \E s \in Str : gc_string(s)
    \/ \E a \in Arr : gc_array(a)
    \/ \E d \in Dict : gc_dict(d)
    \/ \E a \in Arr, v \in Obj : gc_arr_push(a, v)
    \/ \E a \in Arr, v \in Obj : \E D \in AtMost(1, refs[a]) : array_set(a, v, D)
    \/ \E d \in Dict, k \in Str, v \in Obj :
          \E D \in AtMost(1, refs[d]) : gc_dict_set(d, k, v, D)
    \/ \E d \in Dict : \E D \in AtMost(2, refs[d]) : gc_dict_delete(d, D)
    \/ \E a \in Arr, v \in Obj : \E D \in SUBSET {v} : arr_pop(a, v, D)
    \/ \E c \in Arr \cup Dict, v \in Obj : array_index(c, v)
    \/ \E v \in Obj : drop_root(v)

----------------------------------------------------------------------------
(* Sweeping                                                                *)

bytes_allocated == Cardinality(heap)

\* Mutant: an old object left alone by a minor sweep keeps the colour of the mark.
ColorOfKeptOld(o) == color[o]

\* The colour an old object has after a minor sweep.
ColorAfterMinor(o) == "white"

\* Mutant: the generation test is the wrong way round.
SurvivesIfYoung(o, major) == color[o] = "black" \/ (gen[o] = "young" /\ ~major)

Survives(o, major) == color[o] = "black" \/ (gen[o] = "old" /\ ~major)

\* Mutant: reaching the promotion age is missed by one survival.
PromotesLate(o) == age[o] + 1 > PromoteAge

Promotes(o) == age[o] + 1 >= PromoteAge

\* A young survivor ages, and is promoted at PromoteAge; a minor sweep keeps every
\* old object; all that is kept is white again.
sweep_generation(major) ==
    LET live == {o \in heap : Survives(o, major)}
        aged == {o \in live : color[o] = "black" /\ gen[o] = "young"}
    IN  /\ heap' = live
        /\ refs' = [o \in Obj |-> IF o \in live THEN refs[o] ELSE {}]
        /\ color' = [o \in Obj |-> IF o \in live /\ gen[o] = "old" /\ ~major
                                    THEN ColorAfterMinor(o) ELSE "white"]
        /\ age' = [o \in Obj |-> IF o \notin live THEN 0
                                  ELSE IF o \in aged THEN age[o] + 1 ELSE age[o]]
        /\ gen' = [o \in Obj |-> IF o \notin live THEN "young"
                                  ELSE IF o \in aged /\ Promotes(o) THEN "old" ELSE gen[o]]
        /\ UNCHANGED <<roots, gray>>

\* minor_collections counts up for ever; only 0 and its multiples of MajorEvery matter.
count_minor == minor' = IF minor = MajorEvery THEN 1 ELSE minor + 1

YoungLimit(ba) == IF ba < YoungThreshold THEN YoungThreshold ELSE ba * GrowthFactor
MajorLimit(ba) == IF 2 * ba < MajorThreshold THEN MajorThreshold ELSE ba * GrowthFactor * 2

----------------------------------------------------------------------------
(* gc_step at a safepoint, and the gc_collect it may call                  *)

\* A suspended mark goes on, with a fresh budget.
step_resume ==
    /\ VMRuns
    /\ marking /\ gray # {}
    /\ pc' = "step" /\ budget' = StepSize
    /\ UNCHANGED <<heapVars, headers, gray, marking, tuning, liveAtMark>>

\* Otherwise, past the major limit, gc_collect runs to completion.
step_collect ==
    /\ VMRuns
    /\ ~(marking /\ gray # {})
    /\ bytes_allocated > next_gc_major
    /\ marking' = TRUE
    /\ mark_vm_roots
    /\ liveAtMark' = Live
    /\ pc' = "collect"
    /\ UNCHANGED <<heapVars, gen, age, tuning, budget>>

\* Otherwise, past the young limit, a mark starts.
step_start ==
    /\ VMRuns
    /\ ~(marking /\ gray # {})
    /\ bytes_allocated <= next_gc_major
    /\ bytes_allocated > next_gc_young
    /\ marking' = TRUE
    /\ mark_vm_roots
    /\ liveAtMark' = Live
    /\ pc' = "step" /\ budget' = StepSize
    /\ UNCHANGED <<heapVars, gen, age, tuning>>

\* One turn of the trace loop: of gc_collect's, or of gc_step's while n lasts.
trace_next ==
    /\ pc = "collect" \/ (pc = "step" /\ budget > 0)
    /\ \E o \in gray : trace_obj(o)
    /\ budget' = IF pc = "step" THEN budget - 1 ELSE budget
    /\ UNCHANGED <<heapVars, gen, age, marking, tuning, pc, liveAtMark>>

\* n ran out with gray objects left: back to the VM, the mark still on.
step_suspend ==
    /\ pc = "step" /\ gray # {} /\ budget = 0
    /\ pc' = "vm"
    /\ UNCHANGED <<heapVars, headers, gray, marking, tuning, budget, liveAtMark>>

\* The mark is complete: a minor sweep (major_pending is never set).
step_finish ==
    /\ pc = "step" /\ gray = {}
    /\ marking' = FALSE
    /\ liveAtMark' = {}
    /\ sweep_generation(FALSE)
    /\ next_gc_young' = YoungLimit(Cardinality(heap'))
    /\ count_minor
    /\ pc' = "vm" /\ budget' = 0
    /\ UNCHANGED next_gc_major

\* gc_collect is called past the major limit only, so its sweep is a major one.
collect_is_major == bytes_allocated > next_gc_major \/ minor = MajorEvery

collect_finish ==
    /\ pc = "collect" /\ gray = {}
    /\ marking' = FALSE
    /\ liveAtMark' = {}
    /\ sweep_generation(collect_is_major)
    /\ IF collect_is_major THEN UNCHANGED minor ELSE count_minor
    /\ next_gc_young' = YoungLimit(Cardinality(heap'))
    /\ next_gc_major' = MajorLimit(Cardinality(heap'))
    /\ pc' = "vm"
    /\ UNCHANGED budget

Safepoint == step_resume \/ step_collect \/ step_start
Collector == trace_next \/ step_suspend \/ step_finish \/ collect_finish

Init == gc_init
Next == VMStep \/ Safepoint \/ Collector

Spec == Init /\ [][Next]_vars

\* The C loops of the collector run to their end, and a script that keeps looping
\* keeps meeting the safepoint at the head of its loop.
FairSpec == Spec /\ WF_vars(Collector) /\ WF_vars(Safepoint)

----------------------------------------------------------------------------
(* Correctness                                                             *)

\* Nothing the script can still reach is ever freed, whatever was promoted, resumed,
\* relinked or interned in between (sweep_generation against mark_vm_roots,
\* trace_obj and the VM's stores).
NoLiveObjectFreed == Live \subseteq heap

\* A mark meets only white objects: what an earlier sweep kept is white again and the
\* gray stack is empty, so no object is skipped as already traced (gray_push).
MarkStartsClean ==
    ~marking => gray = {} /\ \A o \in Obj : color[o] = "white"

\* While a mark is on, suspended or not, every root is queued or traced and no traced
\* object refers to an untouched one (gray_push, trace_obj, the stores).
TriColor ==
    marking => /\ \A o \in roots : color[o] # "white"
               /\ \A o \in heap : color[o] = "black" =>
                     \A v \in refs[o] : color[v] # "white"

\* Garbage does not survive the cycle that starts after it died: the young objects a
\* sweep keeps were reachable when its mark began, and a major one, which no suspension
\* interrupts, keeps nothing but what is reachable.
SweepIsExact ==
    [][ /\ step_finish => {o \in heap' : gen[o] = "young"} \subseteq liveAtMark
        /\ collect_finish => heap' \subseteq Live ]_vars

\* An object leaves the young generation only by surviving PromoteAge sweeps, and an
\* old object dies in a major collection only (sweep_generation).
OldDiesInMajorOnly ==
    [][ \A o \in heap :
          /\ o \notin heap' /\ gen[o] = "old" => collect_finish
          /\ gen[o] = "young" /\ gen'[o] = "old" => age'[o] = PromoteAge ]_vars

\* A mark that was started is finished, however often it is suspended and whatever
\* the script stores meanwhile (gc_step's budget, gray_push's colour test).
MarkCompletes == marking ~> ~marking

\* The collector implements HeapSpec: all its steps but a sweep leave the heap as it
\* is, and a sweep reclaims unreachable objects only.
Abstract == INSTANCE HeapSpec
ImplementsHeapSpec == Abstract!Spec
=============================================================================
