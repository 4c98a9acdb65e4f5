----------------------------- MODULE ChnStrings -----------------------------
(***************************************************************************)
(* Strings of CHN 1.1 (src/v1.1/gc.c): every string is made by gc_string,  *)
(* which first looks for its text in the intern table, a table of fixed    *)
(* capacity probed linearly. The table keeps nothing alive: the sweep that *)
(* frees a string leaves a tombstone in its slot.                          *)
(*                                                                         *)
(* The strings made while a program is compiled or read from a bytecode    *)
(* file are its constants. Running a source file initialises the collector *)
(* again before the first instruction; running a bytecode file does not.   *)
(***************************************************************************)
EXTENDS ChnTexts, FiniteSets

CONSTANTS
    InternCap,          \* 32768
    Unused, Tombstone

Object == Text \X Copy

ASSUME StringsAssumption ==
    /\ InternCap \in Nat \ {0}
    /\ Unused # Tombstone /\ {Unused, Tombstone} \cap Object = {}

VARIABLES
    phase,      \* "compile" or "run"
    intern,     \* gc.intern
    objects,    \* the strings on gc.objects
    constants,  \* the strings the program's constants refer to
    held        \* those its stack, globals and containers refer to

internVars == <<phase, intern, objects, constants, held>>

Slot == 0..(InternCap - 1)
AllUnused == [i \in Slot |-> Unused]

InternInit ==
    /\ phase = "compile"
    /\ intern = AllUnused
    /\ objects = {} /\ constants = {} /\ held = {}

----------------------------------------------------------------------------
(* The intern table                                                        *)

\* The slot probed for text t at turn i.
SlotAt(t, i) == (Hash[t] + i) % InternCap

\* The turns at which a search for t is still on: no slot before was never used.
Reached(t) == {i \in Slot : \A j \in 0..(i - 1) : intern[SlotAt(t, j)] # Unused}

\* The string found for t: none or one.
intern_find(t) ==
    LET hits == {i \in Reached(t) : intern[SlotAt(t, i)] \in {t} \X Copy}
    IN  {intern[SlotAt(t, i)] : i \in {i \in hits : \A j \in hits : i <= j}}

\* The turns at which intern_insert meets a slot in state e, the first of them only.
FirstIn(t, e) ==
    {i \in Reached(t) : intern[SlotAt(t, i)] = e /\ \A j \in 0..(i - 1) : intern[SlotAt(t, j)] # e}

\* Mutant: tombstones are not used again.
unused_slots_only(t) == FirstIn(t, Unused)

\* The turn at which t is inserted: none if every slot holds a string.
Insertion(t) == IF FirstIn(t, Unused) # {} THEN FirstIn(t, Unused) ELSE FirstIn(t, Tombstone)

intern_insert(s) ==
    intern' = [i \in Slot |->
                 IF \E n \in Insertion(TextOf(s)) : i = SlotAt(TextOf(s), n) THEN s ELSE intern[i]]

\* The slots in which intern_evict finds s.
EvictedSlots(s) ==
    {SlotAt(TextOf(s), i) : i \in {i \in Reached(TextOf(s)) : intern[SlotAt(TextOf(s), i)] = s}}

\* Mutant: the slot of a freed string counts as never used.
slot_reopened(D) ==
    intern' = [i \in Slot |-> IF \E s \in D : i \in EvictedSlots(s) THEN Unused ELSE intern[i]]

\* Freeing the strings of D: no eviction changes where another search ends.
intern_evict(D) ==
    intern' = [i \in Slot |-> IF \E s \in D : i \in EvictedSlots(s) THEN Tombstone ELSE intern[i]]

----------------------------------------------------------------------------
(* Making and freeing strings                                              *)

\* s is the string gc_string returns for t.
gc_string(t, s) ==
    \/ s \in intern_find(t) /\ UNCHANGED <<intern, objects>>
    \/ /\ intern_find(t) = {}
       /\ s \in ({t} \X Copy) \ (objects \cup constants)
       /\ intern_insert(s)
       /\ objects' = objects \cup {s}

\* The compiler, or the reader of a bytecode file, makes a constant.
constant(t) ==
    /\ phase = "compile"
    /\ \E s \in {t} \X Copy : gc_string(t, s) /\ constants' = constants \cup {s}
    /\ UNCHANGED <<phase, held>>

\* A program compiled from source: vm_init forgets every object made so far.
run_chunk ==
    /\ phase = "compile"
    /\ phase' = "run"
    /\ intern' = AllUnused /\ objects' = {}
    /\ UNCHANGED <<constants, held>>

\* A program read from a bytecode file: vm_init_no_gc leaves the collector alone.
run_cco_file ==
    /\ phase = "compile"
    /\ phase' = "run"
    /\ UNCHANGED <<intern, objects, constants, held>>

\* The program computes a string.
string(t) ==
    /\ phase = "run"
    /\ \E s \in {t} \X Copy : gc_string(t, s) /\ held' = held \cup {s}
    /\ UNCHANGED <<phase, constants>>

\* The program pushes one of its constants.
push_constant(s) ==
    /\ phase = "run"
    /\ s \in constants
    /\ held' = held \cup {s}
    /\ UNCHANGED <<phase, intern, objects, constants>>

\* The program loses its last reference to s.
drop(s) ==
    /\ phase = "run"
    /\ s \in held
    /\ held' = held \ {s}
    /\ UNCHANGED <<phase, intern, objects, constants>>

\* A collection frees the strings of D, all of them unreachable.
sweep(D) ==
    /\ phase = "run"
    /\ D # {} /\ D \cap (held \cup constants) = {}
    /\ intern_evict(D)
    /\ objects' = objects \ D
    /\ UNCHANGED <<phase, constants, held>>

InternNext ==
    \/ run_chunk
    \/ run_cco_file
    \/ \E t \in Text : constant(t) \/ string(t)
    \/ \E s \in constants : push_constant(s)
    \/ \E s \in held : drop(s)
    \/ \E D \in SUBSET objects : sweep(D)

InternSpec == InternInit /\ [][InternNext]_internVars

----------------------------------------------------------------------------
(* Properties                                                              *)

\* Whatever was freed, the table refers to strings that exist only, so that intern_find never reads
\* a freed one, and each is found under its text: neither freeing nor reusing a slot hides one that
\* was stored past it.
InternFinds ==
    \A i \in Slot : intern[i] \notin {Unused, Tombstone} =>
        intern[i] \in objects /\ intern_find(TextOf(intern[i])) = {intern[i]}

\* The collector's heap has one string per text, as long as there are no more texts than
\* slots: a slot is found for each of them, be it one that was freed.
OnePerTextInHeap == \A s, u \in objects : TextOf(s) = TextOf(u) => s = u
=============================================================================
