------------------------------ MODULE HeapSpec ------------------------------
(***************************************************************************)
(* What a script may rely on from CHN's memory, whatever the collector     *)
(* does behind it: it allocates objects, finds interned strings again,     *)
(* follows and changes references between objects it holds, drops what it  *)
(* holds, and the only thing that ever happens by itself is that objects   *)
(* no root can reach disappear.                                            *)
(***************************************************************************)
EXTENDS HeapGraph

CONSTANTS
    Obj,    \* object identities: addresses for containers, contents for strings
    Str     \* those that are strings; a string refers to nothing

VARIABLES
    heap,   \* the objects that are allocated
    refs,   \* refs[o] : the objects o refers to
    roots   \* the objects on the value stack and in the globals

vars == <<heap, refs, roots>>

Init ==
    /\ heap = {}
    /\ refs = [o \in Obj |-> {}]
    /\ roots = {}

Allocate(o) ==
    /\ o \notin heap
    /\ heap' = heap \cup {o}
    /\ roots' = roots \cup {o}
    /\ UNCHANGED refs

\* A literal or computed string whose content already has an object.
FindString(s) ==
    /\ s \in heap
    /\ roots' = roots \cup {s}
    /\ UNCHANGED <<heap, refs>>

\* Change what c refers to: D goes, held values V come; what goes may be handed back.
Update(c, D, V) ==
    /\ c \in roots \ Str
    /\ D \subseteq refs[c]
    /\ V \subseteq roots
    /\ refs' = [refs EXCEPT ![c] = (@ \ D) \cup V]
    /\ roots' \in {roots, roots \cup D}
    /\ UNCHANGED heap

Follow(c, v) ==
    /\ c \in roots
    /\ v \in refs[c]
    /\ roots' = roots \cup {v}
    /\ UNCHANGED <<heap, refs>>

Drop(v) ==
    /\ roots' = roots \ {v}
    /\ UNCHANGED <<heap, refs>>

Reclaim(D) ==
    /\ D \cap Reachable(Obj, roots, refs) = {}
    /\ heap' = heap \ D
    /\ refs' = [o \in Obj |-> IF o \in D THEN {} ELSE refs[o]]
    /\ UNCHANGED roots

Next ==
    \/ \E o \in Obj : Allocate(o) \/ Drop(o)
    \/ \E s \in Str : FindString(s)
    \/ \E c \in Obj : \E D \in SUBSET refs[c], V \in SUBSET roots : Update(c, D, V)
    \/ \E c, v \in Obj : Follow(c, v)
    \/ \E D \in SUBSET heap : Reclaim(D)

Spec == Init /\ [][Next]_vars
=============================================================================
