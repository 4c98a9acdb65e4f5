------------------------------ MODULE ChnDict ------------------------------
(***************************************************************************)
(* The dict of CHN 1.1 (src/v1.1/gc.c): an open-addressing table of string *)
(* keys, probed linearly, doubled when three quarters full.                *)
(*                                                                         *)
(* A string object is its text and a number that tells objects of the same *)
(* text apart: gc_dict_set compares objects, gc_dict_get and               *)
(* gc_dict_delete compare texts. Deleting empties the slot, and a slot     *)
(* emptied in the middle of a run of probes hides what lies behind it:     *)
(* DeletesAnywhere says whether the script may do that.                    *)
(***************************************************************************)
EXTENDS ChnTexts, FiniteSetsExt

CONSTANTS
    Val, Nil,
    MinCap,             \* the capacity of the first table (8)
    DeletesAnywhere     \* may a key be deleted when the slot after it is taken?

Key == Text \X Copy

ASSUME DictAssumption ==
    /\ MinCap \in Nat \ {0, 1}     \* a power of two, so that the code may mask for %
    /\ Nil \notin Key
    /\ DeletesAnywhere \in BOOLEAN

VARIABLES
    entries,    \* 0-based
    count

dictVars == <<entries, count>>

\* A slot whose key is NULL.
Empty == [key |-> Nil, value |-> Nil]

Entry == [key : Key, value : Val]

EmptyTable(n) == [i \in 0..(n - 1) |-> Empty]
Cap(e) == Cardinality(DOMAIN e)
Taken(e) == {i \in DOMAIN e : e[i] # Empty}

\* No table is allocated before the first key is set.
DictInit == entries = EmptyTable(0) /\ count = 0

----------------------------------------------------------------------------
(* Probing                                                                 *)

\* The slot probed for text t at turn i.
Probe(e, t, i) == (Hash[t] + i) % Cap(e)

\* The slot in which the search for an entry in Goal, or for an empty slot, ends.
FirstOf(e, t, Goal) ==
    Probe(e, t, Min({i \in DOMAIN e : e[Probe(e, t, i)] = Empty \/ Probe(e, t, i) \in Goal}))

\* Where gc_dict_set stores key k: its loop has no other end.
PlaceFor(e, k) == FirstOf(e, TextOf(k), {i \in Taken(e) : e[i].key = k})

\* Where gc_dict_get and gc_dict_delete find text t: nowhere or in one slot.
Found(e, t) ==
    LET same == {i \in Taken(e) : TextOf(e[i].key) = t}
    IN  IF same = {} THEN {} ELSE {FirstOf(e, t, same)} \cap Taken(e)

gc_dict_get(e, t) == IF Found(e, t) = {} THEN Nil
                     ELSE LET i == CHOOSE i \in Found(e, t) : TRUE IN e[i].value

----------------------------------------------------------------------------
(* Growing and storing                                                     *)

Put(e, k, v) == [e EXCEPT ![PlaceFor(e, k)] = [key |-> k, value |-> v]]

\* Mutant: an entry goes to the slot its text hashes to, taken or not.
reinserted_at_home(e, x) == IF x = Empty THEN e ELSE [e EXCEPT ![Probe(e, TextOf(x.key), 0)] = x]

\* An entry x of the old table in the new one: it looks for an empty slot and compares no keys.
Reinserted(e, x) == IF x = Empty THEN e ELSE [e EXCEPT ![FirstOf(e, TextOf(x.key), {})] = x]

NewCap(e) == IF Cap(e) < MinCap THEN MinCap ELSE 2 * Cap(e)

\* Mutant: the entries keep their index.
grow_in_place(e) ==
    [i \in 0..(NewCap(e) - 1) |-> IF i \in DOMAIN e THEN e[i] ELSE Empty]

\* The new table; moved[n] is what it holds after n slots of the old one.
dict_grow(e) ==
    LET moved[n \in 0..Cap(e)] ==
            IF n = 0 THEN EmptyTable(NewCap(e)) ELSE Reinserted(moved[n - 1], e[n - 1])
    IN  moved[Cap(e)]

\* Is there no room for one more of n entries?
Full(e, n) == n + 1 > (Cap(e) * 3) \div 4

\* Mutant: a key that is there already is counted again.
counted_twice(e, k, n) == n + 1

CountAfterSet(e, k, n) == IF e[PlaceFor(e, k)] = Empty THEN n + 1 ELSE n

\* A table e of n entries after storing v under k.
gc_dict_set(e, n, k, v) ==
    LET roomy == IF Full(e, n) THEN dict_grow(e) ELSE e
    IN  [entries |-> Put(roomy, k, v), count |-> CountAfterSet(roomy, k, n)]

----------------------------------------------------------------------------
(* What a script does with a dict                                          *)

Becomes(d) == entries' = d.entries /\ count' = d.count

\* d[k] = v, and each pair of a literal.
dict_set(k, v) == Becomes(gc_dict_set(entries, count, k, v))

\* No run of probes goes on behind slot i.
EndsRun(i) == entries[(i + 1) % Cap(entries)] = Empty

Without(i) == [entries EXCEPT ![i] = Empty]

\* d.delete(t)
gc_dict_delete(t) ==
    \/ Found(entries, t) = {} /\ UNCHANGED dictVars
    \/ \E i \in Found(entries, t) :
          /\ DeletesAnywhere \/ EndsRun(i)
          /\ entries' = Without(i)
          /\ count' = count - 1

\* Dict d after storing slot x of another dict.
WithSlot(d, x) == IF x = Empty THEN d ELSE gc_dict_set(d.entries, d.count, x.key, x.value)

\* Dict d after storing all that is in table e, slot by slot.
Merged(d, e) ==
    LET upto[n \in 0..Cap(e)] == IF n = 0 THEN d ELSE WithSlot(upto[n - 1], e[n - 1])
    IN  upto[Cap(e)]

NewDict == [entries |-> EmptyTable(0), count |-> 0]

\* d.merge(other): a new dict, filled from d and then from the other.
dict_merge(other) == Becomes(Merged(Merged(NewDict, entries), other))

\* The other dicts of merges: they have at most one pair.
Others == {EmptyTable(0)} \cup {gc_dict_set(EmptyTable(0), 0, k, v).entries : k \in Key, v \in Val}

DictNext ==
    \/ \E k \in Key, v \in Val : dict_set(k, v)
    \/ \E t \in Text : gc_dict_delete(t)
    \/ \E other \in Others : dict_merge(other)

DictSpec == DictInit /\ [][DictNext]_dictVars

----------------------------------------------------------------------------
(* Properties                                                              *)

\* The capacities there are, each the double of the one before.
Capacity[k \in Nat] == IF k = 0 THEN MinCap ELSE 2 * Capacity[k - 1]

\* The count is that of the taken slots, and at most three quarters of the table are
\* taken: the store's loop, which has no bound, always meets the key or an empty slot.
TypeOK ==
    /\ \E n \in {0} \cup {Capacity[k] : k \in 0..Cardinality(Key)} :
          entries \in [0..(n - 1) -> Entry \cup {Empty}]
    /\ count = Cardinality(Taken(entries))
    /\ 4 * count <= 3 * Cap(entries)

\* Every entry is the one its text finds: no two entries have one text, and none is hidden
\* behind a slot that was emptied, whatever was stored, deleted and moved before.
KeysAreFound ==
    \A i \in Taken(entries) : Found(entries, TextOf(entries[i].key)) = {i}

Map == INSTANCE MapSpec WITH map <- [t \in Text |-> gc_dict_get(entries, t)]

\* To a script the table is a map from texts to values: growing and merging lose and change
\* nothing, and storing and deleting change one key.
ImplementsMapSpec == Map!Spec
=============================================================================
