------------------------------ MODULE MapSpec ------------------------------
(***************************************************************************)
(* What a script may rely on from a dict: a map from texts to values, nil  *)
(* where nothing was stored. Which string object spells a key, where its   *)
(* entry is and how often the table was grown cannot be seen.              *)
(***************************************************************************)
CONSTANTS Text, Val, Nil

VARIABLE map

Init == map = [t \in Text |-> Nil]

\* d[t] = v
Set(t, v) == map' = [map EXCEPT ![t] = v]

\* d.delete(t)
Delete(t) == map' = [map EXCEPT ![t] = Nil]

Next == \E t \in Text : Delete(t) \/ \E v \in Val : Set(t, v)

Spec == Init /\ [][Next]_map
=============================================================================
