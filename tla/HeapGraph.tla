----------------------------- MODULE HeapGraph -----------------------------
(***************************************************************************)
(* Reachability in an object graph, without recursion: a set is closed     *)
(* when it contains everything its members refer to, and the reachable     *)
(* objects are those that every closed set around the roots contains.      *)
(***************************************************************************)

\* S contains every object a member of S refers to.
Closed(S, refs) == \A o \in S : refs[o] \subseteq S

\* The objects of U that no closed set containing the roots can leave out.
Reachable(U, roots, refs) ==
    {o \in U : \A S \in SUBSET U :
                  roots \subseteq S /\ Closed(S, refs) => o \in S}
=============================================================================
