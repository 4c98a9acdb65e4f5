---------------------------- MODULE MCChnStrings ----------------------------
(***************************************************************************)
(* Instances of ChnStrings: as many texts as the table has slots, so that  *)
(* it can be full; two of them hash alike and all probe around its end.    *)
(***************************************************************************)
EXTENDS ChnStrings, TLC

CONSTANTS a, b, c

MCText == {a, b, c}

MCHash == (a :> 1) @@ (b :> 1) @@ (c :> 2)
=============================================================================
