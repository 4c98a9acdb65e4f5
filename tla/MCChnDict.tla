----------------------------- MODULE MCChnDict -----------------------------
(***************************************************************************)
(* Instances of ChnDict: five texts, of which two hash alike and one run   *)
(* of probes wraps around the end of the table at every capacity.          *)
(***************************************************************************)
EXTENDS ChnDict, TLC

CONSTANTS a, b, c, d, e

MCText == {a, b, c, d, e}

MCHash == (a :> 3) @@ (b :> 3) @@ (c :> 7) @@ (d :> 0) @@ (e :> 5)
=============================================================================
