------------------------------ MODULE ChnTexts ------------------------------
(***************************************************************************)
(* Strings as the hash tables of src/v1.1/gc.c see them: a string object   *)
(* is its text and a number that tells objects of the same text apart.     *)
(***************************************************************************)
EXTENDS Naturals

CONSTANTS
    Text, Copy, \* Copy has one element where strings are interned
    Hash        \* Hash[t]: fnv1a of the text

ASSUME TextsAssumption == Hash \in [Text -> Nat]

TextOf(s) == s[1]
=============================================================================
