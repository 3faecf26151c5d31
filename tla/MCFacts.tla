------------------------------- MODULE MCFacts -------------------------------
(***************************************************************************)
(* Two addresses, one of them under two texts, and a cache of one entry,   *)
(* so that every change of the address evicts.                             *)
(***************************************************************************)
EXTENDS Facts, TLC

CONSTANTS a, mapped, b
Unmapped == a :> a @@ mapped :> a @@ b :> b
=============================================================================
