---------------------------- MODULE MCRateTable ----------------------------
(***************************************************************************)
(* Two CPUs, two sources whose slots and buckets coincide or not, two      *)
(* slots, and the memory of three entries.                                 *)
(***************************************************************************)
EXTENDS RateTable, TLC

CONSTANTS a, b
OwnBucket == (a :> 1) @@ (b :> 2)
SameSlot == (a :> 0) @@ (b :> 0)
Entries == Permutations(Node)
=============================================================================
