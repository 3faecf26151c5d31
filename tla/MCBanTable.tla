----------------------------- MODULE MCBanTable -----------------------------
(***************************************************************************)
(* Small instances of BanTable.  Keys a and b are host bans in the         *)
(* full-length layer, n is a network ban in a layer of its own; a          *)
(* whitelist prefix covers one host or both.                               *)
(***************************************************************************)
EXTENDS BanTable, TLC

CONSTANTS a, b, n, p1, p2, h1, m1, m2, full, short

\* two layers of two buckets in all: a and b compete for one bucket, the
\* network layer comes first in a scan
PairBuckets == 2
PairLayerOf == <<short, full>>
PairBucketOf == (n :> 1) @@ (a :> 2) @@ (b :> 2)
PairCover == {{a, b}}

\* threads p1 and p2 are interchangeable, and so are the slots
Symmetry == Permutations({p1, p2}) \cup Permutations(Node)
=============================================================================
