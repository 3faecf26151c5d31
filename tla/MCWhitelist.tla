---------------------------- MODULE MCWhitelist ----------------------------
(***************************************************************************)
(* Small instances of Whitelist: two addresses a and b, a full-length      *)
(* prefix ha for a, and a network n that holds both.                       *)
(***************************************************************************)
EXTENDS Whitelist, TLC

CONSTANTS a, b, ha, n, p1, c1

TwoNet == (ha :> a) @@ (n :> b)
TwoCovers == (ha :> {a}) @@ (n :> {a, b})

\* b stays, a comes and goes
TwoTopology == {{b}, {a, b}}

\* the network's layer comes before the full-length one in a scan
TwoBucketOf == (n :> 1) @@ (ha :> 2)
=============================================================================
