---------------------------- MODULE MCBanMirror ----------------------------
(***************************************************************************)
(* A small instance of BanMirror: address a is the host ha and the network *)
(* na, address b the host hb, and hc the host c that the daemon refuses.   *)
(***************************************************************************)
EXTENDS BanMirror, TLC

CONSTANTS a, b, c, ha, na, hb, hc

FourKeys == <<ha, na, hb, hc>>
FourAddrs == (ha :> a) @@ (na :> a) @@ (hb :> b) @@ (hc :> c)
ThreeHosts == (a :> ha) @@ (b :> hb) @@ (c :> hc)
=============================================================================
