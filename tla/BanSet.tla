------------------------------- MODULE BanSet -------------------------------
(***************************************************************************)
(* What the kernel's ban table (fw_ban.c) promises to its callers: a set   *)
(* of banned prefixes that each operation changes in one step, and that    *)
(* never outgrows Capacity.  BanTable implements it, with a Capacity that  *)
(* is larger than the configured max_ban_entries (see BanTable!Slack).     *)
(***************************************************************************)
EXTENDS Naturals, FiniteSets

CONSTANTS
    Key,        \* identities of bans: (family, network, prefix length)
    Cover,      \* sets of keys that one whitelist prefix may cover
    Capacity    \* the most bans there may be at a time

VARIABLE banned \* the keys that have an entry

Init == banned = {}

(* fw_ban_try_add, fw_ban_restore: a new entry, unless the table is full.  *)
Add(k) ==
    /\ k \notin banned
    /\ Cardinality(banned) < Capacity
    /\ banned' = banned \cup {k}

(* fw_ban_del and the expiry callback remove one entry.                    *)
Remove(k) ==
    /\ k \in banned
    /\ banned' = banned \ {k}

(* fw_ban_del_matching removes, bucket by bucket, what a prefix covers.    *)
RemoveSome(S) == banned' = banned \ S

Next ==
    \/ \E k \in Key : Add(k) \/ Remove(k)
    \/ \E C \in Cover : \E S \in SUBSET C : RemoveSome(S)

Spec == Init /\ [][Next]_banned
=============================================================================
