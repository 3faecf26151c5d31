---------------------------- MODULE MCDecisions ----------------------------
(***************************************************************************)
(* One jail and two addresses of one network, one of them internal.  A     *)
(* reload changes all of the policy: the find_time and the cluster's       *)
(* window, which is longer than the find_time in one of them.              *)
(***************************************************************************)
EXTENDS Decisions, TLC

CONSTANTS j, a, b
OneSubnet == 24 :> ((a :> 1) @@ (b :> 1))
Short == [retries |-> 2, findTime |-> 1, window |-> 2, minIPs |-> 2, maxPerIP |-> 1,
          prefix |-> 24]
Long == [retries |-> 1, findTime |-> 2, window |-> 1, minIPs |-> 2, maxPerIP |-> 1,
         prefix |-> 24]
ShortAndLong == {Short, Long}
=============================================================================
