----------------------------- MODULE MCSettings -----------------------------
(* A small instance of Settings: two jails, one with a service's name.     *)
EXTENDS Settings

CONSTANTS j, k, p, q

Logs(ban) == [enabled |-> None, logs |-> TRUE, banTime |-> ban, regex |-> None]
Bare == [enabled |-> TRUE, logs |-> None, banTime |-> None, regex |-> "bad"]

One == [Blank EXCEPT !.rate = 1, !.web = 1, !.jails = (j :> Logs(None) @@ k :> None)]
Two == [Blank EXCEPT !.rate = 2, !.banTime = 2, !.web = 2,
                     !.jails = (j :> Logs(7) @@ k :> Logs(None))]
NoLogs == [One EXCEPT !.rate = 2, !.jails = (j :> Logs(None) @@ k :> Bare)]
Loose == [One EXCEPT !.rate = 0, !.banTime = -1, !.unknown = TRUE]
Off == [Blank EXCEPT !.jails =
           (j :> [enabled |-> FALSE, logs |-> None, banTime |-> None, regex |-> None] @@ k :> Bare)]

MCRequest == {p, q}
Symmetry == Permutations(MCRequest)
MCJail == {j, k}
MCService == {k}
MCSaved == {One, Two, NoLogs, Loose}
MCBackups == {Two}
MCSavedOver == {Off}
MCMain == [override |-> FALSE, at |-> 2]    \* config.yaml
MCOver == [override |-> TRUE, at |-> 1]     \* _runtime.yml
MCBackup == [override |-> FALSE, at |-> 3]
=============================================================================
