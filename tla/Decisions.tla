----------------------------- MODULE Decisions -----------------------------
(***************************************************************************)
(* From a log line to a ban command (runtime/pipeline.go, detect/window.go,*)
(* decision/policy.go, decision/cluster.go, runtime/executor.go,           *)
(* runtime/directives.go): every jail keeps a window of failures for each  *)
(* address, an intent is dispatched to the kernel unless the kernel has    *)
(* just refused this address, and refusals come back, through the event    *)
(* pump and a bounded queue, as directives to the executor.                *)
(*                                                                         *)
(* A time stamp is modelled by its age, so that time has no bound: the     *)
(* clock is the wall clock, and the model assumes that it is not set back. *)
(* Reputation and the hour are inputs of each line; how long a ban lasts   *)
(* is left out.                                                            *)
(***************************************************************************)
EXTENDS Integers, Sequences, FiniteSets

CONSTANTS
    Jail, Ip,
    Internal,        \* addresses of private networks
    SubnetOf,        \* SubnetOf[n][ip]: its network at prefix length n
    MaxTimestampsPerIP,
    Policies,        \* what a JailPolicy may be: max_retries, find_time and the
                     \* cluster configuration, whose minIPs is 0 if it is off
    None,            \* the jail is not registered
    MaxAge,          \* no find_time and no window is longer
    PeakHoursAddend, InternalSourceAddend,
    Scores,          \* reputations that an address may have
    Cooldown,        \* dispatchRejectionCooldown
    QueueCap,        \* capacity of the channel of directives
    MaxLines         \* bound: lines in a chunk

ASSUME DecisionsAssumption ==
    /\ {MaxTimestampsPerIP, Cooldown, QueueCap, MaxLines} \subseteq Nat \ {0}
    /\ {MaxAge, PeakHoursAddend, InternalSourceAddend} \subseteq Nat
    /\ Policies \subseteq [retries : Nat, findTime : 0 .. MaxAge, window : 0 .. MaxAge,
                            minIPs : Nat, maxPerIP : Nat, prefix : DOMAIN SubnetOf]
    /\ None \notin Policies
    /\ Scores \subseteq 0 .. 100 /\ Internal \subseteq Ip

Larger(x, y) == IF x >= y THEN x ELSE y
Smaller(x, y) == IF x <= y THEN x ELSE y

VARIABLES
    policy,    \* policy[j]: that of a registered jail, or None
    entries,   \* entries[j][ip]: the ages of the time stamps, oldest first
    stage,     \* what the executor is about to do
    jail,      \* the jail of the chunk that it works on
    lines,     \* its addresses that are not yet judged
    out,       \* the intents that are not yet dispatched
    mirror,    \* addresses in the mirror of bans
    inflight,  \* addresses whose command the kernel may still refuse
    cmd,       \* the queue of directives
    rejected,  \* seconds until the suppression of an address ends
    made,          \* history: the ages of the last failures since the last
                   \* intent, newest first
    kept,          \* history: how many of them were never older than the
                   \* find_time that was in force
    quiet, recent  \* history: seconds since a refusal that was queued; refused
                   \* since the queue was drained

windowVars == <<policy, entries, made, kept>>
chunkVars == <<jail, lines, out>>
sinkVars == <<mirror, inflight>>
rejectVars == <<cmd, rejected, quiet, recent>>
decisionsVars == <<windowVars, stage, chunkVars, sinkVars, rejectVars>>

Old == MaxAge + 1   \* all ages above MaxAge are alike
NoFailure == [k \in 1 .. MaxTimestampsPerIP |-> Old]

DecisionsInit ==
    /\ policy \in [Jail -> Policies]
    /\ entries = [j \in Jail |-> [ip \in Ip |-> <<>>]]
    /\ made = [j \in Jail |-> [ip \in Ip |-> NoFailure]]
    /\ kept = [j \in Jail |-> [ip \in Ip |-> 0]]
    /\ stage = "drain" /\ jail \in Jail /\ lines = <<>> /\ out = <<>>
    /\ mirror = {} /\ inflight = {}
    /\ cmd = <<>> /\ rejected = [ip \in Ip |-> 0]
    /\ quiet = rejected /\ recent = {}

-----------------------------------------------------------------------------
(* The failure window                                                      *)

Fresh(ts, w) == {k \in DOMAIN ts : ts[k] <= w}

(* countRecent: stops at cap.                                              *)
CountRecent(ts, w, cap) == Smaller(Cardinality(Fresh(ts, w)), cap)

(* The stamps are in order (time is not set back), so what has expired is  *)
(* a prefix.                                                               *)
Trimmed(ts, w) == SubSeq(ts, Len(ts) - Cardinality(Fresh(ts, w)) + 1, Len(ts))

(* Observe: a full window drops its oldest stamp and, only then, what has  *)
(* expired; findTime is the one in force.                                  *)
Observed(ts, findTime) ==
    IF Len(ts) < MaxTimestampsPerIP THEN Append(ts, 0)
    ELSE IF findTime = 0 THEN Append(Tail(ts), 0)
    ELSE Trimmed(Append(Tail(ts), 0), findTime)

ReachedCap(ts, findTime, cap) == findTime > 0 /\ CountRecent(ts, findTime, cap) >= cap

-----------------------------------------------------------------------------
(* Thresholds                                                              *)

ReputationAdjustment(score) == IF score >= 80 THEN 0 ELSE IF score >= 50 THEN -1 ELSE -2

EffectiveThreshold(retries, peak, ip, score) ==
    Larger(1, retries + (IF peak THEN PeakHoursAddend ELSE 0)
                    + (IF ip \in Internal THEN InternalSourceAddend ELSE 0)
                    + ReputationAdjustment(score))

-----------------------------------------------------------------------------
(* DetectCluster: networks with enough addresses of few failures           *)

SubnetKey(j, ip) == SubnetOf[policy[j].prefix][ip]
Count_NotAbove(j, ip) == CountRecent(entries[j][ip], policy[j].window, policy[j].maxPerIP)
Count(j, ip) == CountRecent(entries[j][ip], policy[j].window, policy[j].maxPerIP + 1)
GroupBySubnet(j, s) == {ip \in Ip : SubnetKey(j, ip) = s /\ Count(j, ip) > 0}
CountQuiet(j, s) == {ip \in GroupBySubnet(j, s) : Count(j, ip) <= policy[j].maxPerIP}
DetectCluster(j) ==
    {s \in {SubnetKey(j, ip) : ip \in Ip} :
        /\ policy[j].window > 0 /\ policy[j].minIPs > 0
        /\ Cardinality(CountQuiet(j, s)) >= policy[j].minIPs}

-----------------------------------------------------------------------------
(* The executor                                                            *)

(* noteRejectedDispatch for each directive that has come.                  *)
DrainDirectives_One ==
    /\ stage = "drain"
    /\ rejected' = IF cmd = <<>> THEN rejected ELSE [rejected EXCEPT ![Head(cmd)] = Cooldown]
    /\ cmd' = IF cmd = <<>> THEN <<>> ELSE Tail(cmd)
    /\ recent' = {}
    /\ stage' = "work"
    /\ UNCHANGED <<windowVars, chunkVars, sinkVars, quiet>>
DrainDirectives ==
    /\ stage = "drain"
    /\ rejected' = [ip \in Ip |-> IF \E k \in DOMAIN cmd : cmd[k] = ip THEN Cooldown ELSE rejected[ip]]
    /\ cmd' = <<>>
    /\ recent' = {}
    /\ stage' = "work"
    /\ UNCHANGED <<windowVars, chunkVars, sinkVars, quiet>>

RoundEnds ==
    /\ stage = "work"
    /\ stage' = "drain"
    /\ UNCHANGED <<windowVars, chunkVars, sinkVars, rejectVars>>

(* OnChunk, FlushSource: an unknown jail drops the lines.                  *)
Chunk(j, s) ==
    /\ stage = "work"
    /\ policy[j] # None
    /\ stage' = "judge" /\ jail' = j /\ lines' = s
    /\ UNCHANGED <<windowVars, out, sinkVars, rejectVars>>

(* What an observer knows of the last failures, who forgets each as soon   *)
(* as it is older than the find_time in force, and never remembers again.  *)
Remaining(n, m, findTime) == Smaller(n, Cardinality(Fresh(m, findTime)))

Shifted(m) == [k \in 1 .. MaxTimestampsPerIP |-> IF k = 1 THEN 0 ELSE m[k - 1]]

(* judgeLine: an intent ends the address's window.                         *)
JudgeLine(peak, score) ==
    /\ stage = "judge" /\ lines # <<>>
    /\ LET ip == Head(lines)
           p == policy[jail]
           ts == Observed(entries[jail][ip], p.findTime)
           ban == ReachedCap(ts, p.findTime, EffectiveThreshold(p.retries, peak, ip, score))
           last == Shifted(made[jail][ip])
       IN  /\ entries' = [entries EXCEPT ![jail][ip] = IF ban THEN <<>> ELSE ts]
           /\ made' = [made EXCEPT ![jail][ip] = IF ban THEN NoFailure ELSE last]
           /\ kept' = [kept EXCEPT ![jail][ip] =
                          IF ban THEN 0 ELSE Remaining(@ + 1, last, p.findTime)]
           /\ out' = IF ban THEN Append(out, ip) ELSE out
    /\ lines' = Tail(lines)
    /\ UNCHANGED <<policy, stage, jail, sinkVars, rejectVars>>
Judged ==
    /\ stage = "judge" /\ lines = <<>>
    /\ stage' = "dispatch"
    /\ UNCHANGED <<windowVars, chunkVars, sinkVars, rejectVars>>

(* dispatchIntent: suppressed, or already in the mirror, ...               *)
Suppressed(ip) == rejected[ip] > 0
Skip ==
    /\ stage = "dispatch" /\ out # <<>>
    /\ Suppressed(Head(out)) \/ Head(out) \in mirror
    /\ out' = Tail(out)
    /\ UNCHANGED <<windowVars, stage, jail, lines, sinkVars, rejectVars>>

(* ... sent to the kernel, or taken back when that fails.                  *)
Send(ip) ==
    /\ stage = "dispatch" /\ out # <<>> /\ ip = Head(out)
    /\ ~Suppressed(ip) /\ ip \notin mirror
    /\ mirror' = mirror \cup {ip} /\ inflight' = inflight \cup {ip}
    /\ out' = Tail(out)
    /\ UNCHANGED <<windowVars, stage, jail, lines, rejectVars>>
SendFails ==
    /\ stage = "dispatch" /\ out # <<>>
    /\ ~Suppressed(Head(out)) /\ Head(out) \notin mirror
    /\ out' = Tail(out)
    /\ UNCHANGED <<windowVars, stage, jail, lines, sinkVars, rejectVars>>
Dispatched ==
    /\ stage = "dispatch" /\ out = <<>>
    /\ stage' = "work"
    /\ UNCHANGED <<windowVars, chunkVars, sinkVars, rejectVars>>

(* The timer of 60 s: Pipeline.Cleanup, purgeRejectedDispatches.           *)
CleanupExpired_Early(ts, findTime) ==
    IF ts # <<>> /\ ts[Len(ts)] >= findTime THEN <<>> ELSE ts
CleanupExpired(ts, findTime) == IF ts # <<>> /\ ts[Len(ts)] > findTime THEN <<>> ELSE ts
Cleanup ==
    /\ stage = "work"
    /\ entries' = [j \in Jail |-> [ip \in Ip |->
                     IF policy[j] = None THEN entries[j][ip]
                     ELSE CleanupExpired(entries[j][ip], policy[j].findTime)]]
    /\ UNCHANGED <<policy, made, kept, stage, chunkVars, sinkVars, rejectVars>>

(* A reload: RegisterJail replaces the policy and keeps the window of a    *)
(* jail that stays, RetainJails drops a jail that is gone together with    *)
(* its window.                                                             *)
RefreshJails(new) ==
    /\ stage = "work"
    /\ policy' = new
    /\ entries' = [j \in Jail |-> [ip \in Ip |->
                     IF new[j] = None THEN <<>> ELSE entries[j][ip]]]
    /\ made' = [j \in Jail |-> [ip \in Ip |->
                  IF new[j] = None THEN NoFailure ELSE made[j][ip]]]
    /\ kept' = [j \in Jail |-> [ip \in Ip |->
                  IF new[j] = None THEN 0
                  ELSE Remaining(kept[j][ip], made[j][ip], new[j].findTime)]]
    /\ UNCHANGED <<stage, chunkVars, sinkVars, rejectVars>>

-----------------------------------------------------------------------------
(* The kernel and the event pump                                           *)

(* handleCmdResult: the mirror first, then the directive, if the queue has *)
(* room for it.                                                            *)
Refuses(ip) ==
    /\ ip \in inflight
    /\ inflight' = inflight \ {ip} /\ mirror' = mirror \ {ip}
    /\ IF Len(cmd) < QueueCap
       THEN /\ cmd' = Append(cmd, ip)
            /\ quiet' = [quiet EXCEPT ![ip] = Cooldown]
            /\ recent' = recent \cup {ip}
       ELSE UNCHANGED <<cmd, quiet, recent>>
    /\ UNCHANGED <<windowVars, stage, chunkVars, rejected>>
Accepts(ip) ==
    /\ ip \in inflight
    /\ inflight' = inflight \ {ip}
    /\ UNCHANGED <<windowVars, stage, chunkVars, mirror, rejectVars>>

(* A ban ends, or comes from elsewhere: BanMirror has these in detail.     *)
MirrorChanges(ip) ==
    /\ mirror' = IF ip \in mirror THEN mirror \ {ip} ELSE mirror \cup {ip}
    /\ UNCHANGED <<windowVars, stage, chunkVars, inflight, rejectVars>>

(* A second passes; a chunk is judged within one.                          *)
Older(ts) == [k \in DOMAIN ts |-> Smaller(Old, ts[k] + 1)]
Aged(f) == [j \in Jail |-> [ip \in Ip |-> Older(f[j][ip])]]
Tick ==
    /\ stage # "judge"
    /\ entries' = Aged(entries)
    /\ made' = Aged(made)
    /\ kept' = [j \in Jail |-> [ip \in Ip |->
                  IF policy[j] = None THEN 0
                  ELSE Remaining(kept[j][ip], Older(made[j][ip]), policy[j].findTime)]]
    /\ rejected' = [ip \in Ip |-> Larger(0, rejected[ip] - 1)]
    /\ quiet' = [ip \in Ip |-> Larger(0, quiet[ip] - 1)]
    /\ UNCHANGED <<policy, stage, chunkVars, sinkVars, cmd, recent>>

DecisionsNext ==
    \/ DrainDirectives \/ RoundEnds
    \/ \E j \in Jail, n \in 1 .. MaxLines : \E s \in [1 .. n -> Ip] : Chunk(j, s)
    \/ \E peak \in BOOLEAN, score \in Scores : JudgeLine(peak, score)
    \/ Judged \/ Skip \/ SendFails \/ Dispatched \/ Cleanup
    \/ \E new \in [Jail -> Policies \cup {None}] : RefreshJails(new)
    \/ \E ip \in Ip : Send(ip) \/ Refuses(ip) \/ Accepts(ip) \/ MirrorChanges(ip)
    \/ Tick

DecisionsSpec == DecisionsInit /\ [][DecisionsNext]_decisionsVars

-----------------------------------------------------------------------------
(* A window that expires lazily, has a capacity and survives reloads       *)
(* counts, at every moment, at least what an observer counts that forgets  *)
(* at once, and only failures since the last intent that are within the    *)
(* find_time in force.  Only a reload that raises find_time makes the two  *)
(* differ: what the observer has forgotten may count again, if the window  *)
(* has not dropped it yet (window.go; pipeline.go:145-155).                *)
CountIsTrue ==
    \A j \in Jail, ip \in Ip : policy[j] # None =>
        LET count == Cardinality(Fresh(entries[j][ip], policy[j].findTime))
        IN  /\ kept[j][ip] <= count
            /\ count <= Cardinality(Fresh(made[j][ip], policy[j].findTime))

Most(j, ip) == Cardinality(Fresh(made[j][ip], policy[j].window))
Least(j, ip) == Smaller(kept[j][ip], Most(j, ip))
Seldom(j, s, low(_), high(_)) ==
    {ip \in Ip : SubnetKey(j, ip) = s /\ low(ip) > 0 /\ high(ip) <= policy[j].maxPerIP}

(* The scan for clusters finds each network in which minIPs addresses have *)
(* surely failed, none more than maxPerIP times, within the cluster's      *)
(* window, and none in which fewer may have.  Surely have failed those     *)
(* that the jail's find_time has never made old: a window longer than the  *)
(* find_time asks for stamps that trimming and the clean-up may have       *)
(* dropped, or not yet (cluster.go; jail.go:77-107 lets it be longer).     *)
ClusterIsTrue ==
    \A j \in Jail : policy[j] # None /\ policy[j].window > 0 /\ policy[j].minIPs > 0 =>
        LET least(ip) == Least(j, ip)
            most(ip) == Most(j, ip)
        IN  \A s \in {SubnetKey(j, ip) : ip \in Ip} :
                /\ Cardinality(Seldom(j, s, least, most)) >= policy[j].minIPs
                      => s \in DetectCluster(j)
                /\ s \in DetectCluster(j)
                      => Cardinality(Seldom(j, s, most, least)) >= policy[j].minIPs

(* However often an address reaches its threshold, and however the refusals *)
(* of the kernel arrive: an address that was refused before the executor's *)
(* round began is not sent again for Cooldown seconds, unless the directive *)
(* was lost (directives.go: dispatchRejectionCooldown).                    *)
RefusedIsQuiet == [][\A ip \in Ip : Send(ip) => quiet[ip] = 0 \/ ip \in recent]_decisionsVars

-----------------------------------------------------------------------------
(* What comments say and the code does not keep.                           *)

(* window.go:111: the window counts what lies within find_time; after a    *)
(* reload that raises it, what was trimmed or cleaned up is missing.       *)
CountIsExact ==
    \A j \in Jail, ip \in Ip : policy[j] # None =>
        Cardinality(Fresh(entries[j][ip], policy[j].findTime))
            = Cardinality(Fresh(made[j][ip], policy[j].findTime))

(* cluster.go:40: a network is found exactly if minIPs of its addresses    *)
(* have failed at most maxPerIP times in the cluster's window.             *)
ClusterIsExact ==
    \A j \in Jail : policy[j] # None /\ policy[j].window > 0 /\ policy[j].minIPs > 0 =>
        LET most(ip) == Most(j, ip)
        IN  \A s \in {SubnetKey(j, ip) : ip \in Ip} :
                s \in DetectCluster(j) <=>
                    Cardinality(Seldom(j, s, most, most)) >= policy[j].minIPs
=============================================================================
