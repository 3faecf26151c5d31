------------------------------ MODULE BanTable ------------------------------
(***************************************************************************)
(* The ban table of the kernel module (src/kernel-module/fw_ban.c).        *)
(*                                                                         *)
(* Entries hang in hash buckets, each with its own spinlock; the buckets   *)
(* belong to layers, one per prefix length.  A layer has a counter, and a  *)
(* bit in a bitmap that tells the packet path whether to probe the layer.  *)
(* The counter and the bit are maintained outside the bucket lock, and so  *)
(* are the timer of a new entry, the broadcast, and the release of the     *)
(* memory (call_rcu).  Each of these steps is an action here.              *)
(*                                                                         *)
(* Time is abstracted to one bit per entry: due[n] says that jiffies has   *)
(* reached unban_jiffies.  A permanent entry has unban_jiffies = 0, which  *)
(* is always in the past.                                                  *)
(*                                                                         *)
(* Memory is modelled as slots.  A step that touches a freed slot, or that *)
(* unlinks a node twice, is a fault: the kernel oopses or its memory is    *)
(* corrupt, and the model stops there (variable fault).                    *)
(***************************************************************************)
EXTENDS Integers, FiniteSetsExt

CONSTANTS
    Thread,       \* contexts that call into the table (one CPU runs one)
    HookThread,   \* those inside a netfilter hook: RCU readers throughout
    Node,         \* memory slots for entries
    Key,          \* identities of bans: (family, network, prefix length)
    Layer,        \* layers of the table
    NBucket,      \* buckets are 1..NBucket, in the order of a full scan
    LayerOf,      \* LayerOf[b]: the layer of bucket b
    BucketOf,     \* BucketOf[k]: the bucket that key k hashes to
    Cover,        \* sets of keys that one whitelist prefix may cover
    MaxBan,       \* fw_info.max_ban_entries
    NoNode, NoKey

Bucket == 1..NBucket

ASSUME ThreadAssumption == IsFiniteSet(Thread) /\ HookThread \subseteq Thread
ASSUME NodeAssumption == IsFiniteSet(Node) /\ NoNode \notin Node
ASSUME KeyAssumption == NoKey \notin Key /\ Cover \subseteq SUBSET Key
ASSUME LayoutAssumption ==
    /\ NBucket \in Nat \ {0}
    /\ LayerOf \in [Bucket -> Layer]
    /\ BucketOf \in [Key -> Bucket]
(* module parameters of 0 are refused at load time (fw_main.c:134)         *)
ASSUME MaxBanAssumption == MaxBan \in Nat \ {0}

VARIABLES
    \* entries, by memory slot
    mem,        \* free, private, linked, unlinked, dying (call_rcu is done)
    key,        \* the entry's (af, addr, prefix_len)
    perm,       \* is_permanent
    due,        \* jiffies has reached unban_jiffies
    armed,      \* the timer is pending
    cb,         \* the expiry callback: idle, wait, late, release
    \* threads
    pc,         \* where the thread is; idle between two calls
    req,        \* the key of the request
    mine,       \* the node the thread works on
    temp,       \* the request has duration_secs # 0
    at,         \* fw_ban_del_matching: the next bucket
    cover,      \* fw_ban_del_matching: the keys the prefix covers
    removed,    \* fw_ban_del_matching: entries unlinked in this bucket
    \* the table
    count,      \* layers[L].count
    used,       \* the bitmap
    banCount,   \* fw_info.ban_count
    fault       \* none, or the first memory fault: poison or freed

nodeVars   == <<mem, key, perm, due, armed, cb>>
threadVars == <<pc, req, mine, temp, at, cover, removed>>
tableVars  == <<count, used, banCount>>
vars == <<nodeVars, threadVars, tableVars, fault>>

Mem    == {"free", "private", "linked", "unlinked", "dying"}
CbPc   == {"idle", "wait", "late", "release"}
ThreadPc == {"idle", "link", "mark", "arm", "notify", "release", "scan", "scanrel"}

Init ==
    /\ mem = [n \in Node |-> "free"]
    /\ key = [n \in Node |-> NoKey]
    /\ perm = [n \in Node |-> FALSE]
    /\ due = [n \in Node |-> FALSE]
    /\ armed = [n \in Node |-> FALSE]
    /\ cb = [n \in Node |-> "idle"]
    /\ pc = [t \in Thread |-> "idle"]
    /\ req = [t \in Thread |-> NoKey]
    /\ mine = [t \in Thread |-> NoNode]
    /\ temp = [t \in Thread |-> FALSE]
    /\ at = [t \in Thread |-> 1]
    /\ cover = [t \in Thread |-> {}]
    /\ removed = [t \in Thread |-> 0]
    /\ count = [L \in Layer |-> 0]
    /\ used = {}
    /\ banCount = 0
    /\ fault = "none"

-----------------------------------------------------------------------------
(* Helpers                                                                 *)

Linked == {n \in Node : mem[n] = "linked"}

(* fw_ban_find_locked: the entries of key k in its bucket.                 *)
Entries(k) == {n \in Linked : key[n] = k}

(* The layer of a key: its prefix length selects it.                       *)
KeyLayer(k) == LayerOf[BucketOf[k]]

(* fw_ban_node_expired                                                     *)
Expired(n) == ~perm[n] /\ due[n]

(* A thread between the capacity check and the unlock holds the bucket's   *)
(* lock; every other critical section is a single action.                  *)
BucketFree(b) ==
    \A t \in Thread : pc[t] = "link" => BucketOf[req[t]] # b

(* kzalloc returns memory that is free.  A slot that a thread or the timer *)
(* wheel still points at is not handed out again in the model, so that an  *)
(* access through the old pointer is recognised.                           *)
Allocatable(n) ==
    /\ mem[n] = "free" /\ ~armed[n] /\ cb[n] = "idle"
    /\ \A t \in Thread : mine[t] # n

(* After the first memory fault the model makes no step.                   *)
Running == fault = "none"

Fault(what) ==
    /\ fault' = what
    /\ UNCHANGED <<nodeVars, threadVars, tableVars>>

Goto(t, where) == pc' = [pc EXCEPT ![t] = where]

(* The thread returns to its caller.                                       *)
Return(t) ==
    /\ Goto(t, "idle")
    /\ req' = [req EXCEPT ![t] = NoKey]
    /\ mine' = [mine EXCEPT ![t] = NoNode]
    /\ temp' = [temp EXCEPT ![t] = FALSE]

(* fw_ban_layer_mark: count++, and the bit on 0 -> 1.                      *)
LayerMark(L) ==
    /\ count' = [count EXCEPT ![L] = @ + 1]
    /\ used' = IF count[L] + 1 = 1 THEN used \cup {L} ELSE used
    /\ UNCHANGED banCount

(* Mutant: the bit is cleared one entry too early.                         *)
LayerRelease_Early(L, n) ==
    /\ count' = [count EXCEPT ![L] = @ - n]
    /\ used' = IF count[L] - n <= 1 THEN used \ {L} ELSE used
    /\ UNCHANGED banCount

(* fw_ban_layer_release: count -= n, and the bit is cleared at <= 0.       *)
LayerRelease(L, n) ==
    /\ count' = [count EXCEPT ![L] = @ - n]
    /\ used' = IF count[L] - n <= 0 THEN used \ {L} ELSE used
    /\ UNCHANGED banCount

-----------------------------------------------------------------------------
(* fw_ban_insert                                                           *)

(* Under the bucket lock: a live entry of the same key is left alone, and  *)
(* a new one is refused when the table is full (-ENOSPC).  The node that   *)
(* was allocated before the lock is freed again: nothing changes.          *)
InsertRefused(t, k) ==
    /\ Running /\ pc[t] = "idle" /\ BucketFree(BucketOf[k])
    /\ \/ \E e \in Entries(k) : ~Expired(e)
       \/ Entries(k) = {} /\ banCount >= MaxBan
    /\ UNCHANGED vars

(* Mutant: the two branches of the timer are swapped.                      *)
InsertRenew_Swapped(t, k, p) ==
    /\ Running /\ pc[t] = "idle" /\ BucketFree(BucketOf[k])
    /\ \E e \in Entries(k) :
        /\ Expired(e)
        /\ perm' = [perm EXCEPT ![e] = p]
        /\ due' = [due EXCEPT ![e] = p]
        /\ armed' = [armed EXCEPT ![e] = p]
    /\ UNCHANGED <<mem, key, cb, threadVars, tableVars, fault>>

(* An expired entry that is still linked is renewed in place: its timer is *)
(* armed again, or deleted for a permanent ban.                            *)
InsertRenew(t, k, p) ==
    /\ Running /\ pc[t] = "idle" /\ BucketFree(BucketOf[k])
    /\ \E e \in Entries(k) :
        /\ Expired(e)
        /\ perm' = [perm EXCEPT ![e] = p]
        /\ due' = [due EXCEPT ![e] = p]
        /\ armed' = [armed EXCEPT ![e] = ~p]
    /\ UNCHANGED <<mem, key, cb, threadVars, tableVars, fault>>

(* A new entry: locked says that the thread gets the bucket's lock, room   *)
(* that the capacity check passes.                                         *)
Admit(t, k, p, locked, room) ==
    /\ Running /\ pc[t] = "idle" /\ locked
    /\ Entries(k) = {}
    /\ room
    /\ \E n \in Node :
        /\ Allocatable(n)
        /\ mem' = [mem EXCEPT ![n] = "private"]
        /\ key' = [key EXCEPT ![n] = k]
        /\ perm' = [perm EXCEPT ![n] = p]
        /\ due' = [due EXCEPT ![n] = p]
        /\ mine' = [mine EXCEPT ![t] = n]
    /\ req' = [req EXCEPT ![t] = k]
    /\ temp' = [temp EXCEPT ![t] = ~p]
    /\ Goto(t, "link")
    /\ UNCHANGED <<armed, cb, at, cover, removed, tableVars, fault>>

(* Mutants: the duplicate check precedes the lock; the capacity check is   *)
(* off by one.                                                             *)
InsertCheck_Unlocked(t, k, p) == Admit(t, k, p, TRUE, banCount < MaxBan)
InsertCheck_OffByOne(t, k, p) ==
    Admit(t, k, p, BucketFree(BucketOf[k]), banCount <= MaxBan)

(* No entry: the capacity is checked and the thread goes on to link its    *)
(* node, still under the bucket lock.                                      *)
InsertCheck(t, k, p) ==
    Admit(t, k, p, BucketFree(BucketOf[k]), banCount < MaxBan)

(* hlist_add_head_rcu, ban_count++, unlock.                                *)
InsertLink(t) ==
    /\ Running /\ pc[t] = "link"
    /\ mem' = [mem EXCEPT ![mine[t]] = "linked"]
    /\ banCount' = banCount + 1
    /\ Goto(t, "mark")
    /\ UNCHANGED <<key, perm, due, armed, cb, req, mine, temp, at, cover, removed,
                   count, used, fault>>

(* The layer's counter and bit, outside the bucket lock.                   *)
InsertMark(t) ==
    /\ Running /\ pc[t] = "mark"
    /\ LayerMark(KeyLayer(req[t]))
    /\ Goto(t, IF temp[t] THEN "arm" ELSE "notify")
    /\ UNCHANGED <<nodeVars, req, mine, temp, at, cover, removed, fault>>

(* mod_timer on the node, which another thread may have removed meanwhile. *)
InsertArm(t) ==
    /\ Running /\ pc[t] = "arm" /\ mem[mine[t]] # "free"
    /\ armed' = [armed EXCEPT ![mine[t]] = TRUE]
    /\ Goto(t, "notify")
    /\ UNCHANGED <<mem, key, perm, due, cb, req, mine, temp, at, cover,
                   removed, tableVars, fault>>

(* The BAN broadcast reads the address, reason and jail out of the node.   *)
InsertNotify(t) ==
    /\ Running /\ pc[t] = "notify" /\ mem[mine[t]] # "free"
    /\ Return(t)
    /\ UNCHANGED <<nodeVars, at, cover, removed, tableVars, fault>>

(* Either of the two finds the node freed.                                 *)
InsertUsesFreed(t) ==
    /\ Running /\ pc[t] \in {"arm", "notify"} /\ mem[mine[t]] = "free"
    /\ Fault("freed")

-----------------------------------------------------------------------------
(* fw_ban_del                                                              *)

(* Under the bucket lock: timer_delete (a running callback is not waited   *)
(* for), unlink, ban_count--.                                              *)
DelUnlink(t, k) ==
    /\ Running /\ pc[t] = "idle" /\ t \notin HookThread /\ BucketFree(BucketOf[k])
    /\ \E n \in Entries(k) :
        /\ armed' = [armed EXCEPT ![n] = FALSE]
        /\ mem' = [mem EXCEPT ![n] = "unlinked"]
        /\ mine' = [mine EXCEPT ![t] = n]
    /\ req' = [req EXCEPT ![t] = k]
    /\ banCount' = banCount - 1
    /\ Goto(t, "release")
    /\ UNCHANGED <<key, perm, due, cb, temp, at, cover, removed, count, used, fault>>

(* Mutant: the layer is not counted out.                                   *)
DelRelease_NoCount(t) ==
    /\ Running /\ pc[t] = "release"
    /\ mem' = [mem EXCEPT ![mine[t]] = "dying"]
    /\ Return(t)
    /\ UNCHANGED <<key, perm, due, armed, cb, at, cover, removed, tableVars, fault>>

(* The layer's counter, then call_rcu and the UNBAN broadcast.             *)
DelRelease(t) ==
    /\ Running /\ pc[t] = "release"
    /\ LayerRelease(KeyLayer(req[t]), 1)
    /\ mem' = [mem EXCEPT ![mine[t]] = "dying"]
    /\ Return(t)
    /\ UNCHANGED <<key, perm, due, armed, cb, at, cover, removed, fault>>

-----------------------------------------------------------------------------
(* fw_ban_del_matching: bucket by bucket                                   *)

ScanStart(t, C) ==
    /\ Running /\ pc[t] = "idle" /\ t \notin HookThread
    /\ cover' = [cover EXCEPT ![t] = C]
    /\ Goto(t, "scan")
    /\ UNCHANGED <<nodeVars, req, mine, temp, at, removed, tableVars, fault>>

(* Mutant: one bucket too many.                                            *)
ScanOn_OffByOne(t) ==
    IF at[t] <= NBucket
    THEN /\ Goto(t, "scan")
         /\ at' = [at EXCEPT ![t] = @ + 1]
         /\ UNCHANGED cover
    ELSE /\ Goto(t, "idle")
         /\ at' = [at EXCEPT ![t] = 1]
         /\ cover' = [cover EXCEPT ![t] = {}]

(* After a bucket: the next one, or the end of the scan.                   *)
ScanOn(t) ==
    IF at[t] < NBucket
    THEN /\ Goto(t, "scan")
         /\ at' = [at EXCEPT ![t] = @ + 1]
         /\ UNCHANGED cover
    ELSE /\ Goto(t, "idle")
         /\ at' = [at EXCEPT ![t] = 1]
         /\ cover' = [cover EXCEPT ![t] = {}]

(* Mutant: a scan takes every entry of the table for covered.              *)
Matching_All(t) == Linked

(* The entries of the bucket that the prefix covers.                       *)
Matching(t) == {n \in Linked : BucketOf[key[n]] = at[t] /\ key[n] \in cover[t]}

(* Nothing in this bucket is covered.                                      *)
ScanSkip(t) ==
    /\ Running /\ pc[t] = "scan" /\ BucketFree(at[t])
    /\ Matching(t) = {}
    /\ ScanOn(t)
    /\ UNCHANGED <<nodeVars, req, mine, temp, removed, tableVars, fault>>

(* Mutant: the bucket counts as one entry.                                 *)
ScanUnlink_One(t) ==
    /\ Running /\ pc[t] = "scan" /\ BucketFree(at[t])
    /\ Matching(t) # {}
    /\ armed' = [n \in Node |-> armed[n] /\ n \notin Matching(t)]
    /\ mem' = [n \in Node |-> IF n \in Matching(t) THEN "dying" ELSE mem[n]]
    /\ banCount' = banCount - 1
    /\ removed' = [removed EXCEPT ![t] = 1]
    /\ Goto(t, "scanrel")
    /\ UNCHANGED <<key, perm, due, cb, req, mine, temp, at, cover, count, used, fault>>

(* Under one bucket lock, every covered entry is unlinked and handed to    *)
(* call_rcu; the layer's counter follows after the unlock.                 *)
ScanUnlink(t) ==
    /\ Running /\ pc[t] = "scan" /\ BucketFree(at[t])
    /\ Matching(t) # {}
    /\ armed' = [n \in Node |-> armed[n] /\ n \notin Matching(t)]
    /\ mem' = [n \in Node |-> IF n \in Matching(t) THEN "dying" ELSE mem[n]]
    /\ banCount' = banCount - Cardinality(Matching(t))
    /\ removed' = [removed EXCEPT ![t] = Cardinality(Matching(t))]
    /\ Goto(t, "scanrel")
    /\ UNCHANGED <<key, perm, due, cb, req, mine, temp, at, cover, count, used, fault>>

ScanRelease(t) ==
    /\ Running /\ pc[t] = "scanrel"
    /\ LayerRelease(LayerOf[at[t]], removed[t])
    /\ removed' = [removed EXCEPT ![t] = 0]
    /\ ScanOn(t)
    /\ UNCHANGED <<nodeVars, req, mine, temp, fault>>

-----------------------------------------------------------------------------
(* fw_ban_expire_cb, RCU and the passing of time                           *)

(* jiffies reaches the entry's unban_jiffies.                              *)
Tick(n) ==
    /\ Running /\ mem[n] # "free" /\ ~due[n]
    /\ due' = [due EXCEPT ![n] = TRUE]
    /\ UNCHANGED <<mem, key, perm, armed, cb, threadVars, tableVars, fault>>

(* The timer wheel runs the callback, which reads the node and waits for   *)
(* the bucket lock inside an RCU read section.  A callback that starts     *)
(* after call_rcu (late) does not hold up the grace period of its node.    *)
TimerFire(n) ==
    /\ Running /\ armed[n] /\ due[n] /\ cb[n] = "idle" /\ mem[n] # "free"
    /\ armed' = [armed EXCEPT ![n] = FALSE]
    /\ cb' = [cb EXCEPT ![n] = IF mem[n] = "dying" THEN "late" ELSE "wait"]
    /\ UNCHANGED <<mem, key, perm, due, threadVars, tableVars, fault>>

(* Under the bucket lock: an entry renewed in the meantime gets its timer  *)
(* back.  hlist_unhashed() is false for a node that hlist_del_rcu has      *)
(* unlinked (its pprev is LIST_POISON2, not NULL), so the callback never   *)
(* takes its early return, and comes here for an unlinked node too.        *)
ExpireRearm(n) ==
    /\ Running /\ cb[n] \in {"wait", "late"} /\ mem[n] # "free"
    /\ BucketFree(BucketOf[key[n]])
    /\ ~perm[n] /\ ~due[n]
    /\ armed' = [armed EXCEPT ![n] = TRUE]
    /\ cb' = [cb EXCEPT ![n] = "idle"]
    /\ UNCHANGED <<mem, key, perm, due, threadVars, tableVars, fault>>

(* Mutant: the callback does not look whether the entry was renewed.       *)
ExpireUnlink_Always(n) ==
    /\ Running /\ cb[n] \in {"wait", "late"} /\ mem[n] = "linked"
    /\ BucketFree(BucketOf[key[n]])
    /\ mem' = [mem EXCEPT ![n] = "unlinked"]
    /\ banCount' = banCount - 1
    /\ cb' = [cb EXCEPT ![n] = "release"]
    /\ UNCHANGED <<key, perm, due, armed, threadVars, count, used, fault>>

(* Under the bucket lock: unlink, ban_count--.                             *)
ExpireUnlink(n) ==
    /\ Running /\ cb[n] \in {"wait", "late"} /\ mem[n] = "linked"
    /\ BucketFree(BucketOf[key[n]])
    /\ perm[n] \/ due[n]
    /\ mem' = [mem EXCEPT ![n] = "unlinked"]
    /\ banCount' = banCount - 1
    /\ cb' = [cb EXCEPT ![n] = "release"]
    /\ UNCHANGED <<key, perm, due, armed, threadVars, count, used, fault>>

(* The same for a node that is unlinked already: hlist_del_rcu writes      *)
(* through LIST_POISON2.                                                   *)
ExpireUnlinkAgain(n) ==
    /\ Running /\ cb[n] \in {"wait", "late"} /\ mem[n] \in {"unlinked", "dying"}
    /\ BucketFree(BucketOf[key[n]])
    /\ perm[n] \/ due[n]
    /\ Fault("poison")

(* Mutant: no call_rcu.                                                    *)
ExpireRelease_Leak(n) ==
    /\ Running /\ cb[n] = "release"
    /\ LayerRelease(KeyLayer(key[n]), 1)
    /\ cb' = [cb EXCEPT ![n] = "idle"]
    /\ UNCHANGED <<mem, key, perm, due, armed, threadVars, fault>>

(* The layer's counter, call_rcu and the UNBAN "expired" broadcast.        *)
ExpireRelease(n) ==
    /\ Running /\ cb[n] = "release"
    /\ LayerRelease(KeyLayer(key[n]), 1)
    /\ mem' = [mem EXCEPT ![n] = "dying"]
    /\ cb' = [cb EXCEPT ![n] = "idle"]
    /\ UNCHANGED <<key, perm, due, armed, threadVars, fault>>

(* The wheel still holds the timer of a freed node, or a late callback     *)
(* runs on one.                                                            *)
TimerUsesFreed(n) ==
    /\ Running /\ mem[n] = "free"
    /\ armed[n] \/ cb[n] # "idle"
    /\ Fault("freed")

(* fw_ban_free_rcu: the grace period has ended, so the RCU readers that    *)
(* were running at call_rcu are done with the node.                        *)
Reclaim(n) ==
    /\ Running /\ mem[n] = "dying" /\ cb[n] # "wait"
    /\ \A t \in HookThread : mine[t] # n
    /\ mem' = [mem EXCEPT ![n] = "free"]
    /\ key' = [key EXCEPT ![n] = NoKey]
    /\ perm' = [perm EXCEPT ![n] = FALSE]
    /\ due' = [due EXCEPT ![n] = FALSE]
    /\ UNCHANGED <<armed, cb, threadVars, tableVars, fault>>

-----------------------------------------------------------------------------
(* A call in progress goes on.                                             *)
Step(t) ==
    \/ InsertLink(t) \/ InsertMark(t) \/ InsertArm(t) \/ InsertNotify(t)
    \/ InsertUsesFreed(t)
    \/ DelRelease(t)
    \/ ScanSkip(t) \/ ScanUnlink(t) \/ ScanRelease(t)

(* A thread starts a call.                                                 *)
Call(t) ==
    \/ \E k \in Key : InsertRefused(t, k) \/ DelUnlink(t, k)
    \/ \E k \in Key, p \in BOOLEAN : InsertRenew(t, k, p) \/ InsertCheck(t, k, p)
    \/ \E C \in Cover : ScanStart(t, C)

(* The callback of a node goes on.                                         *)
Expire(n) ==
    \/ ExpireRearm(n) \/ ExpireUnlink(n) \/ ExpireUnlinkAgain(n) \/ ExpireRelease(n)

(* What time does to a node.                                               *)
Time(n) == Tick(n) \/ TimerFire(n) \/ TimerUsesFreed(n) \/ Reclaim(n)

Next ==
    \/ \E t \in Thread : Step(t) \/ Call(t)
    \/ \E n \in Node : Expire(n) \/ Time(n)

Spec == Init /\ [][Next]_vars

(* Threads are scheduled, the bucket locks are queued spinlocks, timers    *)
(* fire and grace periods end.  Nobody has to start a call.                *)
Fairness ==
    /\ \A t \in Thread : SF_vars(Step(t))
    /\ \A n \in Node :
        /\ SF_vars(Expire(n))
        /\ WF_vars(Time(n))

FairSpec == Spec /\ Fairness

-----------------------------------------------------------------------------
(* Properties                                                              *)

(* Every variable keeps its range, and a thread that works on a node has   *)
(* one.                                                                    *)
TypeOK ==
    /\ mem \in [Node -> Mem]
    /\ key \in [Node -> Key \cup {NoKey}]
    /\ perm \in [Node -> BOOLEAN]
    /\ due \in [Node -> BOOLEAN]
    /\ armed \in [Node -> BOOLEAN]
    /\ cb \in [Node -> CbPc]
    /\ pc \in [Thread -> ThreadPc]
    /\ req \in [Thread -> Key \cup {NoKey}]
    /\ mine \in [Thread -> Node \cup {NoNode}]
    /\ temp \in [Thread -> BOOLEAN]
    /\ at \in [Thread -> Bucket]
    /\ cover \in [Thread -> Cover \cup {{}}]
    /\ removed \in [Thread -> Nat]
    /\ count \in [Layer -> Int]
    /\ used \subseteq Layer
    /\ banCount \in Int
    /\ fault \in {"none", "poison", "freed"}

(* The two functions that write the bitmap keep it equal to the sign of    *)
(* the layer's counter, whatever they race with (fw_ban.c:143-155).        *)
BitmapMatchesCount == \A L \in Layer : L \in used <=> count[L] > 0

(* Nodes of layer L that hang in a bucket.                                 *)
LayerNodes(L) == {n \in Linked : KeyLayer(key[n]) = L}

(* Linked by a thread that has not counted its node yet.                   *)
PendingMarks(L) == {t \in Thread : pc[t] = "mark" /\ KeyLayer(req[t]) = L}

(* Unlinked by a thread or a callback that has not counted it out yet.     *)
PendingReleases(L) ==
    Cardinality({t \in Thread : pc[t] = "release" /\ KeyLayer(req[t]) = L})
    + Cardinality({n \in Node : cb[n] = "release" /\ KeyLayer(key[n]) = L})
    + MapThenSumSet(LAMBDA t : removed[t],
              {t \in Thread : pc[t] = "scanrel" /\ LayerOf[at[t]] = L})

(* The counter of a layer is off by exactly the calls that are between     *)
(* their bucket and their counter: nothing is counted twice or forgotten   *)
(* by insert, delete, bulk delete and expiry running against each other.   *)
LayerAccounting ==
    \A L \in Layer :
        count[L] = Cardinality(LayerNodes(L)) - Cardinality(PendingMarks(L))
                   + PendingReleases(L)

(* An entry can only be invisible to the packet path while some insert in  *)
(* its layer has yet to count its own node.                                *)
HiddenOnlyWhileMarking ==
    \A n \in Linked : KeyLayer(key[n]) \in used \/ PendingMarks(KeyLayer(key[n])) # {}

(* fw_info.ban_count, which the capacity check and the statistics read, is *)
(* the number of linked entries in every state.                            *)
BanCountExact == banCount = Cardinality(Linked)

(* No prefix has two entries, although the duplicate check and the link    *)
(* are separated from another thread's by the bucket lock alone.           *)
UniqueKey == \A n, m \in Linked : key[n] = key[m] => n = m

(* How far the table can outgrow max_ban_entries: each of the other        *)
(* threads may have passed the check in another bucket before the last     *)
(* free place was taken (fw_ban.c:7 calls the check atomic).               *)
Slack == Cardinality(Thread) - 1
CapacityOvershoot == banCount <= MaxBan + Slack

(* A temporary entry always has something that will end it: its timer, a   *)
(* callback that is about to run, or the insert that has yet to arm it.    *)
TemporaryWillEnd ==
    \A n \in Linked : ~perm[n] =>
        \/ armed[n]
        \/ cb[n] = "wait"
        \/ \E t \in Thread : mine[t] = n /\ pc[t] \in {"mark", "arm"} /\ temp[t]

(* A temporary ban with time left leaves the table by a delete only: the   *)
(* callback of an earlier deadline spares an entry that was renewed while  *)
(* it waited for the lock (fw_ban.c:303-310).                              *)
LiveBanOnlyDeleted ==
    [][\A n \in Linked :
          (~perm[n] /\ ~due[n] /\ mem'[n] # "linked") =>
              \E t \in Thread : pc'[t] \in {"release", "scanrel"} /\ pc[t] # pc'[t]]_vars

(* An entry whose time is over is removed or renewed.                      *)
ExpiredGoes ==
    \A n \in Node :
        (mem[n] = "linked" /\ Expired(n))
            ~> (mem[n] # "linked" \/ ~Expired(n) \/ fault # "none")

(* The memory of a removed entry is given back.                            *)
UnlinkedIsReclaimed ==
    \A n \in Node :
        mem[n] \in {"unlinked", "dying"} ~> (mem[n] = "free" \/ fault # "none")

(* The table is a set of banned prefixes with a capacity.                  *)
Banned == {key[n] : n \in Linked}
Abstract == INSTANCE BanSet WITH banned <- Banned, Capacity <- MaxBan + Slack
ImplementsBanSet == Abstract!Spec

-----------------------------------------------------------------------------
(* What the code's own comments say and the code does not keep.            *)

(* fw_ban.c:24-32: an entry that has been marked is never hidden by a      *)
(* cleared bit.                                                            *)
MarkedIsVisible ==
    \A n \in Linked :
        (\A t \in Thread : pc[t] = "mark" => mine[t] # n) => KeyLayer(key[n]) \in used

(* fw_ban.c:298: a callback that finds its node unlinked leaves it alone.  *)
NoSecondUnlink == fault # "poison"
=============================================================================
