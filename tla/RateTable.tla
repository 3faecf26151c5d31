----------------------------- MODULE RateTable -----------------------------
(***************************************************************************)
(* The rate table (fw_rate.c): entries in hash buckets, each with a slot   *)
(* of the same index in the memory of every CPU.  Packets find or create   *)
(* the entry of their source and elect one CPU to settle a window that is  *)
(* over; a work item reclaims the entries that have been silent; a change  *)
(* of the configuration clears the table.  Both clear the slots with       *)
(* on_each_cpu, whose callback interrupts a packet of its own CPU, but not *)
(* the CPU that publishes a new entry in every CPU's memory.               *)
(*                                                                         *)
(* What is counted is left out: an entry's window is over or not, and it   *)
(* has been silent for long or not.                                        *)
(***************************************************************************)
EXTENDS Integers, FiniteSets

CONSTANTS
    NCpu,         \* CPU 0 is the one whose slots a new entry probes
    Addr,         \* source addresses
    NBucket, BucketOf,  \* buckets of the table; BucketOf[a]
    NSlot, SlotOf,      \* FW_RATE_CPU_SLOTS; fw_rate_slot_idx, from 0 on
    Node,         \* the memory of entries
    MaxEntries,   \* fw_max_rate_entries
    Batch,        \* FW_RATE_RECLAIM_BATCH
    MaxOps,       \* bound: packets and clearings
    None

Cpu == 0 .. NCpu - 1
Bucket == 1 .. NBucket
Slot == 0 .. NSlot - 1

ASSUME RateAssumption ==
    /\ {NCpu, NBucket, NSlot, Batch} \subseteq Nat \ {0}
    /\ {MaxEntries, MaxOps} \subseteq Nat
    /\ BucketOf \in [Addr -> Bucket] /\ SlotOf \in [Addr -> Slot]
    /\ None \notin Node \cup Addr \cup Nat /\ IsFiniteSet(Node)

VARIABLES
    addr, idx,    \* addr[n], idx[n]: n->addr, None when free; n->slot_idx
    linked,       \* entries in the buckets
    slot,         \* slot[c][i]: the entry that owns slot i of CPU c
    count,        \* rate_count
    due, old,     \* entries whose window is over; that were silent 60 s
    rolling,      \* rolling: entries that a CPU settles
    bucketLock, slotLock,  \* the CPU that creates an entry, or None
    pub,          \* the next CPU whose slot the holder of slotLock publishes
    pc, src, cur, \* what CPU c does, for which source, with which entry
    ipi,          \* the entry that a callback on CPU c is about to clear
    rstate, rb, batch, rdone,        \* fw_rate_reclaim_work
    clearing, dstate, db, pre, dn, ddone, gp,  \* fw_rate_clear_all
    doomed, waits,  \* given to call_rcu; the CPUs that may still read them
    ops

nodeVars == <<addr, idx, linked, count>>
rollVars == <<due, old, rolling>>
lockVars == <<bucketLock, slotLock, pub>>
hotVars == <<pc, src, cur>>
reclaimVars == <<rstate, rb, batch, rdone>>
clearVars == <<clearing, dstate, db, pre, dn, ddone, gp>>
rcuVars == <<doomed, waits>>
vars == <<nodeVars, slot, rollVars, lockVars, hotVars, ipi, reclaimVars, clearVars, rcuVars, ops>>

Init ==
    /\ addr = [n \in Node |-> None] /\ idx = [n \in Node |-> 0]
    /\ linked = {} /\ count = 0
    /\ slot = [c \in Cpu |-> [i \in Slot |-> None]]
    /\ due = {} /\ old = {} /\ rolling = {}
    /\ bucketLock = [b \in Bucket |-> None] /\ slotLock = None /\ pub = 0
    /\ pc = [c \in Cpu |-> "idle"] /\ src = [c \in Cpu |-> None]
    /\ cur = [c \in Cpu |-> None]
    /\ ipi = [c \in Cpu |-> None]
    /\ rstate = "idle" /\ rb = 1 /\ batch = {} /\ rdone = {}
    /\ clearing = FALSE /\ dstate = "idle" /\ db = 1 /\ pre = {} /\ dn = None /\ ddone = {}
    /\ gp = {}
    /\ doomed = {} /\ waits = [n \in Node |-> {}]
    /\ ops = 0

-----------------------------------------------------------------------------
(* RCU                                                                     *)

Readers == {c \in Cpu : pc[c] # "idle"}
FreeNodes == {n \in Node : addr[n] = None}
EntriesOf(a) == {n \in linked : addr[n] = a}
InBucket(b) == {n \in linked : BucketOf[addr[n]] = b}

Doom(S) ==
    /\ doomed' = doomed \cup S
    /\ waits' = [n \in Node |-> IF n \in S THEN Readers ELSE waits[n]]

(* The end of fw_rate_observe and of the hook's read-side section.         *)
Leave(c) ==
    /\ pc' = [pc EXCEPT ![c] = "idle"]
    /\ src' = [src EXCEPT ![c] = None] /\ cur' = [cur EXCEPT ![c] = None]
    /\ waits' = [n \in Node |-> waits[n] \ {c}]
    /\ gp' = gp \ {c}

Free(n) ==
    /\ n \in doomed /\ waits[n] = {}
    /\ addr' = [addr EXCEPT ![n] = None]
    /\ idx' = [idx EXCEPT ![n] = 0]
    /\ doomed' = doomed \ {n}
    /\ due' = due \ {n} /\ old' = old \ {n} /\ rolling' = rolling \ {n}
    /\ UNCHANGED <<linked, count, slot, lockVars, hotVars, ipi, reclaimVars, clearVars, waits, ops>>

-----------------------------------------------------------------------------
(* fw_rate_observe                                                         *)

(* The clearing flag, and a look-up without a lock.                        *)
Observe(c, a) ==
    /\ pc[c] = "idle" /\ ipi[c] = None
    /\ ~clearing
    /\ ops < MaxOps /\ ops' = ops + 1
    /\ src' = [src EXCEPT ![c] = a]
    /\ \/ \E n \in EntriesOf(a) :
             cur' = [cur EXCEPT ![c] = n] /\ pc' = [pc EXCEPT ![c] = "slot"]
       \/ /\ EntriesOf(a) = {}
          /\ pc' = [pc EXCEPT ![c] = "miss"] /\ UNCHANGED cur
    /\ UNCHANGED <<nodeVars, slot, rollVars, lockVars, ipi, reclaimVars, clearVars, rcuVars>>

(* Under the bucket lock: another CPU has created it meanwhile, ...        *)
FoundAgain(c) ==
    /\ pc[c] = "miss" /\ ipi[c] = None
    /\ bucketLock[BucketOf[src[c]]] = None
    /\ \E n \in EntriesOf(src[c]) : cur' = [cur EXCEPT ![c] = n]
    /\ pc' = [pc EXCEPT ![c] = "slot"]
    /\ UNCHANGED <<nodeVars, slot, rollVars, lockVars, src, ipi, reclaimVars,
                   clearVars, rcuVars, ops>>

(* ... the table is full or being cleared, or there is no memory: pass;    *)
Spill(c) ==
    /\ pc[c] = "miss" /\ ipi[c] = None
    /\ bucketLock[BucketOf[src[c]]] = None
    /\ EntriesOf(src[c]) = {}
    /\ count >= MaxEntries \/ clearing \/ FreeNodes = {}
    /\ Leave(c)
    /\ UNCHANGED <<nodeVars, slot, rollVars, lockVars, ipi, reclaimVars, clearing,
                   dstate, db, pre, dn, ddone, doomed, ops>>

(* ... or fw_rate_create allocates it.                                     *)
Alloc(c) ==
    /\ count < MaxEntries /\ ~clearing
    /\ \E n \in FreeNodes :
          /\ addr' = [addr EXCEPT ![n] = src[c]]
          /\ cur' = [cur EXCEPT ![c] = n]
    /\ bucketLock' = [bucketLock EXCEPT ![BucketOf[src[c]]] = c]
    /\ pc' = [pc EXCEPT ![c] = "probe"]
    /\ UNCHANGED <<idx, linked, count, slot, rollVars, slotLock, pub, src, ipi,
                   reclaimVars, clearVars, rcuVars, ops>>
CreateAlloc_NoLookup(c) ==
    /\ pc[c] = "miss" /\ ipi[c] = None
    /\ bucketLock[BucketOf[src[c]]] = None
    /\ Alloc(c)
CreateAlloc(c) ==
    /\ pc[c] = "miss" /\ ipi[c] = None
    /\ bucketLock[BucketOf[src[c]]] = None
    /\ EntriesOf(src[c]) = {}
    /\ Alloc(c)

(* The first slot, from the source's own on, that is free on CPU 0.        *)
ProbeAt(a, k) == (SlotOf[a] + k) % NSlot
FreeAt(a, k) == slot[0][ProbeAt(a, k)] = None
Exhausted(a) == \A k \in Slot : ~FreeAt(a, k)

CreateFails(c) ==
    /\ pc[c] = "probe" /\ ipi[c] = None
    /\ slotLock = None
    /\ Exhausted(src[c])
    /\ addr' = [addr EXCEPT ![cur[c]] = None]
    /\ bucketLock' = [bucketLock EXCEPT ![BucketOf[src[c]]] = None]
    /\ Leave(c)
    /\ UNCHANGED <<idx, linked, count, slot, rollVars, slotLock, pub, ipi, reclaimVars,
                   clearing, dstate, db, pre, dn, ddone, doomed, ops>>

Link(c, i) ==
    /\ pc[c] = "probe" /\ ipi[c] = None
    /\ slotLock = None
    /\ slotLock' = c /\ pub' = 0
    /\ idx' = [idx EXCEPT ![cur[c]] = i]
    /\ linked' = linked \cup {cur[c]}
    /\ count' = count + 1
    /\ pc' = [pc EXCEPT ![c] = "publish"]
    /\ UNCHANGED <<addr, slot, rollVars, bucketLock, src, cur, ipi, reclaimVars,
                   clearVars, rcuVars, ops>>
CreateLink_OwnSlot(c) == pc[c] = "probe" /\ Link(c, SlotOf[src[c]])
CreateLink(c) ==
    /\ pc[c] = "probe"
    /\ \E k \in Slot :
        /\ FreeAt(src[c], k) /\ \A j \in 0 .. k - 1 : ~FreeAt(src[c], j)
        /\ Link(c, ProbeAt(src[c], k))

(* fw_rate_publish_slots: one CPU after the other, into their memory; then *)
(* the locks are released.                                                 *)
Publish(c) ==
    /\ pc[c] = "publish" /\ ipi[c] = None
    /\ slot' = [slot EXCEPT ![pub][idx[cur[c]]] = cur[c]]
    /\ IF pub < NCpu - 1
       THEN pub' = pub + 1 /\ UNCHANGED <<slotLock, bucketLock, pc>>
       ELSE /\ pub' = 0 /\ slotLock' = None
            /\ bucketLock' = [bucketLock EXCEPT ![BucketOf[src[c]]] = None]
            /\ pc' = [pc EXCEPT ![c] = "slot"]
    /\ UNCHANGED <<nodeVars, rollVars, src, cur, ipi, reclaimVars, clearVars, rcuVars, ops>>

(* The packet counts only while the slot belongs to its entry; then it     *)
(* looks whether the window is over.                                       *)
SlotLost(c) ==
    /\ pc[c] = "slot" /\ ipi[c] = None
    /\ slot[c][idx[cur[c]]] # cur[c]
    /\ Leave(c)
    /\ UNCHANGED <<nodeVars, slot, rollVars, lockVars, ipi, reclaimVars, clearing,
                   dstate, db, pre, dn, ddone, doomed, ops>>
Count(c) ==
    /\ pc[c] = "slot" /\ ipi[c] = None
    /\ slot[c][idx[cur[c]]] = cur[c]
    /\ pc' = [pc EXCEPT ![c] = IF cur[c] \in due THEN "elect" ELSE "judge"]
    /\ UNCHANGED <<nodeVars, slot, rollVars, lockVars, src, cur, ipi, reclaimVars,
                   clearVars, rcuVars, ops>>

(* atomic_cmpxchg on n->rolling; fw_rate_roll.                             *)
Elect(c) ==
    /\ pc[c] = "elect" /\ ipi[c] = None
    /\ rolling' = rolling \cup {cur[c]}
    /\ pc' = [pc EXCEPT ![c] = IF cur[c] \in rolling THEN "judge" ELSE "roll"]
    /\ UNCHANGED <<nodeVars, slot, due, old, lockVars, src, cur, ipi, reclaimVars,
                   clearVars, rcuVars, ops>>
Roll(c) ==
    /\ pc[c] = "roll" /\ ipi[c] = None
    /\ due' = due \ {cur[c]} /\ old' = old \ {cur[c]}
    /\ rolling' = rolling \ {cur[c]}
    /\ pc' = [pc EXCEPT ![c] = "judge"]
    /\ UNCHANGED <<nodeVars, slot, lockVars, src, cur, ipi, reclaimVars, clearVars,
                   rcuVars, ops>>
Judge(c) ==
    /\ pc[c] = "judge" /\ ipi[c] = None
    /\ Leave(c)
    /\ UNCHANGED <<nodeVars, slot, rollVars, lockVars, ipi, reclaimVars, clearing,
                   dstate, db, pre, dn, ddone, doomed, ops>>

WindowEnds(n) ==
    /\ n \in linked \ due
    /\ due' = due \cup {n}
    /\ UNCHANGED <<nodeVars, slot, old, rolling, lockVars, hotVars, ipi, reclaimVars, clearVars,
                   rcuVars, ops>>
GrowsOld(n) ==
    /\ n \in (linked \cap due) \ old
    /\ old' = old \cup {n}
    /\ UNCHANGED <<nodeVars, slot, due, rolling, lockVars, hotVars, ipi, reclaimVars, clearVars,
                   rcuVars, ops>>

-----------------------------------------------------------------------------
(* The callbacks of on_each_cpu: one CPU looks at the slot, then clears it *)

CallbackClears(c) ==
    /\ ipi[c] # None
    /\ slot' = [slot EXCEPT ![c][idx[ipi[c]]] = None]
    /\ ipi' = [ipi EXCEPT ![c] = None]
    /\ UNCHANGED <<nodeVars, rollVars, lockVars, hotVars, reclaimVars, clearVars, rcuVars, ops>>

Looks(c, n) ==
    /\ ipi[c] = None
    /\ ipi' = [ipi EXCEPT ![c] = IF slot[c][idx[n]] = n THEN n ELSE None]

-----------------------------------------------------------------------------
(* fw_rate_reclaim_work                                                    *)

ReclaimStart ==
    /\ rstate = "idle" /\ ~clearing
    /\ rstate' = "scan"
    /\ UNCHANGED <<nodeVars, slot, rollVars, lockVars, hotVars, ipi, rb, batch, rdone, clearVars,
                   rcuVars, ops>>

(* One bucket, under its lock, until the batch is full.                    *)
Taken(S) ==
    /\ S \subseteq InBucket(rb) \cap old
    /\ Cardinality(batch \cup S) <= Batch
    /\ Cardinality(batch \cup S) = Batch \/ S = InBucket(rb) \cap old
AfterBucket(taken) ==
    IF Cardinality(taken) = Batch \/ (rb = NBucket /\ taken # {}) THEN "flush"
    ELSE IF rb = NBucket THEN "idle" ELSE "scan"
ReclaimBucket ==
    /\ rstate = "scan"
    /\ bucketLock[rb] = None
    /\ \E S \in SUBSET linked :
          /\ Taken(S)
          /\ linked' = linked \ S /\ batch' = batch \cup S
          /\ rstate' = AfterBucket(batch \cup S)
    /\ rb' = IF rb = NBucket THEN 1 ELSE rb + 1
    /\ UNCHANGED <<addr, idx, count, slot, rollVars, lockVars, hotVars, ipi, rdone, clearVars,
                   rcuVars, ops>>

(* fw_rate_reclaim_flush, fw_rate_reclaim_slots_this_cpu.                  *)
ReclaimLooks_EmptyBatch(c, n) ==
    /\ rstate = "flush"
    /\ n \in batch /\ <<c, n>> \notin rdone
    /\ rdone' = rdone \cup {<<c, n>>}
    /\ UNCHANGED <<nodeVars, slot, rollVars, lockVars, hotVars, ipi, rstate, rb, batch,
                   clearVars, rcuVars, ops>>
ReclaimLooks(c, n) ==
    /\ rstate = "flush"
    /\ n \in batch /\ <<c, n>> \notin rdone
    /\ Looks(c, n)
    /\ rdone' = rdone \cup {<<c, n>>}
    /\ UNCHANGED <<nodeVars, slot, rollVars, lockVars, hotVars, rstate, rb, batch, clearVars,
                   rcuVars, ops>>
Called(S, done) == \A c \in Cpu, n \in S : <<c, n>> \in done /\ ipi[c] # n
ReclaimFlush_NoCount ==
    /\ rstate = "flush" /\ Called(batch, rdone)
    /\ Doom(batch)
    /\ batch' = {} /\ rdone' = {}
    /\ rstate' = IF rb = 1 THEN "idle" ELSE "scan"
    /\ UNCHANGED <<nodeVars, slot, rollVars, lockVars, hotVars, ipi, rb, clearVars, ops>>
ReclaimFlush ==
    /\ rstate = "flush" /\ Called(batch, rdone)
    /\ count' = count - Cardinality(batch)
    /\ Doom(batch)
    /\ batch' = {} /\ rdone' = {}
    /\ rstate' = IF rb = 1 THEN "idle" ELSE "scan"
    /\ UNCHANGED <<addr, idx, linked, slot, rollVars, lockVars, hotVars, ipi, rb, clearVars, ops>>

-----------------------------------------------------------------------------
(* fw_rate_clear_all, fw_rate_drain_tables                                 *)

ClearBegin ==
    /\ dstate = "idle"
    /\ ops < MaxOps /\ ops' = ops + 1
    /\ clearing' = TRUE /\ dstate' = "unlink" /\ db' = 1
    /\ UNCHANGED <<nodeVars, slot, rollVars, lockVars, hotVars, ipi, reclaimVars, pre, dn, ddone,
                   gp, rcuVars>>
DrainBucket ==
    /\ dstate = "unlink" /\ db <= NBucket
    /\ bucketLock[db] = None
    /\ linked' = linked \ InBucket(db) /\ pre' = pre \cup InBucket(db)
    /\ db' = db + 1
    /\ UNCHANGED <<addr, idx, count, slot, rollVars, lockVars, hotVars, ipi, reclaimVars,
                   clearing, dstate, dn, ddone, gp, rcuVars, ops>>
DrainPick ==
    /\ dstate \in {"unlink", "slots"} /\ db > NBucket
    /\ dn = None
    /\ \E n \in pre : dn' = n /\ pre' = pre \ {n}
    /\ dstate' = "slots"
    /\ UNCHANGED <<nodeVars, slot, rollVars, lockVars, hotVars, ipi, reclaimVars, clearing, db,
                   ddone, gp, rcuVars, ops>>
DrainLooks(c) ==
    /\ dn # None /\ <<c, dn>> \notin ddone
    /\ Looks(c, dn)
    /\ ddone' = ddone \cup {<<c, dn>>}
    /\ UNCHANGED <<nodeVars, slot, rollVars, lockVars, hotVars, reclaimVars, clearing, dstate,
                   db, pre, dn, gp, rcuVars, ops>>
DrainDoom ==
    /\ dn # None /\ Called({dn}, ddone)
    /\ Doom({dn})
    /\ dn' = None /\ ddone' = {}
    /\ UNCHANGED <<nodeVars, slot, rollVars, lockVars, hotVars, ipi, reclaimVars, clearing,
                   dstate, db, pre, gp, ops>>
ClearSync ==
    /\ dstate \in {"unlink", "slots"} /\ db > NBucket
    /\ pre = {} /\ dn = None
    /\ dstate' = "sync" /\ gp' = Readers
    /\ UNCHANGED <<nodeVars, slot, rollVars, lockVars, hotVars, ipi, reclaimVars, clearing, db,
                   pre, dn, ddone, rcuVars, ops>>
ClearEnd ==
    /\ dstate = "sync" /\ gp = {}
    /\ count' = 0
    /\ clearing' = FALSE /\ dstate' = "idle"
    /\ UNCHANGED <<addr, idx, linked, slot, rollVars, lockVars, hotVars, ipi, reclaimVars, db,
                   pre, dn, ddone, gp, rcuVars, ops>>

-----------------------------------------------------------------------------
Packet(c) ==
    \/ \E a \in Addr : Observe(c, a)
    \/ FoundAgain(c) \/ Spill(c) \/ CreateAlloc(c) \/ CreateFails(c) \/ CreateLink(c)
    \/ Publish(c) \/ SlotLost(c) \/ Count(c) \/ Elect(c) \/ Roll(c) \/ Judge(c)
Reclaim ==
    \/ ReclaimStart \/ ReclaimBucket \/ ReclaimFlush
    \/ \E c \in Cpu, n \in Node : ReclaimLooks(c, n)
Clear ==
    \/ ClearBegin \/ DrainBucket \/ DrainPick \/ DrainDoom \/ ClearSync \/ ClearEnd
    \/ \E c \in Cpu : DrainLooks(c)
Next ==
    \/ \E c \in Cpu : Packet(c) \/ CallbackClears(c)
    \/ Reclaim \/ Clear
    \/ \E n \in Node : WindowEnds(n) \/ GrowsOld(n) \/ Free(n)

Spec == Init /\ [][Next]_vars

(* Every CPU goes on with its packet and takes its interrupts, the work    *)
(* item is queued again every ten seconds, a clear that has begun goes on. *)
FairSpec ==
    /\ Spec
    /\ \A c \in Cpu : WF_vars(CallbackClears(c)) /\ WF_vars(Packet(c))
    /\ WF_vars(Reclaim) /\ WF_vars(Clear)

-----------------------------------------------------------------------------
TypeOK ==
    /\ addr \in [Node -> Addr \cup {None}] /\ idx \in [Node -> Slot]
    /\ linked \in SUBSET Node /\ count \in Int
    /\ slot \in [Cpu -> [Slot -> Node \cup {None}]]
    /\ bucketLock \in [Bucket -> Cpu \cup {None}] /\ slotLock \in Cpu \cup {None}
    /\ pub \in Cpu
    /\ pc \in [Cpu -> {"idle", "miss", "probe", "publish", "slot", "elect", "roll", "judge"}]
    /\ src \in [Cpu -> Addr \cup {None}] /\ cur \in [Cpu -> Node \cup {None}]
    /\ ipi \in [Cpu -> Node \cup {None}]
    /\ batch \in SUBSET Node /\ pre \in SUBSET Node /\ dn \in Node \cup {None}
    /\ doomed \in SUBSET Node

(* An entry in the table owns its slot on CPU 0, where new entries look    *)
(* for one: no two entries share a slot, whatever the callbacks of a       *)
(* reclamation or a clearing do meanwhile (fw_rate_create).                *)
Publishing(n) == \E c \in Cpu : pc[c] = "publish" /\ cur[c] = n
SlotOwned == \A n \in linked : slot[0][idx[n]] = n \/ Publishing(n)

(* A source has one entry (fw_rate_observe: the look-up is repeated under  *)
(* the bucket lock).                                                       *)
OneEntry == \A m, n \in linked : addr[m] = addr[n] => m = n

(* Memory that has been given back is in no slot of any CPU, and in no     *)
(* packet's hands (fw_rate.c, header: 要么读到空槽，要么读到的条目必然存活).  *)
NoDangling ==
    /\ \A c \in Cpu, i \in Slot : slot[c][i] # None => addr[slot[c][i]] # None
    /\ \A c \in Cpu : cur[c] # None => addr[cur[c]] # None

(* Between clearings, rate_count never says more than there is: no phantom  *)
(* entry ever keeps sources out (fw_rate_reclaim_flush, fw_rate_clear_all). *)
CountNeverAbove ==
    dstate = "idle" => count <= Cardinality(linked) + Cardinality(batch)

(* A source that is silent for long loses its entry, so that its slot can  *)
(* be used by another (fw_rate_reclaim_work).                              *)
SilentGoes == \A n \in Node : n \in linked \cap old ~> n \notin linked \cap old

(* A window is settled by one CPU and only when it is over (fw_rate.c, the *)
(* header: the other CPUs return at once).                                 *)
RolledWhenOver == \A c \in Cpu : pc[c] = "roll" => cur[c] \in due
=============================================================================
