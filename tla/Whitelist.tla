------------------------------ MODULE Whitelist ------------------------------
(***************************************************************************)
(* The verdict on a packet, and what it reads: the whitelist (fw_wl.c),    *)
(* the set of local addresses (fw_local.c, fw_netdev.c) and the ban table, *)
(* which is the abstract set that BanTable implements.                     *)
(*                                                                         *)
(* A packet reads the four places one after the other in one RCU section   *)
(* (fw_hook.c), while netlink and procfs handlers ban, unban, add and      *)
(* remove, and a worker replaces the local set and deletes whitelist       *)
(* entries.  Every place is changed by one atomic step (a spinlock or      *)
(* rcu_assign_pointer); nothing orders the places against each other.      *)
(*                                                                         *)
(* A walk of an RCU list is one step here: entries are appended at the     *)
(* tail, and a walk that finds none that covers the address ends at a      *)
(* moment at which the list has none.                                      *)
(***************************************************************************)
EXTENDS Integers, FiniteSetsExt

CONSTANTS
    Packet,       \* CPUs that run the hook
    Caller,       \* netlink and procfs handlers
    Prefix,       \* (family, network, prefix length), of entries and of bans
    Addr,         \* host addresses
    Net,          \* Net[p]: the network address of p
    Covers,       \* Covers[p]: the addresses in p
    Device,       \* device names of whitelist entries
    NBucket,      \* buckets of the ban table are 1..NBucket, in scan order
    BucketOf,     \* BucketOf[p]: the bucket of a ban of p
    MaxBan,       \* places in the ban table
    MaxWl,        \* fw_info.max_wl_entries
    MaxPasses,    \* FW_NETDEV_MAX_PASSES
    Topology,     \* the address sets that the interfaces can have
    MaxChange,    \* bound: changes of the interfaces
    NoPrefix

Thread == Packet \cup Caller
Bucket == 1..NBucket

ASSUME PrefixAssumption ==
    /\ Net \in [Prefix -> Addr]
    /\ Covers \in [Prefix -> SUBSET Addr]
    /\ \A p \in Prefix : Net[p] \in Covers[p]
ASSUME FiniteAssumption == IsFiniteSet(Addr) /\ IsFiniteSet(Prefix)
ASSUME BucketAssumption == NBucket \in Nat \ {0} /\ BucketOf \in [Prefix -> Bucket]
ASSUME TopologyAssumption == Topology \subseteq SUBSET Addr
ASSUME ThreadAssumption == Packet \cap Caller = {} /\ NoPrefix \notin Prefix
ASSUME BoundAssumption == {MaxBan, MaxWl, MaxPasses, MaxChange} \subseteq Nat
(* "" is what the API and trusted_ips send (main.go:753, whitelist.go:84), *)
(* "api" what a state file turns it into (fw_state.c:265), "manual" what   *)
(* procfs writes.                                                          *)
ASSUME DeviceAssumption == Device \subseteq {"", "api", "manual", "restored"}

VARIABLES
    \* the whitelist: the device name of each entry, or Absent
    wl,
    banned,     \* the prefixes with a ban
    hidden,     \* those whose layer is not marked in the bitmap `used`
    local,      \* the published set of local addresses
    ifaces,     \* the addresses of the interfaces that are up
    noticed,    \* the last change of the interfaces was a netdev event
    changes,    \* changes of the interfaces so far
    \* threads
    pc, req,    \* where the thread is, and the prefix it works on
    call,       \* check (the hook), ban (fw_ban_try_add), remove (fw_wl_remove)
    at,         \* the next bucket of the ban table; 0 is the full-length layer
    verdict,    \* what the hook will return
    \* the worker
    queued,     \* sync_work is pending
    wpc,        \* where the worker is
    room,       \* how many addresses fit into rows
    rows,       \* the addresses it collected
    page,       \* automatic entries without an address, on the page it read
    passes,     \* entries it deleted
    failed,     \* its last allocation failed
    \* history, read by the properties only
    held,       \* entries that covered the subject all the time
    home,       \* the subject was in the local set all the time
    stuck,      \* bans that lasted (for a check: in sight) all the time
    clear       \* nothing protected the subject at any time

Absent == "absent"

banVars    == <<banned, hidden>>
tableVars  == <<wl, banVars, local>>
linkVars   == <<ifaces, noticed, changes>>
threadVars == <<pc, req, call, at, verdict>>
workerVars == <<wpc, room, rows, page, passes, failed>>
historyVars == <<held, home, stuck, clear>>
vars == <<tableVars, linkVars, threadVars, queued, workerVars, historyVars>>

Bans == INSTANCE BanSet
            WITH Key <- Prefix, Cover <- {}, Capacity <- MaxBan

(* Registering the notifier replays an event for every interface, so that  *)
(* the work is queued when the module has been loaded.                     *)
Init ==
    /\ wl = [p \in Prefix |-> Absent]
    /\ banned = {} /\ hidden = {}
    /\ ifaces \in Topology
    /\ local = ifaces
    /\ noticed = TRUE
    /\ changes = 0
    /\ pc = [t \in Thread |-> "idle"]
    /\ req = [t \in Thread |-> NoPrefix]
    /\ call = [t \in Thread |-> "none"]
    /\ at = [t \in Thread |-> 0]
    /\ verdict = [t \in Packet |-> "none"]
    /\ queued = TRUE
    /\ wpc = "idle"
    /\ room = 0
    /\ rows = {}
    /\ page = {}
    /\ passes = 0
    /\ failed = FALSE
    /\ held = [t \in Thread |-> {}]
    /\ home = [t \in Thread |-> FALSE]
    /\ stuck = [t \in Thread |-> {}]
    /\ clear = [t \in Thread |-> FALSE]

-----------------------------------------------------------------------------
(* Helpers                                                                 *)

Entries == {p \in Prefix : wl[p] # Absent}

(* fw_wl_is_full_prefix                                                    *)
Full(p) == Covers[p] = {Net[p]}

(* The address that a call is about.                                       *)
Subject(t) == Net[req[t]]

(* fw_prefix_match: the entries that cover an address.                     *)
Covering(a) == {p \in Entries : a \in Covers[p]}

(* fw_netdev_dev_is_auto                                                   *)
IsAuto(device) == device \notin {"manual", "restored"}

(* fw_netdev_local_has: an address of the interfaces, exactly.             *)
LocalHas(p) == Full(p) /\ Net[p] \in rows

Goto(t, where) == pc' = [pc EXCEPT ![t] = where]

(* A thread enters a call.                                                 *)
Enter(t, what, p, where) ==
    /\ pc[t] = "idle"
    /\ Goto(t, where)
    /\ req' = [req EXCEPT ![t] = p]
    /\ call' = [call EXCEPT ![t] = what]

(* The hook decides.                                                       *)
Decide(t, v) == verdict' = [verdict EXCEPT ![t] = v]

-----------------------------------------------------------------------------
(* fw_ban_check, and fw_ban_try_add for the hook and for the handlers      *)

(* A packet from the address of a full-length prefix.                      *)
Arrive(t, p) ==
    /\ t \in Packet /\ Full(p)
    /\ Enter(t, "check", p, "bucket")
    /\ UNCHANGED <<tableVars, linkVars, at, verdict, queued, workerVars>>

(* A handler calls fw_ban_try_add.                                         *)
BanCall(t, p) ==
    /\ t \in Caller
    /\ Enter(t, "ban", p, "bucket")
    /\ UNCHANGED <<tableVars, linkVars, at, verdict, queued, workerVars>>

(* fw_wl_lookup found an entry: the packet passes, the ban is refused.     *)
Protected(t) ==
    /\ Goto(t, "done")
    /\ IF call[t] = "check" THEN Decide(t, "accept") ELSE UNCHANGED verdict
    /\ UNCHANGED <<tableVars, linkVars, req, call, at, queued, workerVars>>

(* The first half of fw_wl_lookup: the bucket of the address, for entries  *)
(* of full length.                                                         *)
WlBucketHit(t) ==
    /\ pc[t] = "bucket"
    /\ \E p \in Covering(Subject(t)) : Full(p)
    /\ Protected(t)

WlBucketMiss(t) ==
    /\ pc[t] = "bucket"
    /\ ~ \E p \in Covering(Subject(t)) : Full(p)
    /\ Goto(t, "list")
    /\ UNCHANGED <<tableVars, linkVars, req, call, at, verdict, queued, workerVars>>

(* The second half: the list of the shorter prefixes.                      *)
WlListHit(t) ==
    /\ pc[t] = "list"
    /\ \E p \in Covering(Subject(t)) : ~Full(p)
    /\ Protected(t)

(* Mutant: the hook forgets the local set.                                 *)
WlListMiss_NoLocal(t) ==
    /\ pc[t] = "list"
    /\ ~ \E p \in Covering(Subject(t)) : ~Full(p)
    /\ Goto(t, IF call[t] = "check" THEN "probe" ELSE "insert")
    /\ UNCHANGED <<tableVars, linkVars, req, call, at, verdict, queued, workerVars>>

WlListMiss(t) ==
    /\ pc[t] = "list"
    /\ ~ \E p \in Covering(Subject(t)) : ~Full(p)
    /\ Goto(t, IF call[t] = "check" THEN "local" ELSE "insert")
    /\ UNCHANGED <<tableVars, linkVars, req, call, at, verdict, queued, workerVars>>

(* fw_local_lookup in the set published at this moment.                    *)
LocalLookup(t) ==
    /\ pc[t] = "local"
    /\ IF Subject(t) \in local
       THEN Goto(t, "done") /\ Decide(t, "accept")
       ELSE Goto(t, "probe") /\ UNCHANGED verdict
    /\ UNCHANGED <<tableVars, linkVars, req, call, at, queued, workerVars>>

(* Bans that fw_ban_probe_layer compares with the address in one bucket;   *)
(* it is sure to be called while the layer is marked.                      *)
Probed(t) ==
    {k \in banned :
        /\ Subject(t) \in Covers[k]
        /\ IF at[t] = 0 THEN Full(k) ELSE ~Full(k) /\ BucketOf[k] = at[t]}

(* fw_ban_lookup: the full-length layer first, then the others, shortest   *)
(* prefix first, each only if its bit was set when it was read.            *)
ProbeHit(t) ==
    /\ pc[t] = "probe"
    /\ Probed(t) # {}
    /\ Goto(t, "done")
    /\ Decide(t, "drop")
    /\ at' = [at EXCEPT ![t] = 0]
    /\ UNCHANGED <<tableVars, linkVars, req, call, queued, workerVars>>

(* Mutant: only the full-length layer is probed.                           *)
ProbeMiss_ExactOnly(t) ==
    /\ pc[t] = "probe"
    /\ Probed(t) \subseteq hidden
    /\ Goto(t, "observe")
    /\ UNCHANGED <<tableVars, linkVars, req, call, at, verdict, queued, workerVars>>

ProbeMiss(t) ==
    /\ pc[t] = "probe"
    /\ Probed(t) \subseteq hidden
    /\ IF at[t] < NBucket
       THEN at' = [at EXCEPT ![t] = @ + 1] /\ UNCHANGED pc
       ELSE at' = [at EXCEPT ![t] = 0] /\ Goto(t, "observe")
    /\ UNCHANGED <<tableVars, linkVars, req, call, verdict, queued, workerVars>>

(* fw_rate_observe: within the limits, or detection is off.                *)
Conforms(t) ==
    /\ pc[t] = "observe"
    /\ Goto(t, "done")
    /\ Decide(t, "accept")
    /\ UNCHANGED <<tableVars, linkVars, req, call, at, queued, workerVars>>

(* Mutant: the hook bans without another look at the whitelist.            *)
Violates_NoLookup(t) ==
    /\ pc[t] = "observe"
    /\ Goto(t, "insert")
    /\ Decide(t, "drop")
    /\ call' = [call EXCEPT ![t] = "ban"]
    /\ UNCHANGED <<tableVars, linkVars, req, at, queued, workerVars>>

(* Or a violation: the packet will be dropped, and outside the RCU section *)
(* its source is banned through fw_ban_try_add.                            *)
Violates(t) ==
    /\ pc[t] = "observe"
    /\ Goto(t, "bucket")
    /\ Decide(t, "drop")
    /\ call' = [call EXCEPT ![t] = "ban"]
    /\ UNCHANGED <<tableVars, linkVars, req, at, queued, workerVars>>

(* fw_ban_insert takes the ban up; its layer may be marked later.          *)
BanInsert(t) ==
    /\ pc[t] = "insert"
    /\ Bans!Add(req[t])
    /\ hidden' \in {hidden, hidden \cup {req[t]}}
    /\ Goto(t, "done")
    /\ UNCHANGED <<wl, local, linkVars, req, call, at, verdict, queued, workerVars>>

(* The flood gate is shut, the table is full, memory is short, or the ban  *)
(* exists.                                                                 *)
BanNoInsert(t) ==
    /\ pc[t] = "insert"
    /\ Goto(t, "done")
    /\ UNCHANGED <<tableVars, linkVars, req, call, at, verdict, queued, workerVars>>

(* A ban runs out, or fw_ban_del removes it.                               *)
BanEnds(k) ==
    /\ Bans!Remove(k)
    /\ hidden' = hidden \cap banned'
    /\ UNCHANGED <<wl, local, linkVars, threadVars, queued, workerVars>>

(* A layer is marked behind an insert, or its mark is cleared, also while  *)
(* a ban is linked in it: see MarkedIsVisible of BanTable.                 *)
LayerBit(k) ==
    /\ k \in banned
    /\ hidden' = IF k \in hidden THEN hidden \ {k} ELSE hidden \cup {k}
    /\ UNCHANGED <<wl, banned, local, linkVars, threadVars, queued, workerVars>>

(* The call returns to netfilter, netlink or procfs.                       *)
Return(t) ==
    /\ pc[t] = "done"
    /\ Goto(t, "idle")
    /\ req' = [req EXCEPT ![t] = NoPrefix]
    /\ call' = [call EXCEPT ![t] = "none"]
    /\ verdict' = [v \in Packet |-> IF v = t THEN "none" ELSE verdict[v]]
    /\ UNCHANGED <<tableVars, linkVars, at, queued, workerVars>>

-----------------------------------------------------------------------------
(* fw_wl_add, fw_wl_remove                                                 *)

(* Under wl_lock: a new entry, if there is room.                           *)
WlAdd(p, device) ==
    /\ p \notin Entries
    /\ Cardinality(Entries) < MaxWl
    /\ wl' = [wl EXCEPT ![p] = device]
    /\ UNCHANGED <<banVars, local, linkVars, threadVars, queued, workerVars>>

(* An entry that exists gets a device name if it has none.                 *)
WlName(p, device) ==
    /\ wl[p] = "" /\ device # ""
    /\ wl' = [wl EXCEPT ![p] = device]
    /\ UNCHANGED <<banVars, local, linkVars, threadVars, queued, workerVars>>

(* fw_wl_remove refuses a local address, before it takes wl_lock.          *)
RemoveCall(t, p) ==
    /\ t \in Caller
    /\ Net[p] \notin local
    /\ Enter(t, "remove", p, "unlink")
    /\ UNCHANGED <<tableVars, linkVars, at, verdict, queued, workerVars>>

(* Under wl_lock: the entry goes, if it is there.                          *)
WlUnlink(t) ==
    /\ pc[t] = "unlink"
    /\ IF req[t] \in Entries
       THEN /\ wl' = [wl EXCEPT ![req[t]] = Absent]
            /\ at' = [at EXCEPT ![t] = 1]
            /\ Goto(t, "scan")
       ELSE Goto(t, "done") /\ UNCHANGED <<wl, at>>
    /\ UNCHANGED <<banVars, local, linkVars, req, call, verdict, queued, workerVars>>

(* Mutant: the last bucket is left out.                                    *)
Scan_OffByOne(t) ==
    /\ pc[t] = "scan"
    /\ Bans!RemoveSome({k \in banned : BucketOf[k] = at[t] /\ Net[k] \in Covers[req[t]]})
    /\ hidden' = hidden \cap banned'
    /\ IF at[t] + 1 < NBucket
       THEN at' = [at EXCEPT ![t] = @ + 1] /\ UNCHANGED pc
       ELSE at' = [at EXCEPT ![t] = 0] /\ Goto(t, "done")
    /\ UNCHANGED <<wl, local, linkVars, req, call, verdict, queued, workerVars>>

(* fw_ban_del_matching, one bucket of the ban table at a time: it deletes  *)
(* the bans whose network address the removed prefix covers.               *)
Scan(t) ==
    /\ pc[t] = "scan"
    /\ Bans!RemoveSome({k \in banned : BucketOf[k] = at[t] /\ Net[k] \in Covers[req[t]]})
    /\ hidden' = hidden \cap banned'
    /\ IF at[t] < NBucket
       THEN at' = [at EXCEPT ![t] = @ + 1] /\ UNCHANGED pc
       ELSE at' = [at EXCEPT ![t] = 0] /\ Goto(t, "done")
    /\ UNCHANGED <<wl, local, linkVars, req, call, verdict, queued, workerVars>>

-----------------------------------------------------------------------------
(* The interfaces, and the worker of fw_netdev.c                           *)

(* An interface goes up or down: fw_netdev_event queues the work, or moves *)
(* its deadline if it is queued already.                                   *)
LinkChange(S) ==
    /\ S # ifaces /\ changes < MaxChange
    /\ ifaces' = S
    /\ noticed' = TRUE
    /\ changes' = changes + 1
    /\ queued' = TRUE
    /\ UNCHANGED <<tableVars, threadVars, workerVars>>

(* An address is added to an interface that is up, or taken away: that is  *)
(* no netdev event.                                                        *)
AddrChange(S) ==
    /\ S # ifaces /\ changes < MaxChange
    /\ ifaces' = S
    /\ noticed' = FALSE
    /\ changes' = changes + 1
    /\ UNCHANGED <<tableVars, threadVars, queued, workerVars>>

(* fw_netdev_snapshot_build counts the addresses and allocates as many     *)
(* rows.                                                                   *)
SyncCount ==
    /\ wpc = "idle" /\ queued
    /\ queued' = FALSE
    /\ room' = Cardinality(ifaces)
    /\ wpc' = "collect"
    /\ failed' = FALSE
    /\ UNCHANGED <<tableVars, linkVars, threadVars, rows, page, passes>>

(* No memory: the old set stays, and nothing tries again.                  *)
SyncFails ==
    /\ wpc = "idle" /\ queued
    /\ queued' = FALSE
    /\ failed' = TRUE
    /\ UNCHANGED <<tableVars, linkVars, threadVars, wpc, room, rows, page, passes>>

(* Mutants: the second walk is not limited to the rows; the pending flag   *)
(* is cleared at the end of the work instead of its beginning.             *)
SyncPublish_Unlimited ==
    /\ wpc = "collect"
    /\ rows' = ifaces
    /\ local' = rows'
    /\ wpc' = "read"
    /\ UNCHANGED <<wl, banVars, linkVars, threadVars, queued, room, page, passes, failed>>

SyncPublish_ClearsLate ==
    /\ wpc = "collect"
    /\ rows' \in kSubset(IF Cardinality(ifaces) < room THEN Cardinality(ifaces) ELSE room, ifaces)
    /\ local' = rows'
    /\ wpc' = "read"
    /\ queued' = FALSE
    /\ UNCHANGED <<wl, banVars, linkVars, threadVars, room, page, passes, failed>>

(* The second walk fills the rows, in the order in which the network stack *)
(* keeps the addresses.  Nobody sees the rows, or the new set, before it   *)
(* is published: the two are one step.                                     *)
SyncPublish ==
    /\ wpc = "collect"
    /\ rows' \in kSubset(IF Cardinality(ifaces) < room THEN Cardinality(ifaces) ELSE room, ifaces)
    /\ local' = rows'
    /\ wpc' = "read"
    /\ UNCHANGED <<wl, banVars, linkVars, threadVars, queued, room, page, passes, failed>>

(* The worker is done with this event.                                     *)
SyncEnd ==
    /\ wpc' = "idle"
    /\ room' = 0
    /\ rows' = {}
    /\ page' = {}
    /\ passes' = 0

(* No memory for a page of the whitelist: the new set stays published.     *)
SyncNoPage ==
    /\ wpc = "read" /\ passes = 0
    /\ SyncEnd
    /\ UNCHANGED <<tableVars, linkVars, threadVars, queued, failed>>

(* fw_wl_fill_entries copies the table (one page holds it here); the rows  *)
(* that name an interface's address or a device that is not automatic are  *)
(* passed over.                                                            *)
SyncRead ==
    /\ wpc = "read"
    /\ LET gone == {p \in Entries : IsAuto(wl[p]) /\ ~LocalHas(p)}
       IN IF gone = {}
          THEN SyncEnd
          ELSE wpc' = "delete" /\ page' = gone /\ UNCHANGED <<room, rows, passes>>
    /\ UNCHANGED <<tableVars, linkVars, threadVars, queued, failed>>

(* fw_wl_remove_quiet deletes the first of them that is still there, and   *)
(* the table is read again, MaxPasses times at most.                       *)
SyncDelete(p) ==
    /\ wpc = "delete" /\ p \in page
    /\ IF p \in Entries
       THEN /\ wl' = [wl EXCEPT ![p] = Absent]
            /\ IF passes + 1 < MaxPasses
               THEN /\ wpc' = "read" /\ page' = {} /\ passes' = passes + 1
                    /\ UNCHANGED <<room, rows>>
               ELSE SyncEnd
       ELSE /\ UNCHANGED wl
            /\ IF page = {p}
               THEN SyncEnd
               ELSE page' = page \ {p} /\ UNCHANGED <<wpc, room, rows, passes>>
    /\ UNCHANGED <<banVars, local, linkVars, threadVars, queued, failed>>

-----------------------------------------------------------------------------
(* What a call has seen all the time since it began.  fw_ban_try_add looks *)
(* at the whitelist anew, and fw_wl_remove counts from its unlock.         *)

Begins(t) == pc[t] \in {"idle", "unlink"} \/ call'[t] # call[t]
Runs(t) == pc'[t] \notin {"idle", "done"}

(* The bans that the call has to find.                                     *)
Lasting(t) == IF call[t] = "check" THEN banned \ hidden ELSE banned
Concerned(t) ==
    {k \in Lasting(t) : CASE call[t] = "check" -> Subject(t) \in Covers[k]
                          [] call[t] = "remove" -> Net[k] \in Covers[req[t]]
                          [] OTHER -> FALSE}

Observe ==
    /\ held' = [t \in Thread |->
                  CASE ~Runs(t) \/ call'[t] = "remove" -> {}
                    [] Begins(t) -> Covering(Subject(t))'
                    [] OTHER -> held[t] \cap Entries']
    /\ home' = [t \in Thread |->
                  /\ Runs(t) /\ call'[t] = "check" /\ (Begins(t) \/ home[t])
                  /\ Subject(t)' \in local']
    /\ stuck' = [t \in Thread |->
                  CASE ~Runs(t) /\ (Begins(t) \/ call[t] # "remove") -> {}
                    [] Runs(t) /\ Begins(t) -> Concerned(t)'
                    [] OTHER -> stuck[t] \cap Lasting(t)']
    /\ clear' = [t \in Thread |->
                  /\ Runs(t) /\ call'[t] = "check" /\ (Begins(t) \/ clear[t])
                  /\ Covering(Subject(t))' = {} /\ Subject(t)' \notin local']

-----------------------------------------------------------------------------
Step(t) ==
    \/ WlBucketHit(t) \/ WlBucketMiss(t) \/ WlListHit(t) \/ WlListMiss(t)
    \/ LocalLookup(t) \/ ProbeHit(t) \/ ProbeMiss(t) \/ Conforms(t) \/ Violates(t)
    \/ BanInsert(t) \/ BanNoInsert(t)
    \/ WlUnlink(t) \/ Scan(t)
    \/ Return(t)

Request ==
    \/ \E t \in Thread, p \in Prefix : Arrive(t, p) \/ BanCall(t, p) \/ RemoveCall(t, p)
    \/ \E p \in Prefix, d \in Device : WlAdd(p, d) \/ WlName(p, d)
    \/ \E k \in Prefix : BanEnds(k) \/ LayerBit(k)

Worker ==
    \/ SyncCount \/ SyncPublish \/ SyncNoPage \/ SyncRead
    \/ \E p \in Prefix : SyncDelete(p)

Links == \E S \in Topology : LinkChange(S) \/ AddrChange(S)

Next ==
    /\ \/ \E t \in Thread : Step(t)
       \/ Request
       \/ Worker \/ SyncFails
       \/ Links
    /\ Observe

Spec == Init /\ [][Next]_vars

-----------------------------------------------------------------------------
(* Properties                                                              *)

(* Every variable keeps its range; rows never outgrow their allocation,    *)
(* nor the two tables their capacity.                                      *)
TypeOK ==
    /\ wl \in [Prefix -> Device \cup {Absent}]
    /\ Cardinality(Entries) <= MaxWl
    /\ banned \subseteq Prefix /\ Cardinality(banned) <= MaxBan /\ hidden \subseteq banned
    /\ local \subseteq Addr /\ ifaces \in Topology /\ noticed \in BOOLEAN
    /\ changes \in 0..MaxChange
    /\ pc \in [Thread -> {"idle", "bucket", "list", "local", "probe", "observe",
                          "insert", "unlink", "scan", "done"}]
    /\ req \in [Thread -> Prefix \cup {NoPrefix}]
    /\ call \in [Thread -> {"none", "check", "ban", "remove"}]
    /\ at \in [Thread -> 0..NBucket]
    /\ verdict \in [Packet -> {"none", "accept", "drop"}]
    /\ queued \in BOOLEAN /\ failed \in BOOLEAN
    /\ wpc \in {"idle", "collect", "read", "delete"}
    /\ room \in 0..Cardinality(Addr)
    /\ rows \subseteq Addr /\ Cardinality(rows) <= room
    /\ page \subseteq Prefix
    /\ passes \in 0..MaxPasses
    /\ held \in [Thread -> SUBSET Prefix]
    /\ home \in [Thread -> BOOLEAN]
    /\ stuck \in [Thread -> SUBSET Prefix]
    /\ clear \in [Thread -> BOOLEAN]

(* The step in which the hook decides on a packet.                         *)
Decides(t) == verdict[t] = "none" /\ verdict'[t] # "none"

(* A packet whose source one whitelist entry covers, or the local set      *)
(* holds, from the beginning of its check to the end is accepted, whatever *)
(* is banned (fw_hook.c:114-118): the entry may not be missed while others *)
(* come and go and the local set is replaced.                              *)
ProtectedPasses ==
    [][\A t \in Packet :
          Decides(t) /\ (held[t] # {} \/ home[t]) => verdict'[t] = "accept"]_vars

(* A packet whose source is under one ban all the time, in a layer that is *)
(* marked all the time, and protected by nothing at any time, is dropped   *)
(* (fw_hook.c:114-121, fw_ban_lookup).                                     *)
BannedIsDropped ==
    [][\A t \in Packet :
          Decides(t) /\ stuck[t] # {} /\ clear[t] => verdict'[t] = "drop"]_vars

(* No ban is added for an address that an entry has covered since the      *)
(* whitelist was looked up for it; only an entry that arrives between the  *)
(* look-up and the insert can come too late (fw_ban.c:518-529).            *)
CoveredIsNotBanned ==
    [][\A k \in banned' \ banned :
          \E t \in Thread : pc[t] = "insert" /\ pc'[t] = "done" /\ req[t] = k /\ held[t] = {}]_vars

(* When fw_wl_remove returns, no ban is left that it should have lifted:   *)
(* every ban in its range at the unlink is gone or was lifted meanwhile    *)
(* (fw_wl.c:241-242).                                                      *)
RemoveLiftsBans ==
    \A t \in Caller : pc[t] = "done" /\ call[t] = "remove" => stuck[t] = {}

(* If the last change of the interfaces was a netdev event, and there was  *)
(* memory for it, a worker that has nothing left to do has published the   *)
(* addresses of the interfaces, however the event met a running worker     *)
(* (fw_netdev.c:120-123).                                                  *)
EventIsLearned ==
    wpc = "idle" /\ ~queued /\ noticed /\ ~failed => local = ifaces

-----------------------------------------------------------------------------
(* What the code's own comments say and the code does not keep.            *)

(* fw_netdev.h:20-22: entries that a user added are not deleted by the     *)
(* reconciliation; nothing but fw_wl_remove deletes them (no code adds     *)
(* automatic entries).                                                     *)
UserEntriesStay ==
    [][\A p \in Entries : wl'[p] = Absent =>
          \E t \in Caller : pc[t] = "unlink" /\ pc'[t] = "scan" /\ req[t] = p]_vars
=============================================================================
