------------------------------ MODULE BanMirror ------------------------------
(***************************************************************************)
(* The daemon's picture of the kernel's ban table: the mirror              *)
(* (bans/cache.go) and everybody who writes to it.                         *)
(*                                                                         *)
(*   executor  dispatches ban intents and hits of a cluster scan           *)
(*             (runtime/executor.go)                                       *)
(*   api       one HTTP request at a time bans or unbans (http/bans.go)    *)
(*   kernel    procfs, the hook and the timers change the table themselves *)
(*   pump      applies events and reconciles (kernel/consumer.go)          *)
(*                                                                         *)
(* The kernel's table is BanSet.  A command runs in the sender's context   *)
(* (netlink's .input), so it has been carried out when send returns; the   *)
(* broadcast comes after the bucket lock is dropped, and the order of two  *)
(* broadcasts need not be that of the changes.  Events are lost when the   *)
(* queue to the pump is full.  The mirror is keyed by address, the table   *)
(* by prefix.                                                              *)
(***************************************************************************)
EXTENDS Integers, FiniteSets, Sequences, Functions

CONSTANTS
    Ip,          \* addresses
    KeyOrder,    \* the prefixes, in the order in which the table is walked
    AddrOf,      \* AddrOf[k]: the network address of prefix k
    HostOf,      \* HostOf[ip]: the full-length prefix of ip
    Invalid,     \* addresses that bans.ValidateIP rejects: loopback, multicast, ...
    MaxBan,      \* places in the kernel's table
    Start,       \* tables that the daemon may find when it starts
    PageCap,     \* entries in one page of the listing
    QueueCap,    \* depth of the event queue
    MaxActs,     \* bound: intents, requests and changes by the kernel itself
    Nothing      \* no message, no address

Key == Range(KeyOrder)

ASSUME KeyAssumption ==
    /\ KeyOrder \in Seq(Key) /\ IsInjective(KeyOrder)
    /\ AddrOf \in [Key -> Ip]
    /\ HostOf \in [Ip -> Key]
    /\ \A ip \in Ip : AddrOf[HostOf[ip]] = ip
    /\ Invalid \subseteq Ip
ASSUME BoundAssumption ==
    /\ {PageCap, QueueCap} \subseteq Nat \ {0}
    /\ {MaxBan, MaxActs} \subseteq Nat
    /\ \A S \in Start : S \subseteq Key /\ Cardinality(S) <= MaxBan
ASSUME NoneAssumption == Nothing \notin Key \cup Ip

Places == {"idle", "counting", "paging", "adopting", "judging"}
ASSUME PlaceAssumption == Ip \cap Places = {}   \* the pump is at a place or an address

VARIABLES
    \* the kernel
    banned,      \* the table
    due,         \* its entries whose time is over
    unsent,      \* unsent[t]: the broadcast that t's last change still owes
    feed,        \* messages on their way to the pump
    \* the mirror
    mirror,      \* mirror[ip], None if it is absent
    marks,       \* addresses that wait for the kernel's confirmation
    \* the executor
    epc, eip,
    \* the request that is being served
    hpc, hip,
    todo,        \* addresses that it has still to unban
    \* the pump
    ppc,
    offset, got, \* listing: next offset, entries so far
    total,       \* the count of the table that came with the page
    ghosts,      \* addresses the listing does not hold, still to be judged
    \* history, read by the properties only
    held,        \* keys in the table when the listing began
    moved,       \* something came into or left the table during the listing
    acts

MirrorEntry == {"running", "over"}
Message == [type : {"ban", "unban", "rejected"}, key : Key]
Sender == {"executor", "api", "kernel"}

kernelVars  == <<banned, due>>
channelVars == <<unsent, feed>>
mirrorVars  == <<mirror, marks>>
executorVars == <<epc, eip>>
apiVars     == <<hpc, hip, todo>>
pumpVars    == <<ppc, offset, total, got, ghosts>>
listingVars == <<held, moved>>
allVars == <<kernelVars, channelVars, mirrorVars, executorVars, apiVars,
          pumpVars, listingVars, acts>>

Table == INSTANCE BanSet WITH Cover <- {}, Capacity <- MaxBan

Mirrored == {ip \in Ip : mirror[ip] # Nothing}

(* The daemon starts with an empty mirror; the kernel may hold bans.       *)
MirrorInit ==
    /\ banned \in Start
    /\ due = {}
    /\ unsent = [t \in Sender |-> Nothing]
    /\ feed = <<>>
    /\ mirror = [ip \in Ip |-> Nothing]
    /\ marks = {}
    /\ epc = "idle" /\ eip = Nothing
    /\ hpc = "idle" /\ hip = Nothing
    /\ todo = {}
    /\ ppc = "idle" /\ offset = 0 /\ total = 0 /\ got = <<>> /\ ghosts = {}
    /\ held = {} /\ moved = FALSE
    /\ acts = 0

-----------------------------------------------------------------------------
(* The kernel's side                                                       *)

SpendAct == acts < MaxActs /\ acts' = acts + 1

\* deviation: a full queue grows
Push_Unbounded(m) == feed' = Append(feed, m)

(* Send on an event channel never blocks: what does not fit is dropped.    *)
Push(m) == feed' = IF Len(feed) < QueueCap THEN Append(feed, m) ELSE feed

Listing == ppc \in {"counting", "paging"}

Moved ==
    /\ moved' = (moved \/ Listing)
    /\ UNCHANGED held

(* fw_ban_try_add on behalf of t: a new entry owes a broadcast, a renewal  *)
(* is silent, a refusal (whitelist, flood gate, full table) goes back to   *)
(* the daemon as a CmdResult, if it was the daemon that asked.             *)
KernelBan(t, k) ==
    \/ /\ Table!Add(k)
       /\ unsent' = [unsent EXCEPT ![t] = [type |-> "ban", key |-> k]]
       /\ Moved
       /\ UNCHANGED <<due, feed>>
    \/ /\ k \in banned
       /\ due' = due \ {k}
       /\ UNCHANGED <<banned, channelVars, listingVars>>
    \/ /\ Push([type |-> "rejected", key |-> k])
       /\ t # "kernel"
       /\ UNCHANGED <<kernelVars, unsent, listingVars>>

(* fw_ban_del on behalf of t; an entry that is not there is an error that  *)
(* the pump only reports.                                                  *)
KernelUnban(t, k) ==
    IF k \in banned
    THEN /\ Table!Remove(k)
         /\ due' = due \ {k}
         /\ unsent' = [unsent EXCEPT ![t] = [type |-> "unban", key |-> k]]
         /\ Moved
         /\ UNCHANGED feed
    ELSE UNCHANGED <<kernelVars, channelVars, listingVars>>

Broadcast(t) ==
    /\ unsent[t] # Nothing
    /\ Push(unsent[t])
    /\ unsent' = [unsent EXCEPT ![t] = Nothing]
    /\ UNCHANGED <<kernelVars, mirrorVars, executorVars, apiVars, pumpVars, listingVars, acts>>

\* a command returns when its broadcast has been sent
Free(t) == unsent[t] = Nothing

(* procfs and the hook ban and unban.                                      *)
KernelActs(k) ==
    /\ Free("kernel")
    /\ SpendAct
    /\ \/ KernelBan("kernel", k)
       \/ k \in banned /\ KernelUnban("kernel", k)
    /\ UNCHANGED <<mirrorVars, executorVars, apiVars, pumpVars>>

(* Removing a whitelist entry deletes the bans it covers and broadcasts    *)
(* nothing (fw_ban_del_matching).                                          *)
KernelDeletesSilently(k) ==
    /\ k \in banned
    /\ SpendAct
    /\ Table!Remove(k)
    /\ due' = due \ {k}
    /\ Moved
    /\ UNCHANGED <<channelVars, mirrorVars, executorVars, apiVars, pumpVars>>

TimePasses(k) ==
    /\ k \in banned \ due
    /\ SpendAct
    /\ due' = due \cup {k}
    /\ UNCHANGED <<banned, channelVars, mirrorVars, executorVars, apiVars, pumpVars, listingVars>>

(* The expiry callback; BanTable shows that it comes.                      *)
KernelExpires(k) ==
    /\ k \in due
    /\ Free("kernel")
    /\ KernelUnban("kernel", k)
    /\ UNCHANGED <<mirrorVars, executorVars, apiVars, pumpVars, acts>>

-----------------------------------------------------------------------------
(* bans/cache.go: each operation is one critical section                   *)

Insert(ip, e) == mirror' = [mirror EXCEPT ![ip] = e]

Drop(S) ==
    /\ mirror' = [ip \in Ip |-> IF ip \in S THEN Nothing ELSE mirror[ip]]
    /\ marks' = marks \ (S \cap Mirrored)

Upsert(ip, e) ==
    /\ Insert(ip, e)
    /\ marks' = marks \ {ip}

(* PendingAckTimeout; an overdue mark is dropped when it is read.          *)
AckTimeout(ip) ==
    /\ ip \in marks
    /\ marks' = marks \ {ip}
    /\ UNCHANGED <<kernelVars, channelVars, mirror, executorVars, apiVars, pumpVars, listingVars, acts>>

(* The local clock passes ExpiresAt of a mirrored ban.                     *)
MirrorLapses(ip) ==
    /\ mirror[ip] = "running"
    /\ SpendAct
    /\ Insert(ip, "over")
    /\ UNCHANGED <<kernelVars, channelVars, marks, executorVars, apiVars, pumpVars, listingVars>>

-----------------------------------------------------------------------------
(* The executor                                                            *)

executorOnly == <<apiVars, pumpVars>>

(* dispatchIntent: the one who inserts wins; banSink.TryInsert records the *)
(* ban in the database at once.                                            *)
Intent(ip) ==
    /\ epc = "idle" /\ Free("executor")
    /\ ip \notin Invalid
    /\ SpendAct
    /\ IF ip \in Mirrored
       THEN UNCHANGED <<mirror, epc, eip>>
       ELSE /\ Insert(ip, "running")
            /\ epc' = "inserted" /\ eip' = ip
    /\ UNCHANGED <<kernelVars, channelVars, marks, executorOnly, listingVars>>

MarkPendingAck ==
    /\ epc = "inserted"
    /\ marks' = marks \cup {eip}
    /\ epc' = "marked"
    /\ UNCHANGED <<kernelVars, channelVars, mirror, eip, executorOnly, listingVars, acts>>

SendIntent ==
    /\ epc = "marked"
    /\ KernelBan("executor", HostOf[eip])
    /\ epc' = "idle" /\ eip' = Nothing
    /\ UNCHANGED <<mirrorVars, executorOnly, acts>>

SendIntentFails ==
    /\ epc = "marked"
    /\ Drop({eip})
    /\ epc' = "idle" /\ eip' = Nothing
    /\ UNCHANGED <<kernelVars, channelVars, executorOnly, listingVars, acts>>

(* dispatchClusterHit bans a network without a mirror entry or a mark.     *)
ClusterHit(k) ==
    /\ epc = "idle" /\ Free("executor")
    /\ k # HostOf[AddrOf[k]]
    /\ SpendAct
    /\ KernelBan("executor", k)
    /\ UNCHANGED <<mirrorVars, executorVars, executorOnly>>

-----------------------------------------------------------------------------
(* The HTTP handlers                                                       *)

apiOnly == <<executorVars, pumpVars>>

(* CreateBan and, for temporary bans, each turn of BatchBan.               *)
Create(ip) ==
    /\ hpc = "idle" /\ Free("api")
    /\ ip \notin Mirrored
    /\ SpendAct
    /\ Insert(ip, "running")
    /\ hpc' = "created" /\ hip' = ip
    /\ UNCHANGED <<kernelVars, channelVars, marks, todo, apiOnly, listingVars>>

CreateSends ==
    /\ hpc = "created"
    /\ KernelBan("api", HostOf[hip])
    /\ hpc' = "sent"
    /\ UNCHANGED <<mirrorVars, hip, todo, apiOnly, acts>>

CreateFails ==
    /\ hpc = "created"
    /\ Drop({hip})
    /\ hpc' = "idle" /\ hip' = Nothing
    /\ UNCHANGED <<kernelVars, channelVars, todo, apiOnly, listingVars, acts>>

CreateReturns ==
    /\ hpc = "sent" /\ Free("api")
    /\ hpc' = "idle" /\ hip' = Nothing
    /\ UNCHANGED <<kernelVars, channelVars, mirrorVars, todo, apiOnly, listingVars, acts>>

(* DeleteBan takes one address out of the mirror, UnbanAllTemporary all    *)
(* that are not permanent; the commands to the kernel follow one by one,   *)
(* always with the full prefix length, and their failure changes nothing.  *)
Delete(S) ==
    /\ hpc = "idle" /\ Free("api")
    /\ S # {}
    /\ SpendAct
    /\ Drop(S)
    /\ todo' = S
    /\ hpc' = "unbanning"
    /\ UNCHANGED <<kernelVars, channelVars, hip, apiOnly, listingVars>>

DeleteSends(ip) ==
    /\ hpc = "unbanning" /\ Free("api")
    /\ ip \in todo
    /\ todo' = todo \ {ip}
    /\ \/ KernelUnban("api", HostOf[ip])
       \/ UNCHANGED <<kernelVars, channelVars, listingVars>>
    /\ UNCHANGED <<mirrorVars, hpc, hip, apiOnly, acts>>

DeleteEnds ==
    /\ hpc = "unbanning" /\ Free("api")
    /\ todo = {}
    /\ hpc' = "idle"
    /\ UNCHANGED <<kernelVars, channelVars, mirrorVars, hip, todo, apiOnly, listingVars, acts>>

-----------------------------------------------------------------------------
(* The event pump                                                          *)

pumpOnly == <<kernelVars, unsent, executorVars, apiVars, acts>>

(* A confirmation replaces the entry, an unban removes it, whoever wrote   *)
(* it; so does the rejection of a ban.  Events of other kinds leave the    *)
(* mirror of the bans alone.                                               *)
handleBan(m) ==
    LET ip == AddrOf[m.key] IN
    IF m.type = "ban" THEN Upsert(ip, "running") ELSE Drop({ip})

handleCmdResult(m) == Drop({AddrOf[m.key]})

handle(m) == IF m.type = "rejected" THEN handleCmdResult(m) ELSE handleBan(m)

HandleEvent ==
    /\ ppc = "idle"
    /\ feed # <<>>
    /\ feed' = Tail(feed)
    /\ handle(Head(feed))
    /\ UNCHANGED <<pumpOnly, pumpVars, listingVars>>

(* reconcile: list the table page by page (client.go, drain).  The kernel  *)
(* answers a query with the count it takes first and the rows it finds     *)
(* then; the listing ends with an empty page or when it has that many ...  *)
ReconcileStarts ==
    /\ ppc = "idle"
    /\ ppc' = "counting" /\ offset' = 0 /\ got' = <<>>
    /\ held' = banned /\ moved' = FALSE
    /\ UNCHANGED <<pumpOnly, feed, mirrorVars, ghosts, total>>

CountBans ==
    /\ ppc = "counting"
    /\ ppc' = "paging"
    /\ total' = Cardinality(banned)
    /\ UNCHANGED <<pumpOnly, feed, mirrorVars, offset, got, ghosts, listingVars>>

(* The table is walked in the order of the keys: key i is row RowNumber(i) *)
(* and row n has the key KeyAt(n).                                         *)
RowNumber(i) == Cardinality({j \in 1 .. i : KeyOrder[j] \in banned})
KeyAt(n) == KeyOrder[CHOOSE i \in DOMAIN KeyOrder : KeyOrder[i] \in banned /\ RowNumber(i) = n]
Behind == Cardinality(banned) - offset    \* rows that are still to be read
PageSize == IF offset >= total \/ Behind <= 0 THEN 0
            ELSE IF PageCap < Behind THEN PageCap ELSE Behind
Row(k) == [key |-> k, state |-> IF k \in due THEN "over" ELSE "running"]
Page == [n \in 1 .. PageSize |-> Row(KeyAt(offset + n))]

(* The addresses that reconcile will have seen: banInfoFromEntry.          *)
Seen(all) == {AddrOf[all[i].key] : i \in DOMAIN all} \ Invalid

\* deviation: the first page is taken for the whole table
ListPage_FirstOnly ==
    /\ ppc = "paging"
    /\ got' = Page /\ offset' = offset + PageSize
    /\ ppc' = "adopting"
    /\ ghosts' = Ip \ Seen(Page)
    /\ UNCHANGED <<pumpOnly, feed, mirrorVars, total, listingVars>>

(* drain goes on while a page brings something and the count is not met.   *)
More(all) == PageSize > 0 /\ Len(all) < total

ListPage ==
    LET all == got \o Page
    IN  /\ ppc = "paging"
        /\ got' = all
        /\ offset' = offset + PageSize
        /\ ppc' = IF More(all) THEN "counting" ELSE "adopting"
        /\ ghosts' = Ip \ Seen(all)
        /\ UNCHANGED <<pumpOnly, feed, mirrorVars, total, listingVars>>

ListFails ==
    /\ Listing
    /\ SpendAct
    /\ ppc' = "idle" /\ offset' = 0 /\ total' = 0 /\ got' = <<>> /\ ghosts' = {}
    /\ held' = {} /\ moved' = FALSE
    /\ UNCHANGED <<kernelVars, unsent, executorVars, apiVars, feed, mirrorVars>>

(* ... take over what it holds, but for the addresses that this process    *)
(* refuses ...                                                             *)
Adopt ==
    /\ ppc = "adopting"
    /\ got # <<>>
    /\ LET r == Head(got)
       IN IF AddrOf[r.key] \in Invalid
          THEN UNCHANGED mirrorVars
          ELSE Upsert(AddrOf[r.key], r.state)
    /\ got' = Tail(got)
    /\ UNCHANGED <<pumpOnly, feed, ppc, offset, total, ghosts, listingVars>>

\* deviation: what is not in the listing stays in the mirror
CopyMirror_KeepsAll ==
    /\ ppc = "adopting" /\ got = <<>>
    /\ ghosts' = {} /\ ppc' = "judging"
    /\ UNCHANGED <<pumpOnly, feed, mirrorVars, offset, total, got, listingVars>>

(* ... look at the rest of the mirror, in a copy ...                       *)
CopyMirror ==
    /\ ppc = "adopting"
    /\ got = <<>>
    /\ ghosts' = ghosts \cap Mirrored
    /\ ppc' = "judging"
    /\ UNCHANGED <<pumpOnly, feed, mirrorVars, offset, total, got, listingVars>>

GhostStays(ip) ==
    /\ ppc = "judging"
    /\ ip \in ghosts \cap marks
    /\ ghosts' = ghosts \ {ip}
    /\ UNCHANGED <<pumpOnly, feed, mirrorVars, ppc, offset, total, got, listingVars>>

JudgeGhost(ip) ==
    /\ ppc = "judging"
    /\ ip \in ghosts \ marks
    /\ ghosts' = ghosts \ {ip}
    /\ ppc' = ip
    /\ UNCHANGED <<pumpOnly, feed, mirrorVars, offset, total, got, listingVars>>

RemoveGhost ==
    /\ ppc \in Ip
    /\ Drop({ppc})
    /\ ppc' = "judging"
    /\ UNCHANGED <<pumpOnly, feed, offset, total, got, ghosts, listingVars>>

(* ... and sweep what is over by the local clock.                          *)
Sweep ==
    /\ ppc = "judging"
    /\ ghosts = {}
    /\ Drop({ip \in Mirrored : mirror[ip] = "over"})
    /\ ppc' = "idle" /\ offset' = 0 /\ total' = 0
    /\ held' = {} /\ moved' = FALSE
    /\ UNCHANGED <<pumpOnly, feed, got, ghosts>>

-----------------------------------------------------------------------------
Kernel ==
    \/ \E k \in Key : \/ KernelActs(k) \/ KernelDeletesSilently(k)
                      \/ TimePasses(k) \/ KernelExpires(k)
    \/ \E t \in Sender : Broadcast(t)
    \/ \E ip \in Ip : MirrorLapses(ip)

Executor ==
    \/ \E ip \in Ip : Intent(ip)
    \/ MarkPendingAck \/ SendIntent \/ SendIntentFails
    \/ \E k \in Key : ClusterHit(k)
    \/ \E ip \in Ip : AckTimeout(ip)

Api ==
    \/ \E ip \in Ip : Create(ip)
    \/ CreateSends \/ CreateFails \/ CreateReturns
    \/ \E S \in SUBSET Mirrored : Delete(S)
    \/ \E ip \in Ip : DeleteSends(ip)
    \/ DeleteEnds

Reconcile ==
    \/ CountBans \/ ListPage \/ Adopt \/ CopyMirror \/ RemoveGhost \/ Sweep
    \/ \E ip \in Ip : GhostStays(ip) \/ JudgeGhost(ip)

MirrorNext == Kernel \/ Executor \/ Api \/ HandleEvent \/ ReconcileStarts \/ ListFails \/ Reconcile

(* The tickers of the pump fire again and again and its select, which      *)
(* picks among the ready cases at random, serves each of them in the end;  *)
(* a call that has begun goes on; timers of the kernel fire (BanTable).    *)
(* Failures of a listing are bounded by MaxOps: the link works in the end. *)
MirrorFairness ==
    /\ SF_allVars(HandleEvent)
    /\ SF_allVars(ReconcileStarts)
    /\ WF_allVars(Reconcile)
    /\ \A t \in Sender : WF_allVars(Broadcast(t))
    /\ \A k \in Key : SF_allVars(KernelExpires(k))
    /\ \A ip \in Ip : WF_allVars(AckTimeout(ip))
    /\ WF_allVars(MarkPendingAck \/ SendIntent \/ SendIntentFails)
    /\ WF_allVars(CreateSends \/ CreateFails \/ CreateReturns \/ DeleteEnds
               \/ \E ip \in Ip : DeleteSends(ip))

MirrorSpec == MirrorInit /\ [][MirrorNext]_allVars
MirrorFairSpec == MirrorSpec /\ MirrorFairness

-----------------------------------------------------------------------------
(* Every variable holds a value of its kind, the queue to the pump never   *)
(* exceeds its depth, and what is over is in the table: removals and       *)
(* renewals keep the two in step.                                          *)
MirrorTypeOK ==
    /\ banned \subseteq Key /\ Cardinality(banned) <= MaxBan
    /\ due \subseteq banned
    /\ unsent \in [Sender -> Message \cup {Nothing}]
    /\ feed \in Seq(Message) /\ Len(feed) <= QueueCap
    /\ mirror \in [Ip -> MirrorEntry \cup {Nothing}] /\ marks \subseteq Ip
    /\ epc \in {"idle", "inserted", "marked"} /\ eip \in Ip \cup {Nothing}
    /\ hpc \in {"idle", "created", "sent", "unbanning"} /\ hip \in Ip \cup {Nothing}
    /\ todo \subseteq Ip /\ ghosts \subseteq Ip
    /\ ppc \in Places \cup Ip
    /\ {offset, total, Len(got)} \subseteq 0 .. Cardinality(Key)
    /\ held \subseteq Key /\ moved \in BOOLEAN /\ acts \in 0 .. MaxActs

(* A ban that was in the table when the listing began, of an address that  *)
(* the daemon accepts, is not taken for a ghost, unless something came or  *)
(* went while the pages were read: a departure moves the entries behind it *)
(* to an offset that has been read, an arrival after the count makes the   *)
(* listing stop one entry early.                                           *)
SteadyBansKept ==
    [][\A ip \in Ip : ppc = ip /\ ppc' = "judging" /\ ~moved =>
           ip \in Invalid \/ \A k \in held : AddrOf[k] # ip]_allVars

(* Whatever was lost, dropped or reordered: when nobody bans any more, the *)
(* mirror ends up with exactly the addresses of the kernel's entries that  *)
(* the daemon accepts; events bring in the others, the listing takes them  *)
(* out again (consumer.go:648-653).                                        *)
MirrorConverges == <>[](Mirrored = {AddrOf[k] : k \in banned} \ Invalid)

(* consumer.go:626-628 and main.go:655-656: what a user has just banned is *)
(* not erased by a reconciliation as a ghost.                              *)
UserBanKept ==
    [][\A ip \in Ip : hip = ip /\ hpc \in {"created", "sent"} =>
           ~(ppc = ip /\ ppc' = "judging" /\ mirror'[ip] = Nothing)]_allVars
=============================================================================
