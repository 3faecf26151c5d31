-------------------------------- MODULE Facts --------------------------------
(***************************************************************************)
(* What the daemon remembers of an address, and where: the cache of facts  *)
(* in front of the database (persist/facts.go), the tables of reputation,  *)
(* history and events (persist/*.go), and those who write to them: the     *)
(* executor judges lines and dispatches bans (runtime/pipeline.go,         *)
(* executor.go, banSink in main.go), an HTTP request bans and unbans       *)
(* (http/bans.go), the flusher lands what the cache owes, three timers     *)
(* clean up and let reputations recover.                                   *)
(*                                                                         *)
(* The database has one connection: every statement is one step, and any   *)
(* statement may fail, a read too.  The cache has one mutex; the flusher    *)
(* writes outside it.  The rows of ban_events are left out, but not the    *)
(* level that is written there.  A point of reputation is one penalty;     *)
(* days are cut to the ages that the clean-ups tell apart.                 *)
(*                                                                         *)
(* Intents, requests and the mirror name an address by its text, and the   *)
(* rows of a ban are written under that text.  The cache, and all that it  *)
(* reads and writes, goes by Key: an IPv4-mapped address is there the IPv4 *)
(* address.                                                                *)
(***************************************************************************)
EXTENDS Integers, Sequences, FiniteSets, SequencesExt

CONSTANTS
    Ip,              \* texts of addresses
    Key,             \* Key[ip]: key(addr), the text of the same address unmapped
    Capacity,        \* defaultFactsCapacity
    FullReputation,  \* fullReputation, in penalties
    RetentionDays,   \* cfg.HistoryRetentionDays
    HookDays,        \* maintenanceHooks.retentionDays
    MaxOps,          \* bound: lines, requests, faults, crashes, days
    None

ASSUME FactsAssumption ==
    /\ {Capacity, FullReputation, RetentionDays, HookDays} \subseteq Nat \ {0}
    /\ MaxOps \in Nat /\ None \notin Ip \cup Nat
    /\ Key \in [Ip -> Ip] /\ \A ip \in Ip : Key[Key[ip]] = Key[ip]

(* Rows of the two tables, entries of the cache, and what is under way.    *)
HistoryRow == [count : Nat \ {0}, age : 0 .. RetentionDays]
ReputationRow == [score : 0 .. FullReputation, age : 0 .. RetentionDays, hot : BOOLEAN]
FactsEntry ==
    [score : 0 .. FullReputation \cup {None}, bans : Nat \cup {None}, pending : Nat, blind : BOOLEAN]
CleanUp == [days : {RetentionDays, HookDays}, at : {"reputation", "history"}]
OneWrite == [ip : Ip, n : Nat, detached : BOOLEAN]
Intent == [ip : Ip, level : Nat]

ASSUME NoneAssumption ==
    /\ None \notin HistoryRow /\ None \notin ReputationRow /\ None \notin FactsEntry
    /\ None \notin CleanUp /\ None \notin OneWrite

VARIABLES
    \* the database
    hist,      \* ban_history: [count, age], or None
    rep,       \* ip_reputation: [score, age, hot], or None; hot: a failure
               \* within the last hour
    cut,       \* the clean-up under way: [days, at], or None
    \* the cache
    lru,       \* the addresses with an entry, most recently used first
    entry,     \* entry[ip]: [score, bans, pending]; score, bans may be None
    \* the flusher
    dirty,     \* entries still to be written, in any order
    writing,   \* [ip, n, detached], or None
    \* the executor, and the request
    out,       \* intents: [ip, level]
    epc, apc,  \* what they do next for the ban of eip, of aip
    eip, aip, level,
    mirror,    \* the addresses in the mirror of bans
    phase,     \* "up", "stopping", "flushing", "closed"
    \* history, read by the properties only
    owed,      \* penalties of this life that are not in the database
    lossy,     \* addresses with a write that failed for good
    autos,     \* automatic bans that the row of ban_history holds
    ops

dbVars == <<hist, rep, cut>>
cacheVars == <<lru, entry>>
flushVars == <<dirty, writing>>
banVars == <<out, epc, apc, eip, aip, level, mirror>>
auxVars == <<owed, lossy, autos>>
vars == <<dbVars, cacheVars, flushVars, banVars, phase, auxVars, ops>>

Init ==
    /\ hist = [ip \in Ip |-> None] /\ rep = [ip \in Ip |-> None]
    /\ cut = None
    /\ lru = <<>> /\ entry = [ip \in Ip |-> None]
    /\ dirty = {} /\ writing = None
    /\ out = <<>> /\ epc = "judge" /\ apc = "idle" /\ eip = None /\ aip = None /\ level = 0
    /\ mirror = {} /\ phase = "up"
    /\ owed = [ip \in Ip |-> 0] /\ lossy = {} /\ autos = [ip \in Ip |-> 0]
    /\ ops = 0

Spend == ops < MaxOps /\ ops' = ops + 1
Floor(n, k) == IF n > k THEN n - k ELSE 0

-----------------------------------------------------------------------------
(* The statements                                                          *)

(* RecordFailure and RecordBan: an unknown address starts from the full    *)
(* reputation.                                                             *)
Penalised(r, n, hot) ==
    [score |-> IF r = None THEN Floor(FullReputation, n) ELSE Floor(r.score, n),
     age |-> 0, hot |-> hot \/ (r # None /\ r.hot)]

(* RecordBanHistory                                                        *)
Counted(h) == [count |-> IF h = None THEN 1 ELSE h.count + 1, age |-> 0]

(* GetIPReputation, GetBanHistory, as the cache reads them.                *)
StoredScore(ip) == IF rep[ip] = None THEN FullReputation ELSE rep[ip].score
StoredBans(ip) == IF hist[ip] = None THEN 0 ELSE hist[ip].count

-----------------------------------------------------------------------------
(* The cache                                                               *)

(* factsEntry; blind: its count of bans comes from a read that failed.     *)
Unknown == [score |-> None, bans |-> None, pending |-> 0, blind |-> FALSE]

(* touchLocked: to the front; a full cache evicts the least recently used  *)
(* entry.                                                                  *)
Evicts(ip) == entry[ip] = None /\ Len(lru) >= Capacity
Touched(ip) ==
    <<ip>> \o IF Evicts(ip) THEN Front(lru)
              ELSE IF entry[ip] = None THEN lru
              ELSE RemoveAt(lru, CHOOSE i \in DOMAIN lru : lru[i] = ip)
Gone(ip) == IF Evicts(ip) THEN {Last(lru)} ELSE {}

Entry(ip) == IF entry[ip] = None THEN Unknown ELSE entry[ip]

(* loadScoreLocked, loadBansLocked: after a read that fails the address    *)
(* counts as unknown.                                                      *)
LoadScore(e, ip) ==
    IF e.score # None THEN {e}
    ELSE {[e EXCEPT !.score = s] : s \in {StoredScore(ip), FullReputation}}
LoadBans(e, ip) ==
    IF e.bans # None THEN {e}
    ELSE {[e EXCEPT !.bans = StoredBans(ip)]}
           \cup IF StoredBans(ip) > 0 THEN {[e EXCEPT !.bans = 0, !.blind = TRUE]} ELSE {}

(* What a method leaves: e is the entry of ip.  The flusher may hold the   *)
(* evicted one; that one owes nothing any more, which is as if the flusher *)
(* did not hold it.                                                        *)
Put(ip, e) ==
    /\ lru' = Touched(ip)
    /\ entry' = [x \in Ip |-> IF x = ip THEN e ELSE IF x \in Gone(ip) THEN None ELSE entry[x]]
    /\ dirty' = dirty \ Gone(ip)
    /\ writing' = IF writing # None /\ writing.ip \in Gone(ip)
                  THEN [writing EXCEPT !.detached = TRUE] ELSE writing

(* writeBack: what the evicted entry owes is written, or lost.  The entry  *)
(* of ip owes more.                                                        *)
Debtors(ip) == {x \in Gone(ip) : entry[x].pending > 0}
Owe(ip, more, landed) ==
    owed' = [x \in Ip |-> owed[x] + (IF x = ip THEN more ELSE 0)
                                  - (IF x \in landed THEN entry[x].pending ELSE 0)]

\* slip: an evicted entry takes what it owes with it
WriteBack_Forgets(ip, more) ==
    /\ Owe(ip, more, {})
    /\ UNCHANGED <<rep, lossy>>

WriteBack(ip, more) ==
    \/ /\ rep' = [x \in Ip |-> IF x \in Debtors(ip)
                               THEN Penalised(rep[x], entry[x].pending, TRUE) ELSE rep[x]]
       /\ Owe(ip, more, Debtors(ip))
       /\ UNCHANGED lossy
    \/ /\ Debtors(ip) # {}
       /\ lossy' = lossy \cup Debtors(ip)
       /\ Owe(ip, more, {})
       /\ UNCHANGED rep

-----------------------------------------------------------------------------
(* The executor: judgeLine                                                 *)

(* RecordFailure, ReputationScore and, when the window is full,            *)
(* PriorBanCount; only the executor changes scores and counts, so that the *)
(* three are one step.                                                     *)
Failed(ip) ==
    {[e EXCEPT !.score = Floor(@, 1), !.pending = @ + 1] : e \in LoadScore(Entry(ip), ip)}
JudgeLine(ip) ==
    /\ phase = "up" /\ epc = "judge"
    /\ Spend
    /\ \E f \in Failed(Key[ip]) :
         \/ Put(Key[ip], f) /\ UNCHANGED out
         \/ \E e \in LoadBans(f, Key[ip]) :
               Put(Key[ip], e) /\ out' = Append(out, [ip |-> ip, level |-> e.bans + 1])
    /\ WriteBack(Key[ip], 1)
    /\ UNCHANGED <<hist, cut, epc, apc, eip, aip, level, mirror, phase, autos>>

ChunkEnds ==
    /\ epc = "judge" /\ out # <<>>
    /\ epc' = "dispatch"
    /\ UNCHANGED <<dbVars, cacheVars, flushVars, out, apc, eip, aip, level, mirror, phase, auxVars, ops>>

-----------------------------------------------------------------------------
(* The executor: dispatchIntent, with banSink                              *)

(* Suppressed, or in the mirror already.                                   *)
Skip ==
    /\ epc = "dispatch" /\ out # <<>>
    /\ out' = Tail(out)
    /\ UNCHANGED <<dbVars, cacheVars, flushVars, epc, apc, eip, aip, level, mirror, phase, auxVars, ops>>

(* TryInsert: the mirror, and the row of ban_events with the level of the  *)
(* intent ...                                                              *)
TryInsert ==
    /\ epc = "dispatch" /\ out # <<>>
    /\ Head(out).ip \notin mirror
    /\ mirror' = mirror \cup {Head(out).ip}
    /\ eip' = Head(out).ip /\ level' = Head(out).level
    /\ out' = Tail(out)
    /\ epc' = "history"
    /\ UNCHANGED <<dbVars, cacheVars, flushVars, apc, aip, phase, auxVars, ops>>

(* ... RecordBanHistory, under the text of the intent; an error is logged  *)
(* ...                                                                     *)
RecordBanHistory ==
    /\ epc = "history"
    /\ epc' = "penalty"
    /\ \/ /\ hist' = [hist EXCEPT ![eip] = Counted(@)]
          /\ autos' = [autos EXCEPT ![eip] = @ + 1]
          /\ UNCHANGED ops
       \/ Spend /\ UNCHANGED <<hist, autos>>
    /\ UNCHANGED <<rep, cut, cacheVars, flushVars, out, apc, eip, aip, level, mirror, phase, owed, lossy>>

(* ... RecordBan ...                                                       *)
RecordBan ==
    /\ epc = "penalty"
    /\ epc' = "note"
    /\ \/ rep' = [rep EXCEPT ![eip] = Penalised(@, 1, FALSE)] /\ UNCHANGED ops
       \/ Spend /\ UNCHANGED rep
    /\ UNCHANGED <<hist, cut, cacheVars, flushVars, out, apc, eip, aip, level, mirror, phase, auxVars>>

(* ... NoteBan ...                                                         *)
\* slip: the count in the cache is left alone
NoteBan_Forgets ==
    /\ epc = "note"
    /\ epc' = "send"
    /\ \E f \in LoadScore(Entry(Key[eip]), Key[eip]) : \E e \in LoadBans(f, Key[eip]) :
         Put(Key[eip], [e EXCEPT !.score = Floor(@, 1)])
    /\ WriteBack(Key[eip], 0)
    /\ UNCHANGED <<hist, cut, out, apc, eip, aip, level, mirror, phase, autos, ops>>

NoteBan ==
    /\ epc = "note"
    /\ epc' = "send"
    /\ \E f \in LoadScore(Entry(Key[eip]), Key[eip]) : \E e \in LoadBans(f, Key[eip]) :
         Put(Key[eip], [e EXCEPT !.score = Floor(@, 1), !.bans = @ + 1])
    /\ WriteBack(Key[eip], 0)
    /\ UNCHANGED <<hist, cut, out, apc, eip, aip, level, mirror, phase, autos, ops>>

(* ... and Send; RollbackInsert when it fails.                             *)
Send ==
    /\ epc = "send"
    /\ epc' = "dispatch" /\ eip' = None /\ level' = 0
    /\ mirror' \in {mirror, mirror \ {eip}}
    /\ UNCHANGED <<dbVars, cacheVars, flushVars, out, apc, aip, phase, auxVars, ops>>

Dispatched ==
    /\ epc = "dispatch" /\ out = <<>>
    /\ epc' = "judge"
    /\ UNCHANGED <<dbVars, cacheVars, flushVars, out, apc, eip, aip, level, mirror, phase, auxVars, ops>>

-----------------------------------------------------------------------------
(* The HTTP interface                                                      *)

apiOnly == <<rep, cut, cacheVars, flushVars, out, epc, eip, level, phase, auxVars>>

(* CreateBan: sent to the kernel, or taken back; then the history, whose   *)
(* count is the level in ban_events.                                       *)
CreateBan(ip) ==
    /\ phase = "up" /\ apc = "idle" /\ ip \notin mirror
    /\ Spend
    /\ mirror' = mirror \cup {ip}
    /\ apc' = "send" /\ aip' = ip
    /\ UNCHANGED <<apiOnly, hist>>
CreateSent ==
    /\ apc = "send"
    /\ \/ apc' = "history" /\ UNCHANGED <<aip, mirror>>
       \/ apc' = "idle" /\ aip' = None /\ mirror' = mirror \ {aip}
    /\ UNCHANGED <<apiOnly, hist, ops>>
CreateRecorded ==
    /\ apc = "history"
    /\ apc' = "idle" /\ aip' = None
    /\ \/ hist' = [hist EXCEPT ![aip] = Counted(@)] /\ UNCHANGED ops
       \/ Spend /\ UNCHANGED hist
    /\ UNCHANGED <<apiOnly, mirror>>

(* DeleteBan, and the end of a ban in the kernel; the time of an unban     *)
(* that RecordUnbanHistory notes is left out.                              *)
DeleteBan(ip) ==
    /\ phase = "up" /\ ip \in mirror
    /\ mirror' = mirror \ {ip}
    /\ UNCHANGED <<apiOnly, hist, apc, aip, ops>>

-----------------------------------------------------------------------------
(* The flusher                                                             *)

flushOnly == <<hist, cut, lru, banVars, autos>>
\* slip: an entry that owes a single penalty is left for later
TakeDirty_Many == {x \in Ip : entry[x] # None /\ entry[x].pending > 1}
TakeDirty == {x \in Ip : entry[x] # None /\ entry[x].pending > 0}

(* The ticker, or the stop channel.                                        *)
FlushTick ==
    /\ phase \in {"up", "stopping"}
    /\ dirty = {} /\ writing = None /\ TakeDirty # {}
    /\ dirty' = TakeDirty
    /\ UNCHANGED <<flushOnly, rep, entry, writing, phase, owed, lossy, ops>>
FinalFlush ==
    /\ phase = "stopping"
    /\ dirty = {} /\ writing = None
    /\ dirty' = TakeDirty
    /\ phase' = "flushing"
    /\ UNCHANGED <<flushOnly, rep, entry, writing, owed, lossy, ops>>

(* writeAll, for one entry: take what it owes ...                          *)
FlushTake ==
    /\ writing = None
    /\ \E ip \in dirty :
       /\ writing' = IF entry[ip].pending = 0 THEN None
                     ELSE [ip |-> ip, n |-> entry[ip].pending, detached |-> FALSE]
       /\ entry' = [entry EXCEPT ![ip].pending = 0]
       /\ dirty' = dirty \ {ip}
    /\ UNCHANGED <<flushOnly, rep, phase, owed, lossy, ops>>

(* ... write it ...                                                        *)
\* slip: what the entry owes is set to zero after the write
FlushWrite_ClearsLate ==
    /\ writing # None
    /\ rep' = [rep EXCEPT ![writing.ip] = Penalised(@, writing.n, TRUE)]
    /\ owed' = [owed EXCEPT ![writing.ip] = @ - writing.n]
    /\ entry' = IF writing.detached THEN entry ELSE [entry EXCEPT ![writing.ip].pending = 0]
    /\ writing' = None
    /\ UNCHANGED <<flushOnly, dirty, phase, lossy, ops>>

FlushWrite ==
    /\ writing # None
    /\ rep' = [rep EXCEPT ![writing.ip] = Penalised(@, writing.n, TRUE)]
    /\ owed' = [owed EXCEPT ![writing.ip] = @ - writing.n]
    /\ writing' = None
    /\ UNCHANGED <<flushOnly, entry, dirty, phase, lossy, ops>>

(* ... or give it back, to an entry that may have been evicted meanwhile;  *)
(* after the final flush nobody tries again.                               *)
FlushFails ==
    /\ writing # None
    /\ Spend
    /\ entry' = IF writing.detached THEN entry
                ELSE [entry EXCEPT ![writing.ip].pending = @ + writing.n]
    /\ lossy' = IF writing.detached \/ phase = "flushing" THEN lossy \cup {writing.ip} ELSE lossy
    /\ writing' = None
    /\ UNCHANGED <<flushOnly, rep, dirty, phase, owed>>

-----------------------------------------------------------------------------
(* Timers on the database                                                  *)

timerOnly == <<cacheVars, flushVars, out, apc, eip, aip, level, mirror, phase, owed, lossy>>

(* CleanupExpired: the scheduler's ...                                     *)
CleanupStarts ==
    /\ phase = "up" /\ cut = None
    /\ cut' = [days |-> RetentionDays, at |-> "reputation"]
    /\ UNCHANGED <<timerOnly, hist, rep, epc, autos, ops>>
(* ... and the executor's, in its round (performDataCleanup).              *)
PerformDataCleanup ==
    /\ phase = "up" /\ cut = None /\ epc = "judge"
    /\ epc' = "cleanup"
    /\ cut' = [days |-> HookDays, at |-> "reputation"]
    /\ UNCHANGED <<timerOnly, hist, rep, autos, ops>>

Expired(row) == row # None /\ row.age >= cut.days
CleanupEnds == cut' = None /\ epc' = IF epc = "cleanup" THEN "judge" ELSE epc

CleanupReputation ==
    /\ cut # None /\ cut.at = "reputation"
    /\ \/ /\ rep' = [ip \in Ip |-> IF Expired(rep[ip]) THEN None ELSE rep[ip]]
          /\ cut' = [cut EXCEPT !.at = "history"]
          /\ UNCHANGED <<epc, ops>>
       \/ Spend /\ CleanupEnds /\ UNCHANGED rep
    /\ UNCHANGED <<timerOnly, hist, autos>>
CleanupHistory ==
    /\ cut # None /\ cut.at = "history"
    /\ hist' = [ip \in Ip |-> IF Expired(hist[ip]) THEN None ELSE hist[ip]]
    /\ autos' = [ip \in Ip |-> IF Expired(hist[ip]) THEN 0 ELSE autos[ip]]
    /\ CleanupEnds
    /\ UNCHANGED <<timerOnly, rep, ops>>

(* RecoverReputation                                                       *)
Recovers(r) == r # None /\ r.score < FullReputation /\ ~r.hot
RecoverReputation ==
    /\ phase = "up"
    /\ rep' = [ip \in Ip |-> IF Recovers(rep[ip])
                             THEN [rep[ip] EXCEPT !.score = @ + 1, !.age = 0] ELSE rep[ip]]
    /\ UNCHANGED <<timerOnly, hist, cut, epc, autos, ops>>

Older(row) ==
    IF row = None THEN None ELSE [row EXCEPT !.age = IF @ < RetentionDays THEN @ + 1 ELSE @]
\* bound: no clean-up lasts from one day to the next
DayPasses ==
    /\ cut = None
    /\ Spend
    /\ hist' = [ip \in Ip |-> Older(hist[ip])]
    /\ rep' = [ip \in Ip |-> IF rep[ip] = None THEN None ELSE [Older(rep[ip]) EXCEPT !.hot = FALSE]]
    /\ UNCHANGED <<timerOnly, cut, epc, autos>>

-----------------------------------------------------------------------------
(* The life of the process                                                 *)

(* The executor and the server have been joined (the supervisor waits five *)
(* seconds for them); then the stop channel is closed.                     *)
Stop ==
    /\ phase = "up" /\ epc = "judge" /\ out = <<>> /\ apc = "idle" /\ cut = None
    /\ phase' = "stopping"
    /\ UNCHANGED <<dbVars, cacheVars, flushVars, banVars, auxVars, ops>>

(* factsDone, then db.Close.                                               *)
\* slip: the database is closed without waiting for the flusher
Close_TooEarly ==
    /\ phase \in {"stopping", "flushing"}
    /\ phase' = "closed" /\ dirty' = {} /\ writing' = None
    /\ UNCHANGED <<dbVars, cacheVars, banVars, auxVars, ops>>

Close ==
    /\ phase = "flushing" /\ dirty = {} /\ writing = None
    /\ phase' = "closed"
    /\ UNCHANGED <<dbVars, cacheVars, flushVars, banVars, auxVars, ops>>

(* The next life, after a stop or a crash; the kernel keeps the bans.      *)
Restart ==
    /\ phase = "closed" \/ ops < MaxOps
    /\ ops' = IF phase = "closed" THEN ops ELSE ops + 1
    /\ phase' = "up"
    /\ lru' = <<>> /\ entry' = [ip \in Ip |-> None]
    /\ dirty' = {} /\ writing' = None /\ cut' = None
    /\ out' = <<>> /\ epc' = "judge" /\ apc' = "idle" /\ eip' = None /\ aip' = None /\ level' = 0
    /\ owed' = [ip \in Ip |-> 0] /\ lossy' = {}
    /\ UNCHANGED <<hist, rep, mirror, autos>>

-----------------------------------------------------------------------------
Executor ==
    \/ \E ip \in Ip : JudgeLine(ip)
    \/ ChunkEnds \/ Skip \/ TryInsert \/ RecordBanHistory \/ RecordBan \/ NoteBan \/ Send \/ Dispatched
Api ==
    \/ \E ip \in Ip : CreateBan(ip) \/ DeleteBan(ip)
    \/ CreateSent \/ CreateRecorded
Flusher == FlushTick \/ FinalFlush \/ FlushTake \/ FlushWrite \/ FlushFails
Timers ==
    \/ CleanupStarts \/ PerformDataCleanup \/ CleanupReputation \/ CleanupHistory
    \/ RecoverReputation \/ DayPasses

Next == Executor \/ Api \/ Flusher \/ Timers \/ Stop \/ Close \/ Restart

Spec == Init /\ [][Next]_vars

(* The flusher's goroutine runs and its ticker goes on.                    *)
FairSpec == Spec /\ WF_vars(Flusher)

-----------------------------------------------------------------------------
(* Properties                                                              *)

TypeOK ==
    /\ hist \in [Ip -> HistoryRow \cup {None}] /\ rep \in [Ip -> ReputationRow \cup {None}]
    /\ cut \in CleanUp \cup {None}
    /\ lru \in Seq(Ip) /\ Len(lru) <= Capacity
    /\ entry \in [Ip -> FactsEntry \cup {None}]
    /\ dirty \subseteq Ip /\ writing \in OneWrite \cup {None}
    /\ out \in Seq(Intent)
    /\ epc \in {"judge", "dispatch", "history", "penalty", "note", "send", "cleanup"}
    /\ apc \in {"idle", "send", "history"}
    /\ eip \in Ip \cup {None} /\ aip \in Ip \cup {None} /\ level \in Nat /\ mirror \subseteq Ip
    /\ phase \in {"up", "stopping", "flushing", "closed"}
    /\ owed \in [Ip -> Int] /\ lossy \subseteq Ip /\ autos \in [Ip -> Nat] /\ ops \in Nat

Pending(ip) == IF entry[ip] = None THEN 0 ELSE entry[ip].pending
InFlight(ip) == IF writing # None /\ writing.ip = ip THEN writing.n ELSE 0

(* Every penalty is in the database, in the cache, or on its way, however  *)
(* lines, evictions and the flusher meet; only a write that fails for an   *)
(* entry that has left the cache loses any (writeAll and writeBack).       *)
PenaltiesKept ==
    \A ip \in Ip \ lossy : owed[ip] = Pending(ip) + InFlight(ip)

(* A process that ends in order has nothing left to write: the final flush *)
(* comes before the database is closed (StartFlusher, main.go:162-167).    *)
CleanStopLandsAll ==
    phase = "closed" => \A ip \in Ip \ lossy : owed[ip] = 0

(* A repeat offender is never taken for less than it is: the level of an   *)
(* automatic ban is above the number of automatic bans that the history    *)
(* holds under the unmapped text of the address when the line is judged,   *)
(* whatever has been evicted, restarted, or written in vain; but for a     *)
(* history that could not be read (PriorBanCount, PlanBan).                *)
RepeatsEscalate ==
    [][Len(out') > Len(out) =>
         LET i == Last(out')
         IN  i.level > autos[Key[i.ip]] \/ entry'[Key[i.ip]].blind]_vars

(* While the process runs, what a line has cost is written in the end,     *)
(* however many writes fail and entries come and go (StartFlusher).        *)
PenaltiesLand ==
    \A ip \in Ip : []<>(Pending(ip) + InFlight(ip) = 0 \/ phase \in {"flushing", "closed"})

-----------------------------------------------------------------------------
(* What comments and documents say, and the code does not keep             *)

(* troubleshooting.md:299, hooks.go:22: rows are kept for                  *)
(* history_retention_days.                                                 *)
KeptForRetention ==
    [][\A ip \in Ip : hist[ip] # None /\ hist'[ip] = None => hist[ip].age >= RetentionDays]_vars

(* facts.go:126: two texts of one address are one entry; but the bans that *)
(* are recorded under the mapped text are never read again, so that such   *)
(* an offender starts anew once its entry is gone.                         *)
MappedEscalate ==
    [][Len(out') > Len(out) =>
         LET i == Last(out')
         IN  i.level > autos[i.ip] \/ entry'[Key[i.ip]].blind]_vars

(* main.go:631: the level of an automatic ban is the count that            *)
(* RecordBanHistory returns.                                               *)
LevelIsCount ==
    [][epc = "history" /\ hist'[eip] # hist[eip] => hist'[eip].count = level]_vars

(* facts.go, header: the score in the database lags behind the cache, not  *)
(* the other way round, but for a ban that is being noted.                 *)
CacheLeads ==
    \A ip \in Ip : /\ entry[ip] # None /\ entry[ip].score # None /\ rep[ip] # None
                   /\ eip # None => ip # Key[eip]
        => entry[ip].score <= rep[ip].score
=============================================================================
