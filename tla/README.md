# Verification of linux-firewall-kmod

TLA+ models of the firewall's kernel module and of its daemon, the TLC runs
that check them on small instances, and TLAPS proofs of what matters most. The
code is the reference: `src/kernel-module` and `src/daemon`. Line numbers are
those of the commit the models were written against; `PROJECT.json` maps every
definition to its lines.

## 1. The system

Two programs. The **kernel module** decides on packets: whitelist, local
addresses, ban table, rate detection, in that order, inside one RCU read
section. The **daemon** follows log files, finds failed logins, and asks the
kernel over netlink to ban; it keeps a mirror of the ban table for its HTTP
interface and a history in SQLite. Kernel and daemon talk in datagrams:
commands and queries one way, answers and unsolicited events the other. procfs
is an interface for people and bypasses the daemon.

### 1.1 Kernel module

| component | state | operations | what is hard | what makes it correct |
|---|---|---|---|---|
| ban table (`fw_ban.c`) | hash buckets with a spinlock each, in one layer per prefix length; per layer a counter and a bit in a bitmap; `ban_count`; a timer per entry | insert or renew, delete, bulk delete by prefix, expiry, lookup, paged listing, flood gate, teardown | counter, bit, timer, broadcast and `call_rcu` come after the unlock; callbacks wait for the lock; RCU readers throughout | one entry per prefix; exact counters; a live entry is visible to the packet path; every temporary ban ends; no use after free |
| whitelist (`fw_wl.c`) | hash table and subnet list under one lock; `wl_count` | add, remove (also deletes covered bans), silent remove, lookup, listing | check and act are separate: local set, whitelist and ban table have a lock each | a whitelisted address passes; a local address cannot lose its protection |
| local addresses (`fw_local.c`, `fw_netdev.c`) | an immutable hash set behind an RCU pointer; a debounced work item | rebuild, publish, reconcile the automatic whitelist entries | two-pass collection, pages that grow stale, notifier events | the set holds every address of every interface that is up; entries of people survive |
| packet hook (`fw_hook.c`) | none | verdict; self-made bans | reads three tables that change under it | whitelist before ban; no work after shutdown begins |
| rate table (`fw_rate.c`) | buckets, one slot per entry on every CPU, `rate_count`, a clearing flag | observe, create, publish, reclaim, clear all | slots are handed over between CPUs, counters outside locks | no slot leaks; the counter is never negative |
| protected ports (`fw_ports.c`) | a bitmap behind an RCU pointer | replace, test | replacement without a lock | the old bitmap is freed once |
| netlink (`fw_netlink.c`) | the registered daemon and its last activity | register, take over, commands, queries, broadcasts | `.input` runs in the sender's context; probing; 30 s timeout | one daemon at a time |
| state file (`fw_state.c`) | the file, a once-only restore flag | save (temporary file, CRC, rename), restore | paging over a table that changes, up to a limit that may be set meanwhile; crashes | what is restored was once the state |
| procfs, statistics, life cycle (`fw_procfs.c`, `fw_stats.c`, `fw_main.c`) | per-CPU counters; the shutdown flag | format, parse; init and exit in order | teardown while hooks and timers run | nothing runs on freed state |

### 1.2 Daemon

| component | state | operations | what is hard | what makes it correct |
|---|---|---|---|---|
| log following (`ingest`, `logparse/splitter.go`, watch half of `runtime/executor.go`) | registered sources, inotify watches, descriptor and offset, half lines, `pendingReadd` | reconcile watches, read new content, handle rotation, retry | the file is written, renamed, truncated, removed between any two system calls; events arrive late | every line judged once, whole, and only for a jail that is on; the daemon ends up on the right file |
| pipeline and decision (`runtime/pipeline.go`, `detect`, `decision`) | windows of failures per address | judge a line, threshold, progressive duration, clusters | windows with a capacity, floating thresholds | a ban exactly when the threshold is passed |
| executor's intents and directives (`runtime/executor.go`, `directives.go`) | suppressed addresses, the configuration | dispatch a ban, adopt the kernel's configuration, reload, roll back | results come later and out of order | suppression only after a real rejection |
| transport, router, client, reactor (`kernel/*.go`) | pending requests by sequence number, the event queue, the link's state | send, poll, match a reply, time out, close | reply, timeout and loss of the link race | every request ends; a late reply harms nobody |
| event consumer and mirror (`kernel/consumer.go`, `bans/cache.go`) | the mirror, its pending marks | apply events, reconcile by paging, sweep | events are lost or late, the listing is not atomic | the mirror converges to the kernel's table |
| persistence (`persist`) | SQLite | record, roll back, prune | recording and sending are separate | the history counts bans that happened |
| HTTP, server-sent events, lockout (`http`) | clients of the stream, failed logins | publish, attach, detach, stop, allow, record | slow clients, shutdown | nobody blocks the publisher |
| timers, supervisor, signals (`runtime`, `cmd`) | due times, started components | fire, start, stop in reverse | termination requested from inside | the process stops when it should |
| threat feeds (`threatfeeds`) | cached lists | fetch on a schedule, look up | stale data | expired data is not served |
| configuration, jails, codec, risk, analysis, telemetry, logger, frontend, contract generator | data only | parse, format, score | none of the kinds a model reaches | tests |

### 1.3 Interactions

* the hook reads whitelist, local set and ban table under one RCU section and
  adds bans itself (DDoS); netlink and procfs add and delete bans; removing a
  whitelist entry deletes the bans it covers;
* interface notifiers rebuild the local set, which deletes whitelist entries;
* every change of the ban table is broadcast *after* the lock is dropped, and
  the daemon's consumer applies the broadcasts to the mirror while the executor
  and the HTTP handlers change the same mirror and a reconciliation overwrites it;
* rejected commands come back as results and become directives of the executor
  through a bounded queue.

## 2. The modules

| module | models | composes or refines | proofs |
|---|---|---|---|
| `BanSet` | the set of prefixes that a ban table promises to be | | |
| `BanTable` | the ban table with its locks, timers and RCU | refines `BanSet` | `BanTable_proofs` |
| `Whitelist` | whitelist, local addresses, the worker, the packet's verdict | steps of `BanSet` for the bans | `Whitelist_proofs` |
| `RateTable` | the rate table, CPU by CPU | | `RateTable_proofs` |
| `ModuleLife` | load, unload, state file, the daemon's lease | tables as sets | `ModuleLife_proofs` |
| `KernelLink` | pending requests, receiver, closing of the link | | `KernelLink_proofs` |
| `Wire` | the layout of every message, both sides | | |
| `BanMirror` | consumer, mirror, executor and API against a kernel that changes | steps of `BanSet` for the kernel | `KernelLink_proofs` |
| `LogTail` | following one log through rotations | | `LogTail_proofs` |
| `Decisions` | from a line to a ban command and back | | `LogTail_proofs` |
| `Facts` | reputation, history, their cache and the flusher | | `Facts_proofs` |
| `Config`, `Settings` | what a file means; files, executor, requests, kernel | `Settings` extends `Config` | `Web_proofs` |
| `Web` | limiter, login gate, streams, shutdown | | `Web_proofs` |

`MC*` modules give the constants of the runs their values. One run per module; a cfg replaces no definition. A definition that a run does not use
is either a part of a proof or listed in section 8.

Three pairs of modules share a module of proofs, the later component beside the one
it depends on (`KernelLink` and `BanMirror`, `LogTail` and `Decisions`, `Web` and
`Settings`). That module extends both, so in the second of each pair the usual names
carry its own: `MirrorSpec`, `DecisionsSpec`, `SettingsSpec`.

Conventions. A thread's call is cut where the code drops a lock, calls the
system or waits; a step stands for all that happens in between, whatever
function it is in. A name like `FlushWrite_ClearsLate`, defined before the
action `FlushWrite`, is the action with a plausible bug, and is used in no
specification: for each property of each run one of them shows that the run
would have found it.

Kernel and daemon are not composed into one specification: what one module
needs of the other is in it as the set of steps the other can take (`BanMirror`
has the kernel as `BanSet`, which `BanTable` is shown to implement;
`Decisions` has the kernel's answers, `Settings` the kernel's copy).

## 3. Kernel modules and their runs

### BanTable

`fw_ban_insert`, `fw_ban_del`, `fw_ban_del_matching`, `fw_ban_expire_cb` and
the RCU callback. What happens under the bucket lock is one step, except that
an insert which found room (`InsertCheck`) still holds the lock before
`InsertLink`, so that inserts in other buckets can come between the capacity
check and the count.

| code | model |
|---|---|
| `hlist` membership, kfree, `call_rcu` | `mem[n]`: free, private, linked, unlinked, dying |
| bucket spinlock | `BucketFree`: held between `InsertCheck` and `InsertLink`, otherwise within a step |
| `expire_timer`, running callback | `armed[n]`, `cb[n]` |
| `unban_jiffies` against `jiffies` | `due[n]`, set by `Tick` at any time |
| `layers[L].count`, `used`, `ban_count` | `count`, `used`, `banCount` |
| RCU readers | hook threads, and callbacks that began before `call_rcu`, hold up `Reclaim` |

IPv4 and IPv6 tables are alike and interact only through `ban_count`, so there
is one; the hash is the constant `BucketOf`; a refused call leaves the state as
it was; a slot that someone still points at is not allocated again, so that a
stale access is recognised rather than hidden; after the first memory fault the
model stops (hence `CHECK_DEADLOCK FALSE`). `max_ban_entries` does not change
after load (`fw_main.c:134,152`).

Run `ban_table`: two process threads and one hook thread, two slots, three
prefixes — two that share a bucket, one alone in a layer. Two slots are enough
for each pair of an old and a new entry of one prefix; three threads for an
insert, a delete and a renewal to overlap; sharing a bucket makes a bulk delete
remove two entries at once. It checks the table's counter in the middle of every
operation, uniqueness, that a temporary entry is never without
something that ends it, that only a delete ends a temporary ban that has time
left, that a linked entry is out of the packet's sight only while some insert of
its layer has still to count its node (which is what the code keeps of
`fw_ban.c:24-32`, see section 8), and that the table implements `BanSet` with
`Slack` more places than `max_ban_entries`: the capacity check is under the lock
of one bucket only.

The run has no more slots than places, so the table cannot outgrow them: how far it
can outgrow `max_ban_entries` is proved (`OvershootBounded`, `Refinement`). That each
layer's bit is the sign of its counter (`BitmapMatchesCount`) is proved too, and not
in the run.

### Whitelist

The verdict of `fw_ban_check` and what it reads. A packet looks at the host
bucket, the subnet list, the local set and the layers of the ban table one by
one; a violation of the rate leads into `fw_ban_try_add`, which looks the
whitelist up again. A ban, an unban and each bucket of a bulk delete are steps
of `BanSet`.

| code | model |
|---|---|
| whitelist entries and their device names | `wl[p]`, `Absent` if there is none |
| `fw_wl_lookup` | `WlBucketHit/Miss` (full length), `WlListHit/Miss` (the others) |
| `local_set` behind its RCU pointer | `local` |
| addresses of interfaces that are up | `ifaces`; `LinkChange` comes with a netdev event, `AddrChange` does not |
| `sync_work` | `queued`, `wpc`; `rows` and `room` of the two walks, `page` of the reconciliation |
| `fw_wl_remove` | `RemoveCall` (local?), `WlUnlink`, `Scan` per bucket |
| `used`, the bitmap of layers that `fw_ban_lookup` tests first | `hidden`: banned prefixes whose layer is not marked; `LayerBit` at any time |
| `kmalloc_array` of a page fails in the worker | `SyncNoPage` |

A walk of an RCU list is one step: entries are appended at the tail and an
unlinked entry keeps its pointer to the next, so a walk that finds nothing ends
at a moment at which the list held nothing that covers the address. Collecting
and publishing the local set is one step because nobody else sees the rows. No
code adds whitelist entries for interfaces; "automatic" entries are those whose
device name is not `manual` or `restored`. `held`, `home`, `stuck`, `clear` are
history variables (`Observe`): what has protected or condemned the subject of a
call all the time. They guard nothing.

Run `whitelist`: one packet, one handler, the worker; a host prefix and a
network that holds it and another address; one entry fills the whitelist. One
interface change (`MaxChange`) on top of the event at the start lets an event
meet the running worker and an address appear between count and collection;
`MaxPasses` 2 stands for 64 because a third pass does nothing new. A packet
protected by one thing all the time passes; a removal leaves none of the bans
it should lift; the last event reaches the local set unless memory was short.
That the bit of a ban's layer may be missing while the ban is in force is what
`BanTable!MarkedIsVisible` is about; here it may come and go in every way, so
`BannedIsDropped`, which is proved, speaks of a ban in a layer that was marked all
the time, and bulk deletes, which do not test the bit, find hidden bans too.
The calls may all end: no deadlock check.

### RateTable

Entries in buckets, a slot per entry in the memory of every CPU, and the three
who touch slots: a packet that creates an entry publishes its slot CPU by CPU
under `slotLock`, while reclamation and clearing have each CPU clear its own
slot in an interrupt (`ipi[c]`), which can come between two steps of a packet
on the same CPU but not while the CPU holds a lock that disables them.
`batch` is what a reclamation has unlinked, `pre` and `dn` what a clearing has,
`doomed` what waits for the grace period; `Free` gives memory back when no
callback can still run and no packet that could hold the entry is left. What is
counted is abstracted to "the window is over" (`due`) and "silent for a minute"
(`old`).

Run `rate_table`: two CPUs, two sources in buckets of their own that want the
same slot, memory for three entries, capacity two, three operations — enough
for a creation on one CPU, a clearing, and a creation in the same slot on the
other while the first clearing's callbacks still run. An entry that can be found
keeps its slot on CPU 0, no source has two entries, no slot and no packet holds
memory that was given back. Sets of entries are interchangeable (symmetry).
The work item and the CPUs may have nothing to do: no deadlock check.

### ModuleLife

`fw_init` step by step with a failure at any step that can fail, the error
labels, `fw_exit`; packets and notifier work around them; the state file; the
lease.

| code | model |
|---|---|
| the steps of `fw_init`, the labels, `fw_exit` | `InitOrder`, `UndoOrder`, `ExitOrder`; `phase`, `step`, `up` |
| `shutting_down`, a packet in the hook | `shutting`, `packet`; `synchronize_rcu` waits for the packet |
| temporary file and rename | `save` (`at`, `offset`), `temp`; `file`, `disk` (what a power cut leaves) |
| pages of `FW_STATE_PAGE` rows | `PageOf`: the rows whose number lies in the page, over a table that changes |
| `fw_max_ban_entries`, `fw_max_whitelist_entries`, writable at any time | an element of `Limits`, read anew for each page; `save.cut` is what lay beyond it |
| registered portid, its last activity, a probe | `portid`, and `Judge(p, alive)`: judged in one step, granted in another; `ProbeAnswers` may be "no" for a living daemon too, whose buffer is full |

Run `module_life`: two bans, one temporary, a whitelist entry that forbids it, pages
of one row (so a removal can shift a row over the edge of a page), two processes
that want to be the daemon, five operations — a load, a save and its two rows, and
one thing that goes wrong; limits of one and of two rows, so that a save can be cut
off on the page of the second ban. A packet finds all tables; a failed load leaves
nothing; a ban in force throughout a save in which nothing is removed is saved,
unless it lay beyond the limit when its page was read; once a whole state file is on
the disk there is one after every crash; a daemon that lost the lease gets to know.
The capacity of the tables is not modelled here (it is in `BanTable`): a table may
hold more rows than a limit, which the code allows because the table keeps the limit
it was loaded with. A restore may take nothing. Fairness: `Silence` (time passes)
and the periodic renewal of each process; nothing is asked of loads, unloads or
administrators, so the module may be absent for ever.

## 4. Daemon modules and their runs

### LogTail

The executor's round for one log of one jail: maintenance, `syncJailEnabled`,
`retryPendingReadd`, poll with signals before inotify, the events of one
wake-up, and `ReadNew` cut at its system calls (lstat, open, read), so that
writer and rotation can act between any two.

| code | model |
|---|---|
| inodes and the path | `File`, `path`, `unlinked`; `Link` stands for a symbolic link, which `lstat` refuses |
| inotify | `watch`, `queue` (equal neighbours merge), `batch`; "content" for MODIFY, CLOSE_WRITE, ATTRIB; "gone" for MOVE_SELF, DELETE_SELF |
| `SourceReader` | `fd`, `offset`; `rotated` is a local of `ReadNew` |
| `LineSplitter` | `carry`; a line is written whole or as two fragments |
| `pendingReadd`, `cfg.Jails[i].Enabled`, the panel's switch | `pending`, `enabled`, `wish` |
| what the pipeline judged | `judged[n]`, `spliced` |

Placing a watch (lstat, `inotify_add_watch`) is one step. Left out: errors of
read and seek, empty and oversized lines, overflow of the inotify queue,
renaming an old file back. Events of a removed watch are dropped at removal
instead of when they are read (`Resolve`).

Run `log_tail`: two files, two lines, the first of them perhaps in two pieces
(`MaxHalf`), two events out of rename, removal, truncation, a link in the way, the
switch, reload and rollback; each hazard needs one rotation and at most one more
event while the first is being handled, and the second line shows what happens after
it. `Batch` is 2 and a file can have three fragments, so a read can fill its buffer
and stop before the end of the file. No judged line has parts of two files; what was
there before the start is never judged; the daemon gets to watch the file at the
path, and reads all of what it watches, but for what lies behind a read that filled
the buffer, which waits for the next event (section 8). Fairness: weak for the
executor's goroutine, strong for the rescan, whose timer falls due again and again;
nothing is asked of writer or rotation. The executor never stops, so deadlock is
checked.

### BanMirror

The mirror (`bans/cache.go`) with three writers — the pump's consumer, the
executor's intents, requests of the API — against a kernel that bans, expires
and deletes by itself, a bounded queue of events that overflows, and a paged
listing of a table that changes between the pages. Executor and request are cut
between the mirror, the pending mark and the send.

The daemon refuses some addresses (`bans.ValidateIP`, the constant `Invalid`) when
it adopts rows of a listing, but not in events, in intents or in requests of the
API, which are only parsed.

Run `ban_mirror`: an address with a host and a network prefix, one with a host
prefix only, one that the daemon refuses; the last two are banned at the start.
Pages of one row, a queue of one event, two operations beyond expiry. A ban that was
there when the listing began, of an address that the daemon accepts, is not taken
for a ghost unless the table moved meanwhile; and, whatever was lost, the mirror
converges to the accepted addresses of the kernel's table. Fairness: the pump's
tickers and its `select` (strong, since the cases compete), calls that have begun go
on, timers of the kernel fire; failures of a listing are bounded by `MaxActs`, i.e.
the link works in the end.

### KernelLink

`exchangeWith` (number, register, send, wait, abandon), commands that wait for
nothing, the receiver's loop with its claim of a pending entry, loss of the link
and `Close`.  Run `kernel_link`: two callers, four usable numbers so that the
counter wraps and has to leave out 0, one place in the pending table, a receive
buffer of two, three operations. An entry of the table belongs to a request under
way; nobody enters the table after it was cleared; the receiving goroutine stops
when it is told to, because every call it makes returns within half a second.
Fairness: that goroutine only. `SeqSpace > MaxOps + 1` is the assumption that a
number is not reused within 2^32 requests.

### Wire

Offsets and widths of every field of every record on both sides (the daemon's
tables are generated, the kernel has packed structs; they are computed
differently and written down separately), clamping of texts at character
boundaries, the checks of header, length and count, pages bounded by `msg_len`.
Run `wire`: every message, texts around the widths in one- and three-byte
characters, tables of 0, 1 and 5000 rows, limits up to 65535. What is sent
arrives field by field. This is bounded data and the run enumerates it.

### Decisions

A failure window per jail and address, thresholds, the cluster scan, dispatch,
suppression after a refusal, refusals that come back through a bounded queue.
Time stamps are ages, so time is unbounded. A reload replaces the whole policy of a
jail, `find_time` and cluster window included, over a window that is kept; nothing
makes the cluster's window shorter than `find_time` (`jail.go:77-107`), and the
model does not either. Two histories frame the count: `made` has the ages of the
last failures since the last intent, and `kept` says how many of them were never
older than the `find_time` in force, which is what an observer knows that forgets
at once.

Run `decisions`: one jail, two addresses of one network, one internal; capacity
two; two policies between which reloads switch, `find_time` 1 with a cluster window
of 2, and the other way round. The window counts at least what the observer knows
and at most what has failed within `find_time`; the cluster scan finds each network
that surely qualifies and none that surely does not. The two sides of each property
differ only after a reload has raised `find_time`, or where the cluster's window is
the longer one; with one `find_time` and no longer window they are equal, which is
proved (section 5). Assumed: the wall clock is not set back.

### Facts

The cache in front of the database, eviction with write-back, the flusher that
writes outside the lock, the bans of executor and API with their three records, the
clean-ups, stop, close, crash and restart; every statement is one step and may fail.
An address has a text in the log and in the rows of the history, and the cache takes
a mapped text (`::ffff:a.b.c.d`) for the unmapped one: `Key`. Run `facts`: two
addresses, one of which has two texts, and a cache of one, so that each change of
the address evicts; three operations; a reputation of one step. The flusher's list
is a set: no property depends on the order in which it writes. Every penalty is in
the database, the cache or on its way, unless a write failed for an entry that had
already left; a stop in order lands all; a repeat offender is never taken for less
than the automatic bans under its unmapped text, wherever the line's own text came
from (section 8 for the mapped one).

### Config and Settings

`Config`: operators from abstract texts to a configuration (parse, merge, override,
fill in, validate, compile) and to the kernel's view. `Settings`: its life between
files, executor, `PUT` requests, wishes of the API, signals and the kernel. Files
are truncated and then written; directives are drained one at a time, each
publishing what it changes, and a round goes on once none is left. The channel is
shared with rejected commands (`None` in `directives`), which take a place without
changing a value, so that a ban time may find it full and be lost. `gap` records
which of the listed things happened that excuse a difference; each exception is
there because TLC finds the difference without it.

Run `settings`: two jails, two interchangeable requests (symmetry), a channel of one
directive, three operations (an operator's save, a request, a toggle or a signal are
the pairs that race; a third makes one of them late). When all is quiet the
configuration is the file's and the kernel's is the configuration's, but for the
named gaps; what a request writes loads again; when the executor goes to wait every
wish is in the configuration and in the list the panel shows. A file that does not
load keeps the daemon down: no deadlock check.

### Web

The places under the connection limiter, the lockout (`Allow`, `RecordFailure`
and `RecordSuccess` are separate sections), the event stream's broker with
attach, fan-out, a client that falls behind, detach and stop, the log stream,
and the order in which the process stops its parts. While the server drains, a
connection that was accepted before may still send its first request, or say
nothing and hold `Shutdown` up (`newcomers`, at most `MaxNew`); the listener may
fail, which leaves the streams to main's deferred calls (`ListenerFails`). Routes
without a login and the bodies of handlers are left out.

Run `web`: two requests, `Threshold` 2, channels of one element, one newcomer, one
frame: a client that has not yet read "connected" falls behind at the frame. The
order of several frames is proved, for any number of them. A client in the table
has, or will find in its channel, every frame since it registered; neither the loop
nor `Stop` touches a closed channel; after the gate has closed fewer late guesses
are compared than there are places; a process told to stop exits. Fairness:
goroutines that can run do; clients that are connected read, newcomers leave (each
has five seconds at most) and handlers end; arrivals, losses, signals and timeouts
are owed to nobody, and only the join of the HTTP server has a timeout at all.

## 5. What is proved

For every value of the constants that the assumptions of the module allow, TLAPS
checks `Spec => []IInv` (`MirrorSpec`, `DecisionsSpec` and `SettingsSpec` in the second
parts) with an inductive invariant `IInv`, and from it the properties. TLC checked
each `IInv` on the run's instance first.

| module | theorem | property |
|---|---|---|
| `BanTable_proofs` | `TypeCorrect`, `BitmapCorrect`, `UniqueKeyCorrect`, `BanCountCorrect`, `TimerCorrect`, `OvershootBounded` | `TypeOK`, `BitmapMatchesCount`, `UniqueKey`, `BanCountExact`, `TemporaryWillEnd`, `CapacityOvershoot` |
| | `LiveBansStay` (an action property), `Refinement` | `LiveBanOnlyDeleted`, `ImplementsBanSet` |
| `RateTable_proofs` | `TypeCorrect`, `EntryUnique`, `SlotKept`, `MemoryAlive`, `CountSound` | `TypeOK`, `OneEntry`, `SlotOwned`, `NoDangling`, `CountNeverAbove` |
| `KernelLink_proofs` | `TypeCorrect`, `EntriesAreOwned`, `ClosedStaysEmpty`, `NumbersDiffer` | `TypeOK`, `NoOrphanEntry`, `ClosedIsEmpty`, `Apart` |
| the same, on `BanMirror` | `SteadyBansStay` (an action property), `MirrorTypeCorrect` | `SteadyBansKept`, `TypeOK` |
| `Whitelist_proofs` | `TypeCorrect`, `EventsAreLearned`, `BansAreLifted`, `ProtectionHolds`, `BanHolds`, `BansSpareTheCovered` | `TypeOK`, `EventIsLearned`, `RemoveLiftsBans`, `ProtectedPasses`, `BannedIsDropped`, `CoveredIsNotBanned` |
| `ModuleLife_proofs` | `TypeCorrect`, `PacketsFindTables`, `FailedLoadIsUndone`, `PagesMissNoBan`, `RestoreIsWhole`, `StateIsNeverLost` | `TypeOK`, `HookSeesTables`, `FailedLoadLeavesNothing`, `SteadyBansSaved`, `RestoredIsWhole`, `StateFileKept` |
| `Web_proofs` | `TypeCorrect`, `NoFrameIsMissed`, `ClosedOnce`, `GateHolds` | `TypeOK`, `EveryFrame`, `BrokerSurvives`, `LateGuesses` |
| the same, on `Settings` | `ConfigFollowsFile`, `KernelFollowsConfig`, `RequestsAreLoadable`, `WhatRunsIsValid` | `SettledFollowsFile`, `KernelSettled`, `AcceptedIsLoadable`, `RunningIsValid` |
| | `PanelFollowsWishes` (an action property) | `WishesReachThePanel` |
| `LogTail_proofs` | `TypeCorrect`, `LinesAreWhole`, `HistoryStaysUnread` | `TypeOK`, `NoSplice`, `HistoryNotReplayed` |
| the same, on `Decisions` | `WindowsHold`, `WindowsCount`, `ClustersAreFound` | `CountIsTrue`, `ClusterIsTrue` |
| | `SteadyCountIsExact`, `SteadyClustersAreExact` (one `find_time`; no longer window) | `CountIsExact`, `ClusterIsExact` |
| | `RefusalsSilence` (an action property) | `RefusedIsQuiet` |
| `Facts_proofs` | `TypeCorrect`, `NoPenaltyIsLost`, `CleanStop` | `TypeOK`, `PenaltiesKept`, `CleanStopLandsAll` |
| | `RepeatOffenders` (an action property) | `RepeatsEscalate` |

**BanTable.** None of the properties is inductive without *ownership*: a private
node belongs to one inserting thread, which has its key; an unlinked node belongs
to one deleting thread or to its callback; `DelRelease` counts out what it holds.
*Locks*: of two threads between check and link at most one is in a bucket, and
the bucket has no entry of its key. *Count*: linked nodes plus threads past the
capacity check are at most `MaxBan + Slack`. *Timers*: what an insert remembers
(`temp`) is true of its node. The refinement maps a step that links to one
insertion into `BanSet`, a bulk delete's bucket to one removal of several keys,
everything else to a stutter. Assumed: finite sets of threads and slots, a
layout, `MaxBan > 0`.

**RateTable.** Two creators are in different buckets (bucket lock), and what the
repeated look-up found stays true until the entry is linked; only one CPU
publishes (`slotLock`), and slot 0 of its index is empty before it has published
it and its own after. An entry is in one place: linked, in `batch`, in `pre`/`dn`,
or doomed. A callback is under way only for an entry of `batch` or for `dn`, and
on CPU 0 nobody can have taken the slot it has looked at. For `NoDangling`: when an
entry is doomed every CPU has run its callback (`Called`), so no slot holds it,
and whoever read it before is in `waits`, for which `Free` waits. `CountNeverAbove`
follows the order of counting and unlinking; it says nothing of the other
direction: `rate_count` can stay below the number of entries after a clearing.

**KernelLink.** Entries are removed by number, so the argument is about numbers:
`Recent` is the arc of the numbers given out so far, on the circle without 0; all
numbers in use lie on it and the next one does not. Hence two requests under way
differ, the entry the receiver has claimed is nobody's who still has to register,
and removing by number hits one's own entry. Assumed: `SeqSpace > MaxOps + 1`.

**BanMirror** (second part of `KernelLink_proofs`). As long as the table stands still, the pages read so far are its first
`offset` rows, in the order of the keys, and the count that came with a page is the
table's size. The rows and the banned keys correspond one to one (`RowAt`,
`RowIsWithin`, `EveryRow`), so that a listing which reached that count has every
key, and no key that was held from its beginning has an address among the ghosts.
Assumed: the order of the keys has no two at one place, and no address is the name
of a place in the program (`PlaceAssumption`). Which addresses are `Invalid` does
not matter to the argument.

**Whitelist.** A call reads its places one after the other. What has lasted since
the call began and is of the kind a place holds was there when the place was
read; so behind each place the candidates left are of the kinds still to be read
(`ControlOK`, `HeldOK`, `HomeOK`, `StuckOK`, one record per thread), and behind
the last there are none. For a packet a ban lasts only while its layer
is marked (`Lasting`), because the look-up passes over the hidden ones. `WorkerOK`
ties the worker's rows to the event it has still to learn.

**ModuleLife.** `UpOK` gives what is set up at each position of load, error path
and unload; `PacketOK` that tables go only where neither hook nor packet is left;
`LeftoverOK` that whoever could add an entry or queue work is gone before what it
works on. `SaveOK` and `SteadyOK` follow the temporary file: after `offset` rows,
a ban in force throughout either has a number below `offset` and is in the file, or
a number above; arrivals come last in their order only within the listing, so a
row's number never falls while nothing is removed; or it lay beyond the limit of a
page and is in `save.cut`. `FilesOK` says what the disk
holds while the name is not yet durable.

**Web.** A connection is registered once: until then its channel is open and holds
no frame (`NewOK`), and whoever finds a closed channel in the table would have
put it back after the loop or `Stop` took it out, which nobody can. While the loop
runs, what waits in the queue are the next numbers (`QueueOK`), so the channel of a
client grows by exactly the frame it is owed (`OwedOK`, which says where in the
channel the frames are, without a filter that recurs over it). For the gate:
whoever closes it is one of the requests under the limiter, and each late guess
uses up one of those that were comparing when it closed (`GateOK`). A failed listener
and connections that say nothing leave all three untouched. Assumed: there
is at least one request.

**Settings** (second part of `Web_proofs`). The properties are about quiet states; the invariant says for every other
state what will end a difference. `FileOK`: the Config has what the file says, or
an event of the file waits, or the executor is about to read it, or the history
names an exception. `LoadedOK` carries this over the time between reading and
applying: what was read is what the file says now, or an event came after. An
event is dropped only together with its watch, and the configuration file's watch
is dropped only while the backup is in force, which is one of the exceptions
(`RewatchGives`). `KernelOK` is the same between Config and kernel, for the ban time
once no directive with a value is on its way (`NoneComes`); a configuration that is pushed twice changes
nothing the second time (`TakenTwice`). `PutOK` keeps what a request has checked; the
text it writes is what the operator saved or a patch of it, because patching twice
is patching once (`PatchedOnMain`), and a text that passes the strict check loads the
same without it (`StrictIsStricter`). Assumed: the texts are of the type `Texts`,
the values of ban_time are positive, and `None` is none of the values it is compared
with.

**LogTail.** A file holds its own bytes, and between two reads the half line is of
the file that is open (`WholeOK`): without a descriptor there is none, and the only
moment at which they differ is marked by `rotated`, which makes the next read drop
the half line. For the history: the line that was there stands first in the first
file only, until a truncation. As long as the path names this file nothing waits to
be attached from the start and no rotation is queued; the descriptor, once open, is
behind the line; and a file that has left the path never comes back (`HistoryOK`).
That the splitter finds the *last* line end needs a largest element of a finite set
of positions, for which `Least` uses that the finite sets are well-founded.
Assumed: the file at the start exists; the buffer holds at least one fragment.

**Decisions** (second part of `LogTail_proofs`). A window is kept next to the register of the last failures: read
backwards it is the beginning of the register (`Holds`), which is in order
(`Sorted`), so that trimming is a cut. Each operation on a window has a lemma (`PushedHolds`, `TrimmedHolds`,
`CleanedHolds`, `OlderHolds`). For every length of time the window counts the smaller
of its own length and of what the register counts (`FreshStamps`, `CountsAgree`), so
the jail's count and the cluster's have the same upper bound; the lower one is that
the window is never shorter than `kept` (`Knows`). With one `find_time` the observer
knows all that is young enough (`Remembers`), and both counts are exact. For the refusals: who is
not in the queue of directives is suppressed at least as long as it has to be
(`Noted`).

**Facts.** The list of recent use holds each address with an entry exactly once
(`Listed`), so that the one evicted is not the one touched and leaves the list for
good; three lemmas about sequences without repetitions (`Pushed`, `Fronted`,
`Removed`) carry this. `Held` says that the flusher gives back what it could not write
to an entry that is still there, unless the entry was marked as evicted. Then
`PenaltiesKept` is preserved statement by statement (`Accounting` for eviction and
write-back). `Covered`: once the executor rests for good, the final flush has
everything that is owed on its list. For the levels: a row counts at least the
automatic bans it holds, and an entry whose count was read counts as many, or one
less for the single address whose ban lies between its row and `NoteBan`
(`EntryCounts`, `Behind`); lines are never judged in that gap, because both belong to
the executor. All this is about unmapped texts: a row under a mapped one is written
and never read, and its entry is that of `Key[ip]`. Assumed: capacity, full reputation
and retention are positive; unmapping twice is unmapping once.

### What stays with TLC

* Liveness: `Attached`, `CaughtUp`, `MirrorConverges`, `ReactorStops`,
  `LostLeaseIsNoticed`, `ShutdownConverges`. The prover has no ENABLED.
* `Wire`: finite data, enumerated.
* Not proved, and not in a run either (section 8): what the files of a directory
  come to when they are merged (`OverrideHasLastWord`), a fold over a sorted
  sequence, which would need induction over data. The proofs about `Settings` only
  use that the merged configuration has been completed and validated.

## 6. What TLC's bounds do not cover

Each module's last constants (`MaxOps`, `MaxActs`, `MaxEvents`, `MaxChange`, `MaxFrames`,
`MaxNew`, `MaxLine`, `MaxLines`) bound what the environment does, never what the program
does; they guard only the actions that start something. Eleven modules have
their safety properties proved without regard to them. For `Wire` and for liveness, a
third operation of a kind would have to matter where two do not; the two-step races
of the hazard list and their undoing fit into the bounds given above.

## 7. What is not modelled

Formatting, parsing of text, scores and layouts. Protected ports and statistics of
the kernel, risk analysis, telemetry, logger, threat feeds, frontend and the
contract generator: `PROJECT.json` gives a reason for each. In modelled components:
the flood gate (a counter under one lock); totals and moving averages of the rate
table; statistics and rate queries of netlink; `ddos_ban_duration`, which the kernel
never sends back (`fw_procfs.c:550` broadcasts `ban_time` only); errors of read and
seek, overlong lines and overflow of the inotify queue in log following; handlers
that only read, and routes without a login; clocks that are set back.

## 8. Divergences

What comments, documents or names promise and the code does not do, as far as the
modelling met it. The first list has a definition in its module that TLC refutes
when it is added to the module's run; no run checks them.

| definition | what happens |
|---|---|
| `BanTable!NoSecondUnlink` | `fw_ban.c:298`: a callback that waited for the lock after a concurrent delete does not see that the node is gone, because `hlist_del_rcu` poisons the pointer that `hlist_unhashed` reads, and unlinks it again. The same window lets `InsertArm` and `InsertNotify` (`fw_ban.c:494,501`) touch a node that is going, against `fw_ban.c:34-40`, and a renewal to permanent be undone by a callback that was already waiting (`fw_ban.c:305`). |
| `BanTable!MarkedIsVisible` | `fw_ban.c:24-32`: between `hlist_add` and `fw_ban_layer_mark` a concurrent delete can clear the bit of a layer whose other entry is counted next: a linked entry is out of sight for a moment. |
| `Whitelist!UserEntriesStay` | `fw_netdev.h:21-22`: entries that come through the API or `trusted_ips` have no device name and are deleted at the next netdev event. |
| `RateTable!RolledWhenOver` | `fw_rate.c:738` against the header (25-26): a CPU that found the window over wins the election after another has settled it, and settles it again. |
| `ModuleLife!UnloadLeavesNothing` | `fw_main.c:327`: the netlink socket outlives the ban table; a ban received in between stays with its timer, and work can be queued after it was cancelled. |
| `LogTail!FollowsWriter` | `data-flow.md:182`: a file removed while the daemon holds it open sends no DELETE_SELF; if no file is at the path when ATTRIB is handled, the new one is never watched. |
| `LogTail!JudgedAtMostOnce` | `registry.go:81-82`: a MODIFY handled after the rename reads the new file, and the MOVE_SELF behind it reads it from the start again. |
| `LogTail!WaitingReadFromStart` | `executor.go:613,704`: a source whose re-adding failed is forgotten at the next rescan and later opened at its end. |
| `LogTail!DisabledIsSilent` | a jail turned off by a rollback is judged until the next rescan, because `rollbackConfig` does not reconcile the watches (`executor.go:853-868`). |
| `LogTail!NextRoundReadsOn` | `reader.go:157-158`: what lies behind a read that filled the buffer is not read in the next round but at the next event of the file, which may never come. |
| `Decisions!CountIsExact` | `window.go:111`: after a reload that raises `find_time` the window lacks what it had already dropped, and counts what it had not. |
| `Decisions!ClusterIsExact` | `cluster.go:40`: a cluster window longer than `find_time`, which nothing forbids, asks for stamps that trimming and clean-up drop by `find_time`. |
| `BanMirror!UserBanKept` | `consumer.go:626-628`, `main.go:655-656`: mirror and pending mark have a lock each; a reconciliation between the two erases what was just banned. |
| `Facts!LevelIsCount` | `main.go:631`: bans of the API do not note themselves in the cache, and an entry loaded after the history was written counts the ban twice. |
| `Facts!MappedEscalate` | `facts.go:126`: two texts of one address are one entry, but the ban is recorded under the text of the intent (`executor.go:1071`, `main.go:637-640`) and read under the unmapped one: an offender that the log calls `::ffff:a.b.c.d` starts anew when its entry is gone. |
| `Facts!CacheLeads` | `facts.go`, header: hourly recovery changes the database behind the cache. |
| `Facts!KeptForRetention` | `troubleshooting.md:299`, `hooks.go:22`: `SetRetentionDays` has no caller; history is cut at the built-in number of days. |

Definitions that hold on the runs' instances but are left out of the runs, to keep
these short: `ExpiredGoes`, `UnlinkedIsReclaimed`, `SilentGoes`, `LeaseRecovers`,
`PenaltiesLand`, `JudgedAtMostTwice`, `RunningIsValid`, `OverrideHasLastWord`,
`RestoredIsWhole`, `BannedIsDropped`, `CoveredIsNotBanned`, `RefusedIsQuiet`,
`CountNeverAbove`, `CapacityOvershoot`, and the type invariants; `RunningIsValid`,
those after `OverrideHasLastWord`, and most of the type invariants are proved.

Within one file, copytruncate can still join two lines when the file has grown
past the old offset before the reader looks (`NoSplice` is about two files).

Met while reading, without a definition:

* *Bans that fail.* `TryInsert`, `RecordBanHistory` and the note come before the
  send; a failed or rejected send takes back the mirror's entry only, so the next
  ban of the address is longer (`main.go:625`). `policy.go`'s header multiplies the
  factors, the code adds them. A ban time of 0 is permanent for the kernel and one
  second for the mirror.
* *Process.* A failing executor requests termination, but main waits for the
  signal channel only (`main.go:474-487`).
* *State file.* A save ends without error at the row whose number reaches
  `fw_max_ban_entries` (`fw_state.c:195-198`; `257-260` for the whitelist), a parameter
  that root may write at any time, while the table keeps the limit it was loaded with
  (`fw_main.c:88,152`) and may overshoot it: what lies beyond is missing from the file
  that then replaces the old one.
* *Mirror.* `consumer.go:649-650` says that an address which `ValidateIP` refuses can
  only come from procfs; a request of the API is only parsed and can send one too. The
  mirror has it until the next listing drops it.
* *Netlink.* The daemon pages the rate listing like a table, while the kernel
  returns a sorted extract (`client.go:364-366`, `fw_netlink.c:513-520`).
  `leaseOnce` pushes the trusted addresses once, and the configuration is not
  pushed again after the module was reloaded. Refused cluster commands enter the
  same queue of directives as refused bans.
* *Streams.* A handshake can send into a channel that `Stop` has closed; net/http
  recovers the panic (`sse.go:207-211`). A frame can come before "connected"; two
  publishers can publish in the opposite order of their reads (`publish.go:24`). The
  log stream's scanner stays at EOF (`logs.go:256-258,315-352`). `WriteTimeout` of 60
  seconds ends every stream. An accepted connection that says nothing holds
  `Shutdown` up to its limit of five seconds. A listener that fails ends the executor
  and leaves the streams to main's deferred calls (`main.go:338-339`).
* *Configuration.* Two concurrent `PUT`s, or a `PUT` and an operator's edit, lose one
  of the two; `os.WriteFile` truncates first; a `PUT` always parses strictly, checks
  only what it merged, drops unlisted keys of `webui`, and is impossible in
  directory mode. A rollback moves `ConfigFile` to the backup; a rename kills the
  watch; directory mode has none. A `PUT` may align or push an older text than the
  executor has taken meanwhile (`config_api.go:166,170`), and it stays until the next
  load or push. A jail that is off in the file and switched on
  through the API is neither validated nor compiled. Nothing writes
  `_runtime.yml` (`loader.go:11-14`). `ParseConfig` changes its target before it
  fails. A reload neither refreshes credentials (`daemon.md:254`), nor the kernel's
  whitelist (`daemon.md:279`), nor threat feeds.
* *Watching.* `IN_Q_OVERFLOW` is not handled. A read that stops at `BatchReadMax`
  waits for the next event (`NextRoundReadsOn`). An address added to an interface that
  is up raises no netdev event and stays out of the local set until another does.
  A source protected first by a subnet entry and then by a host entry can be
  dropped although it was protected at every moment (the bucket is read first).
