------------------------------ MODULE Settings ------------------------------
(***************************************************************************)
(* The configuration of a running daemon and the three places it lives in: *)
(* the file or the directory, the Config that the executor owns, and the   *)
(* kernel's copy of a part of it.                                          *)
(*                                                                         *)
(* Who changes them: the operator saves files and sends SIGHUP or SIGUSR1; *)
(* PUT /api/v2/config merges a "webui" section into the file and aligns    *)
(* the Config from its own goroutine (http/config_api.go); PUT             *)
(* /api/v2/jails/{name} leaves a wish that the executor takes over; writing *)
(* ban_time in procfs changes the kernel, and a directive tells the        *)
(* executor; the executor reloads, rolls back and pushes to the kernel.    *)
(* Files are written by truncating and then writing, netlink may fail, and *)
(* the daemon may crash.                                                   *)
(*                                                                         *)
(* Several inotify events of one read count as one.  The section "webui"   *)
(* is one value, so a torn read of it by a request (the Config is shared   *)
(* without a lock) does not show.                                          *)
(***************************************************************************)
EXTENDS Config

CONSTANTS
    Main, Over,      \* names of files: the configuration, the runtime's own
    Backup,          \* config.yaml.rollback
    PutRequest,      \* PUT requests that are under way at a time
    Saved,           \* texts the operator saves
    SavedOver,       \* texts of the runtime's file
    Backups,         \* texts of the backup
    Section,         \* values of "webui"
    KernelBan,       \* values written to ban_time in procfs
    MaxQueue,        \* directives that fit the channel
    MaxOps           \* bound: saves, signals, requests, toggles, procfs, crashes

ASSUME SettingsAssumption ==
    /\ KernelBan \subseteq Nat \ {0} /\ MaxQueue \in Nat \ {0} /\ MaxOps \in Nat
    /\ Main # Over /\ Backup \notin {Main, Over} /\ None \notin {Main, Over, Backup}
    /\ Saved \cup SavedOver \cup Backups \subseteq Texts /\ Section \subseteq Nat
    /\ None \notin Texts \cup BOOLEAN \cup [at : {Main, Backup}, live : BOOLEAN]

VARIABLES
    source,    \* "file" or "directory" (-c, -C), and whether --no-strict is absent
    disk,      \* what is in the files
    backup,    \* what is in the backup
    cfg,       \* *config.Config, shared with HTTP
    watch,     \* the watch on cfg.ConfigFile: [at, live]; None
    pending,   \* an event of that watch is in the inotify queue
    signals,   \* bytes in the pipe of SignalSource
    exec,      \* the executor: [pc, ready, loaded, kind]; pc "down": no daemon
    put,       \* requests: [pc, web, text, view, there]
    states,    \* jailEnabledSource
    snapshot,  \* activeJails
    kernel,    \* fw_ban_time and the rates
    directives,
               \* the channel of directives: ban times, and None for a rejected command
    gap,       \* history: why the three places may differ
    ops        \* history: operations so far

settingsVars == <<source, disk, backup, cfg, watch, pending, signals, exec, put, states,
                  snapshot, kernel, directives, gap, ops>>

world == <<source, backup>>

Idle == [pc |-> "round", ready |-> FALSE, loaded |-> None, kind |-> "reload"]
Down == [Idle EXCEPT !.pc = "down"]
NoPut == [pc |-> "idle", web |-> None, text |-> None, view |-> None, there |-> FALSE]
NoStates == [j \in Jail |-> None]
NoJails == [j \in Jail |-> None]

Garbled == [Empty EXCEPT !.refused = TRUE]    \* two texts over each other

DaemonUp == exec.pc # "down"
Spend == ops < MaxOps /\ ops' = ops + 1

(* patchWebuiYAML: of an empty file only the new section remains.          *)
Patched(t, w) == [(IF t = Empty THEN Blank ELSE t) EXCEPT !.web = w]

(* What each text loads as, and each directory: the tables let TLC compute *)
(* it once.                                                                *)
Readable ==
    Saved \cup Backups \cup {Empty, Garbled}
        \cup {Patched(t, w) : t \in Saved \cup {Empty, Garbled}, w \in Section}
FileLoads ==
    AtOnce([t \in Readable |-> [name \in {Main, Backup} |-> [strict \in BOOLEAN |->
               Finalize(LoadFile(t, name, strict))]]])
DirectoryLoads ==
    AtOnce([t \in Saved |-> [o \in SavedOver \cup {None} |-> [strict \in BOOLEAN |->
               Finalize(LoadDirectory([n \in {Main, Over} |-> IF n = Main THEN t ELSE o],
                                      strict))]]])

(* fileReloader.Reload, main.loadConfig and Finalize.                      *)
LoadedFrom(files, src) ==
    IF src.kind = "file" THEN FileLoads[files[Main]][Main][src.strict]
    ELSE DirectoryLoads[files[Main]][files[Over]][src.strict]

(* fileReloader.Rollback: the backup, if there is one.                     *)
RolledBack(files, src) ==
    IF backup = None THEN LoadedFrom(files, src) ELSE FileLoads[backup][Backup][src.strict]

(* reconcileWatches, for the configuration: a path that is registered is   *)
(* not added again, also when its watch is gone.                           *)
Reconciled(c) ==
    IF c.file = None THEN None
    ELSE IF watch # None /\ watch.at = c.file THEN watch
    ELSE IF c.file = Backup \/ disk[c.file] # None THEN [at |-> c.file, live |-> TRUE]
    ELSE None

(* refreshJails, publishJailSnapshot: the jails as the panel lists them.    *)
Published(c) == c.jails

(* A watch that is dropped takes its events with it.                       *)
Rewatch(c) ==
    /\ watch' = Reconciled(c)
    /\ pending' = (pending /\ watch' = watch)

Watched(n) == watch # None /\ watch.at = n /\ watch.live

SettingsInit ==
    /\ source \in [kind : {"file", "directory"}, strict : BOOLEAN]
    /\ disk \in [{Main, Over} -> Saved \cup SavedOver \cup {None}]
    /\ disk[Main] \in Saved
    /\ disk[Over] \in (IF source.kind = "file" THEN {None} ELSE SavedOver \cup {None})
    /\ backup \in {None} \cup Backups
    /\ cfg = None /\ watch = None /\ pending = FALSE /\ signals = <<>>
    /\ exec = Down /\ put = [r \in PutRequest |-> NoPut]
    /\ states = NoStates /\ snapshot = NoJails
    /\ kernel = [rate |-> 1, ban |-> DefaultBan] /\ directives = <<>>
    /\ gap = {} /\ ops = 0

-----------------------------------------------------------------------------
(* The daemon comes and goes                                               *)

(* Without a configuration or anything to watch there is no daemon.        *)
Startable(c) ==
    /\ c # None
    /\ c.file # None \/ \E j \in Jail : c.jails[j] # None /\ c.jails[j].enabled

(* main.run and NewInboundExecutor: the first push may fail.               *)
Start ==
    /\ ~DaemonUp
    /\ LET c == LoadedFrom(disk, source) IN
       /\ Startable(c)
       /\ exec' = Idle /\ cfg' = c /\ snapshot' = Published(c)
       /\ Rewatch(c)
       /\ \/ kernel' = Taken(kernel, KernelView(c)) /\ gap' = {}
          \/ UNCHANGED kernel /\ gap' = {"failed push"}
    /\ UNCHANGED <<world, disk, signals, put, states, directives, ops>>

Crash ==
    /\ DaemonUp /\ Spend
    /\ cfg' = None /\ watch' = None /\ pending' = FALSE /\ signals' = <<>>
    /\ exec' = Down /\ put' = [r \in PutRequest |-> NoPut]
    /\ states' = NoStates /\ snapshot' = NoJails /\ directives' = <<>> /\ gap' = {}
    /\ UNCHANGED <<world, disk, kernel>>

-----------------------------------------------------------------------------
(* The operator                                                            *)

Texts4(n) == IF n = Main THEN Saved ELSE SavedOver
Files == IF source.kind = "file" THEN {Main} ELSE {Main, Over}

Unseen(n) == IF DaemonUp /\ ~Watched(n) THEN {"unseen"} ELSE {}

SaveInPlace(n, t) ==
    /\ Spend /\ disk[n] # t
    /\ disk' = [disk EXCEPT ![n] = t]
    /\ pending' = (pending \/ Watched(n))
    /\ gap' = gap \cup Unseen(n)
    /\ UNCHANGED <<world, cfg, watch, signals, exec, put, states, snapshot, kernel, directives>>

(* An editor writes another file and renames it: the watch stays with the  *)
(* old one, tells its end, and is gone; so does a request that has it open. *)
SaveByRename(n, t) ==
    /\ Spend /\ disk[n] # t
    /\ disk' = [disk EXCEPT ![n] = t]
    /\ pending' = (pending \/ Watched(n))
    /\ watch' = IF Watched(n) THEN [watch EXCEPT !.live = FALSE] ELSE watch
    /\ put' = IF n = Main THEN [r \in PutRequest |-> [put[r] EXCEPT !.there = FALSE]] ELSE put
    /\ gap' = gap \cup Unseen(n)
    /\ UNCHANGED <<world, cfg, signals, exec, states, snapshot, kernel, directives>>

(* SIGHUP, SIGUSR1 (also firewall-daemon --rollback)                       *)
Signal(s) ==
    /\ DaemonUp /\ Spend /\ Len(signals) < 2
    /\ signals' = Append(signals, s)
    /\ UNCHANGED <<world, disk, cfg, watch, pending, exec, put, states, snapshot, kernel,
                   directives, gap>>

Room == Len(directives) < MaxQueue

(* No ban time is on its way to the executor.                              *)
NoneComes(queue) == \A k \in DOMAIN queue : queue[k] = None

(* fw_procfs ban_time: the kernel has the value, the consumer sends a      *)
(* directive, which is dropped when the channel is full.                   *)
WriteBanTime(v) ==
    /\ Spend
    /\ kernel' = [kernel EXCEPT !.ban = v]
    /\ directives' = IF DaemonUp /\ Room THEN Append(directives, v) ELSE directives
    /\ gap' = IF DaemonUp /\ NoneComes(directives') THEN gap \cup {"late directive"} ELSE gap
    /\ UNCHANGED <<world, disk, cfg, watch, pending, signals, exec, put, states, snapshot>>

(* handleCmdResult: the kernel refused a ban; the directive is dropped     *)
(* when the channel is full.                                               *)
RejectCommand ==
    /\ DaemonUp /\ Room /\ Spend
    /\ directives' = Append(directives, None)
    /\ UNCHANGED <<world, disk, cfg, watch, pending, signals, exec, put, states, snapshot,
                   kernel, gap>>

(* UpdateJail: a jail that the snapshot knows.                             *)
UpdateJail(j, b) ==
    /\ DaemonUp /\ Spend /\ snapshot[j] # None /\ states[j] # b
    /\ states' = [states EXCEPT ![j] = b]
    /\ UNCHANGED <<world, disk, cfg, watch, pending, signals, exec, put, snapshot, kernel,
                   directives, gap>>

-----------------------------------------------------------------------------
(* PUT /api/v2/config                                                      *)

PutAt(r, pc) == put' = [put EXCEPT ![r].pc = pc]
PutEnds(r) == put' = [put EXCEPT ![r] = NoPut]

(* applyWebuiUpdate, validateWebui                                         *)
Updated(cur, w) == Given(w, cur)
WebuiOK(w) == w # 0

(* UpdateConfig: what is refused changes nothing, and an empty request     *)
(* writes back what it read.                                               *)
PutStarts(r, w) ==
    /\ DaemonUp /\ put[r].pc = "idle" /\ Spend
    /\ WebuiOK(Updated(cfg.web, w))
    /\ put' = [put EXCEPT ![r] = [NoPut EXCEPT !.pc = IF w = None THEN "align" ELSE "read",
                                              !.web = Updated(cfg.web, w)]]
    /\ UNCHANGED <<world, disk, cfg, watch, pending, signals, exec, states, snapshot,
                   kernel, directives, gap>>

(* loadConfigContent: always strict.                                       *)
Checked(text) == FileLoads[text][Main][TRUE]

\* slip: parsed, but neither completed nor validated
PutReads_ParsedOnly(r) ==
    /\ put[r].pc = "read"
    /\ LET text == Patched(disk[Main], put[r].web)
           c == LoadFile(text, Main, TRUE)
       IN  IF source.kind = "directory" \/ disk[Main] = None \/ c = None
           THEN PutEnds(r)
           ELSE put' = [put EXCEPT ![r].pc = "open", ![r].text = text,
                                   ![r].view = KernelView(c)]
    /\ UNCHANGED <<world, disk, cfg, watch, pending, signals, exec, states, snapshot,
                   kernel, directives, gap, ops>>

(* persistWebui: reads the file (not a directory), merges and checks.      *)
PutReads(r) ==
    /\ put[r].pc = "read"
    /\ LET text == Patched(disk[Main], put[r].web) IN
       IF source.kind = "directory" \/ disk[Main] = None \/ Checked(text) = None
       THEN PutEnds(r)
       ELSE put' = [put EXCEPT ![r].pc = "open", ![r].text = text,
                               ![r].view = KernelView(Checked(text))]
    /\ UNCHANGED <<world, disk, cfg, watch, pending, signals, exec, states, snapshot,
                   kernel, directives, gap, ops>>

(* os.WriteFile truncates ...                                              *)
PutOpens(r) ==
    /\ put[r].pc = "open"
    /\ \/ /\ put' = [put EXCEPT ![r].pc = "write", ![r].there = TRUE]
          /\ disk' = [disk EXCEPT ![Main] = Empty]
          /\ pending' = (pending \/ Watched(Main))
          /\ gap' = gap \cup Unseen(Main)
       \/ PutEnds(r) /\ UNCHANGED <<disk, pending, gap>>
    /\ UNCHANGED <<world, cfg, watch, signals, exec, states, snapshot, kernel, directives, ops>>

(* ... and writes: over what another request has written since, and into   *)
(* the old file when another has taken its name.                           *)
PutWrites(r) ==
    /\ put[r].pc = "write"
    /\ \/ /\ PutAt(r, "align")
          /\ \/ ~put[r].there /\ UNCHANGED <<disk, pending, gap>>
             \/ /\ put[r].there
                /\ \E t \in {put[r].text} \cup
                            (IF disk[Main] = Empty THEN {} ELSE {Garbled}) :
                      disk' = [disk EXCEPT ![Main] = t]
                /\ pending' = (pending \/ Watched(Main))
                /\ gap' = gap \cup Unseen(Main)
       \/ PutEnds(r) /\ UNCHANGED <<disk, pending, gap>>
    /\ UNCHANGED <<world, cfg, watch, signals, exec, states, snapshot, kernel, directives, ops>>

(* cfg.Webui = updated                                                     *)
PutAligns(r) ==
    /\ put[r].pc = "align"
    /\ cfg' = [cfg EXCEPT !.web = put[r].web]
    /\ IF put[r].text = None
       THEN /\ gap' = IF cfg' = cfg THEN gap ELSE gap \cup {"late alignment"}
            /\ PutEnds(r)
       ELSE /\ gap' = IF disk[Main] = put[r].text THEN gap ELSE gap \cup {"late alignment"}
            /\ PutAt(r, "push")
    /\ UNCHANGED <<world, disk, watch, pending, signals, exec, states, snapshot, kernel,
                   directives, ops>>

(* kernelConfig.ApplyConfig, with what was read from the file.             *)
PutPushes(r) ==
    /\ put[r].pc = "push"
    /\ \/ /\ kernel' = Taken(kernel, put[r].view)
          /\ gap' = IF put[r].view = KernelView(cfg) THEN gap ELSE gap \cup {"late push"}
       \/ UNCHANGED kernel /\ gap' = gap \cup {"failed push"}
    /\ PutEnds(r)
    /\ UNCHANGED <<world, disk, cfg, watch, pending, signals, exec, states, snapshot, directives, ops>>

-----------------------------------------------------------------------------
(* The executor                                                            *)

(* adoptKernelConfig: jails without a ban time of their own follow, unless *)
(* nothing is new.                                                         *)
Adopted(c, v) ==
    IF v = c.banTime THEN c
    ELSE [c EXCEPT !.banTime = v,
                   !.jails = [j \in Jail |->
                       IF c.jails[j] = None \/ c.jails[j].banSet THEN c.jails[j]
                       ELSE [c.jails[j] EXCEPT !.banTime = v]]]

(* drainDirectives: one by one, until the channel is empty; what changes   *)
(* the Config is published.  A rejection is noted beside it.               *)
DrainDirective ==
    /\ exec.pc = "round" /\ directives # <<>>
    /\ cfg' = IF Head(directives) = None THEN cfg ELSE Adopted(cfg, Head(directives))
    /\ snapshot' = IF cfg' = cfg THEN snapshot ELSE Published(cfg')
    /\ directives' = Tail(directives)
    /\ gap' = IF NoneComes(directives') /\ Head(directives) \notin {None, kernel.ban}
              THEN gap \cup {"late directive"} ELSE gap
    /\ UNCHANGED <<world, disk, watch, pending, signals, exec, put, states, kernel, ops>>

(* syncJailEnabled, on the configuration.                                  *)
Synced(c) ==
    [c EXCEPT !.jails = [j \in Jail |->
        IF c.jails[j] = None \/ states[j] = None THEN c.jails[j]
        ELSE [c.jails[j] EXCEPT !.enabled = states[j]]]]

\* slip: the new states are not published
Round_NotPublished(rescan) ==
    /\ exec.pc = "round" /\ directives = <<>>
    /\ cfg' = Synced(cfg)
    /\ IF rescan \/ cfg' # cfg THEN Rewatch(cfg) ELSE UNCHANGED <<watch, pending>>
    /\ exec' = [exec EXCEPT !.pc = "signals", !.ready = pending']
    /\ UNCHANGED <<world, disk, signals, put, states, snapshot, kernel, directives, gap, ops>>

(* step, up to the poll: a rescan when its timer is due (the directives    *)
(* that are drained after it do not concern the watches), and the wishes;  *)
(* what changed is published.                                              *)
Round(rescan) ==
    /\ exec.pc = "round" /\ directives = <<>>
    /\ cfg' = Synced(cfg)
    /\ snapshot' = IF cfg' = cfg THEN snapshot ELSE Published(cfg')
    /\ IF rescan \/ cfg' # cfg THEN Rewatch(cfg) ELSE UNCHANGED <<watch, pending>>
    /\ exec' = [exec EXCEPT !.pc = "signals", !.ready = pending']
    /\ UNCHANGED <<world, disk, signals, put, states, kernel, directives, gap, ops>>

(* handleSignals: until the pipe is empty.                                 *)
HandleSignal ==
    /\ exec.pc = "signals" /\ signals # <<>>
    /\ signals' = Tail(signals)
    /\ exec' = [exec EXCEPT !.pc = "load", !.kind = Head(signals)]
    /\ UNCHANGED <<world, disk, cfg, watch, pending, put, states, snapshot, kernel, directives,
                   gap, ops>>

(* handleInotify, handleEvent: when the poll saw an event.                 *)
HandleInotify ==
    /\ exec.pc = "signals" /\ signals = <<>>
    /\ IF exec.ready /\ pending
       THEN /\ exec' = [exec EXCEPT !.pc = "load", !.kind = "reload", !.ready = FALSE]
            /\ pending' = FALSE
       ELSE exec' = Idle /\ UNCHANGED pending
    /\ UNCHANGED <<world, disk, cfg, watch, signals, put, states, snapshot, kernel, directives,
                   gap, ops>>

(* Reload, Rollback: the files are read.                                   *)
Load ==
    /\ exec.pc = "load"
    /\ exec' = [exec EXCEPT !.pc = "apply",
                            !.loaded = IF exec.kind = "reload" THEN LoadedFrom(disk, source)
                                       ELSE RolledBack(disk, source)]
    /\ gap' = IF exec.kind = "reload" \/ backup = None THEN gap \ {"unseen"}
              ELSE gap
    /\ UNCHANGED <<world, disk, cfg, watch, pending, signals, put, states, snapshot, kernel,
                   directives, ops>>

\* slip: events that came during the load are thrown away
ReloadApplies_DrainsEvents ==
    /\ exec.pc = "apply" /\ exec.kind = "reload"
    /\ cfg' = IF exec.loaded = None THEN cfg ELSE exec.loaded
    /\ snapshot' = Published(cfg')
    /\ watch' = Reconciled(cfg') /\ pending' = FALSE
    /\ gap' = IF exec.loaded = None THEN gap ELSE gap \ {"rollback", "late alignment"}
    /\ exec' = [exec EXCEPT !.pc = IF exec.loaded = None THEN "signals" ELSE "push",
                            !.loaded = None]
    /\ UNCHANGED <<world, disk, signals, put, states, kernel, directives, ops>>

(* reloadConfig: what is published and watched is so also after a failure. *)
ReloadApplies ==
    /\ exec.pc = "apply" /\ exec.kind = "reload"
    /\ cfg' = IF exec.loaded = None THEN cfg ELSE exec.loaded
    /\ snapshot' = Published(cfg')
    /\ Rewatch(cfg')
    /\ gap' = IF exec.loaded = None THEN gap ELSE gap \ {"rollback", "late alignment"}
    /\ exec' = [exec EXCEPT !.pc = IF exec.loaded = None THEN "signals" ELSE "push",
                            !.loaded = None]
    /\ UNCHANGED <<world, disk, signals, put, states, kernel, directives, ops>>

(* rollbackConfig: a failure ends it; the watches are left to the rescan.  *)
RollbackApplies ==
    /\ exec.pc = "apply" /\ exec.kind = "rollback"
    /\ cfg' = IF exec.loaded = None THEN cfg ELSE exec.loaded
    /\ snapshot' = IF exec.loaded = None THEN snapshot ELSE Published(cfg')
    /\ gap' = IF exec.loaded = None THEN gap
              ELSE IF backup = None THEN gap \ {"rollback", "late alignment"}
              ELSE (gap \ {"late alignment"}) \cup {"rollback"}
    /\ exec' = [exec EXCEPT !.pc = IF exec.loaded = None THEN "signals" ELSE "push",
                            !.loaded = None]
    /\ UNCHANGED <<world, disk, watch, pending, signals, put, states, kernel, directives, ops>>

\* slip: only a reload is pushed
PushKernelConfig_ReloadOnly ==
    /\ exec.pc = "push"
    /\ \/ /\ exec.kind = "reload"
          /\ kernel' = Taken(kernel, KernelView(cfg))
          /\ gap' = gap \ {"failed push", "late push", "late directive"}
       \/ exec.kind = "rollback" /\ UNCHANGED <<kernel, gap>>
    /\ exec' = [exec EXCEPT !.pc = "signals"]
    /\ UNCHANGED <<world, disk, cfg, watch, pending, signals, put, states, snapshot, directives, ops>>

(* pushKernelConfig: a failure is logged.                                  *)
PushKernelConfig ==
    /\ exec.pc = "push"
    /\ \/ /\ kernel' = Taken(kernel, KernelView(cfg))
          /\ gap' = gap \ {"failed push", "late push", "late directive"}
       \/ UNCHANGED kernel /\ gap' = gap \cup {"failed push"}
    /\ exec' = [exec EXCEPT !.pc = "signals"]
    /\ UNCHANGED <<world, disk, cfg, watch, pending, signals, put, states, snapshot, directives, ops>>

-----------------------------------------------------------------------------
Executor ==
    \/ DrainDirective \/ \E rescan \in BOOLEAN : Round(rescan)
    \/ HandleSignal \/ HandleInotify \/ Load \/ ReloadApplies \/ RollbackApplies
    \/ PushKernelConfig

Put(r) ==
    \/ \E w \in Section \cup {None} : PutStarts(r, w)
    \/ PutReads(r) \/ PutOpens(r) \/ PutWrites(r) \/ PutAligns(r) \/ PutPushes(r)

SettingsNext ==
    \/ Executor
    \/ \E r \in PutRequest : Put(r)
    \/ \E n \in Files : \E t \in Texts4(n) : SaveInPlace(n, t) \/ SaveByRename(n, t)
    \/ \E s \in {"reload", "rollback"} : Signal(s)
    \/ RejectCommand \/ \E v \in KernelBan : WriteBanTime(v)
    \/ \E j \in Jail, b \in BOOLEAN : UpdateJail(j, b)
    \/ Start \/ Crash

SettingsSpec == SettingsInit /\ [][SettingsNext]_settingsVars

-----------------------------------------------------------------------------
(* Properties                                                              *)

(* Nothing is under way: the executor waits, no request writes, nothing is *)
(* queued.                                                                 *)
Quiet ==
    /\ exec.pc = "round" /\ ~pending /\ signals = <<>> /\ directives = <<>>
    /\ \A r \in PutRequest : put[r].pc \in {"idle", "read"}

(* jail.Validate guards every way into the Config: a jail that is enabled  *)
(* has logs and a ban time that can be sent, whatever reloads, rollbacks,  *)
(* requests and the kernel did, unless it was switched on through the API  *)
(* (a disabled jail is not looked at).                                     *)
RunningIsValid ==
    DaemonUp => \A j \in Jail :
        cfg.jails[j] # None /\ cfg.jails[j].enabled /\ states[j] = None => JailOK(cfg.jails[j])

(* "configuration reloaded": when all is quiet the Config holds what the   *)
(* file says, if it can be loaded at all.  The exceptions are complete: no *)
(* watch saw the last save, a rollback, a request that aligned after       *)
(* somebody else had saved.                                                *)
SettledFollowsFile ==
    LET c == LoadedFrom(disk, source) IN
    Quiet /\ c # None /\ gap \cap {"unseen", "rollback", "late alignment"} = {} =>
        cfg.rate = c.rate /\ cfg.web = c.web

(* KernelConfigChange: when all is quiet the kernel has what the Config    *)
(* says, as far as it takes it.  The exceptions are complete: a push that  *)
(* failed, or that carried an older file, and a directive that came late   *)
(* or not at all (the channel was full).                                   *)
KernelSettled ==
    /\ Quiet
    /\ gap \cap {"late push", "failed push", "late directive"} = {}
    => kernel = Taken(kernel, KernelView(cfg))

(* persistWebui, "passing the check means the file loads at the next       *)
(* reload": what a request writes is never refused by a reload.            *)
AcceptedIsLoadable ==
    \A r \in PutRequest :
        put[r].pc \in {"open", "write"} =>
            FileLoads[put[r].text][Main][source.strict] # None

(* LoadConfigDirectory, "the runtime's file has the last word": it decides *)
(* whether a jail is enabled, unless the API or a rollback did.            *)
OverrideHasLastWord ==
    Quiet /\ gap \cap {"unseen", "rollback"} = {} /\ LoadedFrom(disk, source) # None
        /\ disk[Over] # None =>
        \A j \in Jail :
            cfg.jails[j] # None /\ disk[Over].jails[j] # None /\ states[j] = None
                /\ disk[Over].jails[j].enabled # None =>
            cfg.jails[j].enabled = disk[Over].jails[j].enabled

(* publishJailSnapshot: when the executor goes to wait, every wish of the  *)
(* API is in the Config, whatever reloads, rollbacks and the kernel did to *)
(* it since, and the list that the panel shows is the Config's.            *)
WishesReachThePanel ==
    [][exec.pc = "round" /\ exec'.pc = "signals" =>
          \A j \in Jail :
              cfg'.jails[j] # None =>
                  /\ states[j] # None => cfg'.jails[j].enabled = states[j]
                  /\ snapshot'[j] = cfg'.jails[j]]_settingsVars
=============================================================================
