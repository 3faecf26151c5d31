----------------------------- MODULE ModuleLife -----------------------------
(***************************************************************************)
(* The life of the kernel module: loading with a failure at any step,      *)
(* unloading while packets, timers, procfs and the daemon go on, the state *)
(* file between two lives, and the lease that one daemon holds             *)
(* (fw_main.c, fw_state.c, fw_procfs.c, fw_netlink.c, fw_netdev.c, and     *)
(* register of kernel/consumer.go).                                        *)
(*                                                                         *)
(* What happens inside a table is in BanTable and Whitelist; here a table  *)
(* is a set.  A command is applied at once, but a registration is judged   *)
(* in one step and granted in another: the kernel runs the handler in the  *)
(* context of each sender, without a lock.                                 *)
(***************************************************************************)
EXTENDS Naturals, Sequences, FiniteSets

CONSTANTS
    KeyOrder,   \* the prefixes that get banned, in the order of a listing
    Temporary,  \* those of them that are banned for a time
    WlOrder,    \* the prefixes that get whitelisted, in the order of a listing
    Covers,     \* Covers[w]: the bans that w forbids
    Page,       \* FW_STATE_PAGE
    Limits,     \* what fw_max_ban_entries, fw_max_whitelist_entries may be set to
    Process,    \* processes that run the daemon, each with its own portid
    MaxOps,     \* bound: commands, packets, loads, failures, starts, crashes
    None

Key == {KeyOrder[i] : i \in DOMAIN KeyOrder}
Wl == {WlOrder[i] : i \in DOMAIN WlOrder}

FileRecord == [rows : SUBSET (Key \cup Wl), crc : BOOLEAN, synced : BOOLEAN, whole : BOOLEAN]
SaveRecord == [at : {"bans", "wl", "crc", "fsync", "replace"}, offset : Nat,
               shrunk : BOOLEAN, steady : SUBSET Key, cut : SUBSET (Key \cup Wl)]

ASSUME LifeAssumption ==
    /\ KeyOrder \in Seq(Key) /\ WlOrder \in Seq(Wl)
    /\ \A i, j \in DOMAIN KeyOrder : KeyOrder[i] = KeyOrder[j] => i = j
    /\ Temporary \subseteq Key /\ Key \cap Wl = {}
    /\ Covers \in [Wl -> SUBSET Key]
    /\ {Page, MaxOps} \subseteq Nat /\ Page > 0 /\ Limits \subseteq Nat
    /\ None \notin Process \cup FileRecord \cup SaveRecord

VARIABLES
    phase,      \* "absent", "init", "undo", "live", "exit"
    step,       \* position in InitOrder, UndoOrder or ExitOrder
    up,         \* what has been set up and not torn down
    shutting,   \* fw_info.shutting_down
    packet,     \* a packet is inside the hook
    event,      \* a netdev event has passed its checks of shutting
    work,       \* the address work is queued
    bans, due,  \* the ban table; those of its entries whose time is over
    wl,         \* the whitelist
    file, tmp,  \* the state file and path.tmp, None or [rows, crc, synced, whole]
    disk,       \* what the state file's name stands for after a power cut
    save,       \* None, or what fw_state_save has reached
    portid, fresh,  \* the registered daemon, and whether it was heard of lately
    proc,       \* proc[p]: "none", "starting", "running", "dead", "reused"
    asked,      \* asked[p]: what the handler has decided on p's registration
    believes,   \* believes[p]: p takes itself for the registered daemon
    ops

lifeVars == <<phase, step, up, shutting>>
flowVars == <<packet, event, work>>
tableVars == <<bans, due, wl>>
fileVars == <<file, tmp, disk, save>>
leaseVars == <<portid, fresh, proc, asked, believes>>
vars == <<lifeVars, flowVars, tableVars, fileVars, leaseVars, ops>>

Hooks == {"hook4", "hook6"}
Whole(rows) == [rows |-> rows, crc |-> TRUE, synced |-> TRUE, whole |-> TRUE]

(* A state file of an earlier life, whole or, from a version that wrote no *)
(* CRC line, without one.                                                  *)
Init ==
    /\ phase = "absent" /\ step = 0 /\ up = {} /\ shutting = FALSE
    /\ packet = FALSE /\ event = FALSE /\ work = FALSE
    /\ bans = {} /\ due = {} /\ wl = {}
    /\ file \in {None, Whole(Key), [Whole(Key \cup Wl) EXCEPT !.crc = FALSE, !.whole = FALSE]}
    /\ disk = file /\ tmp = None /\ save = None
    /\ portid = None /\ fresh = FALSE
    /\ proc = [p \in Process |-> "none"]
    /\ asked = [p \in Process |-> None]
    /\ believes = [p \in Process |-> FALSE]
    /\ ops = 0

Spend == ops < MaxOps /\ ops' = ops + 1

-----------------------------------------------------------------------------
(* The operations of the tables                                            *)

Covered(k) == \E w \in wl : k \in Covers[w]

(* fw_ban_try_add: refused when whitelisted; a ban that exists is renewed. *)
AddBan(k) ==
    /\ bans' = IF Covered(k) THEN bans ELSE bans \cup {k}
    /\ due' = IF Covered(k) THEN due ELSE due \ {k}
    /\ UNCHANGED wl
DelBanTimerLeft(k) == bans' = bans \ {k} /\ UNCHANGED <<due, wl>>
DelBan(k) == bans' = bans \ {k} /\ due' = due \ {k} /\ UNCHANGED wl

(* The time of a ban is over; then its timer removes it.                   *)
BanDue(k) ==
    /\ k \in (bans \cap Temporary) \ due
    /\ due' = due \cup {k}
    /\ save' = IF save = None THEN None ELSE [save EXCEPT !.steady = @ \ {k}]
    /\ UNCHANGED <<lifeVars, flowVars, bans, wl, file, tmp, disk, leaseVars, ops>>
Expire(k) ==
    /\ k \in due
    /\ phase # "absent"
    /\ DelBan(k)
    /\ save' = IF save = None THEN None ELSE [save EXCEPT !.shrunk = TRUE]
    /\ UNCHANGED <<lifeVars, flowVars, file, tmp, disk, leaseVars, ops>>

(* A removal shifts the entries that a listing has not reached yet.        *)
NoteRemoval(removed) ==
    save' = IF save = None \/ ~removed THEN save ELSE [save EXCEPT !.shrunk = TRUE]

-----------------------------------------------------------------------------
(* fw_init                                                                 *)

InitOrder == <<"stats", "local", "ports", "wl", "ban", "rate", "netlink", "restore",
               "rebuild", "netdev", "procfs", "hook4", "hook6">>
UndoOrder == <<"hook4", "procfs", "netdev", "cancel", "netlink", "rate", "ban", "wl",
               "ports", "local", "stats">>
Position(order, s) == CHOOSE i \in DOMAIN order : order[i] = s

(* The label a failing step jumps to; None returns at once.  The other     *)
(* steps cannot fail.                                                      *)
UndoLabelSkipsNetdev ==
    [stats |-> None, rate |-> "rate", netlink |-> "rate", rebuild |-> "cancel",
     netdev |-> "cancel", procfs |-> "cancel", hook4 |-> "procfs", hook6 |-> "hook4"]
UndoLabel == [stats |-> None, rate |-> "rate", netlink |-> "rate", rebuild |-> "cancel",
              netdev |-> "cancel", procfs |-> "netdev", hook4 |-> "procfs", hook6 |-> "hook4"]

ASSUME LabelAssumption == \A i \in DOMAIN UndoOrder : None # UndoOrder[i]

(* insmod: parameters, defaults; static memory is new.                     *)
Load ==
    /\ phase = "absent"
    /\ Spend
    /\ phase' = "init" /\ step' = 1
    /\ shutting' = FALSE /\ work' = FALSE
    /\ bans' = {} /\ due' = {} /\ wl' = {}
    /\ portid' = None /\ fresh' = FALSE
    /\ UNCHANGED <<up, packet, event, fileVars, proc, asked, believes>>

(* fw_state_verify_crc, fw_state_restore: nothing unless the CRC line is   *)
(* there; the whitelist first, then the bans it does not forbid.  Without  *)
(* memory, or when the file is longer than the limits allow, nothing.      *)
VerifiedAnyFile == file # None
Verified == file # None /\ file.crc
RestoredWl == IF Verified THEN file.rows \cap Wl ELSE {}
RestoredBans == IF Verified THEN file.rows \cap Key ELSE {}
RestoreRows ==
    /\ wl' = wl \cup RestoredWl
    /\ LET free == {k \in RestoredBans : ~\E w \in wl' : k \in Covers[w]} IN
       bans' = bans \cup free /\ due' = due \ free
Restore == RestoreRows \/ UNCHANGED tableVars

InitStep ==
    /\ phase = "init"
    /\ up' = up \cup ({InitOrder[step]} \ {"restore"})
    /\ IF InitOrder[step] = "restore" THEN Restore ELSE UNCHANGED tableVars
    /\ step' = IF step = Len(InitOrder) THEN 0 ELSE step + 1
    /\ phase' = IF step = Len(InitOrder) THEN "live" ELSE "init"
    /\ UNCHANGED <<shutting, flowVars, fileVars, leaseVars, ops>>

(* A step that fails has undone its own part.                              *)
InitFails ==
    /\ phase = "init"
    /\ Spend
    /\ InitOrder[step] \in DOMAIN UndoLabel
    /\ LET label == UndoLabel[InitOrder[step]] IN
       IF label = None THEN phase' = "absent" /\ step' = 0
       ELSE phase' = "undo" /\ step' = Position(UndoOrder, label)
    /\ UNCHANGED <<up, shutting, flowVars, tableVars, fileVars, leaseVars>>

-----------------------------------------------------------------------------
(* Tearing down, after a failure and in fw_exit                            *)

ExitOrder == <<"shutting", "cancel", "hook4", "hook6", "grace", "netdev", "procfs", "grace",
               "save", "ban", "wl", "rate", "stats", "local", "ports", "netlink">>

(* What the step waits for: readers in the hook (synchronize_rcu), a       *)
(* notifier call that is in progress.                                      *)
WaitsNoGrace(s) == s = "netdev" => ~event
Waits(s) ==
    /\ s \in {"grace", "rate", "ban", "wl", "stats"} => ~packet
    /\ s = "netdev" => ~event

(* fw_ban_exit and fw_wl_exit empty their tables, whatever comes later;    *)
(* fw_netlink_exit forgets the daemon.                                     *)
TearDown(s) ==
    /\ Waits(s)
    /\ up' = up \ (IF s = "local" THEN {"local", "rebuild"} ELSE {s})
    /\ shutting' = (shutting \/ s = "shutting")
    /\ work' = (work /\ s # "cancel")
    /\ bans' = IF s = "ban" THEN {} ELSE bans
    /\ due' = IF s = "ban" THEN {} ELSE due
    /\ wl' = IF s = "wl" THEN {} ELSE wl
    /\ portid' = IF s = "netlink" THEN None ELSE portid
    /\ asked' = IF s = "netlink" THEN [p \in Process |-> None] ELSE asked
    /\ UNCHANGED <<packet, event, fileVars, fresh, proc, believes, ops>>

Undo ==
    /\ phase = "undo"
    /\ TearDown(UndoOrder[step])
    /\ step' = IF step = Len(UndoOrder) THEN 0 ELSE step + 1
    /\ phase' = IF step = Len(UndoOrder) THEN "absent" ELSE "undo"

Unload ==
    /\ phase = "live"
    /\ Spend
    /\ phase' = "exit" /\ step' = 1
    /\ UNCHANGED <<up, shutting, flowVars, tableVars, fileVars, leaseVars>>

ExitStep ==
    /\ phase = "exit"
    /\ ExitOrder[step] # "save"
    /\ TearDown(ExitOrder[step])
    /\ step' = IF step = Len(ExitOrder) THEN 0 ELSE step + 1
    /\ phase' = IF step = Len(ExitOrder) THEN "absent" ELSE "exit"

-----------------------------------------------------------------------------
(* fw_state_save                                                           *)

Saving == phase = "exit" /\ ExitOrder[step] = "save"
UnchangedBySave == UNCHANGED <<phase, up, shutting, flowVars, tableVars, leaseVars>>

SaveOpen ==
    /\ Saving /\ save = None
    /\ save' = [at |-> "bans", offset |-> 0, shrunk |-> FALSE, steady |-> bans \ due,
                cut |-> {}]
    /\ tmp' = [rows |-> {}, crc |-> FALSE, synced |-> FALSE, whole |-> FALSE]
    /\ UnchangedBySave /\ UNCHANGED <<step, file, disk, ops>>

(* fw_ban_fill_entries, fw_wl_fill_entries: a row is a position of the     *)
(* order that holds a member of the set; a page is the rows that follow    *)
(* the first offset ones.                                                  *)
RowNumber(order, set, i) == Cardinality({j \in 1 .. i : order[j] \in set})
PageOf(order, set) ==
    {order[i] : i \in {i \in DOMAIN order :
        order[i] \in set /\ RowNumber(order, set, i) \in save.offset + 1 .. save.offset + Page}}
Short(set) == Cardinality(set) < save.offset + Page

(* The rows a pass has not listed and will not when the limit is this.     *)
CutOff(order, set, limit) ==
    {order[i] : i \in {i \in DOMAIN order :
        /\ order[i] \in set
        /\ RowNumber(order, set, i) > limit /\ RowNumber(order, set, i) > save.offset}}

(* fw_state_write_bans, fw_state_write_whitelist: one page; an entry whose *)
(* time is over is left out.  A short page is the last one, and so is one  *)
(* with a row beyond the limit, read while the rows are written: the       *)
(* parameter may be written at any time, the save then ends without error. *)
SavePageOnlyFirst(at, order, set, next) ==
    /\ Saving /\ save # None
    /\ save.at = at
    /\ tmp' = [tmp EXCEPT !.rows = @ \cup (PageOf(order, set) \ due), !.whole = at = "wl"]
    /\ save' = [save EXCEPT !.at = next, !.offset = 0]
    /\ UnchangedBySave /\ UNCHANGED <<step, file, disk, ops>>
PageWithin(limit, at, order, set, next) ==
    LET beyond == CutOff(order, set, limit)
        stopped == PageOf(order, set) \cap beyond # {}
        last == Short(set) \/ stopped IN
    /\ tmp' = [tmp EXCEPT !.rows = @ \cup (PageOf(order, set) \ (due \cup beyond)),
                          !.whole = at = "wl" /\ last]
    /\ save' = [save EXCEPT !.at = IF last THEN next ELSE at,
                            !.offset = IF last THEN 0 ELSE @ + Page,
                            !.cut = IF stopped THEN @ \cup beyond ELSE @]
SavePage(at, order, set, next) ==
    /\ Saving /\ save # None
    /\ save.at = at
    /\ \E limit \in Limits : PageWithin(limit, at, order, set, next)
    /\ UnchangedBySave /\ UNCHANGED <<step, file, disk, ops>>
SaveBans == SavePage("bans", KeyOrder, bans, "wl")
SaveWl == SavePage("wl", WlOrder, wl, "crc")

SaveCrc ==
    /\ Saving /\ save # None
    /\ save.at = "crc"
    /\ tmp' = [tmp EXCEPT !.crc = TRUE]
    /\ save' = [save EXCEPT !.at = "fsync"]
    /\ UnchangedBySave /\ UNCHANGED <<step, file, disk, ops>>

SaveNoFsync ==
    /\ Saving /\ save # None
    /\ save.at = "fsync"
    /\ save' = [save EXCEPT !.at = "replace"]
    /\ UnchangedBySave /\ UNCHANGED <<step, file, tmp, disk, ops>>
SaveFsync ==
    /\ Saving /\ save # None
    /\ save.at = "fsync"
    /\ tmp' = [tmp EXCEPT !.synced = TRUE]
    /\ save' = [save EXCEPT !.at = "replace"]
    /\ UnchangedBySave /\ UNCHANGED <<step, file, disk, ops>>

(* fw_state_atomic_replace; the new name is durable some time later.       *)
SaveReplace ==
    /\ Saving /\ save # None
    /\ save.at = "replace"
    /\ file' = tmp /\ tmp' = None
    /\ save' = None /\ step' = step + 1
    /\ UnchangedBySave /\ UNCHANGED <<disk, ops>>

(* No memory, no directory, no space, mv fails: the temporary file is      *)
(* removed, and fw_exit goes on.                                           *)
SaveFails ==
    /\ Saving
    /\ Spend
    /\ tmp' = None /\ save' = None /\ step' = step + 1
    /\ UnchangedBySave /\ UNCHANGED <<file, disk>>

Save == SaveOpen \/ SaveBans \/ SaveWl \/ SaveCrc \/ SaveFsync \/ SaveReplace \/ SaveFails

NameDurable ==
    /\ disk # file
    /\ disk' = file
    /\ UNCHANGED <<lifeVars, flowVars, tableVars, file, tmp, save, leaseVars, ops>>

(* What a power cut leaves of a file: all of it when it was synced, else   *)
(* any part.                                                               *)
Remains(f) ==
    IF f = None \/ f.synced THEN {f}
    ELSE {f} \cup {[rows |-> r, crc |-> FALSE, synced |-> TRUE, whole |-> FALSE] :
                      r \in SUBSET f.rows}

PowerCut ==
    /\ phase # "absent"
    /\ Spend
    /\ phase' = "absent" /\ step' = 0 /\ up' = {} /\ shutting' = FALSE
    /\ packet' = FALSE /\ event' = FALSE /\ work' = FALSE
    /\ bans' = {} /\ due' = {} /\ wl' = {}
    /\ file' \in Remains(file) \cup Remains(disk)
    /\ disk' = file' /\ tmp' = None /\ save' = None
    /\ portid' = None /\ fresh' = FALSE
    /\ proc' = [p \in Process |-> IF proc[p] = "none" THEN "none" ELSE "dead"]
    /\ asked' = [p \in Process |-> None]
    /\ believes' = [p \in Process |-> FALSE]

-----------------------------------------------------------------------------
(* Packets, netdev events and procfs                                       *)

PacketEnters ==
    /\ up \cap Hooks # {} /\ ~packet /\ ~shutting
    /\ Spend
    /\ packet' = TRUE
    /\ UNCHANGED <<lifeVars, event, work, tableVars, fileVars, leaseVars>>
PacketBans(k) ==
    /\ packet /\ k \in Temporary
    /\ Spend /\ AddBan(k)
    /\ UNCHANGED <<lifeVars, flowVars, fileVars, leaseVars>>
PacketLeaves ==
    /\ packet
    /\ packet' = FALSE
    /\ UNCHANGED <<lifeVars, event, work, tableVars, fileVars, leaseVars, ops>>

NetdevEvent ==
    /\ "netdev" \in up /\ ~shutting /\ ~event
    /\ Spend
    /\ event' = TRUE
    /\ UNCHANGED <<lifeVars, packet, work, tableVars, fileVars, leaseVars>>
NetdevSchedule ==
    /\ event
    /\ event' = FALSE /\ work' = TRUE
    /\ UNCHANGED <<lifeVars, packet, tableVars, fileVars, leaseVars, ops>>
(* Rebuilds the local addresses, see Whitelist; not when shutting down.    *)
SyncWork ==
    /\ work /\ phase # "absent"
    /\ work' = FALSE
    /\ UNCHANGED <<lifeVars, packet, event, tableVars, fileVars, leaseVars, ops>>

(* bans_write: a host is banned for a time, or unbanned.                   *)
ProcfsBan(k) ==
    /\ "procfs" \in up
    /\ Spend
    /\ \/ AddBan(k) /\ UNCHANGED save
       \/ DelBan(k) /\ NoteRemoval(k \in bans)
    /\ UNCHANGED <<lifeVars, flowVars, file, tmp, disk, leaseVars>>
(* whitelist_write: removing an entry lifts the bans it covers.            *)
ProcfsWl(w) ==
    /\ "procfs" \in up
    /\ Spend
    /\ \/ wl' = wl \cup {w} /\ UNCHANGED <<bans, due, save>>
       \/ /\ w \in wl
          /\ wl' = wl \ {w} /\ bans' = bans \ Covers[w] /\ due' = due \ Covers[w]
          /\ NoteRemoval(TRUE)
    /\ UNCHANGED <<lifeVars, flowVars, file, tmp, disk, leaseVars>>

-----------------------------------------------------------------------------
(* The daemon's lease                                                      *)

Listening == "netlink" \in up

(* The portid has a socket, whoever owns it.                               *)
HasSocket(p) == proc[p] \in {"starting", "running", "reused"}

Start(p) ==
    /\ proc[p] = "none"
    /\ Spend
    /\ proc' = [proc EXCEPT ![p] = "starting"]
    /\ UNCHANGED <<lifeVars, flowVars, tableVars, fileVars, portid, fresh, asked, believes>>

(* fw_nl_daemon_alive: FALSE without a socket, or when its buffer is full. *)
ProbeAnswers == {alive \in BOOLEAN : alive => portid # None /\ HasSocket(portid)}

(* fw_nl_recv_msg, DAEMON_REGISTER: what the handler decides ...           *)
RegisterRefusedForEver(p, alive) == portid \notin {None, p} /\ alive
RegisterRefused(p, alive) == portid \notin {None, p} /\ fresh /\ alive
Judge(p, alive) ==
    asked' = [asked EXCEPT ![p] = IF RegisterRefused(p, alive) THEN "refuse" ELSE "grant"]
RegisterAsk(p) ==
    /\ Listening /\ asked[p] = None
    /\ proc[p] \in {"starting", "running"}
    /\ \/ \E alive \in ProbeAnswers : Judge(p, alive) /\ UNCHANGED ops
       \/ Spend /\ Judge(p, TRUE)      \* no memory for the probe
    /\ UNCHANGED <<lifeVars, flowVars, tableVars, fileVars, portid, fresh, proc, believes>>

(* ... and what it does.  register, ClaimLease: only a refusal at the      *)
(* start ends the process; without an answer it tries again later.         *)
Granted(p) ==
    /\ asked[p] = "grant"
    /\ portid' = p /\ fresh' = TRUE
    /\ proc' = [proc EXCEPT ![p] = "running"]
    /\ \E answered \in BOOLEAN : believes' = [believes EXCEPT ![p] = answered]
RefusedUnheard(p) ==
    /\ asked[p] = "refuse"
    /\ proc' = [proc EXCEPT ![p] = IF @ = "starting" THEN "dead" ELSE @]
    /\ UNCHANGED <<portid, fresh, believes>>
Refused(p) ==
    /\ asked[p] = "refuse"
    /\ proc' = [proc EXCEPT ![p] = IF @ = "starting" THEN "dead" ELSE @]
    /\ believes' = [believes EXCEPT ![p] = FALSE]
    /\ UNCHANGED <<portid, fresh>>
RegisterEnds(p) ==
    /\ Granted(p) \/ Refused(p)
    /\ asked' = [asked EXCEPT ![p] = None]
    /\ UNCHANGED <<lifeVars, flowVars, tableVars, fileVars, ops>>

NoLink(p) ==
    /\ ~Listening
    /\ proc[p] = "starting" \/ believes[p]
    /\ proc' = [proc EXCEPT ![p] = "running"]
    /\ believes' = [believes EXCEPT ![p] = FALSE]
    /\ UNCHANGED <<lifeVars, flowVars, tableVars, fileVars, portid, fresh, asked, ops>>

(* The other commands: dropped when nobody is registered, or another that  *)
(* was heard of lately; else the sender takes over without a word.         *)
Accepted(p) == portid # None /\ (portid = p \/ ~fresh)
Command(p, k) ==
    /\ Listening /\ proc[p] = "running" /\ Accepted(p)
    /\ Spend
    /\ portid' = p /\ fresh' = TRUE
    /\ \/ AddBan(k) /\ UNCHANGED save
       \/ DelBan(k) /\ NoteRemoval(k \in bans)
    /\ UNCHANGED <<lifeVars, flowVars, file, tmp, disk, proc, asked, believes>>

(* 30 s without a message from the registered daemon.                      *)
Silence ==
    /\ fresh
    /\ fresh' = FALSE
    /\ UNCHANGED <<lifeVars, flowVars, tableVars, fileVars, portid, proc, asked, believes, ops>>

(* A killed process tells nobody; another program may get its portid.      *)
Die(p) ==
    /\ proc[p] \in {"starting", "running"} /\ asked[p] = None
    /\ Spend
    /\ proc' = [proc EXCEPT ![p] = "dead"]
    /\ believes' = [believes EXCEPT ![p] = FALSE]
    /\ UNCHANGED <<lifeVars, flowVars, tableVars, fileVars, portid, fresh, asked>>
PortidReused(p) ==
    /\ proc[p] = "dead"
    /\ Spend
    /\ proc' = [proc EXCEPT ![p] = "reused"]
    /\ UNCHANGED <<lifeVars, flowVars, tableVars, fileVars, portid, fresh, asked, believes>>

-----------------------------------------------------------------------------
Lease(p) ==
    \/ Start(p) \/ RegisterAsk(p) \/ RegisterEnds(p) \/ NoLink(p) \/ Die(p) \/ PortidReused(p)
    \/ \E k \in Key : Command(p, k)
Tables ==
    \/ \E k \in Key : BanDue(k) \/ Expire(k) \/ PacketBans(k) \/ ProcfsBan(k)
    \/ \E w \in Wl : ProcfsWl(w)
ModuleSteps == InitStep \/ Undo \/ ExitStep \/ Save
Next ==
    \/ Load \/ InitFails \/ Unload \/ ModuleSteps \/ NameDurable \/ PowerCut
    \/ PacketEnters \/ PacketLeaves \/ NetdevEvent \/ NetdevSchedule \/ SyncWork
    \/ Silence \/ Tables \/ \E p \in Process : Lease(p)

Spec == Init /\ [][Next]_vars

(* Time passes, a daemon that runs renews its lease periodically, and gets *)
(* an answer.                                                              *)
FairSpec ==
    /\ Spec
    /\ WF_vars(Silence)
    /\ \A p \in Process : WF_vars(RegisterAsk(p)) /\ WF_vars(RegisterEnds(p))

-----------------------------------------------------------------------------
IsWhole(f) == f # None /\ f.whole

TypeOK ==
    /\ phase \in {"absent", "init", "undo", "live", "exit"}
    /\ step \in 0 .. Len(ExitOrder)
    /\ up \subseteq {InitOrder[i] : i \in DOMAIN InitOrder}
    /\ bans \subseteq Key /\ due \subseteq bans /\ wl \subseteq Wl
    /\ portid \in Process \cup {None}

(* A packet that is inside the hook, also one that came before the hooks   *)
(* were taken away, finds all tables set up, and the local addresses known *)
(* (fw_main.c: the order of fw_init, fw_exit and of the error labels).     *)
HookSeesTables ==
    packet => {"stats", "local", "ports", "wl", "ban", "rate", "rebuild"} \subseteq up

(* A load that fails, at whatever step, leaves nothing behind: nothing set *)
(* up, no entry with a timer, no work queued (fw_main.c, the error labels).*)
FailedLoadLeavesNothing ==
    phase = "absent" /\ ~shutting => up = {} /\ bans = {} /\ ~work

(* What a load takes from the state file is all that one save set out to   *)
(* write, to its end, whenever power was lost and whatever file was found  *)
(* (fw_state.c: CRC line, fsync, rename).                                  *)
RestoredIsWhole ==
    /\ phase = "init" /\ InitOrder[step] = "restore"
    /\ RestoredWl \cup RestoredBans # {}
    => IsWhole(file)

(* Once a whole state file is on the disk, one is for ever: neither a save *)
(* that fails nor a power cut in or after one loses both the old file and  *)
(* the new one (fw_state_save: vfs_fsync before fw_state_atomic_replace).  *)
StateFileKept ==
    [][IsWhole(disk) => IsWhole(file') /\ IsWhole(disk')]_vars

(* When nothing is removed from the tables while they are saved, every ban *)
(* that is in force from the beginning of the save to its end is in the    *)
(* file that replaces the old one, however many are added meanwhile,       *)
(* except for rows beyond the limit as it was read in the save             *)
(* (fw_state_write_bans reads by offset, up to FW_STATE_MAX_BAN).          *)
SteadyBansSaved ==
    save # None =>
        (save.at = "replace" /\ ~save.shrunk => save.steady \subseteq tmp.rows \cup save.cut)

(* After the registered daemon is gone, by a crash or with the module that *)
(* knew it, one that keeps renewing gets the lease, even when another      *)
(* program has got the dead one's portid (fw_nl_recv_msg, EventPump.Run).  *)
Alone(p) ==
    /\ phase = "live" /\ proc[p] = "running"
    /\ \A q \in Process \ {p} : proc[q] \in {"none", "dead", "reused"}
LeaseRecovers == \A p \in Process : <>[]Alone(p) => <>[](portid = p)

(* A daemon that is not the registered one, because two registered at once *)
(* or another took over in its silence, does not go on believing it        *)
(* (EventPump.register).                                                   *)
LostLeaseIsNoticed ==
    \A p \in Process :
        <>[](phase = "live" /\ proc[p] = "running" /\ portid # p) => <>[]~believes[p]

(* Nothing of the module is left when it has been unloaded: no entry with  *)
(* a timer that would call it, no work queued (fw_exit).                   *)
UnloadLeavesNothing == phase = "absent" => bans = {} /\ ~work
=============================================================================
