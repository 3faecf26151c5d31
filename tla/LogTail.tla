------------------------------ MODULE LogTail ------------------------------
(***************************************************************************)
(* How the daemon follows one log file (internal/ingest/reader.go,         *)
(* registry.go, watcher.go and the watch half of internal/runtime/         *)
(* executor.go), against a writer and a log rotation it does not control.  *)
(*                                                                         *)
(* A single goroutine runs the executor: each round does the maintenance   *)
(* that is due, copies the enabled state, retries sources that wait for    *)
(* their file, then polls signals and inotify.  Every system call is a     *)
(* step of its own, so that the file can be written, renamed, removed,     *)
(* truncated or replaced between any two of them.                          *)
(*                                                                         *)
(* Bytes come in fragments: a line is written whole, or as a first half    *)
(* and an end.  The inotify queue holds the events of the live watch only: *)
(* events of a removed watch are dropped when they are read (Resolve).     *)
(***************************************************************************)
EXTENDS Integers, Sequences, FiniteSets

CONSTANTS
    File,        \* inodes
    First,       \* the one at the path when the daemon starts
    NoFile,      \* the path names nothing; no fd; no watch
    Link,        \* the path names a symbolic link
    Dir,         \* a directory, or anything else that is no regular file
    Unset,       \* the web UI has not set the jail's state
    MaxLine,     \* lines 1..MaxLine are written; line 0 is there at the start
    Batch,       \* BatchReadMax, in fragments
    MaxHalf,     \* lines 1..MaxHalf may be written in two pieces
    MaxEvents,   \* how many of the events below may happen
    Events       \* which: rename, unlink, truncate, link, toggle, reload, rollback

ASSUME FileAssumption ==
    /\ First \in File /\ {NoFile, Link, Dir} \cap File = {}
    /\ NoFile # Link /\ NoFile # Dir /\ Link # Dir
ASSUME BoundAssumption ==
    /\ MaxLine \in Nat /\ MaxHalf \in Nat /\ Batch \in Nat \ {0} /\ MaxEvents \in Nat
ASSUME UnsetAssumption == Unset \notin BOOLEAN

VARIABLES
    \* the file system and the writer
    path,      \* what the configured path names
    data,      \* the contents of the files
    unlinked,  \* files, and the directory, without a name
    fresh,     \* files that do not exist yet
    writer,    \* the file the writer has open
    half,      \* the line the writer has written the first half of, or 0
    line,      \* the last line begun
    wish,      \* the jail's state as the web UI has set it
    budget,    \* events left
    \* the executor
    enabled,   \* cfg.Jails[i].Enabled
    watch,     \* the file under watch; NoFile: the source is not registered
    queue,     \* inotify events of the watch, not read yet
    batch,     \* events of this wake-up, not handled yet
    fd,        \* SourceReader.fd
    offset,    \* SourceReader.offset
    rotated,   \* ReadNew's local of the same name
    carry,     \* the splitter's half line
    pending,   \* the path is in pendingReadd
    pc, after, \* where the executor is, and where a read returns to
    \* what the pipeline was given
    judged,    \* how often each line was judged
    spliced,   \* a judged line had parts of two files
    full       \* the last read stopped at BatchReadMax; nothing was written since

fsVars   == <<path, data, unlinked, fresh, writer, half, line>>
envVars  == <<fsVars, wish, budget>>
readVars == <<fd, offset, rotated, carry>>
outVars  == <<judged, spliced, full>>
vars == <<envVars, enabled, watch, queue, batch, readVars, pending, pc, after, outVars>>

Line == 0..MaxLine
Node == File \cup {Dir}
Fragment == [file : File, line : Line, end : BOOLEAN]

Init ==
    /\ path = First
    /\ data = [f \in File |-> IF f = First THEN <<[file |-> f, line |-> 0, end |-> TRUE]>> ELSE <<>>]
    /\ unlinked = {} /\ fresh = File \ {First}
    /\ writer = First /\ half = 0 /\ line = 0
    /\ wish = Unset /\ budget = MaxEvents
    /\ enabled = TRUE
    /\ watch = NoFile /\ queue = <<>> /\ batch = <<>>
    /\ fd = NoFile /\ offset = 0 /\ rotated = FALSE /\ carry = <<>>
    /\ pending = FALSE
    /\ pc = "start" /\ after = "maintain"
    /\ judged = [n \in Line |-> 0] /\ spliced = FALSE /\ full = FALSE

-----------------------------------------------------------------------------
(* inotify                                                                 *)

(* The queue after an event: one equal to the last in the queue is merged. *)
Queued(q, e) == IF q # <<>> /\ q[Len(q)] = e THEN q ELSE Append(q, e)

(* An event on file f reaches the queue if f is under watch.               *)
Notify(f, e) == queue' = IF f = watch THEN Queued(queue, e) ELSE queue

(* A file without a name goes with its last descriptor: DELETE_SELF.       *)
Closed(f, q) ==
    IF f = watch /\ f \in unlinked THEN Queued(q, "gone") ELSE q

-----------------------------------------------------------------------------
(* The writer and the rotation, which the daemon does not control          *)

Write(n, end) ==
    /\ data' = [data EXCEPT ![writer] = Append(@, [file |-> writer, line |-> n, end |-> end])]
    /\ Notify(writer, "content")
    /\ full' = FALSE
    /\ UNCHANGED <<path, unlinked, fresh, writer, wish, budget, enabled, watch, batch,
                   readVars, pending, pc, after, judged, spliced>>

WriteBegin(end) ==
    /\ writer # NoFile /\ half = 0 /\ line < MaxLine
    /\ line' = line + 1
    /\ end \/ line < MaxHalf
    /\ half' = IF end THEN 0 ELSE line + 1
    /\ Write(line + 1, end)

WriteEnd == half # 0 /\ half' = 0 /\ line' = line /\ Write(half, TRUE)

(* The writer closes its file: CLOSE_WRITE.  It opens what is at the path. *)
Close ==
    /\ writer # NoFile /\ path # writer /\ half = 0
    /\ writer' = NoFile
    /\ LET q == IF watch = writer THEN Queued(queue, "content") ELSE queue
       IN  queue' = IF fd = writer THEN q ELSE Closed(writer, q)
    /\ UNCHANGED <<path, data, unlinked, fresh, half, line, wish, budget, enabled, watch,
                   batch, readVars, pending, pc, after, outVars>>

Reopen ==
    /\ writer = NoFile /\ path \in File
    /\ writer' = path
    /\ UNCHANGED <<path, data, unlinked, fresh, half, line, wish, budget, enabled, watch, queue,
                   batch, readVars, pending, pc, after, outVars>>

(* A new file appears at the path.                                         *)
Create ==
    /\ path = NoFile
    /\ \E f \in fresh : path' = f /\ fresh' = fresh \ {f}
    /\ UNCHANGED <<data, unlinked, writer, half, line, wish, budget, enabled, watch, queue,
                   batch, readVars, pending, pc, after, outVars>>

Spend(e) == e \in Events /\ budget > 0 /\ budget' = budget - 1

(* mv log log.1: MOVE_SELF.                                                *)
Rename ==
    /\ Spend("rename") /\ path \in Node
    /\ path' = NoFile
    /\ Notify(path, "gone")
    /\ UNCHANGED <<data, unlinked, fresh, writer, half, line, wish, enabled, watch, batch,
                   readVars, pending, pc, after, outVars>>

(* rm log: ATTRIB, and DELETE_SELF if nobody has it open.                  *)
Unlink ==
    /\ Spend("unlink") /\ path \in File
    /\ path' = NoFile
    /\ unlinked' = unlinked \cup {path}
    /\ queue' = LET q == IF path = watch THEN Queued(queue, "content") ELSE queue
                IN  IF path = watch /\ path \notin {writer, fd} THEN Queued(q, "gone") ELSE q
    /\ UNCHANGED <<data, fresh, writer, half, line, wish, enabled, watch, batch,
                   readVars, pending, pc, after, outVars>>

(* copytruncate: MODIFY.                                                   *)
Truncate ==
    /\ Spend("truncate") /\ path \in File
    /\ data' = [data EXCEPT ![path] = <<>>]
    /\ Notify(path, "content")
    /\ full' = FALSE
    /\ UNCHANGED <<path, unlinked, fresh, writer, half, line, wish, enabled, watch, batch,
                   readVars, pending, pc, after, judged, spliced>>

(* A link or a directory stands at the path, and goes; the directory comes *)
(* once only.                                                              *)
PlaceLink ==
    /\ \/ /\ Spend("link") /\ path = NoFile
          /\ path' = Link \/ (path' = Dir /\ Dir \notin {watch, fd} \cup unlinked)
       \/ path = Link /\ path' = NoFile /\ budget' = budget
    /\ UNCHANGED <<data, unlinked, fresh, writer, half, line, wish, enabled, watch, queue,
                   batch, readVars, pending, pc, after, outVars>>

(* rmdir: DELETE_SELF, once nobody has it open.                            *)
RemoveDir ==
    /\ path = Dir /\ path' = NoFile
    /\ unlinked' = unlinked \cup {Dir}
    /\ IF fd = Dir THEN UNCHANGED queue ELSE Notify(Dir, "gone")
    /\ UNCHANGED <<data, fresh, writer, half, line, wish, budget, enabled, watch, batch,
                   readVars, pending, pc, after, outVars>>

(* The web UI sets the jail's state.                                       *)
Toggle ==
    /\ Spend("toggle")
    /\ \E b \in BOOLEAN : wish' = b
    /\ UNCHANGED <<fsVars, enabled, watch, queue, batch, readVars, pending, pc, after, outVars>>

-----------------------------------------------------------------------------
(* The pipeline                                                            *)

(* Positions of s at which a line ends, and the fragments of the judged    *)
(* line that ends there; a line of two files is spliced.                   *)
Ends(s) == {i \in 1..Len(s) : s[i].end}
Parts(s, i) == {s[j] : j \in {k \in 1..i : \A m \in k..(i - 1) : ~s[m].end}}
Lines(parts) == {p.line : p \in parts}
OfTwoFiles(parts) == \E p, q \in parts : p.file # q.file

(* LineSplitter.Feed: each line that is complete is judged ...             *)
Judge(s) ==
    /\ judged' = [n \in Line |->
                    judged[n] + Cardinality({i \in Ends(s) : n \in Lines(Parts(s, i))})]
    /\ spliced' = (spliced \/ \E i \in Ends(s) : OfTwoFiles(Parts(s, i)))

(* ... and what follows the last line end stays.                           *)
Rest(s) ==
    LET last == CHOOSE i \in 0..Len(s) :
                    /\ i \in Ends(s) \cup {0}
                    /\ \A j \in Ends(s) : j <= i
    IN  SubSeq(s, last + 1, Len(s))

(* LineSplitter.Flush: the half line is judged as if it were whole.        *)
Flush ==
    LET parts == {carry[i] : i \in 1..Len(carry)}
    IN  /\ judged' = [n \in Line |-> judged[n] + (IF n \in Lines(parts) THEN 1 ELSE 0)]
        /\ spliced' = (spliced \/ OfTwoFiles(parts))
        /\ UNCHANGED full

-----------------------------------------------------------------------------
(* Watches                                                                 *)

(* entryForPath finds the path; openNoFollow opens all but links;          *)
(* jailForPath asks the configuration for an enabled jail.                 *)
Registered == watch # NoFile
OpenNoFollow == path \in Node
JailForPath == enabled

(* Mutant: the reader of a dropped source keeps its file.                  *)
Forget_KeepFile ==
    /\ carry' = <<>> /\ queue' = <<>> /\ batch' = <<>>
    /\ UNCHANGED <<fd, offset, rotated>>

(* dropSource: the registration, the watch with its events, the reader and *)
(* the half line.                                                          *)
Forget ==
    /\ fd' = NoFile /\ offset' = 0 /\ carry' = <<>> /\ rotated' = FALSE
    /\ queue' = <<>> /\ batch' = <<>>

Drop(then) ==
    /\ Forget
    /\ watch' = NoFile
    /\ pc' = then /\ after' = after

(* Mutant: a new source is not read until its first event.                 *)
Attach_NoRead(fromStart, then) ==
    /\ path \in Node
    /\ watch' = path
    /\ pc' = IF fromStart THEN then ELSE "seekend"
    /\ after' = then

(* addLogSource succeeds on all but links: the watch is placed and the     *)
(* source registered; then the end of the file is sought, or the file is   *)
(* read from its start.                                                    *)
Attach(fromStart, then) ==
    /\ path \in Node
    /\ watch' = path
    /\ pc' = IF fromStart THEN "lstat" ELSE "seekend"
    /\ after' = then

(* Mutants: a file that appears is read from its start; a source of a jail *)
(* that was turned off is kept.                                            *)
Reconcile_FromStart(on, then) ==
    \/ ~on /\ pending' = FALSE /\ Drop(then)
    \/ on /\ watch # NoFile /\ pc' = then
       /\ UNCHANGED <<pending, watch, queue, batch, readVars, after>>
    \/ on /\ watch = NoFile /\ pending' = FALSE
       /\ \/ Attach(TRUE, then)
          \/ path \notin Node /\ pc' = then /\ UNCHANGED <<watch, after>>
       /\ UNCHANGED <<queue, batch, readVars>>
Reconcile_KeepOff(on, then) ==
    \/ (~on \/ watch # NoFile) /\ pc' = then
       /\ UNCHANGED <<pending, watch, queue, batch, readVars, after>>
    \/ on /\ watch = NoFile /\ pending' = FALSE
       /\ \/ Attach(pending, then)
          \/ path \notin Node /\ pc' = then /\ UNCHANGED <<watch, after>>
       /\ UNCHANGED <<queue, batch, readVars>>

(* reconcileWatches, for a configuration in which the jail is on or off.   *)
Reconcile(on, then) ==
    \/ ~on /\ pending' = FALSE /\ Drop(then)
    \/ on /\ Registered /\ pc' = then
       /\ UNCHANGED <<pending, watch, queue, batch, readVars, after>>
    \/ on /\ ~Registered /\ pending' = FALSE
       /\ \/ Attach(pending, then)
          \/ path \notin Node /\ pc' = then /\ UNCHANGED <<watch, after>>
       /\ UNCHANGED <<queue, batch, readVars>>

-----------------------------------------------------------------------------
(* A round of the executor                                                 *)

(* NewInboundExecutor hangs the first watches.                             *)
Start ==
    /\ pc = "start"
    /\ Reconcile(enabled, "maintain")
    /\ UNCHANGED <<envVars, enabled, outVars>>

(* runDueMaintenance: the rescan is due, or not.                           *)
Rescan ==
    /\ pc = "maintain"
    /\ Reconcile(enabled, "sync")
    /\ UNCHANGED <<envVars, enabled, outVars>>

NothingDue ==
    /\ pc = "maintain" /\ pc' = "sync"
    /\ UNCHANGED <<envVars, enabled, watch, queue, batch, readVars, pending, after, outVars>>

(* syncJailEnabled                                                         *)
SyncJailEnabled ==
    /\ pc = "sync"
    /\ \/ /\ wish \notin {Unset, enabled}
          /\ enabled' = wish
          /\ Reconcile(wish, "retry")
       \/ /\ wish \in {Unset, enabled} /\ pc' = "retry"
          /\ UNCHANGED <<enabled, watch, queue, batch, readVars, pending, after>>
    /\ UNCHANGED <<envVars, outVars>>

(* retryPendingReadd                                                       *)
RetryPendingReadd ==
    /\ pc = "retry"
    /\ \/ /\ pending /\ ~Registered /\ JailForPath
          /\ Attach(TRUE, "poll") /\ pending' = FALSE
       \/ /\ pending /\ (Registered \/ (path # NoFile /\ ~JailForPath))
          /\ pending' = FALSE /\ pc' = "poll" /\ UNCHANGED <<watch, after>>
       \/ /\ ~pending \/ (~Registered /\ (path = NoFile \/ (path = Link /\ JailForPath)))
          /\ pc' = "poll" /\ UNCHANGED <<watch, after, pending>>
    /\ UNCHANGED <<envVars, enabled, queue, batch, readVars, outVars>>

(* poll returns; signals are handled, all that wait, before inotify.       *)
NoSignal ==
    /\ pc = "poll" /\ pc' = "inotify"
    /\ UNCHANGED <<envVars, enabled, watch, queue, batch, readVars, pending, after, outVars>>

(* reloadConfig: the new configuration may turn the jail on or off.        *)
ReloadConfig ==
    /\ pc = "poll" /\ Spend("reload")
    /\ \E b \in BOOLEAN : enabled' = b /\ Reconcile(b, "poll")
    /\ UNCHANGED <<fsVars, wish, outVars>>

(* rollbackConfig: the same, but the watches stay as they are.             *)
RollbackConfig ==
    /\ pc = "poll" /\ Spend("rollback")
    /\ \E b \in BOOLEAN : enabled' = b
    /\ UNCHANGED <<fsVars, wish, pc, watch, queue, batch, readVars, pending, after, outVars>>

HandleSignals == ReloadConfig \/ RollbackConfig

(* handleInotify takes all events of this wake-up.                         *)
ReadEvents ==
    /\ pc = "inotify" /\ pc' = "events"
    /\ batch' = queue /\ queue' = <<>>
    /\ UNCHANGED <<envVars, enabled, watch, readVars, pending, after, outVars>>

EventsDone ==
    /\ pc = "events" /\ batch = <<>> /\ pc' = "maintain"
    /\ UNCHANGED <<envVars, enabled, watch, queue, batch, readVars, pending, after, outVars>>

(* handleEvent: the content changed.                                       *)
ContentChange ==
    /\ pc = "events" /\ batch # <<>> /\ Head(batch) = "content"
    /\ batch' = Tail(batch)
    /\ pc' = "lstat" /\ after' = "events"
    /\ UNCHANGED <<envVars, enabled, watch, queue, readVars, pending, outVars>>

(* Mutant: a source whose path is invisible is kept.                       *)
HandleRotation_Keep ==
    /\ pc = "events" /\ batch # <<>> /\ Head(batch) = "gone"
    /\ Flush
    /\ \/ Forget /\ Attach(TRUE, "events") /\ UNCHANGED pending
       \/ path \notin Node /\ pending' = TRUE /\ carry' = <<>> /\ batch' = Tail(batch)
          /\ UNCHANGED <<fd, offset, rotated, queue, watch, pc, after>>
    /\ UNCHANGED <<envVars, enabled>>

(* handleRotation: the half line is flushed, the source dropped, and what  *)
(* is at the path now is attached, or waited for.                          *)
HandleRotation ==
    /\ pc = "events" /\ batch # <<>> /\ Head(batch) = "gone"
    /\ Flush
    /\ \/ Forget /\ Attach(TRUE, "events") /\ UNCHANGED pending
       \/ path \notin Node /\ pending' = TRUE /\ Drop("events")
    /\ UNCHANGED <<envVars, enabled>>

-----------------------------------------------------------------------------
(* OpenAtEnd and ReadNew                                                   *)

(* What a reader can get; the size of a directory is never compared.       *)
Contents(f) == IF f \in File THEN data[f] ELSE <<>>

OpenAtEnd ==
    /\ pc = "seekend" /\ pc' = "lstat"
    /\ IF OpenNoFollow
       THEN fd' = path /\ offset' = Len(Contents(path))
       ELSE UNCHANGED <<fd, offset>>
    /\ UNCHANGED <<envVars, enabled, watch, queue, batch, rotated, carry, pending, after,
                   outVars>>

(* Reset closes the descriptor.                                            *)
Reset ==
    /\ fd' = NoFile /\ offset' = 0
    /\ queue' = IF fd # writer THEN Closed(fd, queue) ELSE queue

(* Mutant: the path is compared with the inode of the registration.        *)
Stale_Registered == fd # NoFile /\ (path # watch \/ Len(data[path]) < offset)

(* The path names another file than the descriptor, or the file shrank.    *)
Stale == fd # NoFile /\ (path # fd \/ Len(data[path]) < offset)

(* lstat: nothing there, something odd, a file to go on with, another one. *)
Lstat ==
    /\ pc = "lstat"
    /\ \/ path = NoFile /\ pc' = after /\ UNCHANGED <<readVars, queue>>
       \/ path \in {Link, Dir} /\ pc' = after /\ Reset /\ carry' = <<>> /\ UNCHANGED rotated
       \/ /\ path \in File /\ Stale
          /\ Reset /\ rotated' = TRUE /\ pc' = "open" /\ UNCHANGED carry
       \/ /\ path \in File /\ ~Stale
          /\ rotated' = FALSE /\ pc' = IF fd = NoFile THEN "open" ELSE "read"
          /\ UNCHANGED <<fd, offset, carry, queue>>
    /\ UNCHANGED <<envVars, enabled, watch, batch, pending, after, outVars>>

(* Mutant: the half line of the old file is kept.                          *)
Kept_Always == carry

(* OnSourceRotated: the half line of the old file is of no use.            *)
Kept == IF rotated THEN <<>> ELSE carry

(* feed: what was read, behind the half line that waited for it.           *)
Feed(new) ==
    /\ Judge(Kept \o new)
    /\ carry' = Rest(Kept \o new)

Open ==
    /\ pc = "open"
    /\ \/ OpenNoFollow /\ fd' = path /\ pc' = "read" /\ UNCHANGED carry
          /\ UNCHANGED rotated
       \/ ~OpenNoFollow /\ carry' = Kept /\ rotated' = FALSE /\ pc' = after /\ UNCHANGED fd
    /\ UNCHANGED <<envVars, enabled, watch, queue, batch, offset, pending, after, outVars>>

(* The read loop stops at the end of the file, or when the buffer is full. *)
Read ==
    /\ pc = "read" /\ pc' = after
    /\ LET size == Len(Contents(fd))
           stop == IF offset + Batch < size THEN offset + Batch ELSE size
           new  == SubSeq(Contents(fd), offset + 1, stop)
       IN  offset' = offset + Len(new) /\ Feed(new) /\ full' = (stop < size)
    /\ rotated' = FALSE
    /\ UNCHANGED <<envVars, enabled, watch, queue, batch, fd, pending, after>>

-----------------------------------------------------------------------------
Executor ==
    \/ Start \/ Rescan \/ NothingDue \/ SyncJailEnabled \/ RetryPendingReadd
    \/ NoSignal \/ HandleSignals
    \/ ReadEvents \/ EventsDone \/ ContentChange \/ HandleRotation
    \/ OpenAtEnd \/ Lstat \/ Open \/ Read

Environment ==
    \/ \E end \in BOOLEAN : WriteBegin(end)
    \/ WriteEnd \/ Close \/ Reopen \/ Create \/ Rename \/ Unlink \/ Truncate \/ PlaceLink \/ RemoveDir \/ Toggle

Next == Executor \/ Environment

Spec == Init /\ [][Next]_vars

(* The executor's goroutine runs and its rescan timer keeps falling due.   *)
(* Nothing is asked of the writer and the rotation.                        *)
FairSpec == Spec /\ WF_vars(Executor) /\ SF_vars(Rescan)

-----------------------------------------------------------------------------
(* Properties                                                              *)

(* Every variable keeps its range, and a source that is not registered has *)
(* no reader, no half line and no events.                                  *)
TypeOK ==
    /\ path \in Node \cup {NoFile, Link}
    /\ data \in [File -> Seq(Fragment)]
    /\ unlinked \subseteq Node /\ fresh \subseteq File
    /\ writer \in File \cup {NoFile} /\ half \in Line /\ line \in Line
    /\ wish \in BOOLEAN \cup {Unset} /\ budget \in 0..MaxEvents
    /\ enabled \in BOOLEAN /\ pending \in BOOLEAN /\ rotated \in BOOLEAN
    /\ watch \in Node \cup {NoFile} /\ fd \in Node \cup {NoFile}
    /\ queue \in Seq({"content", "gone"}) /\ batch \in Seq({"content", "gone"})
    /\ offset \in Nat /\ carry \in Seq(Fragment)
    /\ pc \in {"start", "maintain", "sync", "retry", "poll", "inotify", "events",
               "seekend", "lstat", "open", "read"}
    /\ after \in {"maintain", "sync", "retry", "poll", "inotify", "events"}
    /\ judged \in [Line -> Nat] /\ spliced \in BOOLEAN /\ full \in BOOLEAN
    /\ watch = NoFile => fd = NoFile /\ carry = <<>> /\ queue = <<>> /\ batch = <<>>
    /\ fd = NoFile => offset = 0

(* No line is judged that was put together from parts of two files: the    *)
(* half line of the old file is dropped or flushed at every rotation, and  *)
(* the descriptor and the splitter never disagree about the file           *)
(* (executor.go:533-537, 625-627).  Within one file copytruncate can still *)
(* join two lines, when the file has grown past the old offset before the  *)
(* reader looks.                                                           *)
NoSplice == ~spliced

(* What is in the file before the daemon starts is never judged            *)
(* (reader.go:65).                                                         *)
HistoryNotReplayed == judged[0] = 0

(* A line is judged at most twice, whatever the rotation does while events *)
(* of the old file are under way.                                          *)
JudgedAtMostTwice == \A n \in Line : judged[n] <= 2

(* A jail that is off judges nothing (executor.go:670-717, 895-918).       *)
DisabledIsSilent == [][judged' # judged => enabled]_vars

(* The daemon gets to watch the file at the path, whichever way it came    *)
(* there, unless the file it watches was removed while it held it open:    *)
(* that one keeps its watch, and no event ever ends it.                    *)
Attached ==
    \A f \in File :
        (path = f /\ enabled)
            ~> (watch = f \/ path # f \/ ~enabled \/ watch \in unlinked)

(* No wake-up is lost: the daemon reads all of the file that it watches,   *)
(* but for what was behind a read that filled the buffer, if nothing has   *)
(* been written since (reader.go:157-160).                                 *)
CaughtUp ==
    \A f \in File :
        <>[](path = f /\ watch = f) => <>[](fd = f /\ (offset = Len(data[f]) \/ full))

-----------------------------------------------------------------------------
(* What comments and docs say and the code does not keep.                  *)

(* reader.go:157: what is behind a read that filled the buffer is read in  *)
(* the next round; but no round reads a source without an event.           *)
NextRoundReadsOn ==
    \A f \in File :
        <>[](path = f /\ watch = f) => <>[](fd = f /\ offset = Len(data[f]))

(* docs/zh/architecture/data-flow.md:182: the events of the old file make  *)
(* the daemon watch the new one, which the writer writes to.               *)
FollowsWriter ==
    \A f \in File :
        (path = f /\ writer = f /\ enabled) ~> (watch = f \/ path # f \/ ~enabled)

(* registry.go:81-82: hanging a source again does not clear its offset, so *)
(* no line comes twice.                                                    *)
JudgedAtMostOnce == \A n \in Line : judged[n] <= 1

(* executor.go:613, 704: a source that waits for its file is given up only *)
(* when it is read from the start of the file, or the jail is off.         *)
WaitingReadFromStart ==
    [][(pending /\ ~pending') => (watch' # NoFile /\ pc' = "lstat") \/ ~enabled']_vars
=============================================================================
