--------------------------- MODULE Whitelist_proofs ---------------------------
(***************************************************************************)
(* For any number of CPUs, handlers, prefixes, addresses and buckets:      *)
(* what a packet is promised while its source is protected or banned all   *)
(* the time, what fw_wl_remove has lifted when it returns, and what the    *)
(* worker has learned when it has nothing left to do.                      *)
(*                                                                         *)
(* A call reads its places one after the other.  The argument is the same  *)
(* each time: what has lasted since the call began and is of the kind that *)
(* a place holds was there when the place was read; so after each place    *)
(* the candidates that are left are of the kinds still to be read, and     *)
(* after the last place there are none.                                    *)
(***************************************************************************)
EXTENDS Whitelist, FiniteSetTheorems, TLAPS

Running(t) == pc[t] \notin {"idle", "done"}
Checking(t) == call[t] = "check" /\ Running(t)

(* Where a call can be, by its kind; the bucket index is reset behind it.  *)
ControlOK(t) ==
    /\ pc[t] \in {"unlink", "scan"} => call[t] = "remove"
    /\ pc[t] = "insert" => call[t] = "ban"
    /\ pc[t] \in {"local", "probe", "observe"} => call[t] = "check"
    /\ pc[t] \in {"bucket", "list"} => call[t] \in {"check", "ban"}
    /\ Running(t) => req[t] \in Prefix
    /\ call[t] = "check" => t \in Packet
    /\ pc[t] = "scan" => at[t] # 0
    /\ pc[t] \notin {"probe", "scan"} => at[t] = 0
    /\ t \in Packet /\ (pc[t] = "idle" \/ Checking(t)) => verdict[t] = "none"

(* The entries that a look-up of the whitelist has still to find.          *)
HeldOK(t) ==
    /\ Running(t) /\ call[t] # "remove" => held[t] \subseteq Covering(Subject(t))
    /\ pc[t] = "list" => \A p \in held[t] : ~Full(p)
    /\ pc[t] \in {"local", "probe", "observe", "insert"} => held[t] = {}

(* The local set has been read; nothing protects a source that is clear.   *)
HomeOK(t) ==
    /\ pc[t] \in {"probe", "observe"} => ~home[t]
    /\ clear[t] /\ Checking(t) => Covering(Subject(t)) = {} /\ Subject(t) \notin local

(* The bans that a probe, or a scan, has still to find.                    *)
StuckOK(t) ==
    /\ Checking(t) => \A k \in stuck[t] : k \in banned \ hidden /\ Subject(t) \in Covers[k]
    /\ pc[t] = "probe" /\ at[t] # 0 =>
          \A k \in stuck[t] : ~Full(k) /\ BucketOf[k] >= at[t]
    /\ pc[t] = "observe" => stuck[t] = {}
    /\ pc[t] = "scan" =>
          \A k \in stuck[t] : Net[k] \in Covers[req[t]] /\ BucketOf[k] >= at[t]
    /\ pc[t] = "done" /\ call[t] = "remove" => stuck[t] = {}

ThreadOK(t) == ControlOK(t) /\ HeldOK(t) /\ HomeOK(t) /\ StuckOK(t)

(* What the worker has in hand, if nothing has changed behind it.          *)
WorkerOK ==
    /\ wpc # "idle" => ~failed
    /\ wpc \in {"idle", "collect"} => rows = {}
    /\ ~queued /\ noticed /\ ~failed =>
          /\ wpc = "collect" => room = Cardinality(ifaces)
          /\ wpc # "collect" => local = ifaces

IInv == TypeOK /\ WorkerOK /\ \A t \in Thread : ThreadOK(t)

-----------------------------------------------------------------------------
(* What Observe records about one thread.                                  *)
LEMMA HistoryAt ==
    ASSUME Observe, NEW t \in Thread
    PROVE  /\ Runs(t) /\ call'[t] # "remove" =>
                 held'[t] = IF Begins(t) THEN Covering(Subject(t))' ELSE held[t] \cap Entries'
           /\ home'[t] => Subject(t)' \in local'
           /\ clear'[t] => Covering(Subject(t))' = {} /\ Subject(t)' \notin local'
           /\ Runs(t) => stuck'[t] = IF Begins(t) THEN Concerned(t)' ELSE stuck[t] \cap Lasting(t)'
           /\ call[t] = "remove" /\ ~Runs(t) => stuck'[t] \subseteq stuck[t] \cap banned'
<1>0. Lasting(t)' \subseteq banned'
    BY DEF Lasting
<1>1. held'[t] = CASE ~Runs(t) \/ call'[t] = "remove" -> {}
                   [] Begins(t) -> Covering(Subject(t))'
                   [] OTHER -> held[t] \cap Entries'
    BY DEF Observe
<1>2. home'[t] = (/\ Runs(t) /\ call'[t] = "check" /\ (Begins(t) \/ home[t])
                  /\ Subject(t)' \in local')
    BY DEF Observe
<1>3. clear'[t] = (/\ Runs(t) /\ call'[t] = "check" /\ (Begins(t) \/ clear[t])
                   /\ Covering(Subject(t))' = {} /\ Subject(t)' \notin local')
    BY DEF Observe
<1>4. stuck'[t] = CASE ~Runs(t) /\ (Begins(t) \/ call[t] # "remove") -> {}
                    [] Runs(t) /\ Begins(t) -> Concerned(t)'
                    [] OTHER -> stuck[t] \cap Lasting(t)'
    BY DEF Observe
<1> QED
    BY <1>0, <1>1, <1>2, <1>3, <1>4

(* A thread that does not move keeps its part of the invariant, whatever   *)
(* happens to the tables meanwhile.                                        *)
LEMMA Waiting ==
    ASSUME TypeOK, NEW t \in Thread, ThreadOK(t), Observe,
           pc'[t] = pc[t], req'[t] = req[t], call'[t] = call[t], at'[t] = at[t],
           t \in Packet => verdict'[t] = verdict[t]
    PROVE  ThreadOK(t)'
<1>1. ControlOK(t)'
    BY DEF ThreadOK, ControlOK, Running, Checking
<1>2. Subject(t)' = Subject(t) /\ (Runs(t) <=> Running(t)) /\ (Begins(t) <=> pc[t] \in {"idle", "unlink"})
    BY DEF Subject, Runs, Running, Begins
<1>3. HeldOK(t)'
    <2>1. Running(t) /\ call[t] # "remove" /\ pc[t] # "unlink" => held'[t] = held[t] \cap Entries'
        BY <1>2, HistoryAt DEF Running
    <2>2. pc[t] # "unlink" \/ call[t] = "remove"
        BY DEF ThreadOK, ControlOK
    <2> QED
        BY <1>2, <2>1, <2>2 DEF ThreadOK, HeldOK, ControlOK, Running, Covering, Entries
<1>4. HomeOK(t)'
    <2>1. clear'[t] => Covering(Subject(t))' = {} /\ Subject(t)' \notin local'
        BY HistoryAt
    <2>2. pc[t] \in {"probe", "observe"} => ~home'[t]
        <3>1. home'[t] => Begins(t) \/ home[t]
            BY DEF Observe
        <3> QED
            BY <1>2, <3>1 DEF ThreadOK, HomeOK
    <2> QED
        BY <2>1, <2>2 DEF HomeOK
<1>5. StuckOK(t)'
    <2>1. Running(t) /\ pc[t] # "unlink" => stuck'[t] = stuck[t] \cap Lasting(t)'
        BY <1>2, HistoryAt DEF Running
    <2>4. call[t] = "check" => Lasting(t)' = banned' \ hidden'
        BY DEF Lasting
    <2>2. pc[t] = "done" /\ call[t] = "remove" => stuck'[t] \subseteq stuck[t]
        BY <1>2, HistoryAt DEF Running
    <2>3. Checking(t) => pc[t] # "unlink"
        BY DEF ThreadOK, ControlOK, Checking
    <2> QED
        BY <1>2, <2>1, <2>2, <2>3, <2>4 DEF ThreadOK, StuckOK, Checking, Running
<1> QED
    BY <1>1, <1>3, <1>4, <1>5 DEF ThreadOK

-----------------------------------------------------------------------------
(* The thread that moves.                                                  *)

(* It goes to where, and keeps the request it works on.                    *)
Moves(t, where) ==
    /\ pc'[t] = where /\ req'[t] = req[t] /\ call'[t] = call[t]
    /\ \A u \in Thread \ {t} : pc'[u] = pc[u] /\ req'[u] = req[u] /\ call'[u] = call[u]

LEMMA GotoMoves ==
    ASSUME TypeOK, NEW t \in Thread, NEW where, Goto(t, where), UNCHANGED <<req, call>>
    PROVE  Moves(t, where)
BY DEF TypeOK, Goto, Moves

(* What a call in progress keeps of its history in a step that keeps the   *)
(* request.                                                                *)
LEMMA Continues ==
    ASSUME Observe, NEW t \in Thread, NEW where, Moves(t, where),
           pc[t] \notin {"idle", "unlink"}, where \notin {"idle", "done"}
    PROVE  /\ Subject(t)' = Subject(t)
           /\ call[t] # "remove" => held'[t] = held[t] \cap Entries'
           /\ stuck'[t] = stuck[t] \cap Lasting(t)'
           /\ Lasting(t)' = IF call[t] = "check" THEN banned' \ hidden' ELSE banned'
           /\ home'[t] => Subject(t) \in local'
           /\ clear'[t] => Covering(Subject(t))' = {} /\ Subject(t) \notin local'
<1>1. Subject(t)' = Subject(t)
    BY DEF Subject, Moves
<1>2. Runs(t) /\ ~Begins(t)
    BY DEF Runs, Begins, Moves
<1>3. Lasting(t)' = IF call[t] = "check" THEN banned' \ hidden' ELSE banned'
    BY DEF Lasting, Moves
<1> QED
    BY <1>1, <1>2, <1>3, HistoryAt DEF Moves

(* A call that ends has nothing left to keep.                              *)
LEMMA Finishes ==
    ASSUME TypeOK, NEW t \in Thread, pc'[t] \in {"idle", "done"}, at'[t] = 0,
           call'[t] = "check" => t \in Packet,
           pc'[t] = "idle" /\ t \in Packet => verdict'[t] = "none",
           pc'[t] = "done" /\ call'[t] = "remove" => stuck'[t] = {}
    PROVE  ThreadOK(t)'
BY DEF ThreadOK, ControlOK, HeldOK, HomeOK, StuckOK, Running, Checking

LEMMA Begin ==
    ASSUME TypeOK, NEW t \in Thread, ThreadOK(t), Observe, NEW p \in Prefix,
           Arrive(t, p) \/ BanCall(t, p) \/ RemoveCall(t, p)
    PROVE  ThreadOK(t)'
<1> DEFINE what == call'[t]  where == pc'[t]
<1>1. /\ req'[t] = p /\ at'[t] = 0 /\ pc[t] = "idle"
      /\ \/ where = "bucket" /\ what = "check" /\ t \in Packet
         \/ where = "bucket" /\ what = "ban"
         \/ where = "unlink" /\ what = "remove"
      /\ UNCHANGED <<verdict, banVars, wl, local>> /\ (t \in Packet => verdict[t] = "none")
    BY DEF Arrive, BanCall, RemoveCall, Enter, Goto, TypeOK, tableVars, banVars, ThreadOK, ControlOK
<1>2. Runs(t) /\ Begins(t)
    BY <1>1 DEF Runs, Begins
<1>3. ControlOK(t)'
    BY <1>1 DEF ControlOK, Running, Checking
<1>4. HeldOK(t)'
    BY <1>1, <1>2, HistoryAt DEF HeldOK
<1>5. HomeOK(t)'
    BY <1>1, <1>2, HistoryAt DEF HomeOK
<1>6. StuckOK(t)'
    <2>1. stuck'[t] = Concerned(t)'
        BY <1>2, HistoryAt
    <2> QED
        BY <1>1, <2>1 DEF StuckOK, Concerned, Lasting, Checking, banVars
<1> QED
    BY <1>3, <1>4, <1>5, <1>6 DEF ThreadOK

(* The two halves of the look-up in the whitelist.                         *)
LEMMA LookUp ==
    ASSUME TypeOK, NEW t \in Thread, ThreadOK(t), Observe,
           WlBucketMiss(t) \/ WlListMiss(t)
    PROVE  ThreadOK(t)'
<1>1. /\ at'[t] = at[t] /\ UNCHANGED <<wl, banned, hidden, local, verdict>>
      /\ Covering(Subject(t))' = Covering(Subject(t)') /\ Entries' = Entries
    BY DEF WlBucketMiss, WlListMiss, tableVars, banVars, Covering, Entries
<1>2. CASE WlBucketMiss(t)
    <2>1. Moves(t, "list") /\ pc[t] = "bucket"
        BY <1>2, GotoMoves DEF WlBucketMiss
    <2>2. \A p \in Covering(Subject(t)) : ~Full(p)
        BY <1>2 DEF WlBucketMiss
    <2>3. ControlOK(t)'
        BY <1>1, <2>1 DEF Moves, ThreadOK, ControlOK, Running, Checking
    <2>4. HeldOK(t)'
        BY <1>1, <2>1, <2>2, Continues DEF Moves, ThreadOK, ControlOK, HeldOK, Running
    <2>5. HomeOK(t)' /\ StuckOK(t)'
        BY <1>1, <2>1, Continues
        DEF Moves, ThreadOK, ControlOK, HomeOK, StuckOK, Checking, Running
    <2> QED
        BY <2>3, <2>4, <2>5 DEF ThreadOK
<1>3. CASE WlListMiss(t)
    <2>1. \/ Moves(t, "local") /\ call[t] = "check"
          \/ Moves(t, "insert") /\ call[t] = "ban"
        BY <1>3, GotoMoves DEF WlListMiss, ThreadOK, ControlOK
    <2>2. pc[t] = "list" /\ \A p \in Covering(Subject(t)) : Full(p)
        BY <1>3 DEF WlListMiss
    <2>3. held[t] = {}
        BY <2>1, <2>2 DEF ThreadOK, HeldOK, Running
    <2>4. ControlOK(t)'
        BY <1>1, <2>1, <2>2 DEF Moves, ThreadOK, ControlOK, Running, Checking
    <2>5. HeldOK(t)'
        BY <1>1, <2>1, <2>2, <2>3, Continues DEF Moves, HeldOK, Running
    <2>6. HomeOK(t)' /\ StuckOK(t)'
        BY <1>1, <2>1, <2>2, Continues
        DEF Moves, ThreadOK, ControlOK, HomeOK, StuckOK, Checking, Running
    <2> QED
        BY <2>4, <2>5, <2>6 DEF ThreadOK
<1> QED
    BY <1>2, <1>3

LEMMA Local ==
    ASSUME TypeOK, NEW t \in Thread, ThreadOK(t), Observe, LocalLookup(t)
    PROVE  ThreadOK(t)'
<1>1. /\ pc[t] = "local" /\ at'[t] = at[t] /\ at[t] = 0 /\ call[t] = "check" /\ t \in Packet
      /\ UNCHANGED <<wl, banned, hidden, local>> /\ held[t] = {}
    BY DEF LocalLookup, tableVars, banVars, ThreadOK, ControlOK, HeldOK
<1>2. CASE Subject(t) \in local
    <2>1. Moves(t, "done")
        BY <1>2, GotoMoves DEF LocalLookup
    <2> QED
        BY <1>1, <2>1, Finishes DEF Moves
<1>3. CASE Subject(t) \notin local
    <2>1. Moves(t, "probe") /\ verdict' = verdict
        BY <1>3, GotoMoves DEF LocalLookup
    <2>2. ControlOK(t)'
        BY <1>1, <2>1 DEF Moves, ThreadOK, ControlOK, Running, Checking
    <2>3. HeldOK(t)'
        BY <1>1, <2>1, Continues DEF Moves, HeldOK
    <2>4. HomeOK(t)'
        BY <1>1, <1>3, <2>1, Continues DEF Moves, HomeOK
    <2>5. StuckOK(t)'
        BY <1>1, <2>1, Continues DEF Moves, ThreadOK, StuckOK, Checking, Running
    <2> QED
        BY <2>2, <2>3, <2>4, <2>5 DEF ThreadOK
<1> QED
    BY <1>2, <1>3

(* One layer of the ban table has been probed in vain.                     *)
LEMMA Probe ==
    ASSUME TypeOK, NEW t \in Thread, ThreadOK(t), Observe, ProbeMiss(t)
    PROVE  ThreadOK(t)'
<1>1. /\ pc[t] = "probe" /\ call[t] = "check" /\ t \in Packet /\ at[t] \in 0 .. NBucket
      /\ UNCHANGED <<wl, banned, hidden, local, verdict>> /\ held[t] = {} /\ ~home[t]
      /\ Probed(t) \subseteq hidden
    BY DEF ProbeMiss, tableVars, banVars, ThreadOK, ControlOK, HeldOK, HomeOK, TypeOK
<1>2. \A k \in stuck[t] : k \in banned \ hidden /\ Subject(t) \in Covers[k]
    BY <1>1 DEF ThreadOK, StuckOK, Checking, Running
<1>3. /\ home'[t] => Begins(t) \/ home[t]
      /\ call'[t] = call[t] => ~Begins(t)
    BY <1>1 DEF Observe, Begins
<1>4. \A k \in stuck[t] : ~Full(k) /\ BucketOf[k] > at[t]
    <2> SUFFICES ASSUME NEW k \in stuck[t] PROVE ~Full(k) /\ BucketOf[k] > at[t]
        OBVIOUS
    <2>1. k \in banned \ hidden /\ Subject(t) \in Covers[k] /\ BucketOf[k] \in 1 .. NBucket
        BY <1>2, BucketAssumption DEF TypeOK, Bucket
    <2>2. CASE at[t] = 0
        BY <1>1, <2>1, <2>2 DEF Probed
    <2>3. CASE at[t] # 0
        <3>1. ~Full(k) /\ BucketOf[k] >= at[t]
            BY <1>1, <2>3 DEF ThreadOK, StuckOK
        <3>2. BucketOf[k] # at[t]
            BY <1>1, <2>1, <2>3, <3>1 DEF Probed
        <3> QED
            BY <1>1, <2>1, <3>1, <3>2
    <2> QED
        BY <2>2, <2>3
<1>5. CASE at[t] < NBucket
    <2>1. at'[t] = at[t] + 1 /\ Moves(t, "probe")
        BY <1>1, <1>5 DEF ProbeMiss, Moves, TypeOK
    <2>2. ControlOK(t)'
        BY <1>1, <2>1 DEF Moves, ThreadOK, ControlOK, Running, Checking
    <2>3. HeldOK(t)'
        BY <1>1, <2>1, Continues DEF Moves, HeldOK
    <2>4. HomeOK(t)'
        BY <1>1, <1>3, <2>1, Continues DEF Moves, HomeOK
    <2>5. \A k \in stuck[t] : ~Full(k) /\ BucketOf[k] >= at[t] + 1
        BY <1>1, <1>2, <1>4, BucketAssumption DEF Bucket, TypeOK
    <2>6. StuckOK(t)'
        BY <1>1, <1>2, <2>1, <2>5, Continues DEF Moves, StuckOK, Checking, Running
    <2> QED
        BY <2>2, <2>3, <2>4, <2>6 DEF ThreadOK
<1>6. CASE ~(at[t] < NBucket)
    <2>1. at'[t] = 0 /\ Moves(t, "observe")
        BY <1>1, <1>6, GotoMoves DEF ProbeMiss, TypeOK
    <2>2. ControlOK(t)'
        BY <1>1, <2>1 DEF Moves, ThreadOK, ControlOK, Running, Checking
    <2>3. HeldOK(t)'
        BY <1>1, <2>1, Continues DEF Moves, HeldOK
    <2>4. HomeOK(t)'
        BY <1>1, <1>3, <2>1, Continues DEF Moves, HomeOK
    <2>5. stuck[t] = {}
        BY <1>1, <1>2, <1>4, <1>6, BucketAssumption DEF Bucket, TypeOK
    <2>6. StuckOK(t)'
        BY <1>1, <2>1, <2>5, Continues DEF Moves, StuckOK, Checking, Running
    <2> QED
        BY <2>2, <2>3, <2>4, <2>6 DEF ThreadOK
<1> QED
    BY <1>5, <1>6

(* The source exceeds its limits: the hook goes on as a ban of its own.    *)
LEMMA Escalate ==
    ASSUME TypeOK, NEW t \in Thread, ThreadOK(t), Observe, Violates(t)
    PROVE  ThreadOK(t)'
<1>1. /\ pc[t] = "observe" /\ pc'[t] = "bucket" /\ call[t] = "check" /\ call'[t] = "ban"
      /\ req'[t] = req[t] /\ req[t] \in Prefix /\ at'[t] = 0 /\ wl' = wl
    BY DEF Violates, Goto, TypeOK, ThreadOK, ControlOK, Running, tableVars, banVars
<1>2. Runs(t) /\ Begins(t)
    BY <1>1 DEF Runs, Begins
<1>3. ControlOK(t)'
    BY <1>1 DEF ControlOK, Running, Checking
<1>4. HeldOK(t)'
    BY <1>1, <1>2, HistoryAt DEF HeldOK
<1>5. HomeOK(t)' /\ StuckOK(t)'
    BY <1>1 DEF HomeOK, StuckOK, Checking
<1> QED
    BY <1>3, <1>4, <1>5 DEF ThreadOK

(* fw_wl_remove: the entry, then the bans under it, bucket by bucket.      *)
LEMMA Unlink ==
    ASSUME TypeOK, NEW t \in Thread, ThreadOK(t), Observe, WlUnlink(t)
    PROVE  ThreadOK(t)'
<1>1. pc[t] = "unlink" /\ call[t] = "remove" /\ at[t] = 0 /\ banned' = banned
      /\ req[t] \in Prefix
    BY DEF WlUnlink, ThreadOK, ControlOK, Running, banVars
<1>2. CASE req[t] \in Entries
    <2>1. Moves(t, "scan") /\ at'[t] = 1
        BY <1>2, GotoMoves DEF WlUnlink, TypeOK
    <2>2. Runs(t) /\ Begins(t)
        BY <1>1, <2>1 DEF Moves, Runs, Begins
    <2>3. stuck'[t] = Concerned(t)'
        BY <2>2, HistoryAt
    <2>4. \A k \in stuck'[t] : k \in Prefix /\ Net[k] \in Covers[req[t]]
        BY <1>1, <2>1, <2>3 DEF Concerned, Lasting, Moves, TypeOK
    <2>5. \A k \in Prefix : BucketOf[k] >= 1
        BY BucketAssumption DEF Bucket
    <2>6. ControlOK(t)' /\ HeldOK(t)' /\ HomeOK(t)'
        BY <1>1, <2>1 DEF Moves, ControlOK, HeldOK, HomeOK, Running, Checking
    <2>7. StuckOK(t)'
        BY <1>1, <2>1, <2>4, <2>5 DEF Moves, StuckOK, Checking
    <2> QED
        BY <2>6, <2>7 DEF ThreadOK
<1>3. CASE req[t] \notin Entries
    <2>1. Moves(t, "done") /\ at' = at
        BY <1>3, GotoMoves DEF WlUnlink
    <2>2. stuck'[t] = {}
        BY <1>1, <2>1 DEF Moves, Observe, Runs, Begins
    <2> QED
        BY <1>1, <2>1, <2>2, Finishes DEF Moves
<1> QED
    BY <1>2, <1>3

LEMMA ScanStep ==
    ASSUME TypeOK, NEW t \in Thread, ThreadOK(t), Observe, Scan(t)
    PROVE  ThreadOK(t)'
<1>1. /\ pc[t] = "scan" /\ call[t] = "remove" /\ at[t] \in 1 .. NBucket /\ req[t] \in Prefix
      /\ banned' = banned \ {k \in banned : BucketOf[k] = at[t] /\ Net[k] \in Covers[req[t]]}
    BY DEF Scan, Bans!RemoveSome, ThreadOK, ControlOK, Running, TypeOK
<1>2. \A k \in stuck[t] : Net[k] \in Covers[req[t]] /\ BucketOf[k] >= at[t]
    BY <1>1 DEF ThreadOK, StuckOK
<1>3. \A k \in stuck[t] \cap banned' :
          Net[k] \in Covers[req[t]] /\ BucketOf[k] \in 1 .. NBucket /\ BucketOf[k] > at[t]
    BY <1>1, <1>2, BucketAssumption DEF Bucket, TypeOK
<1>4. CASE at[t] < NBucket
    <2>1. Moves(t, "scan") /\ at'[t] = at[t] + 1
        BY <1>1, <1>4 DEF Scan, Moves, TypeOK
    <2>2. \A k \in stuck'[t] : Net[k] \in Covers[req[t]] /\ BucketOf[k] >= at[t] + 1
        BY <1>1, <1>3, <2>1, Continues
    <2>3. ControlOK(t)' /\ HeldOK(t)' /\ HomeOK(t)'
        BY <1>1, <2>1 DEF Moves, ControlOK, HeldOK, HomeOK, Running, Checking
    <2>4. StuckOK(t)'
        BY <1>1, <2>1, <2>2 DEF Moves, StuckOK, Checking
    <2> QED
        BY <2>3, <2>4 DEF ThreadOK
<1>5. CASE ~(at[t] < NBucket)
    <2>1. Moves(t, "done") /\ at'[t] = 0
        BY <1>5, GotoMoves DEF Scan, TypeOK
    <2>2. stuck'[t] \subseteq stuck[t] \cap banned'
        BY <1>1, <2>1, HistoryAt DEF Moves, Runs
    <2>3. stuck'[t] = {}
        BY <1>1, <1>3, <1>5, <2>2, BucketAssumption
    <2> QED
        BY <1>1, <2>1, <2>3, Finishes DEF Moves
<1> QED
    BY <1>4, <1>5

LEMMA StepOK ==
    ASSUME TypeOK, NEW t \in Thread, ThreadOK(t), Observe, Step(t)
    PROVE  ThreadOK(t)'
<1>1. CASE WlBucketMiss(t) \/ WlListMiss(t) \/ LocalLookup(t) \/ ProbeMiss(t)
           \/ Violates(t) \/ WlUnlink(t) \/ Scan(t)
    BY <1>1, LookUp, Local, Probe, Escalate, Unlink, ScanStep
<1>2. CASE WlBucketHit(t) \/ WlListHit(t)
    <2>1. pc[t] \in {"bucket", "list"} /\ Moves(t, "done") /\ at' = at
        BY <1>2, GotoMoves DEF WlBucketHit, WlListHit, Protected
    <2> QED
        BY <2>1, Finishes DEF Moves, ThreadOK, ControlOK
<1>3. CASE ProbeHit(t)
    <2>1. pc[t] = "probe" /\ Moves(t, "done") /\ at'[t] = 0
        BY <1>3, GotoMoves DEF ProbeHit, TypeOK
    <2> QED
        BY <2>1, Finishes DEF Moves, ThreadOK, ControlOK
<1>4. CASE Conforms(t) \/ BanInsert(t) \/ BanNoInsert(t)
    <2>1. pc[t] \in {"observe", "insert"} /\ Moves(t, "done") /\ at' = at
        BY <1>4, GotoMoves DEF Conforms, BanInsert, BanNoInsert
    <2> QED
        BY <2>1, Finishes DEF Moves, ThreadOK, ControlOK
<1>5. CASE Return(t)
    <2>1. /\ pc[t] = "done" /\ pc'[t] = "idle" /\ call'[t] = "none" /\ at' = at
          /\ t \in Packet => verdict'[t] = "none"
        BY <1>5 DEF Return, Goto, TypeOK
    <2> QED
        BY <2>1, Finishes DEF ThreadOK, ControlOK
<1> QED
    BY <1>1, <1>2, <1>3, <1>4, <1>5 DEF Step

(* A step moves one thread at most.                                        *)
Still(t) ==
    /\ pc'[t] = pc[t] /\ req'[t] = req[t] /\ call'[t] = call[t] /\ at'[t] = at[t]
    /\ t \in Packet => verdict'[t] = verdict[t]

LEMMA OthersStill ==
    ASSUME TypeOK, NEW t \in Thread, NEW u \in Thread, u # t,
           \/ Step(t)
           \/ \E p \in Prefix : Arrive(t, p) \/ BanCall(t, p) \/ RemoveCall(t, p)
    PROVE  Still(u)
<1> USE DEF TypeOK, Still, Goto, Decide
<1>1. CASE \E p \in Prefix : Arrive(t, p) \/ BanCall(t, p) \/ RemoveCall(t, p)
    BY <1>1 DEF Arrive, BanCall, RemoveCall, Enter
<1>2. CASE WlBucketHit(t) \/ WlListHit(t)
    BY <1>2 DEF WlBucketHit, WlListHit, Protected
<1>3. CASE WlBucketMiss(t) \/ WlListMiss(t)
    BY <1>3 DEF WlBucketMiss, WlListMiss
<1>4. CASE LocalLookup(t)
    BY <1>4 DEF LocalLookup
<1>5. CASE ProbeHit(t) \/ ProbeMiss(t)
    BY <1>5 DEF ProbeHit, ProbeMiss
<1>6. CASE Conforms(t) \/ Violates(t)
    BY <1>6 DEF Conforms, Violates
<1>7. CASE BanInsert(t) \/ BanNoInsert(t)
    BY <1>7 DEF BanInsert, BanNoInsert
<1>8. CASE WlUnlink(t) \/ Scan(t)
    BY <1>8 DEF WlUnlink, Scan
<1>9. CASE Return(t)
    BY <1>9 DEF Return
<1> QED
    BY <1>1, <1>2, <1>3, <1>4, <1>5, <1>6, <1>7, <1>8, <1>9 DEF Step

LEMMA ThreadsStep ==
    ASSUME TypeOK, \A t \in Thread : ThreadOK(t), Next
    PROVE  \A t \in Thread : ThreadOK(t)'
<1>0. Observe
    BY DEF Next
<1>1. ASSUME NEW t \in Thread,
             \/ Step(t)
             \/ \E p \in Prefix : Arrive(t, p) \/ BanCall(t, p) \/ RemoveCall(t, p)
      PROVE  \A u \in Thread : ThreadOK(u)'
    <2>1. ThreadOK(t)'
        BY <1>0, <1>1, StepOK, Begin
    <2>2. ASSUME NEW u \in Thread, u # t PROVE ThreadOK(u)'
        <3>1. Still(u)
            BY <1>1, <2>2, OthersStill
        <3> QED
            BY <1>0, <3>1, Waiting DEF Still
    <2> QED
        BY <2>1, <2>2
<1>2. ASSUME UNCHANGED threadVars PROVE \A u \in Thread : ThreadOK(u)'
    BY <1>0, <1>2, Waiting DEF threadVars
<1>3. CASE \E p \in Prefix, d \in Device : WlAdd(p, d) \/ WlName(p, d)
    BY <1>2, <1>3 DEF WlAdd, WlName
<1>4. CASE \E k \in Prefix : BanEnds(k) \/ LayerBit(k)
    BY <1>2, <1>4 DEF BanEnds, LayerBit
<1>5. CASE Worker \/ SyncFails
    BY <1>2, <1>5 DEF Worker, SyncCount, SyncPublish, SyncNoPage, SyncRead, SyncDelete, SyncFails
<1>6. CASE Links
    BY <1>2, <1>6 DEF Links, LinkChange, AddrChange
<1> QED
    BY <1>1, <1>3, <1>4, <1>5, <1>6 DEF Next, Request

-----------------------------------------------------------------------------
(* The worker.  The rows are as many as there were addresses, so that they *)
(* hold all of them unless the interfaces have changed again; and then the *)
(* work is queued again.                                                   *)

LEMMA FiniteIfaces == TypeOK => IsFiniteSet(ifaces) /\ Cardinality(ifaces) \in Nat
<1> SUFFICES ASSUME TypeOK PROVE IsFiniteSet(ifaces) /\ Cardinality(ifaces) \in Nat
    OBVIOUS
<1>1. ifaces \subseteq Addr
    BY TopologyAssumption DEF TypeOK
<1> QED
    BY <1>1, FiniteAssumption, FS_Subset, FS_CardinalityType

LEMMA WorkerStep ==
    ASSUME TypeOK, WorkerOK, Next
    PROVE  WorkerOK'
<1> USE DEF WorkerOK
<1>1. ASSUME UNCHANGED <<local, ifaces, noticed, queued, room, rows, wpc, failed>>
      PROVE WorkerOK'
    BY <1>1
<1>2. ASSUME NEW t \in Thread, Step(t) PROVE WorkerOK'
    <2>1. UNCHANGED <<local, linkVars, queued, workerVars>>
        BY <1>2 DEF Step, WlBucketHit, WlBucketMiss, WlListHit, WlListMiss, Protected,
               LocalLookup, ProbeHit, ProbeMiss, Conforms, Violates, BanInsert,
               BanNoInsert, WlUnlink, Scan, Return, tableVars, banVars
    <2> QED
        BY <1>1, <2>1 DEF linkVars, workerVars
<1>3. CASE Request
    <2>1. UNCHANGED <<local, linkVars, queued, workerVars>>
        BY <1>3 DEF Request, Arrive, BanCall, RemoveCall, WlAdd, WlName, BanEnds, LayerBit, tableVars, banVars
    <2> QED
        BY <1>1, <2>1 DEF linkVars, workerVars
<1>4. CASE SyncCount
    BY <1>4 DEF SyncCount, linkVars
<1>5. CASE SyncFails
    BY <1>5 DEF SyncFails
<1>6. CASE SyncPublish
    <2>1. ~queued /\ noticed => room = Cardinality(ifaces)
        BY <1>6 DEF SyncPublish
    <2>2. ~queued /\ noticed => local' = ifaces
        <3> SUFFICES ASSUME ~queued, noticed PROVE local' = ifaces
            OBVIOUS
        <3>1. local' \subseteq ifaces /\ Cardinality(local') = Cardinality(ifaces)
            BY <1>6, <2>1, FiniteIfaces DEF SyncPublish, kSubset
        <3> QED
            BY <3>1, FiniteIfaces, FS_Subset
    <2> QED
        BY <1>6, <2>2 DEF SyncPublish, linkVars
<1>7. CASE SyncNoPage \/ SyncRead
    BY <1>7 DEF SyncNoPage, SyncRead, SyncEnd, tableVars, banVars, linkVars
<1>8. ASSUME NEW p \in Prefix, SyncDelete(p) PROVE WorkerOK'
    BY <1>8 DEF SyncDelete, SyncEnd, linkVars
<1>9. CASE Links
    BY <1>9 DEF Links, LinkChange, AddrChange, workerVars
<1> QED
    BY <1>2, <1>3, <1>4, <1>5, <1>6, <1>7, <1>8, <1>9 DEF Next, Worker

-----------------------------------------------------------------------------
(* Types.                                                                  *)

LEMMA EntriesFinite == IsFiniteSet(Entries) /\ Cardinality(Entries) \in Nat
BY FiniteAssumption, FS_Subset, FS_CardinalityType DEF Entries

LEMMA BansFinite == TypeOK => IsFiniteSet(banned) /\ Cardinality(banned) \in Nat
BY FiniteAssumption, FS_Subset, FS_CardinalityType DEF TypeOK

(* The whitelist stays within its limit.                                   *)
WlTyped == wl \in [Prefix -> Device \cup {Absent}] /\ Cardinality(Entries) <= MaxWl

LEMMA WlStep ==
    ASSUME TypeOK, NEW p \in Prefix,
           \/ wl' = [wl EXCEPT ![p] = Absent]
           \/ \E d \in Device : /\ wl' = [wl EXCEPT ![p] = d]
                                /\ p \in Entries \/ Cardinality(Entries) < MaxWl
    PROVE  WlTyped'
<1>1. wl' \in [Prefix -> Device \cup {Absent}]
    BY DEF TypeOK
<1>2. \A q \in Prefix \ {p} : wl'[q] = wl[q]
    BY DEF TypeOK
<1>3. CASE Entries' \subseteq Entries
    <2>1. Cardinality(Entries') <= Cardinality(Entries) /\ Cardinality(Entries') \in Nat
        BY <1>3, EntriesFinite, FS_Subset, FS_CardinalityType
    <2> QED
        BY <1>1, <2>1, EntriesFinite, BoundAssumption DEF TypeOK, WlTyped
<1>4. CASE ~(Entries' \subseteq Entries)
    <2>1. Entries' = Entries \cup {p} /\ p \notin Entries
        BY <1>2, <1>4 DEF Entries
    <2>2. Cardinality(Entries) < MaxWl
        BY <2>1 DEF Entries, TypeOK
    <2>3. Cardinality(Entries') = Cardinality(Entries) + 1
        BY <2>1, EntriesFinite, FS_AddElement
    <2> QED
        BY <1>1, <2>2, <2>3, EntriesFinite, BoundAssumption DEF WlTyped
<1> QED
    BY <1>3, <1>4

(* So does the ban table.                                                  *)
BansTyped ==
    banned \subseteq Prefix /\ Cardinality(banned) <= MaxBan /\ hidden \subseteq banned

LEMMA BanAdd ==
    ASSUME TypeOK, NEW p \in Prefix, Bans!Add(p),
           hidden' \in {hidden, hidden \cup {p}}
    PROVE  BansTyped'
<1>0. p \notin banned /\ banned' = banned \cup {p} /\ Cardinality(banned) < MaxBan
    <2>1. Bans!Cardinality(banned) = Cardinality(banned)
        BY DEF Bans!Cardinality, Cardinality
    <2> QED
        BY <2>1 DEF Bans!Add
<1>1. Cardinality(banned') = Cardinality(banned) + 1 /\ Cardinality(banned) < MaxBan
    BY <1>0, BansFinite, FS_AddElement
<1>2. MaxBan \in Nat /\ Cardinality(banned) \in Nat
    BY BansFinite, BoundAssumption
<1>3. banned' \subseteq Prefix /\ hidden' \subseteq banned'
    BY DEF Bans!Add, TypeOK
<1> QED
    BY <1>1, <1>2, <1>3 DEF BansTyped

LEMMA BanRemove ==
    ASSUME TypeOK, banned' \subseteq banned, hidden' \subseteq banned'
    PROVE  BansTyped'
<1>1. Cardinality(banned') <= Cardinality(banned) /\ Cardinality(banned') \in Nat
    BY BansFinite, FS_Subset, FS_CardinalityType
<1> QED
    BY <1>1, BansFinite, BoundAssumption DEF TypeOK, BansTyped

(* The parts of TypeOK that the threads, the history and the worker own.   *)
ThreadTyped ==
    /\ pc \in [Thread -> {"idle", "bucket", "list", "local", "probe", "observe",
                          "insert", "unlink", "scan", "done"}]
    /\ req \in [Thread -> Prefix \cup {NoPrefix}]
    /\ call \in [Thread -> {"none", "check", "ban", "remove"}]
    /\ at \in [Thread -> 0..NBucket]
    /\ verdict \in [Packet -> {"none", "accept", "drop"}]

HistoryTyped ==
    /\ held \in [Thread -> SUBSET Prefix] /\ home \in [Thread -> BOOLEAN]
    /\ stuck \in [Thread -> SUBSET Prefix] /\ clear \in [Thread -> BOOLEAN]

LinkTyped ==
    /\ local \subseteq Addr /\ ifaces \in Topology /\ noticed \in BOOLEAN
    /\ changes \in 0..MaxChange

WorkerTyped ==
    /\ queued \in BOOLEAN /\ failed \in BOOLEAN
    /\ wpc \in {"idle", "collect", "read", "delete"}
    /\ room \in 0..Cardinality(Addr)
    /\ rows \subseteq Addr /\ Cardinality(rows) <= room
    /\ page \subseteq Prefix
    /\ passes \in 0..MaxPasses

LEMMA TypeParts ==
    TypeOK <=> WlTyped /\ BansTyped /\ LinkTyped /\ ThreadTyped /\ WorkerTyped /\ HistoryTyped
BY DEF TypeOK, WlTyped, BansTyped, LinkTyped, ThreadTyped, WorkerTyped, HistoryTyped

LEMMA HistoryType ==
    ASSUME TypeOK, Observe, BansTyped'
    PROVE  HistoryTyped'
<1>1. \A t \in Thread : Covering(Subject(t))' \subseteq Prefix
    BY DEF Covering, Entries
<1>2. \A t \in Thread : Concerned(t)' \subseteq banned' /\ banned' \subseteq Prefix
    BY DEF Concerned, Lasting, BansTyped
<1>3. held' \in [Thread -> SUBSET Prefix]
    BY <1>1 DEF Observe, TypeOK
<1>4. stuck' \in [Thread -> SUBSET Prefix]
    BY <1>2 DEF Observe, TypeOK
<1>5. home' \in [Thread -> BOOLEAN] /\ clear' \in [Thread -> BOOLEAN]
    BY DEF Observe
<1> QED
    BY <1>3, <1>4, <1>5 DEF HistoryTyped

LEMMA ThreadType ==
    ASSUME TypeOK, NEW t \in Thread, ThreadOK(t),
           \/ Step(t)
           \/ \E p \in Prefix : Arrive(t, p) \/ BanCall(t, p) \/ RemoveCall(t, p)
    PROVE  ThreadTyped'
<1> USE DEF ThreadTyped, Goto, Decide, TypeOK
<1>0. 0 \in 0 .. NBucket /\ 1 \in 0 .. NBucket
    BY BucketAssumption
<1>1. CASE \E p \in Prefix : Arrive(t, p) \/ BanCall(t, p) \/ RemoveCall(t, p)
    BY <1>1 DEF Arrive, BanCall, RemoveCall, Enter
<1>2. CASE WlBucketHit(t) \/ WlListHit(t)
    BY <1>2 DEF WlBucketHit, WlListHit, Protected
<1>3. CASE WlBucketMiss(t) \/ WlListMiss(t)
    BY <1>3 DEF WlBucketMiss, WlListMiss
<1>4. CASE LocalLookup(t)
    BY <1>4 DEF LocalLookup
<1>5. CASE ProbeHit(t)
    BY <1>0, <1>5 DEF ProbeHit
<1>6. CASE ProbeMiss(t)
    <2>1. at' \in [Thread -> 0 .. NBucket]
        BY <1>0, <1>6, BucketAssumption DEF ProbeMiss
    <2> QED
        BY <1>6, <2>1 DEF ProbeMiss
<1>7. CASE Conforms(t) \/ Violates(t)
    BY <1>7 DEF Conforms, Violates
<1>8. CASE BanInsert(t) \/ BanNoInsert(t)
    BY <1>8 DEF BanInsert, BanNoInsert
<1>9. CASE WlUnlink(t)
    BY <1>0, <1>9 DEF WlUnlink
<1>10. CASE Scan(t)
    <2>1. at' \in [Thread -> 0 .. NBucket]
        BY <1>0, <1>10, BucketAssumption DEF Scan
    <2> QED
        BY <1>10, <2>1 DEF Scan
<1>11. CASE Return(t)
    BY <1>11 DEF Return
<1> QED
    BY <1>1, <1>2, <1>3, <1>4, <1>5, <1>6, <1>7, <1>8, <1>9, <1>10, <1>11 DEF Step

LEMMA StepTables ==
    ASSUME TypeOK, NEW t \in Thread, ThreadOK(t), Step(t)
    PROVE  WlTyped' /\ BansTyped'
<1>1. CASE BanInsert(t)
    <2>1. req[t] \in Prefix
        BY <1>1 DEF BanInsert, ThreadOK, ControlOK, Running
    <2> QED
        BY <1>1, <2>1, BanAdd DEF BanInsert, TypeOK, WlTyped, Entries
<1>2. CASE WlUnlink(t)
    <2>1. req[t] \in Prefix
        BY <1>2 DEF WlUnlink, ThreadOK, ControlOK, Running
    <2> QED
        BY <1>2, <2>1, WlStep, BanRemove DEF WlUnlink, TypeOK, WlTyped, Entries, banVars
<1>3. CASE Scan(t)
    BY <1>3, BanRemove DEF Scan, Bans!RemoveSome, TypeOK, WlTyped, Entries
<1>4. CASE UNCHANGED <<wl, banVars>>
    BY <1>4 DEF TypeOK, WlTyped, BansTyped, Entries, banVars
<1> QED
    BY <1>1, <1>2, <1>3, <1>4
    DEF Step, WlBucketHit, WlBucketMiss, WlListHit, WlListMiss, Protected,
        LocalLookup, ProbeHit, ProbeMiss, Conforms, Violates, BanNoInsert, Return, tableVars, banVars

(* The rows are a part of what the interfaces had, in the room for them.   *)
LEMMA WorkerType ==
    ASSUME TypeOK, WorkerOK, Worker \/ SyncFails
    PROVE  WorkerTyped' /\ LinkTyped'
<1>0. /\ Cardinality(Addr) \in Nat /\ IsFiniteSet(ifaces) /\ ifaces \subseteq Addr
      /\ Cardinality(ifaces) \in Nat /\ Cardinality(ifaces) <= Cardinality(Addr)
    <2>1. ifaces \subseteq Addr
        BY TopologyAssumption DEF TypeOK
    <2> QED
        BY <2>1, FiniteIfaces, FiniteAssumption, FS_Subset, FS_CardinalityType
<1>1. Cardinality({}) = 0 /\ 0 \in 0 .. Cardinality(Addr) /\ 0 \in 0 .. MaxPasses
    BY <1>0, FS_EmptySet, BoundAssumption
<1> USE DEF WorkerTyped, LinkTyped, tableVars, banVars, linkVars, TypeOK
<1>2. CASE SyncCount
    <2>1. room' = Cardinality(ifaces) /\ rows' = {}
        BY <1>2 DEF SyncCount, WorkerOK
    <2>2. Cardinality(rows') <= room' /\ room' \in 0 .. Cardinality(Addr) /\ rows' \subseteq Addr
        BY <1>0, <1>1, <2>1
    <2> QED
        BY <1>2, <2>2 DEF SyncCount
<1>3. CASE SyncFails
    BY <1>3 DEF SyncFails
<1>4. CASE SyncPublish
    <2>1. PICK n \in Nat : n <= room /\ rows' \in kSubset(n, ifaces)
        <3>1. room \in Nat
            BY <1>0
        <3> QED
            BY <1>0, <1>4, <3>1 DEF SyncPublish
    <2>2. rows' \subseteq ifaces /\ Cardinality(rows') <= room
        BY <2>1 DEF kSubset
    <2> QED
        BY <1>0, <1>4, <2>2 DEF SyncPublish
<1>5. CASE SyncNoPage \/ SyncRead
    <2>1. CASE SyncEnd
        BY <1>1, <1>5, <2>1 DEF SyncNoPage, SyncRead, SyncEnd
    <2>2. CASE wpc' = "delete" /\ page' \subseteq Entries /\ UNCHANGED <<room, rows, passes>>
        BY <1>5, <2>2 DEF SyncNoPage, SyncRead, Entries
    <2> QED
        BY <1>5, <2>1, <2>2 DEF SyncNoPage, SyncRead
<1>6. ASSUME NEW p \in Prefix, SyncDelete(p) PROVE WorkerTyped' /\ LinkTyped'
    <2>1. CASE SyncEnd
        BY <1>1, <1>6, <2>1 DEF SyncDelete, SyncEnd
    <2>2. CASE /\ passes + 1 < MaxPasses /\ wpc' = "read" /\ page' = {} /\ passes' = passes + 1
               /\ UNCHANGED <<room, rows>>
        <3>1. passes' \in 0 .. MaxPasses
            BY <2>2, BoundAssumption
        <3> QED
            BY <1>6, <2>2, <3>1 DEF SyncDelete
    <2>3. CASE page' = page \ {p} /\ UNCHANGED <<wpc, room, rows, passes>>
        BY <1>6, <2>3 DEF SyncDelete
    <2> QED
        BY <1>6, <2>1, <2>2, <2>3 DEF SyncDelete
<1> QED
    BY <1>2, <1>3, <1>4, <1>5, <1>6 DEF Worker

LEMMA TypeStep ==
    ASSUME IInv, Next
    PROVE  TypeOK'
<1>0. TypeOK /\ WorkerOK /\ Observe /\ \A t \in Thread : ThreadOK(t)
    BY DEF IInv, Next
<1>1. BansTyped' => HistoryTyped'
    BY <1>0, HistoryType
<1>2. WlTyped /\ BansTyped /\ LinkTyped /\ ThreadTyped /\ WorkerTyped /\ HistoryTyped
    BY <1>0, TypeParts
<1>3. \/ ~(UNCHANGED wl) \/ WlTyped'
    BY <1>2 DEF WlTyped, Entries
<1>4. \/ ~(UNCHANGED banVars) \/ BansTyped'
    BY <1>2 DEF BansTyped, banVars
<1>5. \/ ~(UNCHANGED threadVars) \/ ThreadTyped'
    BY <1>2 DEF ThreadTyped, threadVars
<1>6. \/ ~(UNCHANGED <<local, linkVars>>) \/ LinkTyped'
    BY <1>2 DEF LinkTyped, linkVars
<1>7. \/ ~(UNCHANGED <<queued, workerVars>>) \/ WorkerTyped'
    BY <1>2 DEF WorkerTyped, workerVars
<1>8. WlTyped' /\ BansTyped' /\ LinkTyped' /\ ThreadTyped' /\ WorkerTyped'
    <2>1. ASSUME NEW t \in Thread, Step(t)
          PROVE  WlTyped' /\ BansTyped' /\ LinkTyped' /\ ThreadTyped' /\ WorkerTyped'
        <3>1. UNCHANGED <<local, linkVars, queued, workerVars>>
            BY <2>1 DEF Step, WlBucketHit, WlBucketMiss, WlListHit, WlListMiss, Protected,
                   LocalLookup, ProbeHit, ProbeMiss, Conforms, Violates, BanInsert,
                   BanNoInsert, WlUnlink, Scan, Return, tableVars, banVars
        <3> QED
            BY <1>0, <1>6, <1>7, <2>1, <3>1, StepTables, ThreadType
    <2>2. ASSUME NEW t \in Thread, NEW p \in Prefix, Arrive(t, p) \/ BanCall(t, p) \/ RemoveCall(t, p)
          PROVE  WlTyped' /\ BansTyped' /\ LinkTyped' /\ ThreadTyped' /\ WorkerTyped'
        <3>1. UNCHANGED <<tableVars, linkVars, queued, workerVars>>
            BY <2>2 DEF Arrive, BanCall, RemoveCall
        <3> QED
            BY <1>0, <1>3, <1>4, <1>6, <1>7, <2>2, <3>1, ThreadType DEF tableVars, banVars
    <2>3. ASSUME NEW p \in Prefix, NEW d \in Device, WlAdd(p, d) \/ WlName(p, d)
          PROVE  WlTyped' /\ BansTyped' /\ LinkTyped' /\ ThreadTyped' /\ WorkerTyped'
        <3>1. WlTyped'
            <4>1. wl[p] = "" => p \in Entries
                BY DEF Entries, Absent
            <4> QED
                BY <1>0, <2>3, <4>1, WlStep DEF WlAdd, WlName
        <3> QED
            BY <1>4, <1>5, <1>6, <1>7, <2>3, <3>1 DEF WlAdd, WlName
    <2>4. ASSUME NEW k \in Prefix, BanEnds(k) \/ LayerBit(k)
          PROVE  WlTyped' /\ BansTyped' /\ LinkTyped' /\ ThreadTyped' /\ WorkerTyped'
        <3>1. BansTyped'
            <4>1. banned' \subseteq banned /\ hidden' \subseteq banned'
                BY <1>0, <2>4 DEF BanEnds, LayerBit, Bans!Remove, TypeOK
            <4> QED
                BY <1>0, <4>1, BanRemove
        <3> QED
            BY <1>3, <1>5, <1>6, <1>7, <2>4, <3>1 DEF BanEnds, LayerBit
    <2>5. CASE Worker \/ SyncFails
        <3>1. WorkerTyped' /\ LinkTyped'
            BY <1>0, <2>5, WorkerType
        <3>2. UNCHANGED <<banVars, threadVars>>
            BY <2>5 DEF Worker, SyncCount, SyncPublish, SyncNoPage, SyncRead, SyncDelete, SyncFails, tableVars, banVars
        <3>3. WlTyped'
            <4>1. CASE UNCHANGED wl
                BY <1>3, <4>1
            <4>2. ASSUME NEW p \in Prefix, SyncDelete(p), ~(UNCHANGED wl) PROVE WlTyped'
                <5>1. wl' = [wl EXCEPT ![p] = Absent]
                    BY <4>2 DEF SyncDelete
                <5> QED
                    BY <1>0, <5>1, WlStep
            <4> QED
                BY <2>5, <4>1, <4>2
                DEF Worker, SyncCount, SyncPublish, SyncNoPage, SyncRead, SyncFails, tableVars, banVars
        <3> QED
            BY <1>4, <1>5, <3>1, <3>2, <3>3
    <2>6. CASE Links
        <3>1. PICK S \in Topology : LinkChange(S) \/ AddrChange(S)
            BY <2>6 DEF Links
        <3>2. /\ UNCHANGED <<tableVars, threadVars, workerVars>>
              /\ ifaces' = S /\ noticed' \in BOOLEAN /\ changes' = changes + 1
              /\ changes < MaxChange /\ queued' \in {TRUE, queued}
            BY <3>1 DEF LinkChange, AddrChange
        <3>3. changes' \in 0 .. MaxChange
            BY <1>2, <3>2, BoundAssumption DEF LinkTyped
        <3>4. LinkTyped'
            BY <1>2, <3>2, <3>3 DEF LinkTyped, tableVars, banVars
        <3>5. WorkerTyped'
            BY <1>2, <3>2 DEF WorkerTyped, workerVars
        <3> QED
            BY <1>3, <1>4, <1>5, <3>2, <3>4, <3>5 DEF tableVars, banVars
    <2> QED
        BY <2>1, <2>2, <2>3, <2>4, <2>5, <2>6 DEF Next, Request
<1> QED
    BY <1>1, <1>8, TypeParts, PTL

-----------------------------------------------------------------------------
LEMMA InitHolds == Init => IInv
<1> SUFFICES ASSUME Init PROVE IInv
    OBVIOUS
<1> USE DEF Init
<1>0. /\ {MaxBan, MaxWl, MaxPasses, MaxChange} \subseteq Nat /\ Cardinality(Addr) \in Nat
      /\ 0 \in 0 .. NBucket
    BY BoundAssumption, FiniteAssumption, BucketAssumption, FS_CardinalityType
<1>1. Cardinality({}) = 0
    BY FS_EmptySet
<1>2. WlTyped /\ BansTyped
    <2>1. Entries = {}
        BY DEF Entries
    <2> QED
        BY <1>0, <1>1, <2>1 DEF WlTyped, BansTyped
<1>3. LinkTyped
    BY <1>0, TopologyAssumption DEF LinkTyped
<1>4. WorkerTyped
    <2>1. Cardinality(rows) <= room /\ room \in 0 .. Cardinality(Addr)
        BY <1>0, <1>1
    <2>2. passes \in 0 .. MaxPasses
        BY <1>0
    <2> QED
        BY <2>1, <2>2 DEF WorkerTyped
<1>5. ThreadTyped /\ HistoryTyped
    BY <1>0 DEF ThreadTyped, HistoryTyped
<1>6. WorkerOK
    BY DEF WorkerOK
<1>7. ASSUME NEW t \in Thread PROVE ThreadOK(t)
    BY DEF ThreadOK, ControlOK, HeldOK, HomeOK, StuckOK, Running, Checking
<1> QED
    BY <1>2, <1>3, <1>4, <1>5, <1>6, <1>7, TypeParts DEF IInv

LEMMA Stutter ==
    ASSUME IInv, UNCHANGED vars
    PROVE  IInv'
<1> USE DEF vars, tableVars, banVars, linkVars, threadVars, workerVars, historyVars
<1>1. TypeOK'
    BY DEF IInv, TypeOK, Entries
<1>2. WorkerOK'
    BY DEF IInv, WorkerOK
<1>3. ASSUME NEW t \in Thread PROVE ThreadOK(t)'
    BY DEF IInv, ThreadOK, ControlOK, HeldOK, HomeOK, StuckOK, Running, Checking,
           Covering, Entries, Subject
<1> QED
    BY <1>1, <1>2, <1>3 DEF IInv

(* The invariant is inductive.                                             *)
THEOREM Invariance == Spec => []IInv
<1>1. IInv /\ [Next]_vars => IInv'
    <2> SUFFICES ASSUME IInv, [Next]_vars PROVE IInv'
        OBVIOUS
    <2>1. CASE Next
        <3>1. TypeOK'
            BY <2>1, TypeStep
        <3>2. WorkerOK'
            BY <2>1, WorkerStep DEF IInv
        <3>3. \A t \in Thread : ThreadOK(t)'
            BY <2>1, ThreadsStep DEF IInv
        <3> QED
            BY <3>1, <3>2, <3>3 DEF IInv
    <2> QED
        BY <2>1, Stutter
<1> QED
    BY InitHolds, <1>1, PTL DEF Spec

(* Every variable keeps its range, and whitelist and ban table stay within *)
(* their limits, whoever adds and removes meanwhile.                       *)
THEOREM TypeCorrect == Spec => []TypeOK
<1>1. IInv => TypeOK
    BY DEF IInv
<1> QED
    BY Invariance, <1>1, PTL

(* A worker that has nothing left to do has published the addresses of the *)
(* interfaces, if the last change was an event and there was memory for it *)
(* (fw_netdev.c:120-123).                                                  *)
THEOREM EventsAreLearned == Spec => []EventIsLearned
<1>1. IInv => EventIsLearned
    BY DEF IInv, WorkerOK, EventIsLearned
<1> QED
    BY Invariance, <1>1, PTL

(* When fw_wl_remove returns, no ban that it should have lifted is left    *)
(* (fw_wl.c:241-242).                                                      *)
THEOREM BansAreLifted == Spec => []RemoveLiftsBans
<1>1. IInv => RemoveLiftsBans
    BY DEF IInv, ThreadOK, StuckOK, RemoveLiftsBans, Thread
<1> QED
    BY Invariance, <1>1, PTL

-----------------------------------------------------------------------------
(* The verdict.                                                            *)

(* A thread that decides does so in one of these steps.                    *)
LEMMA Deciding ==
    ASSUME TypeOK, NEW t \in Packet, Next, Decides(t)
    PROVE  \/ (WlBucketHit(t) \/ WlListHit(t)) /\ call[t] = "check" /\ verdict'[t] = "accept"
           \/ LocalLookup(t) /\ Subject(t) \in local /\ verdict'[t] = "accept"
           \/ ProbeHit(t) /\ verdict'[t] = "drop"
           \/ Conforms(t) /\ verdict'[t] = "accept"
           \/ Violates(t) /\ verdict'[t] = "drop"
<1> USE DEF Decides
<1>1. PICK u \in Thread : Step(u)
    <2>1. CASE Request
        BY <2>1 DEF Request, Arrive, BanCall, RemoveCall, WlAdd, WlName, BanEnds, LayerBit, threadVars
    <2>2. CASE Worker \/ SyncFails
        BY <2>2 DEF Worker, SyncCount, SyncPublish, SyncNoPage, SyncRead, SyncDelete, SyncFails, threadVars
    <2>3. CASE Links
        BY <2>3 DEF Links, LinkChange, AddrChange, threadVars
    <2> QED
        BY <2>1, <2>2, <2>3 DEF Next
<1>2. u = t
    BY <1>1, OthersStill DEF Still, Thread
<1>3. CASE WlBucketHit(t) \/ WlListHit(t)
    BY <1>3 DEF WlBucketHit, WlListHit, Protected, Decide, TypeOK
<1>4. CASE LocalLookup(t)
    BY <1>4 DEF LocalLookup, Decide, TypeOK
<1>5. CASE ProbeHit(t) \/ Conforms(t) \/ Violates(t)
    BY <1>5 DEF ProbeHit, Conforms, Violates, Decide, TypeOK
<1>6. CASE WlBucketMiss(t) \/ WlListMiss(t) \/ ProbeMiss(t) \/ BanInsert(t)
           \/ BanNoInsert(t) \/ WlUnlink(t) \/ Scan(t)
    BY <1>6 DEF WlBucketMiss, WlListMiss, ProbeMiss, BanInsert, BanNoInsert, WlUnlink, Scan
<1>7. CASE Return(t)
    BY <1>7 DEF Return
<1> QED
    BY <1>1, <1>2, <1>3, <1>4, <1>5, <1>6, <1>7 DEF Step

(* Whoever is protected all the time passes: when the hook drops, it has   *)
(* read the whitelist and the local set, and nothing that lasted from the  *)
(* beginning can have escaped it (fw_hook.c:114-118).                      *)
THEOREM ProtectionHolds == Spec => ProtectedPasses
<1>1. IInv /\ [Next]_vars =>
          [\A t \in Packet : Decides(t) /\ (held[t] # {} \/ home[t]) => verdict'[t] = "accept"]_vars
    <2> SUFFICES ASSUME IInv, Next, NEW t \in Packet, Decides(t), held[t] # {} \/ home[t]
                 PROVE  verdict'[t] = "accept"
        OBVIOUS
    <2>1. TypeOK /\ HeldOK(t) /\ HomeOK(t)
        BY DEF IInv, ThreadOK, Thread
    <2>2. ~ProbeHit(t) /\ ~Violates(t)
        BY <2>1 DEF HeldOK, HomeOK, ProbeHit, Violates
    <2> QED
        BY <2>1, <2>2, Deciding
<1> QED
    BY Invariance, <1>1, PTL DEF Spec, ProtectedPasses

(* Whoever is banned all the time, by a ban whose layer is marked all the  *)
(* time, and protected at no time, is dropped (fw_hook.c:114-121,          *)
(* fw_ban_lookup); no step misses a ban that was in sight since the packet *)
(* arrived, whatever is inserted, marked or removed beside it.             *)
THEOREM BanHolds == Spec => BannedIsDropped
<1>1. IInv /\ [Next]_vars =>
          [\A t \in Packet : Decides(t) /\ stuck[t] # {} /\ clear[t] => verdict'[t] = "drop"]_vars
    <2> SUFFICES ASSUME IInv, Next, NEW t \in Packet, Decides(t), stuck[t] # {}, clear[t]
                 PROVE  verdict'[t] = "drop"
        OBVIOUS
    <2>1. TypeOK /\ ControlOK(t) /\ HomeOK(t) /\ StuckOK(t)
        BY DEF IInv, ThreadOK, Thread
    <2>2. ~Conforms(t)
        BY <2>1 DEF StuckOK, Conforms
    <2>3. ~(LocalLookup(t) /\ Subject(t) \in local)
        BY <2>1 DEF HomeOK, ControlOK, LocalLookup, Checking, Running
    <2>4. ~((WlBucketHit(t) \/ WlListHit(t)) /\ call[t] = "check")
        BY <2>1 DEF HomeOK, WlBucketHit, WlListHit, Checking, Running
    <2> QED
        BY <2>1, <2>2, <2>3, <2>4, Deciding
<1> QED
    BY Invariance, <1>1, PTL DEF Spec, BannedIsDropped

(* A ban is added only by a call that has read the whole whitelist and     *)
(* found no entry that covered its address all the time                    *)
(* (fw_ban.c:518-529).                                                     *)
THEOREM BansSpareTheCovered == Spec => CoveredIsNotBanned
<1>1. IInv /\ [Next]_vars =>
          [\A k \in banned' \ banned :
              \E t \in Thread : pc[t] = "insert" /\ pc'[t] = "done" /\ req[t] = k /\ held[t] = {}]_vars
    <2> SUFFICES ASSUME IInv, Next, NEW k \in banned' \ banned
                 PROVE  \E t \in Thread :
                            pc[t] = "insert" /\ pc'[t] = "done" /\ req[t] = k /\ held[t] = {}
        OBVIOUS
    <2>1. PICK t \in Thread : BanInsert(t)
        <3>1. CASE Request
            BY <3>1 DEF Request, Arrive, BanCall, RemoveCall, WlAdd, WlName, BanEnds, LayerBit,
                        Bans!Remove, tableVars, banVars
        <3>2. CASE Worker \/ SyncFails
            BY <3>2 DEF Worker, SyncCount, SyncPublish, SyncNoPage, SyncRead, SyncDelete, SyncFails, tableVars, banVars
        <3>3. CASE Links
            BY <3>3 DEF Links, LinkChange, AddrChange, tableVars, banVars
        <3>4. CASE \E t \in Thread : Step(t)
            BY <3>4 DEF Step, WlBucketHit, WlBucketMiss, WlListHit, WlListMiss, Protected,
                        LocalLookup, ProbeHit, ProbeMiss, Conforms, Violates, BanNoInsert,
                        WlUnlink, Scan, Bans!RemoveSome, Return, tableVars, banVars
        <3> QED
            BY <3>1, <3>2, <3>3, <3>4 DEF Next
    <2>2. held[t] = {}
        BY <2>1 DEF BanInsert, IInv, ThreadOK, HeldOK
    <2>3. pc[t] = "insert" /\ pc'[t] = "done" /\ req[t] = k
        BY <2>1 DEF BanInsert, Bans!Add, Goto, IInv, TypeOK
    <2> QED
        BY <2>2, <2>3
<1> QED
    BY Invariance, <1>1, PTL DEF Spec, CoveredIsNotBanned
=============================================================================
