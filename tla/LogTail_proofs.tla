-------------------------- MODULE LogTail_proofs --------------------------
(***************************************************************************)
(* Proofs about LogTail, for any number of files, lines, rotations and     *)
(* changes of the configuration, and for every size of the read buffer;    *)
(* and, in the second part, about Decisions, which judges the lines that   *)
(* LogTail reads, for any number of jails, addresses and networks and for  *)
(* every capacity, window and threshold.                                   *)
(***************************************************************************)
EXTENDS LogTail, Decisions, FiniteSetTheorems, SequenceTheorems, WellFoundedInduction, TLAPS

(* Where the executor is and what it holds: a file is read only for a      *)
(* source that is registered, opened only when no descriptor is open, and  *)
(* "rotated" says so only between the look at the path and the read.       *)
ControlOK ==
    /\ half # 0 => writer # NoFile
    /\ pc \in {"seekend", "lstat", "open", "read"} => watch # NoFile
    /\ pc \in {"seekend", "open"} => fd = NoFile
    /\ pc = "read" => fd # NoFile
    /\ rotated => pc \in {"open", "read"}

Origin(s, f) == \A i \in 1 .. Len(s) : s[i].file = f

(* A file holds its own bytes; the half line is of the file that is open,  *)
(* unless a rotation has been noticed that will drop it.                   *)
WholeOK ==
    /\ \A f \in File : Origin(data[f], f)
    /\ ~rotated => Origin(carry, fd)
    /\ NoSplice

(* The line that was there before the daemon, if nobody truncated it.      *)
HadLines == data[First] # <<>> /\ data[First][1].line = 0

(* It is at the start of the first file only.  As long as the path names   *)
(* this file, no rotation is under way that would read it from the start,  *)
(* and a descriptor on it is behind the line.                              *)
HistoryOK ==
    /\ \A f \in File : \A i \in 1 .. Len(data[f]) :
          data[f][i].line = 0 => f = First /\ i = 1
    /\ \A i \in 1 .. Len(carry) : carry[i].line # 0
    /\ HistoryNotReplayed
    /\ First \notin fresh
    /\ HadLines /\ fd = First => offset \in 1 .. Len(data[First])
    /\ path = First =>
          /\ First \notin unlinked /\ ~pending
          /\ watch \in {First, NoFile} /\ fd \in {First, NoFile}
          /\ \A i \in 1 .. Len(queue) : queue[i] # "gone"
          /\ \A i \in 1 .. Len(batch) : batch[i] # "gone"
          /\ HadLines /\ watch = First /\ pc # "seekend" => fd = First

IInv == TypeOK /\ ControlOK /\ WholeOK /\ HistoryOK

Event == {"content", "gone"}
Rounds == {"maintain", "sync", "retry", "poll", "inotify", "events"}
Points == Rounds \cup {"start", "seekend", "lstat", "open", "read"}

-----------------------------------------------------------------------------
(* Numbers and sequences                                                   *)

LEMMA LeastNumber ==
    ASSUME NEW T \in SUBSET Nat, T # {}
    PROVE  \E x \in T : \A y \in T : x <= y
<1> DEFINE Below(x) == {y \in T : y <= x}
           R == StrictSubsetOrdering(Nat)
           D == {Below(x) : x \in T}
<1>1. \A x \in T : Below(x) \in FiniteSubsetsOf(Nat)
    <2> TAKE x \in T
    <2>1. Below(x) \in SUBSET Nat /\ \A y \in Below(x) : y <= x
        OBVIOUS
    <2>2. IsFiniteSet(Below(x))
        BY <2>1, FS_BoundedSetOfNaturals
    <2> QED
        BY <2>1, <2>2 DEF FiniteSubsetsOf
<1>2. D \subseteq FiniteSubsetsOf(Nat) /\ D # {}
    BY <1>1
<1>3. IsWellFoundedOn(R, FiniteSubsetsOf(Nat))
    BY FS_StrictSubsetOrderingWellFounded
<1>4. PICK S \in D : \A U \in D : ~ (<<U, S>> \in R)
    <2> HIDE DEF R, D
    <2>1. D \subseteq FiniteSubsetsOf(Nat) => \E S \in D : \A U \in D : ~ (<<U, S>> \in R)
        BY <1>2, <1>3, WFMin, Zenon
    <2> QED
        BY <1>2, <2>1
<1>5. PICK x \in T : S = Below(x)
    OBVIOUS
<1>6. \A y \in T : x <= y
    <2> SUFFICES ASSUME NEW y \in T, y < x
                 PROVE  FALSE
        OBVIOUS
    <2>0. x \in Nat /\ y \in Nat
        OBVIOUS
    <2>1. Below(y) \subseteq Below(x) /\ x \in Below(x) /\ x \notin Below(y)
        <3>1. x \in Below(x)
            BY <2>0
        <3>2. x \notin Below(y)
            BY <2>0
        <3>3. ASSUME NEW z \in Below(y) PROVE z \in Below(x)
            <4>1. z \in T /\ z \in Nat /\ z <= y
                BY <3>3
            <4> QED
                BY <4>1, <2>0
        <3> HIDE DEF Below
        <3> QED
            BY <3>1, <3>2, <3>3
    <2>2. Below(y) \in SUBSET Nat /\ Below(x) \in SUBSET Nat
        OBVIOUS
    <2>3. <<Below(y), Below(x)>> \in R
        <3> HIDE DEF Below
        <3> QED
            BY <2>1, <2>2 DEF StrictSubsetOrdering
    <2> QED
        BY <1>4, <1>5, <2>3
<1> QED
    BY <1>6

(* What Feed keeps is the end of what it was given.                        *)
LEMMA RestOf ==
    ASSUME NEW s \in Seq(Fragment)
    PROVE  \E l \in 0 .. Len(s) : Rest(s) = SubSeq(s, l + 1, Len(s))
<1> DEFINE Last(i) == i \in Ends(s) \cup {0} /\ \A j \in Ends(s) : j <= i
           Bound == {i \in 0 .. Len(s) : \A j \in Ends(s) : j <= i}
<1>1. Ends(s) \subseteq 1 .. Len(s) /\ Len(s) \in Nat
    BY DEF Ends
<1>2. Len(s) \in Bound /\ Bound \in SUBSET Nat
    BY <1>1
<1>3. PICK l \in Bound : \A y \in Bound : l <= y
    <2> HIDE DEF Bound
    <2> QED
        BY <1>2, LeastNumber
<1>4. l \in Ends(s) \cup {0}
    <2> SUFFICES ASSUME l \notin Ends(s), l # 0
                 PROVE  FALSE
        OBVIOUS
    <2>1. \A j \in Ends(s) : j <= l - 1
        BY <1>1
    <2>2. l - 1 \in Bound
        BY <2>1, <1>1
    <2> QED
        BY <2>2, <1>3
<1>5. \E i \in 0 .. Len(s) : Last(i)
    BY <1>4
<1>6. (CHOOSE i \in 0 .. Len(s) : Last(i)) \in 0 .. Len(s)
    <2> HIDE DEF Last
    <2> QED
        BY <1>5
<1>7. Rest(s) = SubSeq(s, (CHOOSE i \in 0 .. Len(s) : Last(i)) + 1, Len(s))
    BY DEF Rest
<1> HIDE DEF Last
<1> QED
    BY <1>6, <1>7

LEMMA Piece ==
    ASSUME NEW S, NEW s \in Seq(S), NEW l \in Nat, NEW h \in Nat, h <= Len(s)
    PROVE  /\ SubSeq(s, l + 1, h) \in Seq(S)
           /\ Len(SubSeq(s, l + 1, h)) = IF l < h THEN h - l ELSE 0
           /\ \A i \in 1 .. Len(SubSeq(s, l + 1, h)) :
                 SubSeq(s, l + 1, h)[i] = s[l + i] /\ l + i \in 1 .. Len(s)
    OBVIOUS

LEMMA RestIn ==
    ASSUME NEW s \in Seq(Fragment)
    PROVE  /\ Rest(s) \in Seq(Fragment)
           /\ \A i \in 1 .. Len(Rest(s)) : \E j \in 1 .. Len(s) : Rest(s)[i] = s[j]
<1>1. PICK l \in 0 .. Len(s) : Rest(s) = SubSeq(s, l + 1, Len(s))
    BY RestOf
<1>2. l \in Nat /\ Len(s) \in Nat
    OBVIOUS
<1> QED
    BY <1>1, <1>2, Piece

LEMMA QueuedIn ==
    ASSUME NEW q \in Seq(Event), NEW e \in Event
    PROVE  Queued(q, e) \in Seq(Event)
    BY DEF Queued

LEMMA ClosedIn ==
    ASSUME NEW q \in Seq(Event), NEW f
    PROVE  Closed(f, q) \in Seq(Event)
    BY QueuedIn DEF Closed, Event

-----------------------------------------------------------------------------
(* Types, and where the executor is                                        *)

(* A directory has no line, and is no file.                                *)
LEMMA Nodes ==
    /\ Dir \notin File /\ NoFile \notin Node /\ Link \notin Node /\ File \subseteq Node
    /\ Dir \in Node /\ NoFile \notin File /\ Link \notin File
    BY FileAssumption DEF Node

LEMMA ContentsIn ==
    ASSUME data \in [File -> Seq(Fragment)], NEW f
    PROVE  /\ Contents(f) \in Seq(Fragment) /\ Len(Contents(f)) \in Nat
           /\ f \in File => Contents(f) = data[f]
           /\ f \notin File => Contents(f) = <<>>
<1>1. CASE f \in File
    BY <1>1 DEF Contents
<1>2. CASE f \notin File
    BY <1>2 DEF Contents
<1> QED
    BY <1>1, <1>2

LEMMA InitHolds == Init => IInv
<1> SUFFICES ASSUME Init PROVE IInv
    OBVIOUS
<1> USE FileAssumption, BoundAssumption, UnsetAssumption DEF Init
<1> DEFINE one == <<[file |-> First, line |-> 0, end |-> TRUE]>>
<1>1. one \in Seq(Fragment) /\ Len(one) = 1 /\ one[1].file = First /\ one[1].line = 0
    BY DEF Fragment, Line
<1>2. \A f \in File : data[f] = IF f = First THEN one ELSE <<>>
    <2>1. TAKE f \in File
    <2>2. CASE f = First
        BY <2>2
    <2>3. CASE f # First
        BY <2>3
    <2> QED
        BY <2>2, <2>3
<1> HIDE DEF one
<1>3. TypeOK
    <2>1. data \in [File -> Seq(Fragment)]
        <3>1. \A f \in File : data[f] \in Seq(Fragment)
            <4> TAKE f \in File
            <4>1. <<>> \in Seq(Fragment) /\ (data[f] = one \/ data[f] = <<>>)
                BY <1>2
            <4> QED
                BY <1>1, <4>1
        <3>2. data = [f \in File |-> data[f]]
            OBVIOUS
        <3> QED
            BY <3>1, <3>2
    <2>2. /\ half \in Line /\ line \in Line /\ budget \in 0 .. MaxEvents
          /\ judged \in [Line -> Nat]
        BY DEF Line
    <2>3. queue \in Seq({"content", "gone"}) /\ batch \in Seq({"content", "gone"})
          /\ carry \in Seq(Fragment)
        OBVIOUS
    <2>4. path \in Node /\ full \in BOOLEAN
        BY Nodes
    <2> QED
        BY <2>1, <2>2, <2>3, <2>4 DEF TypeOK
<1>4. ControlOK
    BY DEF ControlOK
<1>5. WholeOK
    BY <1>1, <1>2 DEF WholeOK, Origin, NoSplice
<1>6. HistoryOK
    BY <1>1, <1>2 DEF HistoryOK, HistoryNotReplayed, HadLines, Line
<1> QED
    BY <1>3, <1>4, <1>5, <1>6 DEF IInv

(* A bounded set of positions can be counted.                              *)
LEMMA Counted ==
    ASSUME NEW s \in Seq(Fragment), NEW S \in SUBSET Ends(s)
    PROVE  Cardinality(S) \in Nat
<1>1. IsFiniteSet(1 .. Len(s))
    BY FS_Interval
<1>2. S \subseteq 1 .. Len(s)
    BY DEF Ends
<1> QED
    BY <1>1, <1>2, FS_Subset, FS_CardinalityType

LEMMA KeptIn ==
    ASSUME TypeOK, NEW new \in Seq(Fragment)
    PROVE  Kept \in Seq(Fragment) /\ Kept \o new \in Seq(Fragment)
    BY DEF TypeOK, Kept

LEMMA JudgedIn ==
    ASSUME TypeOK, NEW s \in Seq(Fragment), Judge(s)
    PROVE  judged' \in [Line -> Nat] /\ spliced' \in BOOLEAN
<1>1. \A n \in Line :
         Cardinality({i \in Ends(s) : n \in Lines(Parts(s, i))}) \in Nat
    BY Counted
<1>2. judged \in [Line -> Nat] /\ spliced \in BOOLEAN
    BY DEF TypeOK
<1>3. judged' \in [Line -> Nat]
    BY <1>1, <1>2 DEF Judge
<1>4. spliced' \in BOOLEAN
    BY <1>2 DEF Judge
<1> QED
    BY <1>3, <1>4

(* What one read returns.                                                  *)
Stop == IF offset + Batch < Len(Contents(fd)) THEN offset + Batch ELSE Len(Contents(fd))
New == SubSeq(Contents(fd), offset + 1, Stop)

LEMMA NewIn ==
    ASSUME TypeOK, fd # NoFile
    PROVE  /\ New \in Seq(Fragment) /\ fd \in Node
           /\ Len(New) \in Nat
           /\ \A i \in 1 .. Len(New) :
                 /\ fd \in File
                 /\ New[i] = data[fd][offset + i] /\ offset + i \in 1 .. Len(data[fd])
           /\ fd \in File /\ offset <= Len(data[fd]) =>
                 offset + Len(New) \in offset .. Len(data[fd])
<1>1. fd \in Node /\ offset \in Nat /\ data \in [File -> Seq(Fragment)]
    BY DEF TypeOK
<1> DEFINE c == Contents(fd)
<1>a. /\ c \in Seq(Fragment) /\ Len(c) \in Nat
      /\ fd \in File => c = data[fd]
      /\ fd \notin File => c = <<>>
    BY <1>1, ContentsIn
<1>b. Stop = (IF offset + Batch < Len(c) THEN offset + Batch ELSE Len(c))
      /\ New = SubSeq(c, offset + 1, Stop)
    BY DEF Stop, New
<1> HIDE DEF c
<1>2. Stop \in Nat /\ Stop <= Len(c)
    BY <1>1, <1>a, <1>b, BoundAssumption
<1>3. /\ New \in Seq(Fragment)
      /\ Len(New) = IF offset < Stop THEN Stop - offset ELSE 0
      /\ \A i \in 1 .. Len(New) :
            New[i] = c[offset + i] /\ offset + i \in 1 .. Len(c)
    BY <1>1, <1>2, <1>a, <1>b, Piece
<1>4. offset <= Len(c) => offset + Len(New) \in offset .. Len(c)
    BY <1>1, <1>2, <1>3, <1>a
<1>5. CASE fd \in File
    BY <1>1, <1>3, <1>4, <1>5, <1>a
<1>6. CASE fd \notin File
    <2>1. Len(c) = 0
        BY <1>6, <1>a
    <2>2. Len(New) = 0
        BY <1>1, <1>2, <1>3, <2>1
    <2> QED
        BY <1>1, <1>3, <1>6, <2>2
<1> QED
    BY <1>5, <1>6

(* The three parts of the types: what the environment has, the source and  *)
(* the executor's place, and what the pipeline was given.                  *)
FilesTyped ==
    /\ path \in Node \cup {NoFile, Link}
    /\ data \in [File -> Seq(Fragment)]
    /\ unlinked \subseteq Node /\ fresh \subseteq File
    /\ writer \in File \cup {NoFile} /\ half \in Line /\ line \in Line
    /\ wish \in BOOLEAN \cup {Unset}
    /\ half # 0 => writer # NoFile
SourceTyped ==
    /\ pending \in BOOLEAN /\ rotated \in BOOLEAN
    /\ watch \in Node \cup {NoFile} /\ fd \in Node \cup {NoFile}
    /\ queue \in Seq(Event) /\ batch \in Seq(Event)
    /\ offset \in Nat /\ carry \in Seq(Fragment)
    /\ pc \in Points /\ after \in Rounds
    /\ watch = NoFile => fd = NoFile /\ carry = <<>> /\ queue = <<>> /\ batch = <<>>
    /\ fd = NoFile => offset = 0
    /\ pc \in {"seekend", "lstat", "open", "read"} => watch # NoFile
    /\ pc \in {"seekend", "open"} => fd = NoFile
    /\ pc = "read" => fd # NoFile
    /\ rotated => pc \in {"open", "read"}
OutTyped == judged \in [Line -> Nat] /\ spliced \in BOOLEAN /\ full \in BOOLEAN
Typed == FilesTyped /\ SourceTyped /\ OutTyped /\ enabled \in BOOLEAN /\ budget \in 0 .. MaxEvents

LEMMA TypedParts == (TypeOK /\ ControlOK <=> Typed) /\ (TypeOK' /\ ControlOK' <=> Typed')
<1> USE DEF Event, Rounds, Points
<1>1. Typed => TypeOK /\ ControlOK
    BY DEF Typed, FilesTyped, SourceTyped, OutTyped, TypeOK, ControlOK
<1>2. TypeOK /\ ControlOK => Typed
    BY DEF Typed, FilesTyped, SourceTyped, OutTyped, TypeOK, ControlOK
<1>3. Typed' => TypeOK' /\ ControlOK'
    BY DEF Typed, FilesTyped, SourceTyped, OutTyped, TypeOK, ControlOK
<1>4. TypeOK' /\ ControlOK' => Typed'
    BY DEF Typed, FilesTyped, SourceTyped, OutTyped, TypeOK, ControlOK
<1> QED
    BY <1>1, <1>2, <1>3, <1>4

LEMMA FilesSame == ASSUME FilesTyped, UNCHANGED <<fsVars, wish>> PROVE FilesTyped'
    BY DEF FilesTyped, fsVars
LEMMA OutSame == ASSUME OutTyped, UNCHANGED outVars PROVE OutTyped'
    BY DEF OutTyped, outVars

(* Placing, keeping or dropping the source, whatever called for it.        *)
LEMMA ReconcileTyped ==
    ASSUME SourceTyped, NEW on \in BOOLEAN, NEW then \in Rounds, pc \in Rounds \cup {"start"},
           Reconcile(on, then)
    PROVE  SourceTyped'
<1>1. /\ <<>> \in Seq(Event) /\ <<>> \in Seq(Fragment) /\ FALSE \in BOOLEAN
      /\ NoFile \notin Node
    BY Nodes DEF Event
<1>2. CASE Drop(then) /\ pending' = FALSE
    BY <1>1, <1>2 DEF Drop, Forget, SourceTyped, Points, Rounds
<1>3. CASE pc' = then /\ UNCHANGED <<pending, watch, queue, batch, readVars, after>>
    BY <1>1, <1>3 DEF SourceTyped, readVars, Points, Rounds
<1>4. CASE /\ pending' = FALSE /\ UNCHANGED <<queue, batch, readVars>> /\ watch = NoFile
           /\ Attach(pending, then) \/ (pc' = then /\ UNCHANGED <<watch, after>>)
    BY <1>1, <1>4 DEF Attach, SourceTyped, readVars, Points, Rounds
<1> QED
    BY <1>2, <1>3, <1>4 DEF Reconcile, Registered

LEMMA Nothing == <<>> \in Seq(Event) /\ <<>> \in Seq(Fragment)
    OBVIOUS

(* Back from a read the executor is in its round.                          *)
LEMMA BackInRound ==
    ASSUME SourceTyped
    PROVE  after \in Points /\ after \notin {"seekend", "lstat", "open", "read"}
    BY DEF SourceTyped, Points, Rounds

LEMMA ExecutorTyped ==
    ASSUME Typed, Executor
    PROVE  Typed'
<1> USE FileAssumption DEF readVars, envVars, Spend
<1>0. FilesTyped /\ SourceTyped /\ OutTyped /\ enabled \in BOOLEAN /\ budget \in 0 .. MaxEvents
    BY DEF Typed
<1>a. ASSUME UNCHANGED <<envVars, outVars>>, enabled' \in BOOLEAN, SourceTyped'
      PROVE  Typed'
    BY <1>0, <1>a, FilesSame, OutSame DEF Typed
<1>1. CASE Start \/ Rescan
    <2>1. \E then \in Rounds : Reconcile(enabled, then)
        BY <1>1 DEF Start, Rescan, Rounds
    <2>2. pc \in Rounds \cup {"start"} /\ UNCHANGED <<envVars, enabled, outVars>>
        BY <1>1 DEF Start, Rescan, Rounds
    <2>3. SourceTyped'
        BY <1>0, <2>1, <2>2, ReconcileTyped
    <2> QED
        BY <1>0, <1>a, <2>2, <2>3
<1>2. CASE NothingDue \/ NoSignal \/ EventsDone
    <2>1. UNCHANGED <<envVars, enabled, outVars>>
        BY <1>2 DEF NothingDue, NoSignal, EventsDone
    <2>2. SourceTyped'
        BY <1>0, <1>2 DEF NothingDue, NoSignal, EventsDone, SourceTyped, Points, Rounds
    <2> QED
        BY <1>0, <1>a, <2>1, <2>2
<1>3. CASE SyncJailEnabled
    <2>1. UNCHANGED <<envVars, outVars>> /\ pc = "sync" /\ enabled' \in BOOLEAN
        BY <1>0, <1>3 DEF SyncJailEnabled, FilesTyped
    <2>2. CASE Reconcile(enabled', "retry")
        BY <1>0, <1>a, <2>1, <2>2, ReconcileTyped DEF Rounds
    <2>3. CASE pc' = "retry" /\ UNCHANGED <<watch, queue, batch, readVars, pending, after>>
        <3>1. SourceTyped'
            BY <1>0, <2>1, <2>3 DEF SourceTyped, Points, Rounds
        <3> QED
            BY <1>a, <2>1, <3>1
    <2> QED
        BY <1>3, <2>2, <2>3 DEF SyncJailEnabled
<1>4. CASE RetryPendingReadd
    <2>1. UNCHANGED <<envVars, enabled, outVars>>
        BY <1>4 DEF RetryPendingReadd
    <2>2. pc = "retry" /\ UNCHANGED <<queue, batch, readVars>>
        BY <1>4 DEF RetryPendingReadd
    <2>3. ASSUME watch = NoFile, Attach(TRUE, "poll"), pending' = FALSE
          PROVE  SourceTyped'
        BY <1>0, <2>2, <2>3, Nodes DEF Attach, SourceTyped, Points, Rounds
    <2>4. ASSUME pc' = "poll", UNCHANGED <<watch, after>>, pending' \in BOOLEAN
          PROVE  SourceTyped'
        BY <1>0, <2>2, <2>4 DEF SourceTyped, Points, Rounds
    <2>5. SourceTyped'
        BY <1>0, <1>4, <2>3, <2>4 DEF RetryPendingReadd, Registered, SourceTyped
    <2> QED
        BY <1>0, <1>a, <2>1, <2>5
<1>5. CASE HandleSignals
    <2>1. /\ enabled' \in BOOLEAN /\ pc = "poll" /\ budget' \in 0 .. MaxEvents
          /\ UNCHANGED <<fsVars, wish, outVars>>
        BY <1>0, <1>5, BoundAssumption DEF HandleSignals, ReloadConfig, RollbackConfig
    <2>2. ASSUME Reconcile(enabled', "poll") PROVE SourceTyped'
        BY <1>0, <2>1, <2>2, ReconcileTyped DEF Rounds
    <2>3. ASSUME UNCHANGED <<pc, watch, queue, batch, readVars, pending, after>>
          PROVE  SourceTyped'
        BY <1>0, <2>3 DEF SourceTyped
    <2>4. SourceTyped'
        BY <1>5, <2>2, <2>3 DEF HandleSignals, ReloadConfig, RollbackConfig
    <2> QED
        BY <1>0, <2>1, <2>4, FilesSame, OutSame DEF Typed
<1>6. CASE ReadEvents
    <2>1. UNCHANGED <<envVars, enabled, outVars>>
        BY <1>6 DEF ReadEvents
    <2>2. SourceTyped'
        BY <1>0, <1>6 DEF ReadEvents, SourceTyped, Points, Rounds
    <2> QED
        BY <1>0, <1>a, <2>1, <2>2
<1>7. CASE ContentChange
    <2>1. UNCHANGED <<envVars, enabled, outVars>>
        BY <1>7 DEF ContentChange
    <2>2. watch # NoFile /\ batch' \in Seq(Event) /\ ~rotated
        BY <1>0, <1>7 DEF ContentChange, SourceTyped
    <2>3. SourceTyped'
        BY <1>0, <1>7, <2>2 DEF ContentChange, SourceTyped, Points, Rounds
    <2> QED
        BY <1>0, <1>a, <2>1, <2>3
<1>8. CASE HandleRotation
    <2>1. OutTyped'
        BY <1>0, <1>8 DEF HandleRotation, Flush, OutTyped
    <2>2. UNCHANGED <<envVars, enabled>>
        BY <1>8 DEF HandleRotation
    <2>3. ASSUME Forget, Attach(TRUE, "events"), UNCHANGED pending
          PROVE  SourceTyped'
        <3>1. /\ watch' \in Node /\ fd' = NoFile /\ offset' = 0 /\ carry' = <<>> /\ rotated' = FALSE
              /\ queue' = <<>> /\ batch' = <<>> /\ pc' = "lstat" /\ after' = "events"
              /\ pending' \in BOOLEAN
            BY <1>0, <2>3, Nodes DEF Forget, Attach, SourceTyped
        <3> QED
            BY <3>1, Nothing, Nodes DEF SourceTyped, Points, Rounds
    <2>4. ASSUME pending' = TRUE, Drop("events")
          PROVE  SourceTyped'
        <3>1. /\ watch' = NoFile /\ fd' = NoFile /\ offset' = 0 /\ carry' = <<>> /\ rotated' = FALSE
              /\ queue' = <<>> /\ batch' = <<>> /\ pc' = "events" /\ after' \in Rounds
              /\ pending' \in BOOLEAN
            BY <1>0, <2>4 DEF Forget, Drop, SourceTyped
        <3> QED
            BY <3>1, Nothing, Nodes DEF SourceTyped, Points, Rounds
    <2>5. SourceTyped'
        BY <1>8, <2>3, <2>4 DEF HandleRotation
    <2> QED
        BY <1>0, <2>1, <2>2, <2>5, FilesSame DEF Typed
<1>9. CASE OpenAtEnd
    <2>1. UNCHANGED <<envVars, enabled, outVars>>
        BY <1>9 DEF OpenAtEnd
    <2>2. Len(Contents(path)) \in Nat
        BY <1>0, ContentsIn DEF FilesTyped
    <2>3. SourceTyped'
        BY <1>0, <1>9, <2>2, Nodes DEF OpenAtEnd, OpenNoFollow, SourceTyped, Points, Rounds
    <2> QED
        BY <1>0, <1>a, <2>1, <2>3
<1>10. CASE Lstat
    <2>1. UNCHANGED <<envVars, enabled, outVars>>
        BY <1>10 DEF Lstat
    <2>2. pc = "lstat" /\ UNCHANGED <<watch, batch, pending, after>> /\ watch # NoFile /\ ~rotated
        BY <1>0, <1>10 DEF Lstat, SourceTyped
    <2>3. ASSUME Reset, rotated' \in BOOLEAN, carry' \in {carry, <<>>},
                 pc' = "open" \/ (pc' = after /\ rotated' = rotated)
          PROVE  SourceTyped'
        <3>1. queue' \in Seq(Event)
            BY <1>0, <2>3, ClosedIn DEF Reset, SourceTyped
        <3> QED
            <4>1. /\ fd' = NoFile /\ offset' = 0 /\ watch' \in Node /\ watch' # NoFile
                  /\ batch' \in Seq(Event) /\ pending' \in BOOLEAN /\ after' \in Rounds
                BY <1>0, <2>2, <2>3 DEF Reset, SourceTyped
            <4>2. carry' \in Seq(Fragment)
                BY <1>0, <2>3, Nothing DEF SourceTyped
            <4>3. pc' \in Points /\ pc' # "read" /\ (rotated' => pc' \in {"open", "read"})
                BY <1>0, <2>2, <2>3, BackInRound DEF Points
            <4> QED
                BY <2>3, <3>1, <4>1, <4>2, <4>3 DEF SourceTyped
    <2>4. ASSUME UNCHANGED <<fd, offset, carry, queue>>, rotated' = FALSE,
                 pc' \in Points, pc' # "seekend", pc' = "open" => fd = NoFile, pc' = "read" => fd # NoFile
          PROVE  SourceTyped'
        BY <1>0, <2>2, <2>4 DEF SourceTyped, Points, Rounds
    <2>5. SourceTyped'
        BY <1>0, <1>10, <2>2, <2>3, <2>4 DEF Lstat, SourceTyped, Points, Rounds
    <2> QED
        BY <1>0, <1>a, <2>1, <2>5
<1>11. CASE Open
    <2>1. UNCHANGED <<envVars, enabled, outVars>>
        BY <1>11 DEF Open
    <2>2. Kept \in Seq(Fragment)
        BY <1>0 DEF Kept, SourceTyped
    <2>3. SourceTyped'
        BY <1>0, <1>11, <2>2, Nodes DEF Open, OpenNoFollow, SourceTyped, Points, Rounds
    <2> QED
        BY <1>0, <1>a, <2>1, <2>3
<1>12. CASE Read
    <2>0. TypeOK
        BY TypedParts
    <2>1. fd # NoFile /\ watch # NoFile
        BY <1>0, <1>12 DEF Read, SourceTyped
    <2>2. New \in Seq(Fragment) /\ Len(New) \in Nat
        BY <2>0, <2>1, NewIn
    <2>3. Feed(New) /\ offset' = offset + Len(New)
        BY <1>12 DEF Read, New, Stop
    <2>a. full' \in BOOLEAN
        BY <1>12 DEF Read
    <2>4. carry' \in Seq(Fragment) /\ OutTyped'
        BY <2>0, <2>2, <2>3, <2>a, KeptIn, JudgedIn, RestIn DEF Feed, OutTyped
    <2>5. /\ pc' = after /\ rotated' = FALSE
          /\ UNCHANGED <<envVars, enabled, watch, queue, batch, fd, pending, after>>
        BY <1>12 DEF Read
    <2>6. SourceTyped'
        <3>1. /\ watch' \in Node /\ fd' \in Node /\ offset' \in Nat /\ queue' \in Seq(Event)
              /\ batch' \in Seq(Event) /\ pending' \in BOOLEAN /\ after' \in Rounds
            BY <1>0, <2>1, <2>2, <2>3, <2>5 DEF SourceTyped
        <3>2. pc' \in Points /\ pc' \notin {"seekend", "lstat", "open", "read"}
            BY <1>0, <2>5, BackInRound
        <3> QED
            BY <2>1, <2>4, <2>5, <3>1, <3>2, Nodes DEF SourceTyped
    <2> QED
        BY <1>0, <2>4, <2>5, <2>6, FilesSame DEF Typed
<1> QED
    BY <1>1, <1>2, <1>3, <1>4, <1>5, <1>6, <1>7, <1>8, <1>9, <1>10, <1>11, <1>12
    DEF Executor

(* What happens outside leaves the daemon alone, but for events of a file  *)
(* under watch.                                                            *)
Untouched == <<enabled, watch, batch, readVars, pending, pc, after, judged, spliced>>

LEMMA NotifyIn ==
    ASSUME SourceTyped, NEW f \in Node, NEW e \in Event, Notify(f, e)
    PROVE  queue' \in Seq(Event) /\ (watch = NoFile => queue' = queue)
<1>1. Queued(queue, e) \in Seq(Event) /\ f # NoFile /\ queue \in Seq(Event)
    BY QueuedIn, Nodes DEF SourceTyped
<1> QED
    BY <1>1 DEF Notify

LEMMA EnvironmentTouches ==
    ASSUME Typed, Environment
    PROVE  /\ UNCHANGED Untouched
           /\ queue' \in Seq(Event) /\ (watch = NoFile => queue' = queue)
<1>0. FilesTyped /\ SourceTyped
    BY DEF Typed
<1>1. UNCHANGED Untouched
    BY DEF Environment, WriteBegin, WriteEnd, Write, Close, Reopen, Create, Rename, Unlink,
           Truncate, PlaceLink, RemoveDir, Toggle, Untouched, outVars
<1>2. queue \in Seq(Event) /\ "content" \in Event /\ "gone" \in Event /\ NoFile \notin File
    BY <1>0, Nodes DEF SourceTyped, Event
<1>q. \A q \in Seq(Event), e \in Event : Queued(q, e) \in Seq(Event)
    BY QueuedIn
<1>3. CASE \/ \E end \in BOOLEAN : WriteBegin(end)
           \/ WriteEnd
    <2>1. writer \in File /\ Notify(writer, "content")
        BY <1>0, <1>3 DEF FilesTyped, WriteBegin, WriteEnd, Write
    <2> QED
        BY <1>0, <1>1, <1>2, <2>1, NotifyIn, Nodes
<1>4. CASE Close
    <2> DEFINE q == IF watch = writer THEN Queued(queue, "content") ELSE queue
    <2>1. writer \in File /\ (queue' = q \/ queue' = Closed(writer, q))
        BY <1>0, <1>4 DEF Close, FilesTyped
    <2>2. q \in Seq(Event) /\ (watch = NoFile => q = queue)
        BY <1>2, <1>q, <2>1
    <2>3. Closed(writer, q) \in Seq(Event) /\ (watch = NoFile => Closed(writer, q) = q)
        <3> HIDE DEF q
        <3>1. Closed(writer, q) \in Seq(Event)
            BY <2>2, ClosedIn
        <3> QED
            BY <3>1, <2>1, <1>2 DEF Closed
    <2> QED
        BY <1>1, <2>1, <2>2, <2>3
<1>5. CASE Rename \/ Truncate
    <2>1. path \in Node /\ \E e \in Event : Notify(path, e)
        BY <1>2, <1>5, Nodes DEF Rename, Truncate
    <2> QED
        BY <1>0, <1>1, <2>1, NotifyIn
<1>6. CASE Unlink
    <2> DEFINE q == IF path = watch THEN Queued(queue, "content") ELSE queue
    <2>1. path \in File
          /\ queue' = IF path = watch /\ path \notin {writer, fd} THEN Queued(q, "gone") ELSE q
        BY <1>6 DEF Unlink
    <2>2. q \in Seq(Event) /\ (watch = NoFile => q = queue)
        BY <1>2, <1>q, <2>1
    <2> HIDE DEF q
    <2> QED
        BY <1>1, <1>2, <1>q, <2>1, <2>2
<1>7. CASE Reopen \/ Create \/ PlaceLink \/ Toggle
    <2>1. queue' = queue
        BY <1>7 DEF Reopen, Create, PlaceLink, Toggle, fsVars
    <2> QED
        BY <1>1, <1>2, <2>1
<1>8. CASE RemoveDir
    <2>1. queue' = queue \/ Notify(Dir, "gone")
        BY <1>8 DEF RemoveDir
    <2> QED
        BY <1>0, <1>1, <1>2, <2>1, NotifyIn, Nodes
<1> QED
    BY <1>3, <1>4, <1>5, <1>6, <1>7, <1>8 DEF Environment

(* A write appends one fragment of the writer's file.                      *)
LEMMA WriteAppends ==
    ASSUME FilesTyped, NEW n \in Line, NEW end \in BOOLEAN, writer \in File, Write(n, end)
    PROVE  /\ data' \in [File -> Seq(Fragment)]
           /\ \A f \in File \ {writer} : data'[f] = data[f]
           /\ data'[writer] = Append(data[writer], [file |-> writer, line |-> n, end |-> end])
<1>1. [file |-> writer, line |-> n, end |-> end] \in Fragment
    BY DEF Fragment
<1>2. data[writer] \in Seq(Fragment) /\ data \in [File -> Seq(Fragment)]
    BY DEF FilesTyped
<1>3. Append(data[writer], [file |-> writer, line |-> n, end |-> end]) \in Seq(Fragment)
    BY <1>1, <1>2
<1> QED
    BY <1>2, <1>3 DEF Write

LEMMA EnvironmentTyped ==
    ASSUME Typed, Environment
    PROVE  Typed'
<1>0. FilesTyped /\ SourceTyped /\ OutTyped /\ budget \in 0 .. MaxEvents /\ MaxEvents \in Nat
    BY BoundAssumption DEF Typed
<1>a. full' \in BOOLEAN
    BY <1>0 DEF Environment, WriteBegin, WriteEnd, Write, Close, Reopen, Create, Rename, Unlink,
           Truncate, PlaceLink, RemoveDir, Toggle, OutTyped, outVars
<1>1. SourceTyped' /\ OutTyped' /\ enabled' \in BOOLEAN
    BY <1>0, <1>a, EnvironmentTouches DEF Untouched, SourceTyped, OutTyped, Typed, readVars, outVars
<1>2. budget' \in 0 .. MaxEvents
    <2>1. budget' = budget \/ (budget > 0 /\ budget' = budget - 1)
        BY DEF Environment, WriteBegin, WriteEnd, Write, Close, Reopen, Create, Rename, Unlink,
               Truncate, PlaceLink, RemoveDir, Toggle, Spend
    <2> QED
        BY <1>0, <2>1
<1>3. FilesTyped'
    <2>1. ASSUME NEW end \in BOOLEAN, WriteBegin(end) PROVE FilesTyped'
        <3>1. /\ line + 1 \in Line /\ 0 \in Line /\ writer \in File /\ Write(line + 1, end)
              /\ half' \in {0, line + 1} /\ line' = line + 1
            BY <1>0, <2>1, BoundAssumption DEF WriteBegin, FilesTyped, Line
        <3>2. data' \in [File -> Seq(Fragment)]
            BY <1>0, <2>1, <3>1, WriteAppends
        <3>3. UNCHANGED <<path, unlinked, fresh, writer, wish>>
            BY <3>1 DEF Write
        <3> QED
            BY <1>0, <3>1, <3>2, <3>3, FileAssumption DEF FilesTyped
    <2>2. CASE WriteEnd
        <3>1. half \in Line /\ writer \in File /\ Write(half, TRUE) /\ half' = 0 /\ line' = line
            BY <1>0, <2>2 DEF WriteEnd, FilesTyped
        <3>2. data' \in [File -> Seq(Fragment)]
            BY <1>0, <3>1, WriteAppends
        <3>3. UNCHANGED <<path, unlinked, fresh, writer, wish>>
            BY <3>1 DEF Write
        <3>4. 0 \in Line
            BY BoundAssumption DEF Line
        <3> QED
            BY <1>0, <3>1, <3>2, <3>3, <3>4 DEF FilesTyped
    <2>3. CASE Close \/ Reopen
        BY <1>0, <2>3 DEF Close, Reopen, FilesTyped
    <2>4. CASE Create \/ Rename \/ Unlink \/ PlaceLink \/ RemoveDir
        BY <1>0, <2>4, Nodes DEF Create, Rename, Unlink, PlaceLink, RemoveDir, Spend, FilesTyped
    <2>5. CASE Truncate
        <3>1. path \in File /\ data' = [data EXCEPT ![path] = <<>>]
              /\ UNCHANGED <<path, unlinked, fresh, writer, half, line, wish>>
            BY <2>5 DEF Truncate
        <3>2. data' \in [File -> Seq(Fragment)]
            BY <1>0, <3>1, Nothing DEF FilesTyped
        <3> QED
            BY <1>0, <3>1, <3>2 DEF FilesTyped
    <2>6. CASE Toggle
        BY <1>0, <2>6 DEF Toggle, FilesTyped, fsVars
    <2> QED
        BY <2>1, <2>2, <2>3, <2>4, <2>5, <2>6 DEF Environment
<1> QED
    BY <1>0, <1>1, <1>2, <1>3 DEF Typed

LEMMA TypeStep ==
    ASSUME TypeOK, ControlOK, [Next]_vars
    PROVE  TypeOK' /\ ControlOK'
<1>1. Typed
    BY TypedParts
<1>2. CASE Next
    BY <1>1, <1>2, ExecutorTyped, EnvironmentTyped, TypedParts DEF Next
<1>3. CASE UNCHANGED vars
    BY <1>1, <1>3, TypedParts
    DEF vars, envVars, fsVars, readVars, outVars, Typed, FilesTyped, SourceTyped, OutTyped
<1> QED
    BY <1>2, <1>3

-----------------------------------------------------------------------------
(* What a step does to the files                                           *)

(* A file grows by one fragment of its own that is no part of line 0, is   *)
(* emptied, or stays.                                                      *)
Grows(f) ==
    \/ data'[f] = <<>>
    \/ /\ Len(data[f]) <= Len(data'[f])
       /\ \A i \in 1 .. Len(data'[f]) :
             IF i <= Len(data[f]) THEN data'[f][i] = data[f][i]
             ELSE data'[f][i].file = f /\ data'[f][i].line # 0

LEMMA FilesGrow ==
    ASSUME Typed, Next, NEW f \in File
    PROVE  Grows(f)
<1>0. FilesTyped /\ data[f] \in Seq(Fragment) /\ data \in [File -> Seq(Fragment)]
    BY DEF Typed, FilesTyped
<1>1. ASSUME data'[f] = data[f] PROVE Grows(f)
    BY <1>0, <1>1 DEF Grows
<1>2. ASSUME NEW n \in Line, n # 0, NEW end \in BOOLEAN, writer \in File, Write(n, end)
      PROVE  Grows(f)
    <2>1. CASE f # writer
        <3>1. data'[f] = data[f]
            BY <1>0, <1>2, <2>1, WriteAppends
        <3> QED
            BY <1>1, <3>1
    <2>2. CASE f = writer
        <3> DEFINE new == [file |-> f, line |-> n, end |-> end]
        <3>1. data'[f] = Append(data[f], new)
            BY <1>0, <1>2, <2>2, WriteAppends
        <3>2. new \in Fragment /\ new.file = f /\ new.line # 0
            BY <1>2 DEF Fragment
        <3>3. /\ Len(data'[f]) = Len(data[f]) + 1
              /\ \A i \in 1 .. Len(data'[f]) :
                    data'[f][i] = IF i <= Len(data[f]) THEN data[f][i] ELSE new
            <4> HIDE DEF new
            <4> QED
                BY <1>0, <3>1, <3>2
        <3> HIDE DEF new
        <3>4. Len(data[f]) \in Nat
            BY <1>0
        <3> QED
            BY <3>2, <3>3, <3>4 DEF Grows
    <2> QED
        BY <2>1, <2>2
<1>3. CASE \E end \in BOOLEAN : WriteBegin(end)
    <2>1. PICK end \in BOOLEAN : WriteBegin(end)
        BY <1>3
    <2>2. line + 1 \in Line /\ line + 1 # 0 /\ writer \in File /\ Write(line + 1, end)
        BY <1>0, <2>1, BoundAssumption DEF WriteBegin, FilesTyped, Line
    <2> QED
        BY <1>2, <2>2
<1>4. CASE WriteEnd
    <2>1. half \in Line /\ half # 0 /\ writer \in File /\ Write(half, TRUE)
        BY <1>0, <1>4 DEF WriteEnd, FilesTyped
    <2> QED
        BY <1>2, <2>1
<1>5. CASE Truncate
    <2>1. data'[f] = data[f] \/ data'[f] = <<>>
        BY <1>0, <1>5 DEF Truncate
    <2> QED
        BY <1>0, <2>1 DEF Grows
<1>6. CASE Close \/ Reopen \/ Create \/ Rename \/ Unlink \/ PlaceLink \/ RemoveDir \/ Toggle \/ Executor
    <2>1. data' = data
        BY <1>6 DEF Close, Reopen, Create, Rename, Unlink, PlaceLink, RemoveDir, Toggle, Executor, Start, Rescan,
                    NothingDue, SyncJailEnabled, RetryPendingReadd, NoSignal, HandleSignals,
                    ReloadConfig, RollbackConfig, ReadEvents, EventsDone, ContentChange,
                    HandleRotation, OpenAtEnd, Lstat, Open, Read, envVars, fsVars
    <2> QED
        BY <1>1, <2>1
<1> QED
    BY <1>3, <1>4, <1>5, <1>6 DEF Next, Environment

-----------------------------------------------------------------------------
(* Lines are of one file                                                   *)

LEMMA PartsWhole ==
    ASSUME NEW s \in Seq(Fragment), NEW g, Origin(s, g), NEW i \in 1 .. Len(s)
    PROVE  ~OfTwoFiles(Parts(s, i))
    BY DEF Origin, OfTwoFiles, Parts

LEMMA JudgeWhole ==
    ASSUME NEW s \in Seq(Fragment), NEW g, Origin(s, g), spliced \in BOOLEAN, ~spliced, Judge(s)
    PROVE  ~spliced'
<1>1. \A i \in Ends(s) : ~OfTwoFiles(Parts(s, i))
    BY PartsWhole DEF Ends
<1> QED
    BY <1>1 DEF Judge

LEMMA RestWhole ==
    ASSUME NEW s \in Seq(Fragment), NEW g, Origin(s, g)
    PROVE  Origin(Rest(s), g)
    BY RestIn DEF Origin

LEMMA JoinWhole ==
    ASSUME NEW s \in Seq(Fragment), NEW t \in Seq(Fragment), NEW g, Origin(s, g), Origin(t, g)
    PROVE  Origin(s \o t, g)
<1> SUFFICES ASSUME NEW i \in 1 .. Len(s \o t) PROVE (s \o t)[i].file = g
    BY DEF Origin
<1>1. CASE i <= Len(s)
    BY <1>1 DEF Origin
<1>2. CASE i > Len(s)
    <2>1. i - Len(s) \in 1 .. Len(t) /\ (s \o t)[i] = t[i - Len(s)]
        BY <1>2
    <2> QED
        BY <2>1 DEF Origin
<1> QED
    BY <1>1, <1>2

(* Nothing can wait for a file that is not open.                           *)
LEMMA NoneWithoutFile ==
    ASSUME SourceTyped, fd = NoFile, Origin(carry, fd)
    PROVE  carry = <<>>
<1>1. \A i \in 1 .. Len(carry) : carry[i].file \in File
    <2>1. TAKE i \in 1 .. Len(carry)
    <2>2. carry[i] \in Fragment
        BY DEF SourceTyped
    <2> QED
        BY <2>2 DEF Fragment
<1>2. carry \in Seq(Fragment) /\ \A i \in 1 .. Len(carry) : carry[i].file \notin File
    BY FileAssumption DEF Origin, SourceTyped
<1>3. ~(1 \in 1 .. Len(carry))
    BY <1>1, <1>2
<1> QED
    BY <1>2, <1>3

LEMMA WholeStep ==
    ASSUME TypeOK, ControlOK, WholeOK, Next
    PROVE  WholeOK'
<1>0. /\ Typed /\ FilesTyped /\ SourceTyped /\ OutTyped /\ ~spliced
      /\ ~rotated => Origin(carry, fd)
    BY TypedParts DEF Typed, WholeOK, NoSplice
<1>1. \A f \in File : Origin(data'[f], f)
    <2> TAKE f \in File
    <2>1. Origin(data[f], f) /\ data[f] \in Seq(Fragment) /\ Grows(f)
        BY <1>0, FilesGrow DEF WholeOK, FilesTyped
    <2> QED
        BY <2>1 DEF Grows, Origin
<1>a. ASSUME UNCHANGED <<carry, fd, rotated, spliced>> PROVE WholeOK'
    BY <1>0, <1>1, <1>a DEF WholeOK, NoSplice
<1>b. ASSUME carry' = <<>>, ~spliced' PROVE WholeOK'
    BY <1>1, <1>b DEF WholeOK, NoSplice, Origin
<1>2. CASE Environment
    BY <1>0, <1>2, <1>a, EnvironmentTouches DEF Untouched, readVars, outVars
<1>3. CASE \/ NothingDue \/ NoSignal \/ EventsDone \/ RetryPendingReadd \/ RollbackConfig
           \/ ReadEvents \/ ContentChange
    <2>1. UNCHANGED <<readVars, outVars>>
        BY <1>3 DEF NothingDue, NoSignal, EventsDone, RetryPendingReadd, RollbackConfig, ReadEvents,
                    ContentChange
    <2> QED
        BY <1>a, <2>1 DEF readVars, outVars
<1>4. CASE Start \/ Rescan \/ SyncJailEnabled \/ ReloadConfig
    <2>1. carry' = <<>> \/ UNCHANGED <<carry, fd, rotated>>
        BY <1>4 DEF Start, Rescan, SyncJailEnabled, ReloadConfig, Reconcile, Drop, Forget, readVars
    <2>2. spliced' = spliced
        BY <1>4 DEF Start, Rescan, SyncJailEnabled, ReloadConfig, outVars
    <2> QED
        BY <1>0, <1>a, <1>b, <2>1, <2>2
<1>5. CASE HandleRotation
    <2>1. ~rotated /\ Flush /\ carry' = <<>>
        BY <1>0, <1>5 DEF HandleRotation, Drop, Forget, SourceTyped
    <2>2. ~OfTwoFiles({carry[i] : i \in 1 .. Len(carry)})
        BY <1>0, <2>1 DEF Origin, OfTwoFiles
    <2> QED
        BY <1>0, <1>b, <2>1, <2>2 DEF Flush
<1>6. CASE OpenAtEnd
    <2>1. fd = NoFile /\ ~rotated /\ UNCHANGED <<carry, rotated, spliced>>
        BY <1>0, <1>6 DEF OpenAtEnd, SourceTyped, outVars
    <2>2. carry' = <<>>
        BY <1>0, <2>1, NoneWithoutFile
    <2> QED
        BY <1>0, <1>b, <2>1, <2>2
<1>7. CASE Lstat
    <2>1. spliced' = spliced
        BY <1>7 DEF Lstat, outVars
    <2>2. \/ carry' = <<>>
          \/ rotated'
          \/ carry' = carry /\ fd' = fd /\ ~rotated' /\ ~rotated
        BY <1>0, <1>7 DEF Lstat, SourceTyped, readVars
    <2>3. CASE rotated'
        BY <1>0, <1>1, <2>1, <2>3 DEF WholeOK, NoSplice
    <2> QED
        BY <1>0, <1>1, <1>b, <2>1, <2>2, <2>3 DEF WholeOK, NoSplice
<1>8. CASE Open
    <2>1. spliced' = spliced /\ fd = NoFile
        BY <1>0, <1>8 DEF Open, outVars, SourceTyped
    <2>2. CASE rotated'
        BY <1>0, <1>1, <2>1, <2>2 DEF WholeOK, NoSplice
    <2>3. CASE ~rotated'
        <3>1. rotated \/ carry = <<>>
            BY <1>0, <2>1, NoneWithoutFile
        <3>2. carry' = <<>>
            BY <1>8, <2>3, <3>1 DEF Open, Kept
        <3> QED
            BY <1>0, <1>b, <2>1, <3>2
    <2> QED
        BY <2>2, <2>3
<1>9. CASE Read
    <2>1. fd # NoFile /\ Feed(New) /\ fd' = fd
        BY <1>0, <1>9 DEF Read, New, Stop, SourceTyped
    <2>2. New \in Seq(Fragment) /\ Origin(New, fd)
        <3>1. TypeOK /\ \A f \in File : Origin(data[f], f)
            BY <1>1 DEF WholeOK
        <3> QED
            BY <2>1, <3>1, NewIn DEF Origin
    <2>3. Kept \in Seq(Fragment) /\ Kept \o New \in Seq(Fragment) /\ Origin(Kept, fd)
        <3>1. Origin(Kept, fd)
            BY <1>0 DEF Kept, Origin
        <3> QED
            BY <2>2, <3>1, KeptIn
    <2>4. Origin(Kept \o New, fd)
        BY <2>2, <2>3, JoinWhole
    <2>5. Origin(carry', fd') /\ ~spliced'
        BY <1>0, <2>1, <2>3, <2>4, RestWhole, JudgeWhole DEF Feed, OutTyped
    <2> QED
        BY <1>1, <2>5 DEF WholeOK, NoSplice
<1> QED
    BY <1>2, <1>3, <1>4, <1>5, <1>6, <1>7, <1>8, <1>9 DEF Next, Executor, HandleSignals

-----------------------------------------------------------------------------
(* The line from before the daemon                                         *)

Later(s) == \A i \in 1 .. Len(s) : s[i].line # 0
Quiet(q) == \A i \in 1 .. Len(q) : q[i] # "gone"

LEMMA JudgeLater ==
    ASSUME NEW s \in Seq(Fragment), Later(s), OutTyped, judged[0] = 0, Judge(s)
    PROVE  judged'[0] = 0
<1>1. {i \in Ends(s) : 0 \in Lines(Parts(s, i))} = {}
    BY DEF Ends, Lines, Parts, Later
<1>2. 0 \in Line /\ Cardinality({}) = 0
    BY BoundAssumption, FS_EmptySet DEF Line
<1>3. judged'[0] = judged[0] + Cardinality({i \in Ends(s) : 0 \in Lines(Parts(s, i))})
    BY <1>2 DEF Judge
<1>4. Cardinality({i \in Ends(s) : 0 \in Lines(Parts(s, i))}) = 0
    BY <1>1, <1>2, Zenon
<1> QED
    BY <1>3, <1>4

LEMMA RestLater ==
    ASSUME NEW s \in Seq(Fragment), Later(s)
    PROVE  Later(Rest(s))
    BY RestIn DEF Later

LEMMA JoinLater ==
    ASSUME NEW s \in Seq(Fragment), NEW t \in Seq(Fragment), Later(s), Later(t)
    PROVE  Later(s \o t)
<1> SUFFICES ASSUME NEW i \in 1 .. Len(s \o t) PROVE (s \o t)[i].line # 0
    BY DEF Later
<1>1. CASE i <= Len(s)
    BY <1>1 DEF Later
<1>2. CASE i > Len(s)
    <2>1. i - Len(s) \in 1 .. Len(t) /\ (s \o t)[i] = t[i - Len(s)]
        BY <1>2
    <2> QED
        BY <2>1 DEF Later
<1> QED
    BY <1>1, <1>2

LEMMA QuietQueued ==
    ASSUME NEW q \in Seq(Event), Quiet(q)
    PROVE  Quiet(Queued(q, "content"))
    BY DEF Quiet, Queued, Event

(* The parts of the invariant: what the daemon holds, and what is true as  *)
(* long as the path names the first file.                                  *)
DataOK ==
    \A f \in File : \A i \in 1 .. Len(data[f]) : data[f][i].line = 0 => f = First /\ i = 1
ReaderOK == HadLines /\ fd = First => offset \in 1 .. Len(data[First])
FirstOK ==
    path = First =>
        /\ First \notin unlinked /\ ~pending
        /\ watch \in {First, NoFile} /\ fd \in {First, NoFile}
        /\ Quiet(queue) /\ Quiet(batch)
        /\ HadLines /\ watch = First /\ pc # "seekend" => fd = First
History == DataOK /\ Later(carry) /\ judged[0] = 0 /\ First \notin fresh /\ ReaderOK /\ FirstOK

LEMMA HistoryParts == (HistoryOK <=> History) /\ (HistoryOK' <=> History')
    BY DEF HistoryOK, History, DataOK, ReaderOK, FirstOK, Later, Quiet, HistoryNotReplayed

LEMMA DataStep ==
    ASSUME Typed, DataOK, Next
    PROVE  DataOK' /\ (HadLines' => HadLines /\ Len(data[First]) <= Len(data'[First]))
<1>0. \A f \in File : data[f] \in Seq(Fragment) /\ Grows(f)
    BY FilesGrow DEF Typed, FilesTyped
<1>t. \A f \in File : data'[f] \in Seq(Fragment)
    BY ExecutorTyped, EnvironmentTyped DEF Next, Typed, FilesTyped
<1>1. DataOK'
    <2> SUFFICES ASSUME NEW f \in File, NEW i \in 1 .. Len(data'[f]), data'[f][i].line = 0
                 PROVE  f = First /\ i = 1
        BY DEF DataOK
    <2>1. i <= Len(data[f]) /\ data'[f][i] = data[f][i]
        BY <1>0 DEF Grows
    <2> QED
        BY <1>0, <2>1 DEF DataOK
<1>2. ASSUME HadLines' PROVE HadLines /\ Len(data[First]) <= Len(data'[First])
    <2>1. First \in File /\ Grows(First) /\ 1 \in 1 .. Len(data'[First])
        BY <1>0, <1>t, <1>2, FileAssumption DEF HadLines
    <2>2. 1 <= Len(data[First]) /\ data'[First][1] = data[First][1]
        BY <1>0, <1>2, <2>1 DEF Grows, HadLines
    <2>3. Len(data[First]) <= Len(data'[First])
        BY <2>1 DEF Grows
    <2> QED
        BY <1>0, <1>2, <2>1, <2>2, <2>3 DEF HadLines
<1> QED
    BY <1>1, <1>2

LEMMA ExecutorLeavesFiles == ASSUME Executor PROVE UNCHANGED fsVars
    BY DEF Executor, Start, Rescan, NothingDue, SyncJailEnabled, RetryPendingReadd, NoSignal,
           HandleSignals, ReloadConfig, RollbackConfig, ReadEvents, EventsDone, ContentChange,
           HandleRotation, OpenAtEnd, Lstat, Open, Read, envVars, fsVars

LEMMA EnvironmentHistory ==
    ASSUME Typed, History, Environment
    PROVE  History'
<1>0. /\ FilesTyped /\ SourceTyped /\ First \in File /\ First # NoFile
      /\ DataOK' /\ (HadLines' => HadLines /\ Len(data[First]) <= Len(data'[First]))
    BY DataStep, FileAssumption DEF Typed, History, Next
<1>1. /\ UNCHANGED <<watch, batch, fd, offset, carry, pending, pc, judged>>
      /\ Len(data[First]) \in Nat
    BY <1>0, EnvironmentTouches DEF Untouched, readVars, outVars, FilesTyped
<1>2. Later(carry') /\ judged'[0] = 0
    BY <1>1 DEF History
<1>3. First \notin fresh'
    BY DEF Environment, WriteBegin, WriteEnd, Write, Close, Reopen, Create, Rename, Unlink, Truncate,
           PlaceLink, RemoveDir, Toggle, fsVars, History
<1>4. Len(data'[First]) \in Nat
    BY <1>0, EnvironmentTyped DEF Typed, FilesTyped
<1>5. ReaderOK'
    BY <1>0, <1>1, <1>4 DEF ReaderOK, History
<1>6. ASSUME path' = First
      PROVE  path = First /\ First \notin unlinked' /\ Quiet(queue')
    <2>1. CASE \/ \E end \in BOOLEAN : WriteBegin(end)
               \/ WriteEnd
        <3>1. path' = path /\ unlinked' = unlinked /\ Notify(writer, "content")
            BY <2>1 DEF WriteBegin, WriteEnd, Write
        <3> QED
            BY <1>0, <1>6, <3>1, QuietQueued DEF History, FirstOK, Notify, SourceTyped
    <2>2. CASE Close
        <3> DEFINE q == IF watch = writer THEN Queued(queue, "content") ELSE queue
        <3>1. path' = path /\ unlinked' = unlinked /\ (queue' = q \/ queue' = Closed(writer, q))
            BY <2>2 DEF Close
        <3>2. Quiet(q)
            BY <1>0, <1>6, <3>1, QuietQueued DEF History, FirstOK, SourceTyped
        <3>3. ~(writer = watch /\ writer \in unlinked)
            BY <1>0, <1>6, <3>1, FileAssumption DEF History, FirstOK, FilesTyped, Node
        <3> HIDE DEF q
        <3> QED
            BY <1>6, <3>1, <3>2, <3>3 DEF Closed, History, FirstOK
    <2>3. CASE Truncate
        <3>1. path' = path /\ unlinked' = unlinked /\ Notify(path, "content")
            BY <2>3 DEF Truncate
        <3> QED
            BY <1>0, <1>6, <3>1, QuietQueued DEF History, FirstOK, Notify, SourceTyped
    <2>4. CASE Reopen \/ Toggle
        BY <1>6, <2>4 DEF Reopen, Toggle, fsVars, History, FirstOK
    <2>5. CASE Create \/ Rename \/ Unlink \/ PlaceLink \/ RemoveDir
        BY <1>0, <1>6, <2>5, FileAssumption DEF Create, Rename, Unlink, PlaceLink, RemoveDir, History
    <2> QED
        BY <2>1, <2>2, <2>3, <2>4, <2>5 DEF Environment
<1>7. FirstOK'
    BY <1>0, <1>1, <1>6 DEF FirstOK, History
<1> QED
    BY <1>0, <1>2, <1>3, <1>5, <1>7 DEF History

LEMMA ExecutorHistory ==
    ASSUME Typed, History, Executor
    PROVE  History'
<1>0. /\ FilesTyped /\ SourceTyped /\ OutTyped /\ First \in File /\ First # NoFile /\ First # Link /\ First # Dir
      /\ DataOK' /\ First \notin fresh' /\ path' = path /\ unlinked' = unlinked /\ data' = data
      /\ (HadLines' <=> HadLines) /\ data[First] \in Seq(Fragment) /\ (HadLines => Len(data[First]) >= 1)
      /\ Later(carry) /\ judged[0] = 0
    BY DataStep, ExecutorLeavesFiles, FileAssumption DEF Typed, FilesTyped, History, Next, fsVars, HadLines
<1>a. ASSUME UNCHANGED <<carry, fd, offset, judged>>, FirstOK' PROVE History'
    BY <1>0, <1>a DEF History, ReaderOK
<1>b. ASSUME carry' = <<>>, fd' = NoFile, judged'[0] = 0, FirstOK' PROVE History'
    BY <1>0, <1>b DEF History, ReaderOK, Later
<1>1. CASE Start \/ Rescan \/ SyncJailEnabled \/ ReloadConfig
    <2>1. judged' = judged
        BY <1>1 DEF Start, Rescan, SyncJailEnabled, ReloadConfig, outVars
    <2>2. CASE \E then \in Rounds : Drop(then) /\ pending' = FALSE
        BY <1>0, <1>b, <2>1, <2>2 DEF Drop, Forget, FirstOK, History, Quiet
    <2>3. CASE /\ UNCHANGED <<queue, batch, readVars>> /\ pc # "seekend"
               /\ \/ watch' = watch /\ pc' # "seekend" /\ pending' \in {pending, FALSE}
                  \/ Attach(pending, after') /\ pending' = FALSE /\ watch = NoFile
        <3>1. FirstOK'
            BY <1>0, <2>3 DEF FirstOK, History, Attach, readVars, SourceTyped
        <3> QED
            BY <1>a, <2>1, <2>3, <3>1 DEF readVars
    <2> QED
        BY <1>1, <2>2, <2>3 DEF Start, Rescan, SyncJailEnabled, ReloadConfig, Reconcile, Attach, Rounds, Registered
<1>2. CASE NothingDue \/ NoSignal \/ EventsDone \/ RollbackConfig
    <2>1. UNCHANGED <<watch, queue, batch, readVars, pending, outVars>> /\ pc # "seekend"
        BY <1>2 DEF NothingDue, NoSignal, EventsDone, RollbackConfig
    <2> QED
        BY <1>0, <1>a, <2>1 DEF readVars, outVars, FirstOK, History
<1>3. CASE RetryPendingReadd
    <2>1. UNCHANGED <<queue, batch, readVars, outVars>> /\ pc = "retry"
        BY <1>3 DEF RetryPendingReadd
    <2>2. ASSUME path = First PROVE watch' = watch /\ ~pending'
        <3>1. ~pending
            BY <2>2 DEF History, FirstOK
        <3>2. pending = FALSE
            BY <1>0, <3>1 DEF SourceTyped
        <3>3. watch' = watch /\ pending' = FALSE
            BY <1>3, <3>2 DEF RetryPendingReadd
        <3> QED
            BY <3>3
    <2> QED
        BY <1>0, <1>a, <2>1, <2>2 DEF readVars, outVars, FirstOK, History
<1>4. CASE ReadEvents
    BY <1>0, <1>4, <1>a DEF ReadEvents, readVars, outVars, FirstOK, History, Quiet
<1>5. CASE ContentChange
    <2>1. /\ UNCHANGED <<watch, queue, readVars, pending, outVars>> /\ pc = "events"
          /\ batch # <<>> /\ batch' = Tail(batch) /\ batch \in Seq(Event)
        BY <1>0, <1>5 DEF ContentChange, SourceTyped
    <2>2. Quiet(batch) => Quiet(batch')
        BY <2>1 DEF Quiet
    <2> QED
        BY <1>0, <1>a, <2>1, <2>2 DEF readVars, outVars, FirstOK, History
<1>6. CASE HandleRotation
    <2>1. batch # <<>> /\ batch[1] = "gone" /\ 1 \in 1 .. Len(batch) /\ Flush
        BY <1>0, <1>6 DEF HandleRotation, SourceTyped
    <2>2. path # First
        BY <2>1 DEF Quiet, FirstOK, History
    <2>3. 0 \notin Lines({carry[i] : i \in 1 .. Len(carry)}) /\ 0 \in Line
        BY <1>0, BoundAssumption DEF Later, Lines, Line
    <2>4. judged'[0] = 0
        BY <1>0, <2>1, <2>3 DEF Flush, OutTyped
    <2>5. carry' = <<>> /\ fd' = NoFile
        BY <1>6 DEF HandleRotation, Drop, Forget
    <2> QED
        BY <1>0, <1>b, <2>2, <2>4, <2>5 DEF FirstOK
<1>7. CASE OpenAtEnd
    <2>1. /\ fd = NoFile /\ pc' = "lstat"
          /\ UNCHANGED <<watch, queue, batch, carry, pending, judged>>
        BY <1>0, <1>7 DEF OpenAtEnd, SourceTyped, outVars
    <2>2. \/ path \in File /\ fd' = path /\ offset' = Len(data[path])
          \/ path = Dir /\ fd' = Dir
          \/ path \notin Node /\ fd' = NoFile
        BY <1>7, <2>1, Nodes DEF OpenAtEnd, OpenNoFollow, Contents, Node
    <2>3. ReaderOK' /\ FirstOK'
        <3>1. path = First => path \in Node /\ path # Dir
            BY <1>0, Nodes
        <3> QED
            BY <1>0, <2>1, <2>2, <3>1 DEF ReaderOK, FirstOK, History
    <2> QED
        BY <1>0, <2>1, <2>3 DEF History
<1>8. CASE Lstat
    <2>1. /\ pc = "lstat" /\ UNCHANGED <<watch, batch, pending, judged>> /\ watch # NoFile
          /\ carry' \in {carry, <<>>}
        BY <1>0, <1>8 DEF Lstat, SourceTyped, outVars, readVars
    <2>2. CASE UNCHANGED <<fd, offset, queue>>
        BY <1>0, <2>1, <2>2 DEF History, ReaderOK, FirstOK, Later
    <2>3. CASE Reset /\ (path \in {Link, Dir} \/ (path \in File /\ Stale))
        <3>1. path = First /\ HadLines => offset <= Len(data[First]) /\ fd = First
            BY <1>0, <2>1 DEF History, ReaderOK, FirstOK
        <3>2. path = First => ~HadLines
            BY <1>0, <2>3, <3>1 DEF Stale, SourceTyped
        <3>3. path = First => queue' = queue
            <4>1. NoFile \notin unlinked
                BY <1>0, Nodes DEF FilesTyped
            <4>2. path = First => fd \notin unlinked
                BY <1>0, <4>1 DEF History, FirstOK
            <4> QED
                BY <2>3, <4>2 DEF Reset, Closed
        <3>4. fd' = NoFile
            BY <2>3 DEF Reset
        <3>5. Later(carry')
            BY <1>0, <2>1 DEF Later
        <3>6. FirstOK' /\ ReaderOK'
            BY <1>0, <2>1, <3>2, <3>3, <3>4 DEF History, ReaderOK, FirstOK
        <3> QED
            BY <1>0, <2>1, <3>5, <3>6 DEF History
    <2>4. CASE UNCHANGED <<readVars, queue>> \/ UNCHANGED <<fd, offset, carry, queue>>
        BY <2>2, <2>4 DEF readVars
    <2>5. \/ UNCHANGED <<readVars, queue>> \/ UNCHANGED <<fd, offset, carry, queue>>
          \/ Reset /\ (path \in {Link, Dir} \/ (path \in File /\ Stale))
        BY <1>8, Zenon DEF Lstat
    <2> QED
        BY <2>3, <2>4, <2>5
<1>9. CASE Open
    <2>1. /\ pc = "open" /\ fd = NoFile /\ watch # NoFile
          /\ UNCHANGED <<watch, queue, batch, pending, judged, offset>>
          /\ carry' \in {carry, <<>>}
        BY <1>0, <1>9 DEF Open, Kept, SourceTyped, outVars
    <2>2. fd' = path \/ (fd' = fd /\ path \notin File)
        BY <1>9, Nodes DEF Open, OpenNoFollow
    <2>3. path = First => ~HadLines
        BY <1>0, <2>1 DEF History, FirstOK
    <2>4. Later(carry')
        BY <1>0, <2>1 DEF Later
    <2>5. ReaderOK' /\ FirstOK'
        BY <1>0, <2>1, <2>2, <2>3 DEF History, ReaderOK, FirstOK
    <2> QED
        BY <1>0, <2>1, <2>4, <2>5 DEF History
<1>10. CASE Read
    <2>0. TypeOK
        BY TypedParts
    <2>1. /\ pc = "read" /\ fd # NoFile /\ Feed(New) /\ fd' = fd /\ offset' = offset + Len(New)
          /\ UNCHANGED <<watch, queue, batch, pending>>
        BY <1>0, <1>10 DEF Read, New, Stop, SourceTyped
    <2>2. /\ New \in Seq(Fragment) /\ Len(New) \in Nat
          /\ \A i \in 1 .. Len(New) :
                /\ fd \in File
                /\ New[i] = data[fd][offset + i] /\ offset + i \in 1 .. Len(data[fd])
          /\ fd \in File /\ offset <= Len(data[fd]) =>
                offset + Len(New) \in offset .. Len(data[fd])
        BY <2>0, <2>1, NewIn
    <2>3. ASSUME NEW i \in 1 .. Len(New), New[i].line = 0 PROVE FALSE
        <3>1. fd = First /\ offset + i = 1 /\ data[First][1].line = 0
            BY <2>2, <2>3 DEF History, DataOK
        <3>2. HadLines
            BY <1>0, <2>2, <2>3, <3>1 DEF HadLines
        <3>3. offset >= 1 /\ offset \in Nat
            BY <1>0, <3>1, <3>2 DEF History, ReaderOK, SourceTyped
        <3> QED
            BY <3>1, <3>3
    <2>4. Later(New)
        BY <2>3 DEF Later
    <2>5. Later(Kept) /\ Kept \in Seq(Fragment) /\ Kept \o New \in Seq(Fragment)
        BY <1>0, <2>0, <2>2, KeptIn DEF Kept, Later
    <2>6. Later(Kept \o New)
        BY <2>2, <2>4, <2>5, JoinLater
    <2>7. Later(carry') /\ judged'[0] = 0
        BY <1>0, <2>1, <2>5, <2>6, RestLater, JudgeLater DEF Feed
    <2>8. ReaderOK'
        <3>1. ASSUME HadLines, fd = First
              PROVE  offset \in 1 .. Len(data[First])
            BY <3>1 DEF History, ReaderOK
        <3>2. ASSUME HadLines, fd = First
              PROVE  offset + Len(New) \in 1 .. Len(data[First])
            BY <1>0, <2>2, <3>1, <3>2
        <3> QED
            BY <1>0, <2>1, <3>2 DEF ReaderOK
    <2>9. FirstOK'
        BY <1>0, <2>1 DEF History, FirstOK
    <2> QED
        BY <1>0, <2>7, <2>8, <2>9 DEF History
<1> QED
    BY <1>1, <1>2, <1>3, <1>4, <1>5, <1>6, <1>7, <1>8, <1>9, <1>10 DEF Executor, HandleSignals

-----------------------------------------------------------------------------
(* The results                                                             *)

(* The invariant is inductive.                                             *)
THEOREM Invariance == Spec => []IInv
<1>1. IInv /\ [Next]_vars => IInv'
    <2> SUFFICES ASSUME IInv, [Next]_vars PROVE IInv'
        OBVIOUS
    <2>1. TypeOK' /\ ControlOK'
        BY TypeStep DEF IInv
    <2>2. CASE Next
        <3>1. WholeOK'
            BY <2>2, WholeStep DEF IInv
        <3>2. Typed /\ History
            BY TypedParts, HistoryParts DEF IInv
        <3>3. HistoryOK'
            BY <2>2, <3>2, ExecutorHistory, EnvironmentHistory, HistoryParts DEF Next
        <3> QED
            BY <2>1, <3>1, <3>3 DEF IInv
    <2>3. CASE UNCHANGED vars
        <3>1. WholeOK' /\ HistoryOK'
            BY <2>3 DEF vars, envVars, fsVars, readVars, outVars, IInv, WholeOK, HistoryOK, Origin, HadLines,
                        NoSplice, HistoryNotReplayed
        <3> QED
            BY <2>1, <3>1 DEF IInv
    <2> QED
        BY <2>2, <2>3
<1> QED
    BY InitHolds, <1>1, PTL DEF Spec

(* Every variable keeps its range, and a source that is not registered has *)
(* no reader, no half line and no events (executor.go, dropSource).        *)
THEOREM TypeCorrect == Spec => []TypeOK
<1>1. IInv => TypeOK
    BY DEF IInv
<1> QED
    BY <1>1, Invariance, PTL

(* Through every rotation no line is judged that was put together from     *)
(* parts of two files (reader.go, splitter.go, executor.go:533-537).       *)
THEOREM LinesAreWhole == Spec => []NoSplice
<1>1. IInv => NoSplice
    BY DEF IInv, WholeOK
<1> QED
    BY <1>1, Invariance, PTL

(* What was in the file before the daemon started is never judged,         *)
(* whatever is renamed, removed, truncated or switched (reader.go:65).     *)
THEOREM HistoryStaysUnread == Spec => []HistoryNotReplayed
<1>1. IInv => HistoryNotReplayed
    BY DEF IInv, HistoryOK
<1> QED
    BY <1>1, Invariance, PTL

-----------------------------------------------------------------------------
(* Decisions.                                                              *)

Ages == 0 .. Old
Stamps == {ts \in Seq(Ages) : Len(ts) <= MaxTimestampsPerIP}
Marks == [1 .. MaxTimestampsPerIP -> Ages]

WindowsTyped ==
    /\ policy \in [Jail -> Policies \cup {None}]
    /\ entries \in [Jail -> [Ip -> Stamps]]
    /\ made \in [Jail -> [Ip -> Marks]]
    /\ kept \in [Jail -> [Ip -> Nat]]
    /\ jail \in Jail /\ lines \in Seq(Ip)
    /\ stage = "judge" => policy[jail] # None

(* Time is not set back: the last failure comes first.                     *)
Sorted(m) == \A i, k \in 1 .. MaxTimestampsPerIP : i <= k => m[i] <= m[k]

(* A window holds the last failures, in the other order.                   *)
Holds(ts, m) == \A k \in 1 .. Len(ts) : m[k] = ts[Len(ts) + 1 - k]

Sound(ts, m) == ts \in Stamps /\ m \in Marks /\ Sorted(m) /\ Holds(ts, m)

(* It holds all that the observer still knows, who knows nothing that has  *)
(* expired.                                                                *)
Knows(n, ts, m, pol) ==
    /\ n \in Nat /\ n <= Len(ts)
    /\ pol # None => n <= Cardinality(Fresh(m, pol.findTime))

WindowsOK ==
    \A j \in Jail, ip \in Ip :
        /\ Sound(entries[j][ip], made[j][ip])
        /\ Knows(kept[j][ip], entries[j][ip], made[j][ip], policy[j])

WInv == WindowsTyped /\ WindowsOK

-----------------------------------------------------------------------------
LEMMA Numbers ==
    /\ MaxTimestampsPerIP \in Nat \ {0} /\ Cooldown \in Nat \ {0}
    /\ MaxAge \in Nat /\ Old = MaxAge + 1 /\ Old \in Nat
BY DecisionsAssumption DEF Old

LEMMA PolicyNumbers ==
    ASSUME NEW pol \in Policies
    PROVE  /\ pol.findTime \in 0 .. MaxAge /\ pol.window \in 0 .. MaxAge
           /\ pol.minIPs \in Nat /\ pol.maxPerIP \in Nat /\ pol # None
BY DecisionsAssumption

LEMMA SmallerIs ==
    ASSUME NEW x \in Nat, NEW y \in Nat
    PROVE  /\ Smaller(x, y) \in Nat /\ Smaller(x, y) <= x /\ Smaller(x, y) <= y
           /\ \A z \in Nat : z <= x /\ z <= y => z <= Smaller(x, y)
           /\ Smaller(x, y) \in {x, y}
BY DEF Smaller

(* Of the last failures, those that are not old come first.                *)
LEMMA FreshMarks ==
    ASSUME NEW m \in Marks, Sorted(m), NEW w \in Nat
    PROVE  /\ Cardinality(Fresh(m, w)) \in 0 .. MaxTimestampsPerIP
           /\ Fresh(m, w) = 1 .. Cardinality(Fresh(m, w))
<1> DEFINE n == MaxTimestampsPerIP
           S == Fresh(m, w)
           T == {k \in 1 .. n + 1 : k = n + 1 \/ ~ (m[k] <= w)}
<1>1. n \in Nat \ {0}
    BY Numbers
<1>2. S = {k \in 1 .. n : m[k] <= w}
    BY DEF Fresh, Marks
<1>3. T \in SUBSET Nat /\ T # {}
    BY <1>1
<1>4. PICK t \in T : \A y \in T : t <= y
    <2> HIDE DEF T
    <2> QED
        BY <1>3, LeastNumber
<1>5. \A k \in 1 .. n : m[k] \in Int
    BY Numbers DEF Marks, Ages
<1> HIDE DEF n, S
<1>6. S = 1 .. (t - 1)
    <2>1. ASSUME NEW k \in S PROVE k \in 1 .. (t - 1)
        <3>1. k \in 1 .. n /\ m[k] <= w
            BY <1>2, <2>1
        <3>2. CASE t = n + 1
            BY <1>1, <3>1, <3>2
        <3>3. CASE t # n + 1
            <4>1. t \in 1 .. n /\ ~ (m[t] <= w)
                BY <1>1, <1>4, <3>3
            <4>2. t <= k => m[t] <= m[k]
                BY <3>1, <4>1 DEF Sorted, n
            <4>3. ~ (t <= k)
                BY <1>5, <3>1, <4>1, <4>2
            <4> QED
                BY <1>1, <3>1, <4>1, <4>3
        <3> QED
            BY <3>2, <3>3
    <2>2. ASSUME NEW k \in 1 .. (t - 1) PROVE k \in S
        <3>1. k \in 1 .. n /\ k \notin T
            BY <1>1, <1>4
        <3> QED
            BY <1>1, <1>2, <3>1
    <2> QED
        BY <2>1, <2>2
<1>7. Cardinality(1 .. (t - 1)) = t - 1
    <2>1. t - 1 \in Nat
        BY <1>1, <1>4
    <2> QED
        BY <2>1, FS_Interval
<1>8. t - 1 \in 0 .. n
    BY <1>1, <1>4
<1> QED
    BY <1>6, <1>7, <1>8 DEF n, S

(* What a window counts are the failures that are not old, as far as it    *)
(* holds them.                                                             *)
LEMMA FreshStamps ==
    ASSUME NEW ts, NEW m, Sound(ts, m), NEW w \in Nat
    PROVE  LET c == Smaller(Len(ts), Cardinality(Fresh(m, w)))
           IN  /\ Cardinality(Fresh(ts, w)) = c /\ c \in 0 .. Len(ts)
               /\ Fresh(ts, w) = (Len(ts) - c + 1) .. Len(ts)
<1> DEFINE n == MaxTimestampsPerIP
           L == Len(ts)
           x == Cardinality(Fresh(m, w))
           c == Smaller(L, x)
<1>1. /\ n \in Nat \ {0} /\ ts \in Seq(Ages) /\ L \in Nat /\ L <= n /\ m \in Marks
      /\ \A k \in 1 .. L : m[k] = ts[L + 1 - k]
    BY Numbers DEF Sound, Stamps, Holds
<1>2. x \in 0 .. n /\ Fresh(m, w) = 1 .. x
    BY FreshMarks DEF Sound
<1>3. Fresh(ts, w) = {k \in 1 .. L : ts[k] <= w}
    BY <1>1 DEF Fresh
<1>4. Fresh(m, w) = {k \in 1 .. n : m[k] <= w}
    BY <1>1 DEF Fresh, Marks
<1> HIDE DEF n, L, x
<1>5. \A k \in 1 .. L : ts[k] <= w <=> L + 1 - k <= x
    <2> TAKE k \in 1 .. L
    <2>1. L + 1 - k \in 1 .. L /\ L + 1 - (L + 1 - k) = k
        BY <1>1
    <2>2. m[L + 1 - k] = ts[k]
        BY <1>1, <2>1
    <2>3. L + 1 - k \in Fresh(m, w) <=> ts[k] <= w
        BY <1>1, <1>4, <2>1, <2>2
    <2> QED
        BY <1>1, <1>2, <2>1, <2>3
<1>6. c \in 0 .. L /\ Fresh(ts, w) = (L - c + 1) .. L
    BY <1>1, <1>2, <1>3, <1>5 DEF Smaller
<1>7. Cardinality((L - c + 1) .. L) = c
    <2> HIDE DEF c
    <2>1. L - c + 1 \in Int /\ L \in Int /\ L - (L - c + 1) + 1 = c /\ (L - c + 1 > L => c = 0)
        BY <1>1, <1>6
    <2> QED
        BY <1>6, <2>1, FS_Interval
<1> QED
    BY <1>6, <1>7 DEF L, x

-----------------------------------------------------------------------------
(* What the operations do to a window                                      *)

LEMMA EmptyHolds ==
    /\ Sound(<<>>, NoFailure)
    /\ \A pol \in Policies \cup {None} : Knows(0, <<>>, NoFailure, pol)
<1>1. <<>> \in Stamps /\ Len(<<>>) = 0
    BY Numbers DEF Stamps
<1>2. NoFailure \in Marks
    BY Numbers DEF Marks, NoFailure, Ages
<1>3. Sorted(NoFailure) /\ Holds(<<>>, NoFailure)
    BY Numbers DEF Sorted, Holds, NoFailure
<1>4. \A pol \in Policies : Cardinality(Fresh(NoFailure, pol.findTime)) \in Nat
    BY <1>2, <1>3, FreshMarks, PolicyNumbers
<1> QED
    BY <1>1, <1>2, <1>3, <1>4 DEF Sound, Knows

LEMMA ShiftedIn ==
    ASSUME NEW m \in Marks, Sorted(m)
    PROVE  Shifted(m) \in Marks /\ Sorted(Shifted(m))
<1>1. 0 \in Ages /\ \A x \in Ages : x \in Int /\ 0 <= x
    BY Numbers DEF Ages
<1>2. \A k \in 1 .. MaxTimestampsPerIP :
         k # 1 => k - 1 \in 1 .. MaxTimestampsPerIP /\ m[k - 1] \in Ages
    <2> TAKE k \in 1 .. MaxTimestampsPerIP
    <2>1. k # 1 => k - 1 \in 1 .. MaxTimestampsPerIP
        BY Numbers
    <2> QED
        BY <2>1 DEF Marks
<1>3. Shifted(m) \in Marks
    BY <1>1, <1>2 DEF Shifted, Marks
<1>4. Sorted(Shifted(m))
    <2> SUFFICES ASSUME NEW i \in 1 .. MaxTimestampsPerIP, NEW k \in 1 .. MaxTimestampsPerIP,
                        i <= k
                 PROVE  Shifted(m)[i] <= Shifted(m)[k]
        BY DEF Sorted
    <2>1. Shifted(m)[i] = (IF i = 1 THEN 0 ELSE m[i - 1])
          /\ Shifted(m)[k] = (IF k = 1 THEN 0 ELSE m[k - 1])
        BY DEF Shifted
    <2>2. CASE i = 1
        BY <1>1, <1>2, <2>1, <2>2
    <2>3. CASE i # 1
        <3>1. k # 1 /\ i - 1 <= k - 1
            BY <2>3, Numbers
        <3>2. m[i - 1] <= m[k - 1]
            BY <1>2, <2>3, <3>1 DEF Sorted
        <3> QED
            BY <2>1, <2>3, <3>1, <3>2
    <2> QED
        BY <2>2, <2>3
<1> QED
    BY <1>3, <1>4

LEMMA AtTheEnd ==
    ASSUME NEW t \in Seq(Ages)
    PROVE  /\ Append(t, 0) \in Seq(Ages) /\ Len(Append(t, 0)) = Len(t) + 1
           /\ \A i \in 1 .. Len(t) : Append(t, 0)[i] = t[i]
           /\ Append(t, 0)[Len(t) + 1] = 0
<1>1. 0 \in Ages
    BY Numbers DEF Ages
<1> QED
    BY <1>1, AppendProperties

LEMMA FromTo ==
    ASSUME NEW ts, NEW b \in Int, NEW e \in Int, \A i \in b .. e : ts[i] \in Ages
    PROVE  /\ SubSeq(ts, b, e) \in Seq(Ages)
           /\ Len(SubSeq(ts, b, e)) = IF b <= e THEN e - b + 1 ELSE 0
           /\ \A i \in 1 .. e - b + 1 : SubSeq(ts, b, e)[i] = ts[b + i - 1]
BY SubSeqProperties

(* The new stamp at the end, the oldest dropped from a full window.        *)
LEMMA PushedHolds ==
    ASSUME NEW ts, NEW m, Sound(ts, m),
           NEW new, new = IF Len(ts) < MaxTimestampsPerIP THEN Append(ts, 0)
                          ELSE Append(Tail(ts), 0)
    PROVE  /\ Sound(new, Shifted(m))
           /\ Len(new) = IF Len(ts) < MaxTimestampsPerIP THEN Len(ts) + 1 ELSE Len(ts)
<1> DEFINE n == MaxTimestampsPerIP
           d == IF Len(ts) < n THEN 0 ELSE 1
<1>1. n \in Nat \ {0} /\ ts \in Seq(Ages) /\ Len(ts) \in Nat /\ Len(ts) <= n
    BY Numbers DEF Sound, Stamps
<1>2. d \in {0, 1} /\ (d = 0 => Len(ts) < n) /\ (d = 1 => Len(ts) = n)
    BY <1>1
<1>4. /\ new \in Seq(Ages) /\ Len(new) = Len(ts) + 1 - d
      /\ \A i \in 1 .. Len(ts) - d : new[i] = ts[i + d]
      /\ new[Len(ts) + 1 - d] = 0
    <2>1. CASE d = 0
        <3>1. new = Append(ts, 0)
            BY <2>1, <1>1
        <3> QED
            BY <2>1, <3>1, <1>1, AtTheEnd
    <2>2. CASE d = 1
        <3>1. new = Append(Tail(ts), 0) /\ ts # <<>>
            BY <2>2, <1>1
        <3>2. /\ Tail(ts) \in Seq(Ages) /\ Len(Tail(ts)) = Len(ts) - 1
              /\ \A i \in 1 .. Len(ts) - 1 : Tail(ts)[i] = ts[i + 1]
            BY <3>1, <1>1
        <3> DEFINE t == Tail(ts)
        <3> HIDE DEF t
        <3>3. t \in Seq(Ages) /\ Len(t) = Len(ts) - 1 /\ new = Append(t, 0)
              /\ \A i \in 1 .. Len(ts) - 1 : t[i] = ts[i + 1]
            BY <3>1, <3>2 DEF t
        <3>4. /\ new \in Seq(Ages) /\ Len(new) = Len(t) + 1
              /\ \A i \in 1 .. Len(t) : new[i] = t[i]
              /\ new[Len(t) + 1] = 0
            BY <3>3, AtTheEnd
        <3>5. Len(t) + 1 = Len(ts) /\ Len(t) = Len(ts) - 1
            BY <3>3, <1>1
        <3>6. /\ new \in Seq(Ages) /\ Len(new) = Len(ts)
              /\ \A i \in 1 .. Len(ts) - 1 : new[i] = ts[i + 1]
              /\ new[Len(ts)] = 0
            BY <3>3, <3>4, <3>5
        <3>7. Len(ts) + 1 - 1 = Len(ts)
            BY <1>1
        <3> QED
            BY <2>2, <3>6, <3>7
    <2> HIDE DEF d
    <2> QED
        BY <1>2, <2>1, <2>2
<1>3. Len(new) = IF Len(ts) < n THEN Len(ts) + 1 ELSE Len(ts)
    BY <1>1, <1>4
<1> HIDE DEF d
<1>5. new \in Stamps
    BY <1>1, <1>2, <1>4 DEF Stamps
<1> DEFINE L == Len(ts)
<1>n. n \in Int /\ L \in Int /\ d \in Int /\ 1 <= n /\ 0 <= L /\ L <= n /\ 0 <= d /\ d <= 1
      /\ (d = 1 => L = n) /\ (d = 0 => L < n)
    BY <1>1, <1>2
<1>6. \A k \in 1 .. L : m[k] = ts[L + 1 - k]
    BY DEF Sound, Holds
<1> HIDE DEF n, L
<1>8. Holds(new, Shifted(m))
    <2>0. Len(new) = L + 1 - d
        BY <1>4 DEF L
    <2> SUFFICES ASSUME NEW k \in 1 .. L + 1 - d
                 PROVE  Shifted(m)[k] = new[L + 1 - d + 1 - k]
        BY <2>0 DEF Holds
    <2>1. Shifted(m)[k] = IF k = 1 THEN 0 ELSE m[k - 1]
        <3>1. k \in 1 .. n
            BY <1>n
        <3> QED
            BY <3>1 DEF Shifted, n
    <2>2. CASE k = 1
        <3>1. L + 1 - d + 1 - k = L + 1 - d
            BY <2>2, <1>n
        <3> QED
            BY <2>1, <2>2, <3>1, <1>4 DEF L
    <2>3. CASE k # 1
        <3>1. k - 1 \in 1 .. L /\ L + 1 - (k - 1) = L + 2 - k
            BY <2>3, <1>n
        <3>2. m[k - 1] = ts[L + 2 - k]
            BY <3>1, <1>6
        <3>3. L + 1 - d + 1 - k \in 1 .. L - d /\ L + 1 - d + 1 - k + d = L + 2 - k
            BY <2>3, <1>n
        <3>4. new[L + 1 - d + 1 - k] = ts[L + 2 - k]
            BY <3>3, <1>4 DEF L
        <3> QED
            BY <2>1, <2>3, <3>2, <3>4
    <2> QED
        BY <2>2, <2>3
<1>9. Shifted(m) \in Marks /\ Sorted(Shifted(m))
    BY ShiftedIn DEF Sound
<1> QED
    BY <1>3, <1>5, <1>8, <1>9 DEF Sound, n

(* What is left of a window without what has expired.                      *)
LEMMA TrimmedHolds ==
    ASSUME NEW ts, NEW m, Sound(ts, m), NEW w \in Nat
    PROVE  /\ Sound(Trimmed(ts, w), m)
           /\ Len(Trimmed(ts, w)) = Smaller(Len(ts), Cardinality(Fresh(m, w)))
<1> DEFINE n == MaxTimestampsPerIP
           L == Len(ts)
           c == Cardinality(Fresh(ts, w))
           new == Trimmed(ts, w)
<1>1. n \in Nat \ {0} /\ ts \in Seq(Ages) /\ L \in Nat /\ L <= n
    BY Numbers DEF Sound, Stamps
<1>2. c \in 0 .. L /\ c = Smaller(L, Cardinality(Fresh(m, w)))
    BY FreshStamps
<1>3. new = SubSeq(ts, L - c + 1, L)
    BY DEF Trimmed
<1>n. n \in Int /\ L \in Int /\ c \in Int /\ 1 <= n /\ 0 <= L /\ L <= n /\ 0 <= c /\ c <= L
    BY <1>1, <1>2
<1>m. \A k \in 1 .. L : m[k] = ts[L + 1 - k]
    BY DEF Sound, Holds
<1> HIDE DEF L, c, new
<1>5. /\ new \in Seq(Ages) /\ Len(new) = c
      /\ \A i \in 1 .. c : new[i] = ts[L - c + i]
    <2>1. \A i \in 1 .. L : ts[i] \in Ages
        BY <1>1 DEF L
    <2> DEFINE b == L - c + 1
    <2>2. /\ b \in Int /\ L - b + 1 = c /\ \A i \in b .. L : i \in 1 .. L
          /\ (IF b <= L THEN L - b + 1 ELSE 0) = c
          /\ \A i \in Int : b + i - 1 = L - c + i
        BY <1>n
    <2>3. new = SubSeq(ts, b, L)
        BY <1>3
    <2> HIDE DEF b
    <2>4. \A i \in b .. L : ts[i] \in Ages
        BY <2>1, <2>2
    <2>5. b \in Int /\ L \in Int
        BY <2>2, <1>n
    <2>6. /\ SubSeq(ts, b, L) \in Seq(Ages)
          /\ Len(SubSeq(ts, b, L)) = IF b <= L THEN L - b + 1 ELSE 0
          /\ \A i \in 1 .. L - b + 1 : SubSeq(ts, b, L)[i] = ts[b + i - 1]
        BY <2>4, <2>5, FromTo, Zenon
    <2>7. new \in Seq(Ages) /\ Len(new) = c /\ \A i \in 1 .. c : new[i] = ts[b + i - 1]
        BY <2>2, <2>3, <2>6, Zenon
    <2>8. \A i \in 1 .. c : ts[b + i - 1] = ts[L - c + i]
        BY <2>2
    <2> QED
        BY <2>7, <2>8, Zenon
<1>6. new \in Stamps
    BY <1>1, <1>2, <1>5 DEF Stamps
<1>8. Holds(new, m)
    <2> SUFFICES ASSUME NEW k \in 1 .. c
                 PROVE  m[k] = new[c + 1 - k]
        BY <1>5 DEF Holds
    <2>1. c + 1 - k \in 1 .. c /\ L - c + (c + 1 - k) = L + 1 - k /\ k \in 1 .. L
        BY <1>n
    <2>2. new[c + 1 - k] = ts[L + 1 - k]
        BY <2>1, <1>5
    <2> QED
        BY <2>1, <2>2, <1>m
<1> QED
    BY <1>2, <1>5, <1>6, <1>8 DEF Sound, new, L

(* Observe: the window takes the failure, and holds what the observer      *)
(* knows, who knew no more than the window.                                *)
LEMMA ObservedHolds ==
    ASSUME NEW ts, NEW m, Sound(ts, m), NEW f \in Nat, NEW x \in Nat, x <= Len(ts)
    PROVE  /\ Sound(Observed(ts, f), Shifted(m))
           /\ Remaining(x + 1, Shifted(m), f) \in Nat
           /\ Remaining(x + 1, Shifted(m), f) <= Len(Observed(ts, f))
           /\ Remaining(x + 1, Shifted(m), f) <= Cardinality(Fresh(Shifted(m), f))
<1> DEFINE n == MaxTimestampsPerIP
           new == IF Len(ts) < n THEN Append(ts, 0) ELSE Append(Tail(ts), 0)
           y == Cardinality(Fresh(Shifted(m), f))
<1>1. n \in Nat \ {0} /\ Len(ts) \in Nat /\ Len(ts) <= n
    BY Numbers DEF Sound, Stamps
<1>2. Sound(new, Shifted(m)) /\ Len(new) = IF Len(ts) < n THEN Len(ts) + 1 ELSE Len(ts)
    BY PushedHolds
<1>3. y \in 0 .. n
    BY <1>2, FreshMarks DEF Sound
<1>4. Sound(Trimmed(new, f), Shifted(m)) /\ Len(Trimmed(new, f)) = Smaller(Len(new), y)
    BY <1>2, TrimmedHolds
<1>5. \/ Observed(ts, f) = new
      \/ Observed(ts, f) = Trimmed(new, f) /\ ~ (Len(ts) < n)
    BY DEF Observed
<1>6. Remaining(x + 1, Shifted(m), f) = Smaller(x + 1, y)
    BY DEF Remaining
<1> HIDE DEF n, new, y
<1>7. /\ Smaller(x + 1, y) \in Nat /\ Smaller(x + 1, y) <= y
      /\ Smaller(x + 1, y) <= Len(new)
      /\ ~ (Len(ts) < n) => Smaller(x + 1, y) <= Smaller(Len(new), y)
    BY <1>1, <1>2, <1>3 DEF Smaller
<1> QED
    BY <1>2, <1>4, <1>5, <1>6, <1>7 DEF y

(* CleanupExpired: an entry goes whose last stamp has expired.             *)
LEMMA CleanedHolds ==
    ASSUME NEW ts, NEW m, Sound(ts, m), NEW pol \in Policies,
           NEW x, Knows(x, ts, m, pol)
    PROVE  LET new == CleanupExpired(ts, pol.findTime)
           IN  Sound(new, m) /\ Knows(x, new, m, pol)
<1> DEFINE f == pol.findTime
<1>0. f \in Nat /\ f <= MaxAge /\ pol # None
    BY PolicyNumbers, Numbers
<1>1. CASE ts # <<>> /\ ts[Len(ts)] > f
    <2>1. CleanupExpired(ts, f) = <<>>
        BY <1>1 DEF CleanupExpired
    <2>2. ts \in Seq(Ages) /\ Len(ts) \in Nat \ {0} /\ 1 \in 1 .. MaxTimestampsPerIP
        BY <1>1, Numbers DEF Sound, Stamps
    <2>3. m[1] = ts[Len(ts)] /\ m[1] \in Ages
        <3>1. 1 \in 1 .. Len(ts) /\ Len(ts) + 1 - 1 = Len(ts)
            BY <2>2
        <3> QED
            BY <2>2, <3>1 DEF Sound, Holds, Marks
    <2>4. 1 \notin Fresh(m, f)
        BY <1>0, <1>1, <2>3, Numbers DEF Fresh, Ages
    <2>5. Cardinality(Fresh(m, f)) = 0
        <3>1. /\ Cardinality(Fresh(m, f)) \in 0 .. MaxTimestampsPerIP
              /\ Fresh(m, f) = 1 .. Cardinality(Fresh(m, f))
            BY <1>0, FreshMarks DEF Sound
        <3> QED
            BY <2>4, <3>1, Numbers
    <2>6. x = 0
        BY <1>0, <2>5 DEF Knows
    <2>7. Sound(<<>>, m)
        BY EmptyHolds DEF Sound, Holds
    <2> QED
        BY <2>1, <2>5, <2>6, <2>7 DEF Knows
<1>2. CASE ~ (ts # <<>> /\ ts[Len(ts)] > f)
    BY <1>2 DEF CleanupExpired
<1> QED
    BY <1>1, <1>2

LEMMA OlderHolds ==
    ASSUME NEW ts, NEW m, Sound(ts, m)
    PROVE  Sound(Older(ts), Older(m)) /\ Len(Older(ts)) = Len(ts)
<1>1. \A a \in Ages : Smaller(Old, a + 1) \in Ages
    BY Numbers DEF Ages, Smaller
<1>2. \A a, b \in Ages : a <= b => Smaller(Old, a + 1) <= Smaller(Old, b + 1)
    BY Numbers DEF Ages, Smaller
<1>4. ts \in Seq(Ages) /\ Len(ts) \in Nat /\ Len(ts) <= MaxTimestampsPerIP /\ m \in Marks
    BY DEF Sound, Stamps
<1>5. /\ Older(ts) \in Seq(Ages) /\ Len(Older(ts)) = Len(ts)
      /\ \A k \in 1 .. Len(ts) : Older(ts)[k] = Smaller(Old, ts[k] + 1)
    BY <1>1, <1>4 DEF Older
<1>6. /\ Older(m) \in Marks
      /\ \A k \in 1 .. MaxTimestampsPerIP : Older(m)[k] = Smaller(Old, m[k] + 1)
    BY <1>1, <1>4 DEF Older, Marks
<1>7. Sorted(Older(m))
    <2> SUFFICES ASSUME NEW i \in 1 .. MaxTimestampsPerIP, NEW k \in 1 .. MaxTimestampsPerIP,
                        i <= k
                 PROVE  Older(m)[i] <= Older(m)[k]
        BY DEF Sorted
    <2>1. m[k] \in Ages /\ m[i] \in Ages /\ m[i] <= m[k]
        BY <1>4 DEF Sound, Sorted, Marks
    <2> QED
        BY <2>1, <1>2, <1>6
<1>8. Holds(Older(ts), Older(m))
    <2> SUFFICES ASSUME NEW k \in 1 .. Len(ts)
                 PROVE  Older(m)[k] = Older(ts)[Len(ts) + 1 - k]
        BY <1>5 DEF Holds
    <2>1. m[k] = ts[Len(ts) + 1 - k]
        BY DEF Sound, Holds
    <2>2. Len(ts) + 1 - k \in 1 .. Len(ts) /\ k \in 1 .. MaxTimestampsPerIP
        BY <1>4, Numbers
    <2> QED
        BY <2>1, <2>2, <1>5, <1>6
<1>9. Older(ts) \in Stamps
    BY <1>4, <1>5 DEF Stamps
<1> QED
    BY <1>5, <1>6, <1>7, <1>8, <1>9 DEF Sound

(* Whoever forgets knows no more than before, and nothing that has expired.*)
LEMMA RemainingKnown ==
    ASSUME NEW ts, NEW m, Sound(ts, m), NEW x \in Nat, x <= Len(ts), NEW pol \in Policies
    PROVE  Knows(Remaining(x, m, pol.findTime), ts, m, pol)
<1>1. Cardinality(Fresh(m, pol.findTime)) \in Nat
    <2>1. pol.findTime \in Nat
        BY PolicyNumbers, Numbers
    <2>2. m \in Marks /\ Sorted(m)
        BY DEF Sound
    <2>3. Cardinality(Fresh(m, pol.findTime)) \in 0 .. MaxTimestampsPerIP
        <3> DEFINE w == pol.findTime
        <3> HIDE DEF w
        <3>1. w \in Nat
            BY <2>1 DEF w
        <3>2. Cardinality(Fresh(m, w)) \in 0 .. MaxTimestampsPerIP
            BY <2>2, <3>1, FreshMarks
        <3> QED
            BY <3>2 DEF w
    <2> QED
        BY <2>3, Numbers
<1>2. Len(ts) \in Nat
    BY DEF Sound, Stamps
<1> QED
    BY <1>1, <1>2 DEF Knows, Remaining, Smaller

-----------------------------------------------------------------------------
(* The windows                                                             *)

LEMMA WindowsAgain ==
    ASSUME policy' \in [Jail -> Policies \cup {None}], jail' \in Jail, lines' \in Seq(Ip),
           stage' = "judge" => policy'[jail'] # None,
           NEW e, entries' = [j \in Jail |-> [ip \in Ip |-> e[j][ip]]],
           NEW m, made' = [j \in Jail |-> [ip \in Ip |-> m[j][ip]]],
           NEW x, kept' = [j \in Jail |-> [ip \in Ip |-> x[j][ip]]],
           \A j \in Jail, ip \in Ip :
              Sound(e[j][ip], m[j][ip]) /\ Knows(x[j][ip], e[j][ip], m[j][ip], policy'[j])
    PROVE  WInv'
<1>1. /\ entries' \in [Jail -> [Ip -> Stamps]] /\ made' \in [Jail -> [Ip -> Marks]]
      /\ kept' \in [Jail -> [Ip -> Nat]]
    BY DEF Sound, Knows
<1>2. \A j \in Jail, ip \in Ip :
         entries'[j][ip] = e[j][ip] /\ made'[j][ip] = m[j][ip] /\ kept'[j][ip] = x[j][ip]
    OBVIOUS
<1>3. WindowsOK'
    <2>1. WindowsOK' <=> \A j \in Jail, ip \in Ip :
             Sound(entries'[j][ip], made'[j][ip])
             /\ Knows(kept'[j][ip], entries'[j][ip], made'[j][ip], policy'[j])
        BY DEF WindowsOK, Sound, Knows, Holds
    <2> QED
        BY <1>2, <2>1
<1> QED
    BY <1>1, <1>3 DEF WInv, WindowsTyped

(* The windows as functions of jail and address.                           *)
LEMMA ByPair ==
    ASSUME NEW S, NEW g \in [Jail -> [Ip -> S]]
    PROVE  g = [j \in Jail |-> [ip \in Ip |-> g[j][ip]]]
    OBVIOUS

LEMMA WindowsSame ==
    ASSUME WInv, UNCHANGED windowVars, jail' \in Jail, lines' \in Seq(Ip),
           stage' = "judge" => policy'[jail'] # None
    PROVE  WInv'
BY DEF WInv, WindowsTyped, WindowsOK, windowVars, Sound, Knows, Holds

LEMMA JudgeLineKeeps ==
    ASSUME WInv, NEW peak \in BOOLEAN, NEW score \in Scores,
           JudgeLine(peak, score)
    PROVE  WInv'
<1> DEFINE ip == Head(lines)
           p == policy[jail]
           ts == entries[jail][ip]
           new == Observed(ts, p.findTime)
           last == Shifted(made[jail][ip])
           ban == ReachedCap(new, p.findTime, EffectiveThreshold(p.retries, peak, ip, score))
           e == IF ban THEN <<>> ELSE new
           m == IF ban THEN NoFailure ELSE last
           x == IF ban THEN 0 ELSE Remaining(kept[jail][ip] + 1, last, p.findTime)
<1>1. lines # <<>> /\ lines \in Seq(Ip) /\ jail \in Jail /\ p \in Policies
    BY DEF WInv, WindowsTyped, JudgeLine
<1>2. ip \in Ip
    BY <1>1, HeadTailProperties
<1>3. /\ Sound(ts, made[jail][ip]) /\ kept[jail][ip] \in Nat /\ kept[jail][ip] <= Len(ts)
      /\ p.findTime \in Nat
    BY <1>1, <1>2, PolicyNumbers, Numbers DEF WInv, WindowsOK, Knows
<1>4. /\ Sound(new, last)
      /\ Remaining(kept[jail][ip] + 1, last, p.findTime) \in Nat
      /\ Remaining(kept[jail][ip] + 1, last, p.findTime) <= Len(new)
      /\ Remaining(kept[jail][ip] + 1, last, p.findTime) <= Cardinality(Fresh(last, p.findTime))
    BY <1>3, ObservedHolds
<1>6. /\ entries' = [entries EXCEPT ![jail][ip] = e] /\ made' = [made EXCEPT ![jail][ip] = m]
      /\ kept' = [kept EXCEPT ![jail][ip] = x]
    BY DEF JudgeLine
<1>7. policy' = policy /\ jail' = jail /\ lines' = Tail(lines) /\ stage' = stage
    BY DEF JudgeLine
<1> HIDE DEF new, ban, last
<1>8. Sound(e, m) /\ Knows(x, e, m, p)
    BY <1>1, <1>4, EmptyHolds DEF Knows
<1>k. policy'[jail] = p
    BY <1>7
<1>x. x \in Nat
    BY <1>4
<1> HIDE DEF e, m, x, ip, p
<1>9. Tail(lines) \in Seq(Ip)
    BY <1>1, HeadTailProperties
<1>10. /\ entries \in [Jail -> [Ip -> Stamps]] /\ made \in [Jail -> [Ip -> Marks]]
       /\ kept \in [Jail -> [Ip -> Nat]] /\ policy \in [Jail -> Policies \cup {None}]
    BY DEF WInv, WindowsTyped
<1>11. /\ entries' \in [Jail -> [Ip -> Stamps]] /\ made' \in [Jail -> [Ip -> Marks]]
       /\ kept' \in [Jail -> [Ip -> Nat]]
    BY <1>1, <1>2, <1>6, <1>8, <1>10, <1>x DEF Sound
<1>12. \A j \in Jail, a \in Ip :
          /\ Sound(entries'[j][a], made'[j][a])
          /\ Knows(kept'[j][a], entries'[j][a], made'[j][a], policy'[j])
    <2> TAKE j \in Jail, a \in Ip
    <2>1. CASE j = jail /\ a = ip
        <3>1. entries'[j][a] = e /\ made'[j][a] = m /\ kept'[j][a] = x /\ policy'[j] = p
            BY <2>1, <1>6, <1>10, <1>k
        <3> QED
            BY <3>1, <1>8
    <2>2. CASE ~ (j = jail /\ a = ip)
        <3>1. entries'[j][a] = entries[j][a] /\ made'[j][a] = made[j][a]
              /\ kept'[j][a] = kept[j][a] /\ policy'[j] = policy[j]
            BY <2>2, <1>6, <1>7, <1>10
        <3>2. Sound(entries[j][a], made[j][a])
              /\ Knows(kept[j][a], entries[j][a], made[j][a], policy[j])
            BY DEF WInv, WindowsOK
        <3> QED
            BY <3>1, <3>2
    <2> QED
        BY <2>1, <2>2
<1>13. stage' = "judge" => policy'[jail'] # None
    BY <1>7 DEF WInv, WindowsTyped
<1>14. jail' \in Jail /\ lines' \in Seq(Ip) /\ policy' \in [Jail -> Policies \cup {None}]
    BY <1>1, <1>7, <1>9, <1>10
<1> QED
    BY <1>11, <1>12, <1>13, <1>14, WindowsAgain, ByPair

LEMMA CleanupKeeps ==
    ASSUME WInv, Cleanup
    PROVE  WInv'
<1> DEFINE e == [j \in Jail |-> [ip \in Ip |->
                   IF policy[j] = None THEN entries[j][ip]
                   ELSE CleanupExpired(entries[j][ip], policy[j].findTime)]]
<1>0. policy \in [Jail -> Policies \cup {None}]
    BY DEF WInv, WindowsTyped
<1>1. \A j \in Jail, ip \in Ip :
         Sound(e[j][ip], made[j][ip]) /\ Knows(kept[j][ip], e[j][ip], made[j][ip], policy[j])
    <2> TAKE j \in Jail, ip \in Ip
    <2>1. Sound(entries[j][ip], made[j][ip])
          /\ Knows(kept[j][ip], entries[j][ip], made[j][ip], policy[j])
        BY DEF WInv, WindowsOK
    <2>2. CASE policy[j] = None
        BY <2>1, <2>2
    <2>3. CASE policy[j] # None
        <3>1. policy[j] \in Policies
            BY <1>0, <2>3
        <3>2. e[j][ip] = CleanupExpired(entries[j][ip], policy[j].findTime)
            BY <2>3
        <3> QED
            BY <2>1, <3>1, <3>2, CleanedHolds
    <2> QED
        BY <2>2, <2>3
<1>2. entries' = e /\ made' = made /\ kept' = kept /\ policy' = policy
    BY DEF Cleanup
<1>3. e = [j \in Jail |-> [ip \in Ip |-> e[j][ip]]]
    OBVIOUS
<1>4. made' = [j \in Jail |-> [ip \in Ip |-> made[j][ip]]]
      /\ kept' = [j \in Jail |-> [ip \in Ip |-> kept[j][ip]]]
    BY <1>2, ByPair DEF WInv, WindowsTyped
<1>5. jail' \in Jail /\ lines' \in Seq(Ip) /\ (stage' = "judge" => policy'[jail'] # None)
    BY <1>2 DEF WInv, WindowsTyped, Cleanup, chunkVars
<1> HIDE DEF e
<1> QED
    BY <1>0, <1>1, <1>2, <1>3, <1>4, <1>5, WindowsAgain

LEMMA RefreshKeeps ==
    ASSUME WInv, NEW new \in [Jail -> Policies \cup {None}],
           RefreshJails(new)
    PROVE  WInv'
<1> DEFINE e == [j \in Jail |-> [ip \in Ip |-> IF new[j] = None THEN <<>> ELSE entries[j][ip]]]
           m == [j \in Jail |-> [ip \in Ip |->
                    IF new[j] = None THEN NoFailure ELSE made[j][ip]]]
           x == [j \in Jail |-> [ip \in Ip |->
                    IF new[j] = None THEN 0
                    ELSE Remaining(kept[j][ip], made[j][ip], new[j].findTime)]]
<1>1. \A j \in Jail, ip \in Ip :
         Sound(e[j][ip], m[j][ip]) /\ Knows(x[j][ip], e[j][ip], m[j][ip], new[j])
    <2> TAKE j \in Jail, ip \in Ip
    <2>1. CASE new[j] = None
        BY <2>1, EmptyHolds
    <2>2. CASE new[j] # None
        <3>1. new[j] \in Policies
            BY <2>2
        <3>2. Sound(entries[j][ip], made[j][ip]) /\ kept[j][ip] \in Nat
              /\ kept[j][ip] <= Len(entries[j][ip])
            BY DEF WInv, WindowsOK, Knows
        <3>3. e[j][ip] = entries[j][ip] /\ m[j][ip] = made[j][ip]
              /\ x[j][ip] = Remaining(kept[j][ip], made[j][ip], new[j].findTime)
            BY <2>2
        <3> QED
            BY <3>1, <3>2, <3>3, RemainingKnown
    <2> QED
        BY <2>1, <2>2
<1>3. entries' = e /\ made' = m /\ kept' = x /\ policy' = new
    BY DEF RefreshJails
<1>4. /\ e = [j \in Jail |-> [ip \in Ip |-> e[j][ip]]] /\ m = [j \in Jail |-> [ip \in Ip |-> m[j][ip]]]
      /\ x = [j \in Jail |-> [ip \in Ip |-> x[j][ip]]]
    OBVIOUS
<1>5. jail' \in Jail /\ lines' \in Seq(Ip) /\ stage' # "judge"
    BY DEF WInv, WindowsTyped, RefreshJails, chunkVars
<1> HIDE DEF e, m, x
<1> QED
    BY <1>1, <1>3, <1>4, <1>5, WindowsAgain

LEMMA TickKeeps ==
    ASSUME WInv, Tick
    PROVE  WInv'
<1> DEFINE e == [j \in Jail |-> [ip \in Ip |-> Older(entries[j][ip])]]
           m == [j \in Jail |-> [ip \in Ip |-> Older(made[j][ip])]]
           x == [j \in Jail |-> [ip \in Ip |->
                    IF policy[j] = None THEN 0
                    ELSE Remaining(kept[j][ip], Older(made[j][ip]), policy[j].findTime)]]
<1>0. policy \in [Jail -> Policies \cup {None}]
    BY DEF WInv, WindowsTyped
<1>1. \A j \in Jail, ip \in Ip :
         Sound(e[j][ip], m[j][ip]) /\ Knows(x[j][ip], e[j][ip], m[j][ip], policy[j])
    <2> TAKE j \in Jail, ip \in Ip
    <2>1. Sound(entries[j][ip], made[j][ip]) /\ kept[j][ip] \in Nat
          /\ kept[j][ip] <= Len(entries[j][ip])
        BY DEF WInv, WindowsOK, Knows
    <2>2. e[j][ip] = Older(entries[j][ip]) /\ m[j][ip] = Older(made[j][ip])
        OBVIOUS
    <2>3. Sound(e[j][ip], m[j][ip]) /\ Len(e[j][ip]) = Len(entries[j][ip])
        BY <2>1, <2>2, OlderHolds
    <2>4. CASE policy[j] = None
        <3>1. x[j][ip] = 0 /\ Len(e[j][ip]) \in Nat
            BY <2>3, <2>4 DEF Sound, Stamps
        <3> QED
            BY <2>3, <2>4, <3>1 DEF Knows
    <2>5. CASE policy[j] # None
        <3>1. policy[j] \in Policies
            BY <1>0, <2>5
        <3>2. x[j][ip] = Remaining(kept[j][ip], m[j][ip], policy[j].findTime)
            BY <2>2, <2>5
        <3> QED
            BY <2>1, <2>3, <3>1, <3>2, RemainingKnown
    <2> QED
        BY <2>4, <2>5
<1>2. entries' = e /\ made' = m /\ kept' = x /\ policy' = policy
    BY DEF Tick, Aged
<1>3. /\ e = [j \in Jail |-> [ip \in Ip |-> e[j][ip]]] /\ m = [j \in Jail |-> [ip \in Ip |-> m[j][ip]]]
      /\ x = [j \in Jail |-> [ip \in Ip |-> x[j][ip]]]
    OBVIOUS
<1>4. jail' \in Jail /\ lines' \in Seq(Ip) /\ (stage' = "judge" => policy'[jail'] # None)
    BY <1>2 DEF WInv, WindowsTyped, Tick, chunkVars
<1> HIDE DEF e, m, x
<1> QED
    BY <1>0, <1>1, <1>2, <1>3, <1>4, WindowsAgain

LEMMA WindowsInit ==
    ASSUME DecisionsInit
    PROVE  WInv
<1>1. /\ entries = [j \in Jail |-> [ip \in Ip |-> <<>>]]
      /\ made = [j \in Jail |-> [ip \in Ip |-> NoFailure]]
      /\ kept = [j \in Jail |-> [ip \in Ip |-> 0]]
      /\ policy \in [Jail -> Policies] /\ jail \in Jail /\ lines = <<>> /\ stage = "drain"
    BY DEF DecisionsInit
<1>2. WindowsTyped
    BY <1>1, EmptyHolds DEF WindowsTyped, Sound
<1>3. WindowsOK
    BY <1>1, EmptyHolds DEF WindowsOK
<1> QED
    BY <1>2, <1>3 DEF WInv

LEMMA WindowsStep ==
    ASSUME WInv, [DecisionsNext]_(decisionsVars)
    PROVE  WInv'
<1>1. jail \in Jail /\ lines \in Seq(Ip) /\ (stage = "judge" => policy[jail] # None)
    BY DEF WInv, WindowsTyped
<1>2. ASSUME NEW peak \in BOOLEAN, NEW score \in Scores, JudgeLine(peak, score)
      PROVE  WInv'
    BY <1>2, JudgeLineKeeps
<1>3. CASE Cleanup
    BY <1>3, CleanupKeeps
<1>4. ASSUME NEW new \in [Jail -> Policies \cup {None}], RefreshJails(new)
      PROVE  WInv'
    BY <1>4, RefreshKeeps
<1>5. CASE Tick
    BY <1>5, TickKeeps
<1>6. ASSUME NEW j \in Jail, NEW n \in 1 .. MaxLines, NEW s \in [1 .. n -> Ip], Chunk(j, s)
      PROVE  WInv'
    <2>1. n \in Nat
        BY DecisionsAssumption
    <2>2. s \in Seq(Ip)
        BY <2>1
    <2>3. UNCHANGED windowVars /\ jail' = j /\ lines' \in Seq(Ip) /\ policy[j] # None
        BY <1>6, <2>2 DEF Chunk
    <2>4. policy'[jail'] # None
        BY <2>3 DEF windowVars
    <2> QED
        BY <2>3, <2>4, WindowsSame
<1>7. ASSUME \/ UNCHANGED decisionsVars \/ DrainDirectives \/ RoundEnds
             \/ Judged \/ Skip \/ SendFails \/ Dispatched
             \/ \E ip \in Ip : \/ Send(ip) \/ Refuses(ip)
                               \/ Accepts(ip) \/ MirrorChanges(ip)
      PROVE  WInv'
    <2>1. UNCHANGED <<windowVars, jail, lines>> /\ (stage' = "judge" => stage = "judge")
        BY <1>7 DEF decisionsVars, chunkVars, DrainDirectives, RoundEnds,
                    Judged, Skip, SendFails, Dispatched, Send,
                    Refuses, Accepts, MirrorChanges
    <2>2. policy' = policy
        BY <2>1 DEF windowVars
    <2> QED
        BY <2>1, <2>2, <1>1, WindowsSame
<1> QED
    BY <1>2, <1>3, <1>4, <1>5, <1>6, <1>7 DEF DecisionsNext

(* window.go: however the stamps are dropped, trimmed, cleaned up and kept *)
(* over reloads that change find_time and all else, a window holds the     *)
(* last failures without a gap, and none is missing that has been within   *)
(* the find_time in force ever since.                                      *)
THEOREM WindowsHold == DecisionsSpec => []WInv
<1>1. DecisionsInit => WInv
    BY WindowsInit
<1>2. WInv /\ [DecisionsNext]_(decisionsVars) => WInv'
    BY WindowsStep
<1> QED
    BY <1>1, <1>2, PTL DEF DecisionsSpec

LEMMA CountsAgree ==
    ASSUME WInv, NEW j \in Jail, NEW ip \in Ip, NEW w \in Nat
    PROVE  LET most == Cardinality(Fresh(made[j][ip], w))
           IN  /\ most \in Nat /\ kept[j][ip] \in Nat /\ Len(entries[j][ip]) \in Nat
               /\ kept[j][ip] <= Len(entries[j][ip])
               /\ Cardinality(Fresh(entries[j][ip], w)) = Smaller(Len(entries[j][ip]), most)
<1>1. Sound(entries[j][ip], made[j][ip])
    BY DEF WInv, WindowsOK
<1>2. Cardinality(Fresh(made[j][ip], w)) \in Nat
    <2>1. made[j][ip] \in Marks /\ Sorted(made[j][ip])
        BY <1>1 DEF Sound
    <2> QED
        BY <2>1, FreshMarks
<1>3. Len(entries[j][ip]) \in Nat
    BY <1>1 DEF Sound, Stamps
<1>4. Cardinality(Fresh(entries[j][ip], w))
         = Smaller(Len(entries[j][ip]), Cardinality(Fresh(made[j][ip], w)))
    BY <1>1, FreshStamps
<1>5. Knows(kept[j][ip], entries[j][ip], made[j][ip], policy[j])
    BY DEF WInv, WindowsOK
<1> QED
    BY <1>2, <1>3, <1>4, <1>5 DEF Knows

(* Observe and Forget: at every moment the failures in a window are at     *)
(* least as many as an observer knows that forgets at once, and at most as *)
(* many as there were, since the last intent, within the find_time.        *)
THEOREM WindowsCount == DecisionsSpec => []CountIsTrue
<1>1. ASSUME WInv PROVE CountIsTrue
    <2> SUFFICES ASSUME NEW j \in Jail, NEW ip \in Ip, policy[j] # None
                 PROVE  LET count == Cardinality(Fresh(entries[j][ip], policy[j].findTime))
                        IN  /\ kept[j][ip] <= count
                            /\ count <= Cardinality(Fresh(made[j][ip], policy[j].findTime))
        BY DEF CountIsTrue
    <2> DEFINE f == policy[j].findTime
               most == Cardinality(Fresh(made[j][ip], f))
               count == Cardinality(Fresh(entries[j][ip], f))
    <2>1. policy[j] \in Policies
        BY <1>1 DEF WInv, WindowsTyped
    <2>2. f \in Nat
        BY <2>1, PolicyNumbers, Numbers
    <2>3. kept[j][ip] <= most
        BY <1>1 DEF WInv, WindowsOK, Knows
    <2>4. /\ most \in Nat /\ kept[j][ip] \in Nat /\ Len(entries[j][ip]) \in Nat
          /\ kept[j][ip] <= Len(entries[j][ip]) /\ count = Smaller(Len(entries[j][ip]), most)
        BY <1>1, <2>2, CountsAgree
    <2> HIDE DEF f, most, count
    <2>5. kept[j][ip] <= count /\ count <= most
        BY <2>3, <2>4 DEF Smaller
    <2> QED
        BY <2>5 DEF f, most, count
<1> QED
    BY <1>1, WindowsHold, PTL

(* The count of the cluster scan lies between the two others.              *)
LEMMA CountBetween ==
    ASSUME WInv, NEW j \in Jail, NEW ip \in Ip, policy[j] # None
    PROVE  /\ Least(j, ip) \in Nat /\ Most(j, ip) \in Nat /\ Count(j, ip) \in Nat
           /\ Least(j, ip) > 0 => Count(j, ip) > 0
           /\ Count(j, ip) > 0 => Most(j, ip) > 0
           /\ Most(j, ip) <= policy[j].maxPerIP => Count(j, ip) <= policy[j].maxPerIP
           /\ Count(j, ip) <= policy[j].maxPerIP => Least(j, ip) <= policy[j].maxPerIP
<1> DEFINE w == policy[j].window
           q == policy[j].maxPerIP
           most == Cardinality(Fresh(made[j][ip], w))
           count == Cardinality(Fresh(entries[j][ip], w))
           k == kept[j][ip]
           L == Len(entries[j][ip])
<1>1. policy[j] \in Policies
    BY DEF WInv, WindowsTyped
<1>2. w \in Nat /\ q \in Nat
    BY <1>1, PolicyNumbers, Numbers
<1>3. /\ most \in Nat /\ k \in Nat /\ L \in Nat /\ k <= L /\ count = Smaller(L, most)
    BY <1>2, CountsAgree
<1>4. Count(j, ip) = Smaller(count, q + 1) /\ Most(j, ip) = most /\ Least(j, ip) = Smaller(k, most)
    BY DEF Count, CountRecent, Most, Least
<1> HIDE DEF w, most, count, k, L
<1> QED
    BY <1>2, <1>3, <1>4 DEF Smaller

(* The window holds its addresses for as long as it holds their stamps.    *)
LEMMA FewerQuiet ==
    ASSUME NEW S, NEW T \in SUBSET S, IsFiniteSet(S), NEW n \in Nat, Cardinality(T) >= n
    PROVE  Cardinality(S) >= n
<1>1. IsFiniteSet(T) /\ Cardinality(T) \in Nat /\ Cardinality(S) \in Nat
      /\ Cardinality(T) <= Cardinality(S)
    BY FS_Subset, FS_CardinalityType
<1> QED
    BY <1>1

(* DetectCluster: what surely is a cluster is found, what is found may be  *)
(* one.                                                                    *)
THEOREM ClustersAreFound ==
    ASSUME IsFiniteSet(Ip)
    PROVE  DecisionsSpec => []ClusterIsTrue
<1>1. ASSUME WInv PROVE ClusterIsTrue
    <2> SUFFICES ASSUME NEW j \in Jail, policy[j] # None, policy[j].window > 0, policy[j].minIPs > 0,
                        NEW s \in {SubnetKey(j, ip) : ip \in Ip}
                 PROVE  LET least(ip) == Least(j, ip)
                            most(ip) == Most(j, ip)
                        IN  /\ Cardinality(Seldom(j, s, least, most)) >= policy[j].minIPs
                                  => s \in DetectCluster(j)
                            /\ s \in DetectCluster(j)
                                  => Cardinality(Seldom(j, s, most, least)) >= policy[j].minIPs
        BY DEF ClusterIsTrue
    <2> DEFINE A == {ip \in Ip : /\ SubnetKey(j, ip) = s
                                 /\ Least(j, ip) > 0 /\ Most(j, ip) <= policy[j].maxPerIP}
               B == {ip \in Ip : /\ SubnetKey(j, ip) = s
                                 /\ Most(j, ip) > 0 /\ Least(j, ip) <= policy[j].maxPerIP}
               Q == CountQuiet(j, s)
    <2>1. A \subseteq Q /\ Q \subseteq B /\ B \subseteq Ip
        BY <1>1, CountBetween DEF CountQuiet, GroupBySubnet
    <2>2. IsFiniteSet(Q) /\ IsFiniteSet(B)
        BY <2>1, FS_Subset
    <2>3. policy[j] \in Policies
        BY <1>1 DEF WInv, WindowsTyped
    <2>4. policy[j].minIPs \in Nat
        BY <2>3, PolicyNumbers
    <2>5. s \in DetectCluster(j) <=> Cardinality(Q) >= policy[j].minIPs
        BY DEF DetectCluster
    <2> HIDE DEF A, B, Q
    <2>6. Cardinality(A) >= policy[j].minIPs => Cardinality(Q) >= policy[j].minIPs
        BY <2>1, <2>2, <2>4, FewerQuiet
    <2>7. Cardinality(Q) >= policy[j].minIPs => Cardinality(B) >= policy[j].minIPs
        BY <2>1, <2>2, <2>4, FewerQuiet
    <2> QED
        BY <2>5, <2>6, <2>7 DEF A, B, Seldom
<1> QED
    BY <1>1, WindowsHold, PTL

-----------------------------------------------------------------------------
(* As long as all policies have one find_time, no reload can revive what   *)
(* has been forgotten, and the observer knows all there is to know.        *)

Steady == \A p, q \in Policies : p.findTime = q.findTime

Remembers(x, m, pol) ==
    IF pol = None THEN m = NoFailure /\ x = 0 ELSE x = Cardinality(Fresh(m, pol.findTime))

AllRemembered == \A j \in Jail, ip \in Ip : Remembers(kept[j][ip], made[j][ip], policy[j])

LEMMA NoneFresh ==
    ASSUME NEW f \in 0 .. MaxAge
    PROVE  Cardinality(Fresh(NoFailure, f)) = 0
<1>1. Fresh(NoFailure, f) = {}
    BY Numbers DEF Fresh, NoFailure
<1> QED
    BY <1>1, FS_EmptySet

LEMMA OneMore ==
    ASSUME NEW m \in Marks, Sorted(m), NEW f \in Nat
    PROVE  Cardinality(Fresh(Shifted(m), f)) <= Cardinality(Fresh(m, f)) + 1
<1> DEFINE c == Cardinality(Fresh(m, f))
           d == Cardinality(Fresh(Shifted(m), f))
<1>1. c \in 0 .. MaxTimestampsPerIP /\ Fresh(m, f) = 1 .. c
    BY FreshMarks
<1>2. Shifted(m) \in Marks /\ Sorted(Shifted(m))
    BY ShiftedIn
<1>3. d \in 0 .. MaxTimestampsPerIP /\ Fresh(Shifted(m), f) = 1 .. d
    BY <1>2, FreshMarks
<1> HIDE DEF c, d
<1>4. CASE d \in {0, 1}
    BY <1>1, <1>4, Numbers DEF c, d
<1>5. CASE d \notin {0, 1}
    <2>1. d \in Fresh(Shifted(m), f) /\ d \in 1 .. MaxTimestampsPerIP
        BY <1>3, <1>5, Numbers
    <2>2. m[d - 1] <= f /\ d - 1 \in 1 .. MaxTimestampsPerIP
        BY <2>1, <1>5, Numbers DEF Fresh, Shifted
    <2>3. d - 1 \in Fresh(m, f)
        BY <2>2 DEF Fresh, Marks
    <2>4. d - 1 \in 1 .. c
        BY <2>3, <1>1
    <2>5. c \in Nat /\ d \in Nat
        BY <1>1, <1>3, Numbers
    <2> QED
        BY <2>4, <2>5 DEF c, d
<1> QED
    BY <1>4, <1>5

LEMMA NoneMore ==
    ASSUME NEW m \in Marks, Sorted(m), Older(m) \in Marks, Sorted(Older(m)),
           NEW f \in 0 .. MaxAge
    PROVE  Cardinality(Fresh(Older(m), f)) <= Cardinality(Fresh(m, f))
<1> DEFINE c == Cardinality(Fresh(m, f))
           d == Cardinality(Fresh(Older(m), f))
<1>0. f \in Nat
    BY Numbers
<1>1. c \in 0 .. MaxTimestampsPerIP /\ Fresh(m, f) = 1 .. c
    BY <1>0, FreshMarks
<1>2. d \in 0 .. MaxTimestampsPerIP /\ Fresh(Older(m), f) = 1 .. d
    BY <1>0, FreshMarks
<1> HIDE DEF c, d
<1>3. CASE d = 0
    BY <1>1, <1>3, Numbers DEF c, d
<1>4. CASE d # 0
    <2>1. d \in Fresh(Older(m), f) /\ d \in 1 .. MaxTimestampsPerIP
        BY <1>2, <1>4, Numbers
    <2>2. m[d] \in Int
        BY <2>1, Numbers DEF Marks, Ages
    <2>3. Older(m)[d] = Smaller(Old, m[d] + 1) /\ Older(m)[d] <= f
        BY <2>1 DEF Fresh, Older, Marks
    <2>4. m[d] <= f
        BY <2>2, <2>3, Numbers DEF Smaller
    <2>5. d \in Fresh(m, f)
        BY <2>1, <2>4 DEF Fresh, Marks
    <2>6. d \in 1 .. c
        BY <2>5, <1>1
    <2>7. c \in Nat /\ d \in Nat
        BY <1>1, <1>2, Numbers
    <2> QED
        BY <2>6, <2>7 DEF c, d
<1> QED
    BY <1>3, <1>4

LEMMA RememberedStep ==
    ASSUME Steady, WInv, AllRemembered, [DecisionsNext]_(decisionsVars)
    PROVE  AllRemembered'
<1>t. /\ policy \in [Jail -> Policies \cup {None}] /\ made \in [Jail -> [Ip -> Marks]]
      /\ kept \in [Jail -> [Ip -> Nat]] /\ jail \in Jail /\ lines \in Seq(Ip)
      /\ \A j \in Jail, ip \in Ip : Sorted(made[j][ip])
    BY DEF WInv, WindowsTyped, WindowsOK, Sound
<1>1. ASSUME NEW peak \in BOOLEAN, NEW score \in Scores, JudgeLine(peak, score)
      PROVE  AllRemembered'
    <2> DEFINE a == Head(lines)
               p == policy[jail]
               last == Shifted(made[jail][a])
               ban == ReachedCap(Observed(entries[jail][a], p.findTime), p.findTime,
                                 EffectiveThreshold(p.retries, peak, a, score))
               m == IF ban THEN NoFailure ELSE last
               x == IF ban THEN 0 ELSE Remaining(kept[jail][a] + 1, last, p.findTime)
    <2>1. lines # <<>> /\ a \in Ip /\ p \in Policies /\ p # None
        <3>1. lines # <<>> /\ p # None /\ p \in Policies \cup {None}
            BY <1>1, <1>t DEF JudgeLine, WInv, WindowsTyped
        <3> QED
            BY <3>1, <1>t, HeadTailProperties
    <2>2. /\ made' = [made EXCEPT ![jail][a] = m] /\ kept' = [kept EXCEPT ![jail][a] = x]
          /\ policy' = policy
        BY <1>1 DEF JudgeLine
    <2>3. Remembers(x, m, p)
        <3>1. p.findTime \in 0 .. MaxAge /\ p.findTime \in Nat
            BY <2>1, PolicyNumbers, Numbers
        <3>2. CASE ban
            <4>1. Cardinality(Fresh(NoFailure, p.findTime)) = 0
                BY <3>1, NoneFresh
            <4> QED
                BY <3>2, <4>1, <2>1 DEF Remembers
        <3>3. CASE ~ ban
            <4> DEFINE c == Cardinality(Fresh(made[jail][a], p.findTime))
                       d == Cardinality(Fresh(last, p.findTime))
            <4>1. made[jail][a] \in Marks /\ Sorted(made[jail][a])
                BY <1>t, <2>1
            <4>2. d <= c + 1
                BY <3>1, <4>1, OneMore
            <4>3. last \in Marks /\ Sorted(last)
                BY <4>1, ShiftedIn
            <4>4. c \in 0 .. MaxTimestampsPerIP /\ d \in 0 .. MaxTimestampsPerIP
                BY <3>1, <4>1, <4>3, FreshMarks
            <4>5. kept[jail][a] = c
                BY <1>t, <2>1 DEF AllRemembered, Remembers
            <4>6. x = Smaller(c + 1, d) /\ m = last
                BY <3>3, <4>5 DEF Remaining
            <4> HIDE DEF c, d, x, m
            <4>7. x = d
                BY <4>2, <4>4, <4>6, Numbers DEF Smaller
            <4> QED
                BY <4>6, <4>7, <2>1 DEF Remembers, d
        <3> QED
            BY <3>2, <3>3
    <2> HIDE DEF a, p, m, x
    <2> SUFFICES ASSUME NEW j \in Jail, NEW ip \in Ip
                 PROVE  Remembers(kept'[j][ip], made'[j][ip], policy'[j])
        BY DEF AllRemembered, Remembers
    <2>4. CASE j = jail /\ ip = a
        <3>1. made'[j][ip] = m /\ kept'[j][ip] = x /\ policy'[j] = p
            BY <2>2, <2>4, <1>t DEF p
        <3> QED
            BY <2>3, <3>1
    <2>5. CASE ~ (j = jail /\ ip = a)
        <3>1. /\ made'[j][ip] = made[j][ip] /\ kept'[j][ip] = kept[j][ip]
              /\ policy'[j] = policy[j]
            BY <2>2, <2>5, <1>t
        <3> QED
            BY <3>1 DEF AllRemembered
    <2> QED
        BY <2>4, <2>5
<1>2. ASSUME NEW new \in [Jail -> Policies \cup {None}], RefreshJails(new)
      PROVE  AllRemembered'
    <2> SUFFICES ASSUME NEW j \in Jail, NEW ip \in Ip
                 PROVE  Remembers(kept'[j][ip], made'[j][ip], policy'[j])
        BY DEF AllRemembered, Remembers
    <2>1. policy' = new
        BY <1>2 DEF RefreshJails
    <2>2. CASE new[j] = None
        <3>1. made'[j][ip] = NoFailure /\ kept'[j][ip] = 0
            BY <1>2, <2>2 DEF RefreshJails
        <3> QED
            BY <2>1, <2>2, <3>1 DEF Remembers
    <2>3. CASE new[j] # None
        <3> DEFINE f == new[j].findTime
                   c == Cardinality(Fresh(made[j][ip], f))
        <3>1. made'[j][ip] = made[j][ip] /\ kept'[j][ip] = Smaller(kept[j][ip], c)
            BY <1>2, <2>3 DEF RefreshJails, Remaining
        <3>2. new[j] \in Policies
            BY <2>3
        <3>3. f \in 0 .. MaxAge /\ f \in Nat
            BY <3>2, PolicyNumbers, Numbers
        <3>4. c \in 0 .. MaxTimestampsPerIP
            <4>1. made[j][ip] \in Marks /\ Sorted(made[j][ip])
                BY <1>t
            <4> QED
                BY <3>3, <4>1, FreshMarks
        <3>5. kept[j][ip] = c
            <4>1. CASE policy[j] = None
                BY <4>1, <3>3, NoneFresh DEF AllRemembered, Remembers
            <4>2. CASE policy[j] # None
                <5>1. policy[j] \in Policies
                    BY <4>2, <1>t
                <5>2. policy[j].findTime = f
                    BY <3>2, <5>1 DEF Steady
                <5> QED
                    BY <4>2, <5>2 DEF AllRemembered, Remembers
            <4> QED
                BY <4>1, <4>2
        <3> HIDE DEF c
        <3>6. kept'[j][ip] = c
            BY <3>1, <3>4, <3>5, Numbers DEF Smaller
        <3> QED
            BY <2>1, <2>3, <3>1, <3>6 DEF Remembers, c
    <2> QED
        BY <2>2, <2>3
<1>3. CASE Tick
    <2> SUFFICES ASSUME NEW j \in Jail, NEW ip \in Ip
                 PROVE  Remembers(kept'[j][ip], made'[j][ip], policy'[j])
        BY DEF AllRemembered, Remembers
    <2> DEFINE m == made[j][ip]
    <2>1. made'[j][ip] = Older(m) /\ policy' = policy
        BY <1>3 DEF Tick, Aged
    <2>2. Sound(Older(entries[j][ip]), Older(m))
        BY OlderHolds DEF WInv, WindowsOK
    <2>3. m \in Marks /\ Sorted(m) /\ Older(m) \in Marks /\ Sorted(Older(m))
        BY <2>2, <1>t DEF Sound
    <2>4. CASE policy[j] = None
        <3>1. kept'[j][ip] = 0 /\ m = NoFailure
            BY <1>3, <2>4 DEF Tick, AllRemembered, Remembers
        <3>2. Older(NoFailure) = NoFailure
            BY Numbers DEF Older, NoFailure, Smaller
        <3> QED
            BY <2>1, <2>4, <3>1, <3>2 DEF Remembers
    <2>5. CASE policy[j] # None
        <3> DEFINE f == policy[j].findTime
                   c == Cardinality(Fresh(m, f))
                   d == Cardinality(Fresh(Older(m), f))
        <3>1. policy[j] \in Policies
            BY <2>5, <1>t
        <3>2. f \in 0 .. MaxAge /\ f \in Nat
            BY <3>1, PolicyNumbers, Numbers
        <3>3. kept'[j][ip] = Smaller(kept[j][ip], d)
            BY <1>3, <2>5 DEF Tick, Remaining
        <3>4. kept[j][ip] = c
            BY <2>5 DEF AllRemembered, Remembers
        <3>5. c \in 0 .. MaxTimestampsPerIP /\ d \in 0 .. MaxTimestampsPerIP
            BY <2>3, <3>2, FreshMarks
        <3>6. d <= c
            BY <2>3, <3>2, NoneMore
        <3> HIDE DEF c, d
        <3>7. kept'[j][ip] = d
            BY <3>3, <3>4, <3>5, <3>6, Numbers DEF Smaller
        <3> QED
            BY <2>1, <2>5, <3>7 DEF Remembers, d
    <2> QED
        BY <2>4, <2>5
<1>4. CASE Cleanup
    BY <1>4 DEF Cleanup, AllRemembered, Remembers
<1>5. CASE UNCHANGED windowVars
    BY <1>5 DEF windowVars, AllRemembered, Remembers
<1>6. \/ \E peak \in BOOLEAN, score \in Scores : JudgeLine(peak, score)
      \/ \E new \in [Jail -> Policies \cup {None}] : RefreshJails(new)
      \/ Tick \/ Cleanup \/ UNCHANGED windowVars
    BY DEF DecisionsNext, decisionsVars, DrainDirectives, RoundEnds, Chunk, Judged,
           Skip, SendFails, Dispatched, Send, Refuses, Accepts, MirrorChanges
<1> QED
    BY <1>1, <1>2, <1>3, <1>4, <1>5, <1>6

LEMMA AlwaysRemembered ==
    ASSUME Steady
    PROVE  DecisionsSpec => []AllRemembered
<1>1. DecisionsInit => AllRemembered
    <2> SUFFICES ASSUME DecisionsInit, NEW j \in Jail, NEW ip \in Ip
                 PROVE  Remembers(kept[j][ip], made[j][ip], policy[j])
        BY DEF AllRemembered
    <2>1. policy[j] \in Policies /\ made[j][ip] = NoFailure /\ kept[j][ip] = 0
        BY DEF DecisionsInit
    <2>2. policy[j].findTime \in 0 .. MaxAge /\ policy[j] # None
        BY <2>1, PolicyNumbers
    <2> QED
        BY <2>1, <2>2, NoneFresh DEF Remembers
<1>2. WInv /\ AllRemembered /\ [DecisionsNext]_(decisionsVars) => AllRemembered'
    BY RememberedStep
<1> QED
    BY <1>1, <1>2, WindowsHold, PTL DEF DecisionsSpec

(* With one find_time the window's count is exactly what has failed within *)
(* it since the last intent, over all trimming, cleaning up and reloading. *)
THEOREM SteadyCountIsExact ==
    ASSUME Steady
    PROVE  DecisionsSpec => []CountIsExact
<1>1. ASSUME WInv, AllRemembered PROVE CountIsExact
    <2> SUFFICES ASSUME NEW j \in Jail, NEW ip \in Ip, policy[j] # None
                 PROVE  Cardinality(Fresh(entries[j][ip], policy[j].findTime))
                           = Cardinality(Fresh(made[j][ip], policy[j].findTime))
        BY DEF CountIsExact
    <2> DEFINE f == policy[j].findTime
               most == Cardinality(Fresh(made[j][ip], f))
               count == Cardinality(Fresh(entries[j][ip], f))
    <2>1. policy[j] \in Policies
        BY <1>1 DEF WInv, WindowsTyped
    <2>2. f \in Nat
        BY <2>1, PolicyNumbers, Numbers
    <2>3. kept[j][ip] = most
        BY <1>1 DEF AllRemembered, Remembers
    <2>4. /\ most \in Nat /\ Len(entries[j][ip]) \in Nat
          /\ kept[j][ip] <= Len(entries[j][ip]) /\ count = Smaller(Len(entries[j][ip]), most)
        BY <1>1, <2>2, CountsAgree
    <2> HIDE DEF f, most, count
    <2>5. count = most
        BY <2>3, <2>4 DEF Smaller
    <2> QED
        BY <2>5 DEF f, most, count
<1> QED
    BY <1>1, AlwaysRemembered, WindowsHold, PTL

LEMMA CountInWindow ==
    ASSUME WInv, AllRemembered, NEW j \in Jail, NEW ip \in Ip, policy[j] # None,
           policy[j].window <= policy[j].findTime
    PROVE  /\ Count(j, ip) > 0 <=> Most(j, ip) > 0
           /\ Count(j, ip) <= policy[j].maxPerIP <=> Most(j, ip) <= policy[j].maxPerIP
<1> DEFINE w == policy[j].window
           f == policy[j].findTime
           q == policy[j].maxPerIP
           m == made[j][ip]
           most == Cardinality(Fresh(m, w))
           all == Cardinality(Fresh(m, f))
           count == Cardinality(Fresh(entries[j][ip], w))
           L == Len(entries[j][ip])
<1>1. policy[j] \in Policies
    BY DEF WInv, WindowsTyped
<1>2. w \in Nat /\ f \in Nat /\ q \in Nat
    BY <1>1, PolicyNumbers, Numbers
<1>3. m \in Marks /\ Sorted(m)
    BY DEF WInv, WindowsOK, Sound
<1>4. /\ most \in 0 .. MaxTimestampsPerIP /\ Fresh(m, w) = 1 .. most
      /\ all \in 0 .. MaxTimestampsPerIP /\ Fresh(m, f) = 1 .. all
    BY <1>2, <1>3, FreshMarks
<1>5. Fresh(m, w) \subseteq Fresh(m, f)
    <2>1. \A k \in DOMAIN m : m[k] \in Int
        BY <1>3, Numbers DEF Marks, Ages
    <2> QED
        BY <1>2, <2>1 DEF Fresh
<1>6. kept[j][ip] = all
    BY DEF AllRemembered, Remembers
<1>7. most \in Nat /\ kept[j][ip] <= L /\ L \in Nat /\ count = Smaller(L, most)
    BY <1>2, CountsAgree
<1>8. Count(j, ip) = Smaller(count, q + 1) /\ Most(j, ip) = most
    BY DEF Count, CountRecent, Most
<1> HIDE DEF most, all, count, L, w, f, q
<1>9. most <= all
    <2>1. all \in Nat
        BY <1>4, Numbers
    <2>2. most # 0 => most \in 1 .. all
        BY <1>4, <1>5, <1>7
    <2> QED
        BY <1>7, <2>1, <2>2
<1>10. count = most
    BY <1>4, <1>6, <1>7, <1>9, Numbers DEF Smaller
<1> QED
    BY <1>2, <1>7, <1>8, <1>10 DEF Smaller, q

(* With one find_time and no window longer than it, the scan finds exactly *)
(* the networks in which enough addresses have failed seldom enough.       *)
THEOREM SteadyClustersAreExact ==
    ASSUME Steady, \A p \in Policies : p.window <= p.findTime
    PROVE  DecisionsSpec => []ClusterIsExact
<1>1. ASSUME WInv, AllRemembered PROVE ClusterIsExact
    <2> SUFFICES ASSUME NEW j \in Jail, policy[j] # None, policy[j].window > 0,
                        policy[j].minIPs > 0, NEW s \in {SubnetKey(j, ip) : ip \in Ip}
                 PROVE  LET most(ip) == Most(j, ip)
                        IN  s \in DetectCluster(j)
                              <=> Cardinality(Seldom(j, s, most, most)) >= policy[j].minIPs
        BY DEF ClusterIsExact
    <2> DEFINE A == {ip \in Ip : /\ SubnetKey(j, ip) = s
                                 /\ Most(j, ip) > 0 /\ Most(j, ip) <= policy[j].maxPerIP}
    <2>1. policy[j] \in Policies
        BY <1>1 DEF WInv, WindowsTyped
    <2>2. A = CountQuiet(j, s)
        BY <1>1, <2>1, CountInWindow DEF CountQuiet, GroupBySubnet
    <2>3. s \in DetectCluster(j) <=> Cardinality(A) >= policy[j].minIPs
        BY <2>2 DEF DetectCluster
    <2> QED
        BY <2>3 DEF Seldom
<1> QED
    BY <1>1, AlwaysRemembered, WindowsHold, PTL

-----------------------------------------------------------------------------
(* The refusals                                                            *)

(* Whoever was refused is on the list, or the executor keeps quiet at least *)
(* as long as it has to.                                                   *)
Noted ==
    /\ cmd \in Seq(Ip) /\ recent \subseteq Ip
    /\ rejected \in [Ip -> Nat] /\ quiet \in [Ip -> Nat]
    /\ \A ip \in Ip :
          /\ quiet[ip] <= Cooldown
          /\ ip \in recent => \E k \in DOMAIN cmd : cmd[k] = ip
          /\ ip \in recent \/ quiet[ip] <= rejected[ip]

LEMMA NotedStep ==
    ASSUME Noted, [DecisionsNext]_(decisionsVars)
    PROVE  Noted'
<1>1. Cooldown \in Nat
    BY Numbers
<1>2. CASE DrainDirectives
    <2>1. /\ cmd' = <<>> /\ recent' = {} /\ quiet' = quiet
          /\ rejected' = [ip \in Ip |-> IF \E k \in DOMAIN cmd : cmd[k] = ip THEN Cooldown
                                        ELSE rejected[ip]]
        BY <1>2 DEF DrainDirectives
    <2>2. cmd' \in Seq(Ip) /\ rejected' \in [Ip -> Nat]
        BY <1>1, <2>1 DEF Noted
    <2> QED
        BY <2>1, <2>2 DEF Noted
<1>3. CASE Tick
    <2>1. /\ cmd' = cmd /\ recent' = recent
          /\ rejected' = [ip \in Ip |-> Larger(0, rejected[ip] - 1)]
          /\ quiet' = [ip \in Ip |-> Larger(0, quiet[ip] - 1)]
        BY <1>3 DEF Tick
    <2>2. \A x \in Nat : Larger(0, x - 1) \in Nat /\ Larger(0, x - 1) <= x
        BY DEF Larger
    <2>3. \A x, y \in Nat : x <= y => Larger(0, x - 1) <= Larger(0, y - 1)
        BY DEF Larger
    <2>4. rejected' \in [Ip -> Nat] /\ quiet' \in [Ip -> Nat]
        BY <2>1, <2>2 DEF Noted
    <2>5. \A ip \in Ip : quiet'[ip] <= Cooldown
        <3> TAKE ip \in Ip
        <3>1. quiet[ip] \in Nat /\ quiet[ip] <= Cooldown
            BY DEF Noted
        <3>2. quiet'[ip] \in Nat /\ quiet'[ip] <= quiet[ip]
            BY <2>1, <2>2, <3>1
        <3> QED
            BY <1>1, <3>1, <3>2
    <2>6. \A ip \in Ip : ip \in recent \/ quiet'[ip] <= rejected'[ip]
        BY <2>1, <2>3 DEF Noted
    <2> QED
        BY <2>1, <2>4, <2>5, <2>6 DEF Noted
<1>4. ASSUME NEW a \in Ip, Refuses(a) PROVE Noted'
    <2>1. CASE ~ (Len(cmd) < QueueCap)
        BY <1>4, <2>1 DEF Refuses, Noted
    <2>2. CASE Len(cmd) < QueueCap
        <3>1. /\ cmd' = Append(cmd, a) /\ rejected' = rejected
              /\ quiet' = [quiet EXCEPT ![a] = Cooldown] /\ recent' = recent \cup {a}
            BY <1>4, <2>2 DEF Refuses
        <3>2. cmd \in Seq(Ip) /\ quiet \in [Ip -> Nat]
            BY DEF Noted
        <3>3. /\ cmd' \in Seq(Ip) /\ Len(cmd') = Len(cmd) + 1
              /\ \A i \in 1 .. Len(cmd) : cmd'[i] = cmd[i]
              /\ cmd'[Len(cmd) + 1] = a
            BY <3>1, <3>2, AppendProperties
        <3>d. Len(cmd) \in Nat /\ DOMAIN cmd' = 1 .. Len(cmd) + 1
            BY <3>2, <3>3
        <3>4. \A ip \in recent' : \E k \in DOMAIN cmd' : cmd'[k] = ip
            <4> TAKE ip \in recent'
            <4>1. CASE ip = a
                <5>1. Len(cmd) + 1 \in DOMAIN cmd'
                    BY <3>d
                <5> QED
                    BY <3>3, <4>1, <5>1
            <4>2. CASE ip # a
                <5>1. PICK k \in 1 .. Len(cmd) : cmd[k] = ip
                    BY <3>1, <3>2, <4>2 DEF Noted
                <5>2. k \in DOMAIN cmd'
                    BY <3>d
                <5> QED
                    BY <3>3, <5>1, <5>2
            <4> QED
                BY <4>1, <4>2
        <3>5. quiet' \in [Ip -> Nat] /\ \A ip \in Ip : quiet'[ip] = IF ip = a THEN Cooldown ELSE quiet[ip]
            BY <1>1, <3>1, <3>2
        <3>6. recent' \subseteq Ip /\ rejected' \in [Ip -> Nat]
            BY <3>1 DEF Noted
        <3>7. \A ip \in Ip : quiet'[ip] <= Cooldown
            <4> TAKE ip \in Ip
            <4>1. quiet[ip] <= Cooldown /\ Cooldown <= Cooldown
                BY <1>1 DEF Noted
            <4>2. quiet'[ip] = IF ip = a THEN Cooldown ELSE quiet[ip]
                BY <3>5
            <4> QED
                BY <4>1, <4>2
        <3>8. \A ip \in Ip : ip \in recent' \/ quiet'[ip] <= rejected'[ip]
            BY <3>1, <3>5 DEF Noted
        <3> QED
            BY <3>3, <3>4, <3>5, <3>6, <3>7, <3>8 DEF Noted
    <2> QED
        BY <2>1, <2>2
<1>5. CASE UNCHANGED rejectVars
    BY <1>5 DEF Noted, rejectVars
<1>6. ASSUME NEW new \in [Jail -> Policies \cup {None}], RefreshJails(new)
      PROVE  UNCHANGED rejectVars
    BY <1>6 DEF RefreshJails
<1>7. \/ DrainDirectives \/ Tick \/ \E a \in Ip : Refuses(a)
      \/ UNCHANGED rejectVars
    BY <1>6 DEF DecisionsNext, decisionsVars, RoundEnds, Chunk, JudgeLine, Judged,
           Skip, SendFails, Dispatched, Cleanup, Send,
           Accepts, MirrorChanges
<1> QED
    BY <1>2, <1>3, <1>4, <1>5, <1>7

(* dispatchRejectionCooldown: an address that the kernel has refused is    *)
(* not sent again before Cooldown seconds are over, unless the refusal has *)
(* still to be drained or was lost with its directive.                     *)
THEOREM RefusalsSilence == DecisionsSpec => RefusedIsQuiet
<1>1. DecisionsInit => Noted
    BY Numbers DEF DecisionsInit, Noted
<1>2. Noted /\ [DecisionsNext]_(decisionsVars) => Noted'
    BY NotedStep
<1>3. Noted => [\A ip \in Ip : Send(ip) => quiet[ip] = 0 \/ ip \in recent]_(decisionsVars)
    BY DEF Noted, Send, Suppressed
<1> QED
    BY <1>1, <1>2, <1>3, PTL DEF DecisionsSpec, RefusedIsQuiet
=============================================================================
