-------------------------- MODULE KernelLink_proofs --------------------------
(***************************************************************************)
(* First KernelLink, then BanMirror, whose pump reads the kernel's table   *)
(* over this link.                                                         *)
(*                                                                         *)
(* For any number of callers and any size of the tables: an entry of the   *)
(* pending table belongs to a request that is under way, and nobody enters *)
(* the table once it has been cleared.                                     *)
(*                                                                         *)
(* The first rests on sequence numbers.  Abandon and the receiver remove   *)
(* entries by number, and an answer is matched by number, so the argument  *)
(* is that a number which is still in somebody's hands is not given out    *)
(* again.  Recent is the arc of numbers given out so far; the next one     *)
(* lies outside it.                                                        *)
(*                                                                         *)
(* For any prefixes, addresses, sizes of table, page and queue: a ban that *)
(* stays is not judged a ghost when the table stood still meanwhile.  The  *)
(* argument is that the listing holds the first offset rows of the table.  *)
(***************************************************************************)
EXTENDS KernelLink, BanMirror, FiniteSetTheorems, SequenceTheorems, TLAPS

(* The number the next request gets: 0 is left out.                        *)
Upcoming == IF nextSeq = 0 THEN 1 ELSE nextSeq

(* s has been given out: it lies at most ops places behind the next one,   *)
(* on the circle of the SeqSpace - 1 numbers that are not 0.               *)
Recent(s) ==
    /\ s \in 1 .. SeqSpace - 1
    /\ (IF s < Upcoming THEN Upcoming ELSE Upcoming + (SeqSpace - 1)) - s <= ops

Active(c) == cpc[c] # "idle"

NumbersOK ==
    /\ \A c \in Caller : Active(c) => Recent(cseq[c])
    /\ \A e \in pending : Recent(e.seq)
    /\ tx # None => Recent(tx.seq)

(* Requests under way have different numbers.                              *)
Apart == \A c, d \in Caller : Active(c) /\ Active(d) /\ cseq[c] = cseq[d] => c = d

(* The entry that the receiver has claimed is out of the table, and no     *)
(* request that is not yet in the table has its number.                    *)
ClaimOK ==
    /\ rpc = "delivering" <=> tx # None
    /\ tx # None => \A e \in pending : e.seq # tx.seq
    /\ tx # None => \A c \in Caller : cpc[c] = "allocated" => cseq[c] # tx.seq

(* A request with an answer in its channel has no entry any more.          *)
AnsweredOK ==
    /\ \A c \in Caller : cpc[c] = "allocated" => ~inbox[c]
    /\ \A c \in Caller : Active(c) /\ inbox[c] =>
          \A e \in pending : e.seq # cseq[c]

DeadOK == rpc \in {"dead", "cleared", "exited"} => ~alive

IInv ==
    /\ TypeOK /\ IsFiniteSet(pending) /\ NumbersOK /\ Apart /\ ClaimOK /\ AnsweredOK
    /\ NoOrphanEntry /\ DeadOK /\ ClosedIsEmpty

-----------------------------------------------------------------------------
(* Numbers.                                                                *)

LEMMA OnCircle ==
    ASSUME NEW N \in Nat \ {0}, NEW x \in 1 .. N
    PROVE  x % N = IF x = N THEN 0 ELSE x
<1>1. CASE x = N
    <2>1. N = N * 1 + 0
        OBVIOUS
    <2> QED
        BY <1>1, <2>1
<1>2. CASE x # N
    <2>1. x \in 0 .. N - 1
        BY <1>2
    <2> QED
        BY <1>2, <2>1
<1> QED
    BY <1>1, <1>2

LEMMA UpcomingType == TypeOK => Upcoming \in 1 .. SeqSpace - 1
BY LinkAssumption DEF TypeOK, Upcoming

LEMMA CounterStep ==
    ASSUME TypeOK, nextSeq' = (Upcoming + 1) % SeqSpace
    PROVE  /\ nextSeq' \in 0 .. SeqSpace - 1
           /\ Upcoming' = IF Upcoming = SeqSpace - 1 THEN 1 ELSE Upcoming + 1
<1>1. Upcoming \in 1 .. SeqSpace - 1 /\ SeqSpace \in Nat \ {0}
    BY UpcomingType, LinkAssumption
<1>2. Upcoming + 1 \in 1 .. SeqSpace
    BY <1>1
<1>3. nextSeq' = IF Upcoming + 1 = SeqSpace THEN 0 ELSE Upcoming + 1
    BY <1>1, <1>2, OnCircle
<1>4. Upcoming' = IF nextSeq' = 0 THEN 1 ELSE nextSeq'
    BY DEF Upcoming
<1> HIDE DEF Upcoming
<1> QED
    BY <1>1, <1>3, <1>4

(* The next number has not been given out.                                 *)
LEMMA UpcomingIsFresh == TypeOK => ~Recent(Upcoming)
BY LinkAssumption DEF TypeOK, Upcoming, Recent

(* What has been given out stays so, and the number given out joins.       *)
LEMMA RecentGrows ==
    ASSUME TypeOK, ops' = ops + 1, nextSeq' = (Upcoming + 1) % SeqSpace
    PROVE  \A s : s = Upcoming \/ Recent(s) => Recent(s)'
<1> SUFFICES ASSUME NEW s, s = Upcoming \/ Recent(s) PROVE Recent(s)'
    OBVIOUS
<1>1. Upcoming \in 1 .. SeqSpace - 1 /\ ops \in Nat /\ SeqSpace \in Nat
    BY UpcomingType, LinkAssumption DEF TypeOK
<1>2. Upcoming' = IF Upcoming = SeqSpace - 1 THEN 1 ELSE Upcoming + 1
    BY CounterStep
<1> HIDE DEF Upcoming
<1>3. ASSUME Recent(s) PROVE Recent(s)'
    BY <1>1, <1>2, <1>3 DEF Recent
<1>4. ASSUME s = Upcoming PROVE Recent(s)'
    BY <1>1, <1>2, <1>4 DEF Recent
<1> QED
    BY <1>3, <1>4

LEMMA RecentStays ==
    ASSUME TypeOK, ops' \in {ops, ops + 1}, UNCHANGED nextSeq
    PROVE  \A s : Recent(s) => Recent(s)'
BY LinkAssumption DEF TypeOK, Upcoming, Recent

-----------------------------------------------------------------------------
(* Types.                                                                  *)

LEMMA FewerEntries ==
    ASSUME TypeOK, IsFiniteSet(pending), pending' \subseteq pending
    PROVE  /\ pending' \subseteq [seq : 1 .. SeqSpace - 1, to : Caller]
           /\ IsFiniteSet(pending') /\ Cardinality(pending') <= MaxInFlight
<1>1. /\ IsFiniteSet(pending') /\ Cardinality(pending') <= Cardinality(pending)
      /\ Cardinality(pending') \in Nat /\ Cardinality(pending) \in Nat
    BY FS_Subset, FS_CardinalityType
<1> QED
    BY <1>1, LinkAssumption DEF TypeOK

LEMMA OneMoreEntry ==
    ASSUME TypeOK, IsFiniteSet(pending), NumbersOK, NEW c \in Caller, Register(c)
    PROVE  /\ pending' \subseteq [seq : 1 .. SeqSpace - 1, to : Caller]
           /\ IsFiniteSet(pending') /\ Cardinality(pending') <= MaxInFlight
<1>1. /\ pending' = pending \cup {Entry(c)}
      /\ ~(Cardinality(pending) >= MaxInFlight)
    BY DEF Register, Refused
<1>2. cseq[c] \in 1 .. SeqSpace - 1
    BY DEF Register, NumbersOK, Active, Recent
<1>3. IsFiniteSet(pending') /\ Cardinality(pending') <= Cardinality(pending) + 1
    BY <1>1, FS_AddElement, FS_CardinalityType
<1>4. Cardinality(pending) \in Nat /\ Cardinality(pending') \in Nat
    BY <1>3, FS_CardinalityType
<1> QED
    BY <1>1, <1>2, <1>3, <1>4, LinkAssumption DEF TypeOK, Entry

(* The receive buffer: one datagram more, or one less.                     *)
LEMMA Arrival ==
    ASSUME TypeOK, NEW d \in 0 .. SeqSpace, Len(rx) < RxCap, rx' = Append(rx, d)
    PROVE  rx' \in Seq(0 .. SeqSpace) /\ Len(rx') <= RxCap
BY LinkAssumption DEF TypeOK

LEMMA Reception ==
    ASSUME TypeOK, Receives, rx' = Tail(rx)
    PROVE  /\ rx' \in Seq(0 .. SeqSpace) /\ Len(rx') <= RxCap
           /\ Head(rx) \in 0 .. SeqSpace
BY LinkAssumption DEF TypeOK, Receives, NothingToReceive

LEMMA TypeStep ==
    ASSUME TypeOK, IsFiniteSet(pending), NumbersOK, ClaimOK, [Next]_vars
    PROVE  TypeOK' /\ IsFiniteSet(pending')
<1> USE LinkAssumption DEF callerVars, tableVars, reactorVars, closeVars, notReactor,
        rootOnly
<1>0. Upcoming \in 1 .. SeqSpace - 1
    BY UpcomingType
<1>1. ASSUME NEW c \in Caller, Alloc(c) PROVE TypeOK' /\ IsFiniteSet(pending')
    <2>1. /\ cseq' = [cseq EXCEPT ![c] = Upcoming]
          /\ nextSeq' = (Upcoming + 1) % SeqSpace
        BY <1>1 DEF Alloc, Upcoming
    <2>2. nextSeq' \in 0 .. SeqSpace - 1
        BY <2>1, CounterStep
    <2>3. /\ cpc' = [cpc EXCEPT ![c] = "allocated"]
          /\ inbox' = [inbox EXCEPT ![c] = FALSE]
          /\ UNCHANGED <<tableVars, rx, events, reactorVars, closeVars>>
          /\ ops < MaxOps /\ ops' = ops + 1
        BY <1>1 DEF Alloc, Spend
    <2>4. cseq' \in [Caller -> 0 .. SeqSpace - 1]
        BY <1>0, <2>1 DEF TypeOK
    <2>5. ops' \in 0 .. MaxOps
        BY <2>3 DEF TypeOK
    <2>6. cpc' \in [Caller -> {"idle", "allocated"} \cup InExchange]
          /\ inbox' \in [Caller -> BOOLEAN]
        BY <2>3 DEF TypeOK
    <2> QED
        BY <2>2, <2>3, <2>4, <2>5, <2>6 DEF TypeOK
<1>2. ASSUME NEW c \in Caller, Command(c) PROVE TypeOK' /\ IsFiniteSet(pending')
    <2>1. nextSeq' = (Upcoming + 1) % SeqSpace
        BY <1>2 DEF Command, Upcoming
    <2>2. nextSeq' \in 0 .. SeqSpace - 1
        BY <2>1, CounterStep
    <2>3. rx' \in Seq(0 .. SeqSpace) /\ Len(rx') <= RxCap
        <3>1. CASE UNCHANGED rx
            BY <3>1 DEF TypeOK
        <3>2. CASE Len(rx) < RxCap /\ rx' = Append(rx, Event)
            BY <1>0, <3>2, Arrival DEF Event
        <3> QED
            BY <1>2, <3>1, <3>2 DEF Command
    <2>4. /\ UNCHANGED <<callerVars, tableVars, events, reactorVars, closeVars>>
          /\ ops < MaxOps /\ ops' = ops + 1
        BY <1>2 DEF Command, Spend
    <2> QED
        BY <2>2, <2>3, <2>4 DEF TypeOK
<1>3. ASSUME NEW c \in Caller, Exchange(c) PROVE TypeOK' /\ IsFiniteSet(pending')
    <2>1. CASE Register(c)
        BY <2>1, OneMoreEntry DEF Register, TypeOK, InExchange
    <2>2. CASE RegisterFails(c)
        BY <2>2 DEF RegisterFails, Ends, TypeOK
    <2>3. CASE SendOk(c)
        <3>1. cseq[c] \in 0 .. SeqSpace
            BY DEF TypeOK
        <3>2. rx' \in Seq(0 .. SeqSpace) /\ Len(rx') <= RxCap
            BY <2>3, <3>1, Arrival DEF SendOk, TypeOK
        <3> QED
            BY <2>3, <3>2 DEF SendOk, TypeOK, InExchange
    <2>4. CASE SendFails(c)
        BY <2>4, FewerEntries DEF SendFails, Abandon, Ends, TypeOK
    <2>5. CASE Receive(c)
        BY <2>5 DEF Receive, Ends, TypeOK
    <2>6. CASE GiveUp(c)
        BY <2>6 DEF GiveUp, TypeOK, InExchange
    <2>7. CASE GiveUpEnds(c)
        BY <2>7, FewerEntries DEF GiveUpEnds, Abandon, TypeOK
    <2> QED
        BY <1>3, <2>1, <2>2, <2>3, <2>4, <2>5, <2>6, <2>7 DEF Exchange
<1>4. ASSUME Arrives PROVE TypeOK' /\ IsFiniteSet(pending')
    <2>1. rx' \in Seq(0 .. SeqSpace) /\ Len(rx') <= RxCap
        <3>1. 0 \in 0 .. SeqSpace /\ SeqSpace \in 0 .. SeqSpace
            OBVIOUS
        <3>2. PICK d \in {0, SeqSpace} : Len(rx) < RxCap /\ rx' = Append(rx, d)
            BY <1>4 DEF Arrives, Event, Junk
        <3> QED
            BY <3>1, <3>2, Arrival
    <2>2. /\ UNCHANGED <<nextSeq, callerVars, tableVars, events, reactorVars, closeVars>>
          /\ ops < MaxOps /\ ops' = ops + 1
        BY <1>4 DEF Arrives, Spend
    <2> QED
        BY <2>1, <2>2 DEF TypeOK
<1>5. ASSUME PumpTakes PROVE TypeOK' /\ IsFiniteSet(pending')
    BY <1>5 DEF PumpTakes, TypeOK
<1>6. ASSUME Reactor PROVE TypeOK' /\ IsFiniteSet(pending')
    <2>1. CASE LoopHead \/ PollReturns \/ DrainEnds
        BY <2>1 DEF LoopHead, PollReturns, DrainEnds, TypeOK
    <2>2. CASE TakeEvent
        <3>1. rx' \in Seq(0 .. SeqSpace) /\ Len(rx') <= RxCap
            BY <2>2, Reception DEF TakeEvent
        <3>2. events' \in 0 .. EventQueue
            BY <2>2 DEF TakeEvent, TypeOK
        <3>3. UNCHANGED <<notReactor, reactorVars, tableVars, wake>>
            BY <2>2 DEF TakeEvent
        <3> QED
            BY <3>1, <3>2, <3>3 DEF TypeOK
    <2>3. CASE DropJunk \/ ReceiveFails
        <3>1. /\ rx' \in Seq(0 .. SeqSpace) /\ Len(rx') <= RxCap
              /\ UNCHANGED <<notReactor, tx, tableVars, events, wake>>
              /\ rpc' \in {rpc, "loop"}
            BY <2>3, Reception DEF DropJunk, ReceiveFails
        <3> QED
            BY <3>1 DEF TypeOK
    <2>4. CASE ClaimReply
        <3>1. rx' \in Seq(0 .. SeqSpace) /\ Len(rx') <= RxCap
            BY <2>4, Reception DEF ClaimReply
        <3>2. /\ pending' \subseteq pending
              /\ tx' \in {tx} \cup pending /\ rpc' \in {rpc, "delivering"}
            BY <2>4 DEF ClaimReply
        <3> QED
            BY <2>4, <3>1, <3>2, FewerEntries DEF ClaimReply, TypeOK
    <2>5. CASE Deliver
        <3>1. tx.to \in Caller
            BY <2>5 DEF Deliver, ClaimOK, TypeOK
        <3> QED
            BY <2>5, <3>1 DEF Deliver, TypeOK
    <2>6. CASE MarkDead \/ CloseLinkDown
        BY <2>6 DEF MarkDead, CloseLinkDown, TypeOK
    <2>7. CASE ClearPending
        BY <2>7, FewerEntries DEF ClearPending, TypeOK
    <2> QED
        BY <1>6, <2>1, <2>2, <2>3, <2>4, <2>5, <2>6, <2>7 DEF Reactor
<1>7. ASSUME RequestStop \/ CloseMark \/ CloseFds PROVE TypeOK' /\ IsFiniteSet(pending')
    BY <1>7 DEF RequestStop, CloseMark, CloseFds, TypeOK
<1>8. ASSUME SignalLinkDown PROVE TypeOK' /\ IsFiniteSet(pending')
    BY <1>8 DEF SignalLinkDown, Spend, TypeOK
<1>9. ASSUME UNCHANGED vars PROVE TypeOK' /\ IsFiniteSet(pending')
    BY <1>9 DEF vars, TypeOK
<1> QED
    BY <1>1, <1>2, <1>3, <1>4, <1>5, <1>6, <1>7, <1>8, <1>9 DEF Next

-----------------------------------------------------------------------------
(* Who waits for what.  A step is quiet if it leaves alone the numbers, the *)
(* callers and the table.                                                   *)

Rest == NumbersOK /\ Apart /\ ClaimOK /\ AnsweredOK /\ NoOrphanEntry

LEMMA QuietStep ==
    ASSUME TypeOK, Rest, UNCHANGED <<nextSeq, callerVars, pending, tx>>,
           ops' \in {ops, ops + 1}, rpc' = "delivering" <=> rpc = "delivering"
    PROVE  Rest'
<1>1. \A s : Recent(s) => Recent(s)'
    BY RecentStays
<1>2. NumbersOK'
    BY <1>1 DEF Rest, NumbersOK, Active, callerVars
<1>3. Apart' /\ NoOrphanEntry'
    BY DEF Rest, Apart, NoOrphanEntry, Active, callerVars
<1>4. ClaimOK' /\ AnsweredOK'
    BY DEF Rest, ClaimOK, AnsweredOK, Active, callerVars
<1> QED
    BY <1>2, <1>3, <1>4 DEF Rest

(* A request gets a number that nobody holds.                              *)
LEMMA AllocStep ==
    ASSUME TypeOK, Rest, NEW c \in Caller, Alloc(c)
    PROVE  Rest'
<1>1. /\ cseq' = [cseq EXCEPT ![c] = Upcoming]
      /\ nextSeq' = (Upcoming + 1) % SeqSpace
      /\ ops' = ops + 1
      /\ cpc' = [cpc EXCEPT ![c] = "allocated"]
      /\ inbox' = [inbox EXCEPT ![c] = FALSE]
      /\ cpc[c] = "idle"
      /\ UNCHANGED <<pending, tx, rpc>>
    BY DEF Alloc, Spend, Upcoming, tableVars, reactorVars
<1>2. \A s : s = Upcoming \/ Recent(s) => Recent(s)'
    BY <1>1, RecentGrows
<1>3. ~Recent(Upcoming)
    BY UpcomingIsFresh
<1>4. \A d \in Caller : /\ cseq'[d] = IF d = c THEN Upcoming ELSE cseq[d]
                        /\ cpc'[d] = IF d = c THEN "allocated" ELSE cpc[d]
                        /\ inbox'[d] = IF d = c THEN FALSE ELSE inbox[d]
    BY <1>1 DEF TypeOK
<1>5. \A e \in pending : e.to \in Caller /\ e.to # c
    BY <1>1 DEF Rest, NoOrphanEntry, InExchange, TypeOK
<1>0. /\ \A d \in Caller : Active(d) => cseq[d] # Upcoming
      /\ \A e \in pending : e.seq # Upcoming
      /\ tx # None => tx.seq # Upcoming
    BY <1>3 DEF Rest, NumbersOK
<1> HIDE DEF Upcoming
<1>6. NumbersOK'
    BY <1>1, <1>2, <1>4 DEF Rest, NumbersOK, Active
<1>7. Apart'
    <2> SUFFICES ASSUME NEW d \in Caller, NEW g \in Caller,
                        Active(d)', Active(g)', cseq'[d] = cseq'[g]
                 PROVE  d = g
        BY DEF Apart
    <2> QED
        BY <1>0, <1>4 DEF Rest, Apart, Active
<1>8. NoOrphanEntry'
    BY <1>1, <1>4, <1>5 DEF Rest, NoOrphanEntry
<1>9. ClaimOK'
    <2>1. rpc' = "delivering" <=> tx' # None
        BY <1>1 DEF Rest, ClaimOK
    <2>2. tx # None => \A d \in Caller : cpc'[d] = "allocated" => cseq'[d] # tx.seq
        BY <1>0, <1>4 DEF Rest, ClaimOK
    <2> QED
        BY <1>1, <2>1, <2>2 DEF Rest, ClaimOK
<1>10. AnsweredOK'
    <2>1. \A d \in Caller : cpc'[d] = "allocated" => ~inbox'[d]
        BY <1>4 DEF Rest, AnsweredOK
    <2>2. ASSUME NEW d \in Caller, Active(d)', inbox'[d], NEW e \in pending
          PROVE  e.seq # cseq'[d]
        BY <1>4, <2>2 DEF Rest, AnsweredOK, Active
    <2> QED
        BY <1>1, <2>1, <2>2 DEF AnsweredOK
<1> QED
    BY <1>6, <1>7, <1>8, <1>9, <1>10 DEF Rest

LEMMA CommandStep ==
    ASSUME TypeOK, Rest, NEW c \in Caller, Command(c)
    PROVE  Rest'
<1>1. /\ nextSeq' = (Upcoming + 1) % SeqSpace
      /\ ops' = ops + 1
      /\ UNCHANGED <<callerVars, pending, tx, rpc>>
    BY DEF Command, Spend, Upcoming, tableVars, reactorVars
<1>2. \A s : Recent(s) => Recent(s)'
    BY <1>1, RecentGrows
<1>3. NumbersOK'
    BY <1>1, <1>2 DEF Rest, NumbersOK, Active, callerVars
<1>4. Apart' /\ NoOrphanEntry' /\ ClaimOK' /\ AnsweredOK'
    BY <1>1 DEF Rest, Apart, NoOrphanEntry, ClaimOK, AnsweredOK, Active, callerVars
<1> QED
    BY <1>3, <1>4 DEF Rest

(* The steps of an exchange keep the number.                               *)
LEMMA ExchangeStep ==
    ASSUME TypeOK, Rest, NEW c \in Caller, Exchange(c)
    PROVE  Rest'
<1>1. UNCHANGED <<nextSeq, cseq, reactorVars, ops>> /\ c \in DOMAIN cpc /\ c \in DOMAIN inbox
    BY DEF Exchange, Register, RegisterFails, SendOk, SendFails, Receive, GiveUp, GiveUpEnds, TypeOK
<1>2. \A s : Recent(s) => Recent(s)'
    BY <1>1, RecentStays
<1> USE DEF reactorVars, TypeOK
<1>3. CASE Register(c)
    <2>1. /\ pending' = pending \cup {Entry(c)} /\ cpc[c] = "allocated"
          /\ cpc' = [cpc EXCEPT ![c] = "registered"] /\ UNCHANGED inbox
          /\ \A e \in pending : e.seq # cseq[c]
        BY <1>3 DEF Register, Refused
    <2>2. Entry(c).seq = cseq[c] /\ Entry(c).to = c
        BY DEF Entry
    <2>3. NumbersOK'
        BY <1>1, <1>2, <2>1, <2>2 DEF Rest, NumbersOK, Active
    <2>4. Apart'
        BY <1>1, <2>1 DEF Rest, Apart, Active
    <2>5. ClaimOK'
        BY <1>1, <2>1, <2>2 DEF Rest, ClaimOK
    <2>6. AnsweredOK'
        BY <1>1, <2>1, <2>2 DEF Rest, AnsweredOK, Apart, Active
    <2>7. NoOrphanEntry'
        BY <1>1, <2>1, <2>2 DEF Rest, NoOrphanEntry, InExchange
    <2> QED
        BY <2>3, <2>4, <2>5, <2>6, <2>7 DEF Rest
<1>4. CASE SendOk(c) \/ GiveUp(c)
    <2>1. /\ cpc[c] \in InExchange /\ \E p \in InExchange : cpc' = [cpc EXCEPT ![c] = p]
          /\ UNCHANGED <<inbox, pending>>
        BY <1>4 DEF SendOk, GiveUp, InExchange, tableVars
    <2>2. \A d \in Caller : /\ Active(d)' <=> Active(d)
                            /\ cpc'[d] \in InExchange <=> cpc[d] \in InExchange
                            /\ cpc'[d] = "allocated" <=> cpc[d] = "allocated"
        BY <2>1 DEF Active, InExchange
    <2>3. NumbersOK' /\ Apart'
        BY <1>1, <1>2, <2>1, <2>2 DEF Rest, NumbersOK, Apart
    <2>4. ClaimOK' /\ AnsweredOK' /\ NoOrphanEntry'
        BY <1>1, <2>1, <2>2 DEF Rest, ClaimOK, AnsweredOK, NoOrphanEntry
    <2> QED
        BY <2>3, <2>4 DEF Rest
<1>5. ASSUME cpc' = [cpc EXCEPT ![c] = "idle"],
             pending' \subseteq pending, \A e \in pending' : e.seq # cseq[c],
             inbox' = inbox \/ inbox' = [inbox EXCEPT ![c] = FALSE]
      PROVE  Rest'
    <2>1. \A d \in Caller : Active(d)' <=> Active(d) /\ d # c
        BY <1>5 DEF Active
    <2>2. \A d \in Caller \ {c} : cpc'[d] = cpc[d] /\ inbox'[d] = inbox[d]
        BY <1>5
    <2>3. NumbersOK' /\ Apart'
        BY <1>1, <1>2, <1>5, <2>1 DEF Rest, NumbersOK, Apart
    <2>4. ClaimOK' /\ AnsweredOK'
        BY <1>1, <1>5, <2>1, <2>2 DEF Rest, ClaimOK, AnsweredOK, Active
    <2>5. NoOrphanEntry'
        BY <1>1, <1>5, <2>2 DEF Rest, NoOrphanEntry
    <2> QED
        BY <2>3, <2>4, <2>5 DEF Rest
<1>6. CASE RegisterFails(c)
    <2>1. \A e \in pending : e.seq # cseq[c]
        <3> SUFFICES ASSUME NEW e \in pending, e.seq = cseq[c] PROVE FALSE
            OBVIOUS
        <3>1. e.to \in Caller /\ cpc[e.to] \in InExchange /\ cseq[e.to] = cseq[c]
            BY DEF Rest, NoOrphanEntry
        <3>2. cpc[c] = "allocated"
            BY <1>6 DEF RegisterFails
        <3>3. e.to = c
            BY <3>1, <3>2 DEF Rest, Apart, Active, InExchange
        <3> QED
            BY <3>1, <3>2, <3>3 DEF InExchange
    <2> QED
        BY <1>5, <1>6, <2>1 DEF RegisterFails, Ends, tableVars
<1>7. CASE SendFails(c) \/ GiveUpEnds(c)
    BY <1>5, <1>7 DEF SendFails, GiveUpEnds, Abandon, Ends
<1>8. CASE Receive(c)
    <2>1. \A e \in pending : e.seq # cseq[c]
        BY <1>8 DEF Receive, Rest, AnsweredOK, Active
    <2> QED
        BY <1>5, <1>8, <2>1 DEF Receive, Ends, tableVars
<1> QED
    BY <1>3, <1>4, <1>6, <1>7, <1>8 DEF Exchange

(* A reply is claimed, which takes the entry out of the table, and put     *)
(* into the channel of the request if that still is the same one.          *)
LEMMA ClaimStep ==
    ASSUME TypeOK, Rest, ClaimReply
    PROVE  Rest'
<1>1. /\ UNCHANGED <<nextSeq, callerVars, ops>> /\ rpc = "draining" /\ tx = None
      /\ pending' \subseteq pending
    BY DEF ClaimReply, Receives, notReactor, Rest, ClaimOK
<1>2. \A s : Recent(s) => Recent(s)'
    BY <1>1, RecentStays
<1>3. Apart' /\ AnsweredOK' /\ NoOrphanEntry'
    BY <1>1 DEF Rest, Apart, AnsweredOK, NoOrphanEntry, Active, callerVars
<1>4. CASE UNCHANGED reactorVars
    <2>1. NumbersOK' /\ ClaimOK'
        BY <1>1, <1>2, <1>4 DEF Rest, NumbersOK, ClaimOK, Active, callerVars, reactorVars
    <2> QED
        BY <1>3, <2>1 DEF Rest
<1>5. CASE \E e \in {g \in pending : g.seq = Head(rx)} : tx' = e /\ rpc' = "delivering"
    <2>1. PICK e \in pending : e.seq = Head(rx) /\ tx' = e /\ rpc' = "delivering"
        BY <1>5
    <2>2. e # None /\ e.to \in Caller
        BY <2>1, LinkAssumption DEF TypeOK
    <2>3. \A g \in pending' : g.seq # e.seq
        BY <2>1 DEF ClaimReply
    <2>4. \A c \in Caller : cpc[c] = "allocated" => cseq[c] # e.seq
        BY <2>2 DEF Rest, NoOrphanEntry, Apart, Active, InExchange
    <2>5. ClaimOK'
        BY <1>1, <2>1, <2>2, <2>3, <2>4 DEF ClaimOK, callerVars
    <2>6. NumbersOK'
        BY <1>1, <1>2, <2>1 DEF Rest, NumbersOK, Active, callerVars
    <2> QED
        BY <1>3, <2>5, <2>6 DEF Rest
<1> QED
    BY <1>4, <1>5 DEF ClaimReply

LEMMA DeliverStep ==
    ASSUME TypeOK, Rest, Deliver
    PROVE  Rest'
<1>1. /\ UNCHANGED <<nextSeq, cpc, cseq, pending, ops>>
      /\ rpc = "delivering" /\ tx # None /\ tx.to \in Caller
      /\ rpc' = "draining" /\ tx' = None
    BY DEF Deliver, Rest, ClaimOK, TypeOK, tableVars
<1>2. \A s : Recent(s) => Recent(s)'
    BY <1>1, RecentStays
<1>3. NumbersOK' /\ Apart' /\ ClaimOK' /\ NoOrphanEntry'
    BY <1>1, <1>2 DEF Rest, NumbersOK, Apart, ClaimOK, NoOrphanEntry, Active
<1>4. AnsweredOK'
    <2>1. CASE inbox' = inbox
        BY <1>1, <2>1 DEF Rest, AnsweredOK, Active
    <2>2. CASE /\ cpc[tx.to] # "idle" /\ cseq[tx.to] = tx.seq
               /\ inbox' = [inbox EXCEPT ![tx.to] = TRUE]
        <3>1. cpc[tx.to] # "allocated" /\ \A e \in pending : e.seq # cseq[tx.to]
            BY <1>1, <2>2 DEF Rest, ClaimOK
        <3>2. \A c \in Caller \ {tx.to} : inbox'[c] = inbox[c]
            BY <2>2 DEF TypeOK
        <3> QED
            BY <1>1, <3>1, <3>2 DEF Rest, AnsweredOK, Active
    <2> QED
        BY <2>1, <2>2 DEF Deliver
<1> QED
    BY <1>3, <1>4 DEF Rest

LEMMA RestStep ==
    ASSUME TypeOK, Rest, [Next]_vars
    PROVE  Rest'
<1> USE DEF callerVars, tableVars, reactorVars, closeVars, notReactor, rootOnly
<1>1. ASSUME NEW c \in Caller, Alloc(c) \/ Exchange(c) \/ Command(c) PROVE Rest'
    BY <1>1, AllocStep, ExchangeStep, CommandStep
<1>2. CASE Arrives \/ PumpTakes
    BY <1>2, QuietStep DEF Arrives, PumpTakes, Spend
<1>3. CASE Reactor
    <2>1. CASE LoopHead \/ PollReturns \/ DrainEnds
        BY <2>1, QuietStep DEF LoopHead, PollReturns, DrainEnds
    <2>2. CASE TakeEvent \/ DropJunk \/ ReceiveFails
        BY <2>2, QuietStep DEF TakeEvent, DropJunk, ReceiveFails, Receives
    <2>3. CASE ClaimReply \/ Deliver
        BY <2>3, ClaimStep, DeliverStep
    <2>4. CASE MarkDead \/ CloseLinkDown
        BY <2>4, QuietStep DEF MarkDead, CloseLinkDown
    <2>5. CASE ClearPending
        <3>1. \A s : Recent(s) => Recent(s)'
            BY <2>5, RecentStays DEF ClearPending
        <3>2. NumbersOK'
            BY <2>5, <3>1 DEF ClearPending, Rest, NumbersOK, Active
        <3>3. Apart' /\ ClaimOK' /\ AnsweredOK' /\ NoOrphanEntry'
            BY <2>5 DEF ClearPending, Rest, Apart, ClaimOK, AnsweredOK, NoOrphanEntry, Active
        <3> QED
            BY <3>2, <3>3 DEF Rest
    <2> QED
        BY <1>3, <2>1, <2>2, <2>3, <2>4, <2>5 DEF Reactor
<1>4. CASE RequestStop \/ CloseMark \/ CloseFds \/ SignalLinkDown
    BY <1>4, QuietStep DEF RequestStop, CloseMark, CloseFds, SignalLinkDown, Spend
<1>5. CASE UNCHANGED vars
    BY <1>5, QuietStep DEF vars
<1> QED
    BY <1>1, <1>2, <1>3, <1>4, <1>5 DEF Next

-----------------------------------------------------------------------------
(* The end of the link.                                                    *)

LEMMA ClosingStep ==
    ASSUME TypeOK, DeadOK, ClosedIsEmpty, [Next]_vars
    PROVE  DeadOK' /\ ClosedIsEmpty'
<1> USE DEF DeadOK, ClosedIsEmpty, callerVars, tableVars, reactorVars, closeVars,
        notReactor, rootOnly
<1>1. ASSUME NEW c \in Caller, Alloc(c) \/ Command(c) PROVE DeadOK' /\ ClosedIsEmpty'
    BY <1>1 DEF Alloc, Command
<1>2. ASSUME NEW c \in Caller, Exchange(c) PROVE DeadOK' /\ ClosedIsEmpty'
    <2>1. UNCHANGED <<rpc, alive>> /\ (~alive => pending' \subseteq pending)
        BY <1>2 DEF Exchange, Register, Refused, RegisterFails, SendOk, SendFails,
                    Receive, GiveUp, GiveUpEnds, Abandon
    <2> QED
        BY <2>1
<1>3. CASE Arrives \/ PumpTakes \/ RequestStop \/ CloseMark \/ CloseFds \/ SignalLinkDown
    BY <1>3 DEF Arrives, PumpTakes, RequestStop, CloseMark, CloseFds, SignalLinkDown
<1>4. CASE Reactor
    <2>1. CASE LoopHead \/ PollReturns \/ DrainEnds \/ TakeEvent \/ DropJunk
               \/ ReceiveFails \/ ClaimReply \/ Deliver
        BY <2>1 DEF LoopHead, PollReturns, DrainEnds, TakeEvent, DropJunk,
                    ReceiveFails, ClaimReply, Deliver, Receives
    <2>2. CASE MarkDead \/ ClearPending \/ CloseLinkDown
        BY <2>2 DEF MarkDead, ClearPending, CloseLinkDown
    <2> QED
        BY <1>4, <2>1, <2>2 DEF Reactor
<1>5. CASE UNCHANGED vars
    BY <1>5 DEF vars
<1> QED
    BY <1>1, <1>2, <1>3, <1>4, <1>5 DEF Next

-----------------------------------------------------------------------------
LEMMA InitHolds == Init => IInv
<1> SUFFICES ASSUME Init PROVE IInv
    OBVIOUS
<1> USE LinkAssumption DEF Init
<1>1. IsFiniteSet(pending) /\ Cardinality(pending) = 0
    BY FS_EmptySet
<1>2. TypeOK
    <2>1. rx \in Seq(0 .. SeqSpace) /\ Len(rx) = 0
        OBVIOUS
    <2>2. /\ cpc \in [Caller -> {"idle", "allocated"} \cup InExchange]
          /\ cseq \in [Caller -> 0 .. SeqSpace - 1]
          /\ inbox \in [Caller -> BOOLEAN]
        OBVIOUS
    <2>3. /\ pending \subseteq [seq : 1 .. SeqSpace - 1, to : Caller]
          /\ tx \in {None} \cup [seq : 1 .. SeqSpace - 1, to : Caller]
        OBVIOUS
    <2>4. Len(rx) <= RxCap /\ Cardinality(pending) <= MaxInFlight
        BY <1>1, <2>1
    <2>5. nextSeq \in 0 .. SeqSpace - 1 /\ alive \in BOOLEAN /\ down \in BOOLEAN
          /\ stopping \in BOOLEAN /\ wake \in BOOLEAN
        OBVIOUS
    <2>6. /\ MaxInFlight \in Nat /\ RxCap \in Nat /\ EventQueue \in Nat /\ MaxOps \in Nat
          /\ 0 \in 0 .. EventQueue /\ 0 \in 0 .. MaxOps
        OBVIOUS
    <2> QED
        BY <2>1, <2>2, <2>3, <2>4, <2>5, <2>6 DEF TypeOK
<1>3. NumbersOK /\ Apart /\ ClaimOK /\ AnsweredOK /\ NoOrphanEntry
    BY DEF NumbersOK, Apart, ClaimOK, AnsweredOK, NoOrphanEntry, Active
<1>4. DeadOK /\ ClosedIsEmpty
    BY DEF DeadOK, ClosedIsEmpty
<1> QED
    BY <1>1, <1>2, <1>3, <1>4 DEF IInv

(* The invariant is inductive.                                             *)
THEOREM Invariance == Spec => []IInv
<1>1. IInv /\ [Next]_vars => IInv'
    <2> SUFFICES ASSUME IInv, [Next]_vars PROVE IInv'
        OBVIOUS
    <2>1. TypeOK' /\ IsFiniteSet(pending')
        BY TypeStep DEF IInv
    <2>2. Rest'
        BY RestStep DEF IInv, Rest
    <2>3. DeadOK' /\ ClosedIsEmpty'
        BY ClosingStep DEF IInv
    <2> QED
        BY <2>1, <2>2, <2>3 DEF IInv, Rest
<1> QED
    BY InitHolds, <1>1, PTL DEF Spec

(* Every variable keeps its type; the pending table never holds more       *)
(* entries than it has places (router.go:100-111).                         *)
THEOREM TypeCorrect == Spec => []TypeOK
<1>1. IInv => TypeOK
    BY DEF IInv
<1> QED
    BY Invariance, <1>1, PTL

(* On none of the ways an exchange can end does it leave its entry behind, *)
(* for any number of callers whose requests do not exhaust the sequence    *)
(* numbers (client.go:93-116, router.go:113-117).                          *)
THEOREM EntriesAreOwned == Spec => []NoOrphanEntry
<1>1. IInv => NoOrphanEntry
    BY DEF IInv
<1> QED
    BY Invariance, <1>1, PTL

(* Nobody enters the pending table once Close has cleared it               *)
(* (router.go:224-229, 323-325).                                           *)
THEOREM ClosedStaysEmpty == Spec => []ClosedIsEmpty
<1>1. IInv => ClosedIsEmpty
    BY DEF IInv
<1> QED
    BY Invariance, <1>1, PTL

(* Two requests under way never have the same number, so that an answer is *)
(* handed to the request it answers (router.go:100-111, 282-310).          *)
THEOREM NumbersDiffer == Spec => []Apart
<1>1. IInv => Apart
    BY DEF IInv
<1> QED
    BY Invariance, <1>1, PTL

-----------------------------------------------------------------------------
(* BanMirror.                                                              *)

Size == Cardinality(banned)
Rows == [key : Key, state : MirrorEntry]

KernelTyped ==
    /\ banned \subseteq Key /\ Size <= MaxBan /\ due \subseteq banned
    /\ unsent \in [Sender -> Message \cup {Nothing}]
    /\ feed \in Seq(Message) /\ Len(feed) <= QueueCap
MirrorTyped == mirror \in [Ip -> MirrorEntry \cup {Nothing}] /\ marks \subseteq Ip
ExecutorTyped ==
    /\ epc \in {"idle", "inserted", "marked"} /\ eip \in Ip \cup {Nothing}
    /\ epc # "idle" => eip \in Ip
ApiTyped ==
    /\ hpc \in {"idle", "created", "sent", "unbanning"} /\ hip \in Ip \cup {Nothing}
    /\ todo \subseteq Ip
    /\ hpc \in {"created", "sent"} => hip \in Ip
PumpTyped ==
    /\ ppc \in Places \cup Ip /\ ghosts \subseteq Ip
    /\ got \in Seq(Rows)
    /\ offset \in 0 .. Cardinality(Key) /\ total \in 0 .. Cardinality(Key)
    /\ Len(got) <= Cardinality(Key)
    /\ Listing => offset = Len(got)
HistoryTyped == held \subseteq Key /\ moved \in BOOLEAN /\ acts \in 0 .. MaxActs

(* While the table stands still, the listing holds its first offset rows,  *)
(* and the count that came with the page is its size; behind the listing   *)
(* no key that was there, of an address that the daemon accepts, is among  *)
(* the ghosts, nor is it the one judged.                                   *)
SteadyOK ==
    /\ Listing /\ ~moved =>
          /\ held = banned
          /\ \A i \in DOMAIN KeyOrder :
                KeyOrder[i] \in banned /\ RowNumber(i) <= offset =>
                    got[RowNumber(i)].key = KeyOrder[i]
    /\ ppc = "paging" /\ ~moved => total = Size
    /\ ppc \in {"adopting", "judging"} \cup Ip /\ ~moved =>
          \A k \in held : AddrOf[k] \in Invalid \/ AddrOf[k] \notin ghosts \cup {ppc}

MirrorInv ==
    /\ KernelTyped /\ MirrorTyped /\ ExecutorTyped /\ ApiTyped /\ PumpTyped
    /\ HistoryTyped /\ SteadyOK

-----------------------------------------------------------------------------
(* The size of a finite set is the same thing in all three modules.        *)
LEMMA SizeInTable == \A S : Table!Cardinality(S) = Cardinality(S)
BY Zenon DEF Table!Cardinality, Cardinality

LEMMA MirrorNumbers ==
    /\ PageCap \in Nat \ {0} /\ QueueCap \in Nat \ {0}
    /\ MaxBan \in Nat /\ MaxActs \in Nat
BY BoundAssumption

LEMMA OrderOfKeys ==
    /\ KeyOrder \in Seq(Key) /\ Len(KeyOrder) \in Nat
    /\ DOMAIN KeyOrder = 1 .. Len(KeyOrder)
    /\ \A i, j \in DOMAIN KeyOrder : KeyOrder[i] = KeyOrder[j] => i = j
    /\ \A k \in Key : \E i \in DOMAIN KeyOrder : KeyOrder[i] = k
    /\ \A i \in DOMAIN KeyOrder : KeyOrder[i] \in Key
<1>1. KeyOrder \in Seq(Key)
    BY KeyAssumption
<1>2. \A i, j \in DOMAIN KeyOrder : KeyOrder[i] = KeyOrder[j] => i = j
    BY KeyAssumption DEF IsInjective
<1>3. \A k \in Key : \E i \in DOMAIN KeyOrder : KeyOrder[i] = k
    BY DEF Key, Range
<1> QED
    BY <1>1, <1>2, <1>3

LEMMA KeysFinite ==
    /\ IsFiniteSet(Key) /\ Cardinality(Key) \in Nat
    /\ \A S \in SUBSET Key : /\ IsFiniteSet(S) /\ Cardinality(S) \in Nat
                             /\ Cardinality(S) <= Cardinality(Key)
<1> DEFINE g == [i \in DOMAIN KeyOrder |-> KeyOrder[i]]
<1>1. IsFiniteSet(DOMAIN KeyOrder)
    BY OrderOfKeys, FS_Interval
<1>2. g \in Surjection(DOMAIN KeyOrder, Key)
    BY OrderOfKeys DEF Surjection
<1>3. IsFiniteSet(Key)
    BY <1>1, <1>2, FS_Surjection
<1> QED
    BY <1>3, FS_Subset, FS_CardinalityType

-----------------------------------------------------------------------------
(* The rows of a listing: the banned keys, one row each, and no other.     *)

Upto(i) == {j \in 1 .. i : KeyOrder[j] \in banned}
WithRow(n) == {i \in DOMAIN KeyOrder : KeyOrder[i] \in banned /\ RowNumber(i) = n}

LEMMA RowIs ==
    ASSUME NEW i \in Nat
    PROVE  /\ IsFiniteSet(Upto(i)) /\ RowNumber(i) = Cardinality(Upto(i))
           /\ RowNumber(i) \in Nat
<1>1. IsFiniteSet(1 .. i) /\ Upto(i) \subseteq 1 .. i
    BY FS_Interval DEF Upto
<1>2. IsFiniteSet(Upto(i)) /\ Cardinality(Upto(i)) \in Nat
    BY <1>1, FS_Subset, FS_CardinalityType
<1>3. RowNumber(i) = Cardinality(Upto(i))
    BY DEF RowNumber, Upto
<1> QED
    BY <1>2, <1>3

LEMMA RowsGrow ==
    ASSUME NEW i \in DOMAIN KeyOrder, NEW j \in DOMAIN KeyOrder, i < j,
           KeyOrder[j] \in banned
    PROVE  RowNumber(i) < RowNumber(j)
<1>1. i \in Nat /\ j \in Nat
    BY OrderOfKeys
<1>2. Upto(i) \subseteq Upto(j) /\ j \in Upto(j) /\ j \notin Upto(i)
    BY <1>1, OrderOfKeys DEF Upto
<1>3. /\ IsFiniteSet(Upto(j)) /\ Cardinality(Upto(j)) \in Nat /\ Cardinality(Upto(i)) \in Nat
      /\ RowNumber(i) = Cardinality(Upto(i)) /\ RowNumber(j) = Cardinality(Upto(j))
    BY <1>1, RowIs
<1>4. /\ Cardinality(Upto(i)) <= Cardinality(Upto(j))
      /\ Cardinality(Upto(i)) = Cardinality(Upto(j)) => Upto(i) = Upto(j)
    BY <1>2, <1>3, FS_Subset
<1> QED
    BY <1>2, <1>3, <1>4

LEMMA RowIsWithin ==
    ASSUME banned \subseteq Key, NEW i \in DOMAIN KeyOrder, KeyOrder[i] \in banned
    PROVE  RowNumber(i) \in 1 .. Size
<1> DEFINE f == [j \in Upto(i) |-> KeyOrder[j]]
<1>1. i \in Nat /\ Upto(i) \subseteq DOMAIN KeyOrder /\ i \in Upto(i)
    BY OrderOfKeys DEF Upto
<1>2. IsFiniteSet(banned) /\ Size \in Nat
    BY KeysFinite DEF Size
<1>3. f \in Injection(Upto(i), banned)
    <2>1. f \in [Upto(i) -> banned]
        BY DEF Upto
    <2>2. \A a, b \in Upto(i) : f[a] = f[b] => a = b
        BY <1>1, OrderOfKeys
    <2> QED
        BY <2>1, <2>2 DEF Injection, IsInjective
<1>4. Cardinality(Upto(i)) <= Size
    BY <1>2, <1>3, FS_Injection DEF Size
<1>5. IsFiniteSet(Upto(i)) /\ Upto(i) # {}
    BY <1>1, RowIs
<1>6. Cardinality(Upto(i)) # 0
    BY <1>5, FS_EmptySet
<1> QED
    BY <1>1, <1>2, <1>4, <1>6, RowIs

LEMMA RowsAgree ==
    ASSUME NEW i \in DOMAIN KeyOrder, NEW j \in DOMAIN KeyOrder,
           KeyOrder[i] \in banned, KeyOrder[j] \in banned,
           RowNumber(i) = RowNumber(j)
    PROVE  i = j
<1>1. i \in Int /\ j \in Int
    BY OrderOfKeys
<1>2. RowNumber(i) \in Nat /\ RowNumber(j) \in Nat
    BY OrderOfKeys, RowIs
<1>3. ~ (i < j) /\ ~ (j < i)
    BY <1>2, RowsGrow
<1> QED
    BY <1>1, <1>3

LEMMA EveryRow ==
    ASSUME banned \subseteq Key
    PROVE  \A n \in 1 .. Size : WithRow(n) # {}
<1> DEFINE I == {i \in DOMAIN KeyOrder : KeyOrder[i] \in banned}
           h == [i \in I |-> KeyOrder[i]]
           g == [i \in I |-> RowNumber(i)]
<1>1. IsFiniteSet(banned) /\ Size \in Nat
    BY KeysFinite DEF Size
<1>2. IsFiniteSet(I)
    <2>1. IsFiniteSet(DOMAIN KeyOrder) /\ I \subseteq DOMAIN KeyOrder
        BY OrderOfKeys, FS_Interval
    <2> QED
        BY <2>1, FS_Subset
<1>3. Cardinality(I) = Size
    <2>1. h \in Bijection(I, banned)
        <3>1. h \in [I -> banned]
            OBVIOUS
        <3>2. \A a, b \in I : h[a] = h[b] => a = b
            BY OrderOfKeys
        <3>3. \A k \in banned : \E a \in I : h[a] = k
            BY OrderOfKeys
        <3> QED
            BY <3>1, <3>2, <3>3 DEF Bijection, Injection, Surjection, IsInjective
    <2> QED
        BY <1>2, <2>1, FS_Bijection DEF ExistsBijection, Size
<1>4. g \in Injection(I, 1 .. Size)
    <2>1. g \in [I -> 1 .. Size]
        BY RowIsWithin
    <2>2. \A a, b \in I : g[a] = g[b] => a = b
        BY RowsAgree
    <2> QED
        BY <2>1, <2>2 DEF Injection, IsInjective
<1>5. IsFiniteSet(1 .. Size) /\ Cardinality(1 .. Size) = Size
    BY <1>1, FS_Interval
<1>6. g \in Surjection(I, 1 .. Size)
    <2> HIDE DEF g, I
    <2> QED
        BY <1>3, <1>4, <1>5, FS_Injection
<1>7. \A n \in 1 .. Size : \E i \in I : g[i] = n
    BY <1>6 DEF Surjection
<1> QED
    BY <1>7 DEF WithRow

(* The row that the kernel puts at n.                                      *)
LEMMA RowAt ==
    ASSUME banned \subseteq Key
    PROVE  /\ \A n \in 1 .. Size : KeyAt(n) \in banned
           /\ \A i \in DOMAIN KeyOrder : KeyOrder[i] \in banned =>
                  KeyAt(RowNumber(i)) = KeyOrder[i]
<1>1. \A n : KeyAt(n) = KeyOrder[CHOOSE i : i \in WithRow(n)]
    BY DEF KeyAt, WithRow
<1>2. ASSUME NEW n \in 1 .. Size PROVE KeyAt(n) \in banned
    <2>1. PICK i : i \in WithRow(n)
        BY EveryRow
    <2> QED
        BY <1>1, <2>1 DEF WithRow
<1>3. ASSUME NEW i \in DOMAIN KeyOrder, KeyOrder[i] \in banned
      PROVE  KeyAt(RowNumber(i)) = KeyOrder[i]
    <2> DEFINE W == WithRow(RowNumber(i))
    <2>1. i \in W
        BY <1>3 DEF WithRow
    <2>2. \A j \in W : j = i
        BY <1>3, RowsAgree DEF WithRow
    <2>3. (CHOOSE j : j \in W) = i
        BY <2>1, <2>2
    <2> QED
        BY <1>1, <2>3
<1> QED
    BY <1>2, <1>3

-----------------------------------------------------------------------------
(* What a step does to the kernel's table and its broadcasts               *)

(* A change of the table during a listing is seen by the history.          *)
ListingKept ==
    \/ banned' = banned /\ UNCHANGED listingVars
    \/ held' = held /\ moved' = (moved \/ Listing)

LEMMA PushTyped ==
    ASSUME KernelTyped, NEW m \in Message, Push(m)
    PROVE  feed' \in Seq(Message) /\ Len(feed') <= QueueCap
<1>1. feed \in Seq(Message) /\ Len(feed) \in Nat /\ Len(feed) <= QueueCap
    BY DEF KernelTyped
<1>2. QueueCap \in Nat
    BY MirrorNumbers
<1>3. CASE Len(feed) < QueueCap
    <2>1. feed' = Append(feed, m)
        BY <1>3 DEF Push
    <2>2. feed' \in Seq(Message) /\ Len(feed') = Len(feed) + 1
        BY <1>1, <2>1, AppendProperties
    <2> QED
        BY <1>1, <1>2, <1>3, <2>2
<1>4. CASE ~ (Len(feed) < QueueCap)
    BY <1>1, <1>4 DEF Push
<1> QED
    BY <1>3, <1>4

LEMMA BanTyped ==
    ASSUME KernelTyped, NEW t \in Sender, NEW k \in Key, KernelBan(t, k)
    PROVE  KernelTyped' /\ ListingKept
<1>1. CASE /\ Table!Add(k) /\ Moved
           /\ unsent' = [unsent EXCEPT ![t] = [type |-> "ban", key |-> k]]
           /\ UNCHANGED <<due, feed>>
    <2>1. banned' = banned \cup {k} /\ k \notin banned /\ Size < MaxBan
        BY <1>1, SizeInTable DEF Table!Add, Size
    <2>2. IsFiniteSet(banned) /\ Size \in Nat
        BY KeysFinite DEF KernelTyped, Size
    <2>3. Size' = Size + 1
        BY <2>1, <2>2, FS_AddElement DEF Size
    <2>4. Size' <= MaxBan
        BY <2>1, <2>2, <2>3, MirrorNumbers
    <2>5. [type |-> "ban", key |-> k] \in Message
        BY DEF Message
    <2>6. unsent' \in [Sender -> Message \cup {Nothing}]
        BY <1>1, <2>5 DEF KernelTyped
    <2>7. ListingKept
        BY <1>1 DEF ListingKept, Moved
    <2> QED
        BY <1>1, <2>1, <2>4, <2>6, <2>7 DEF KernelTyped
<1>2. CASE due' = due \ {k} /\ UNCHANGED <<banned, unsent, feed, held, moved>>
    BY <1>2 DEF KernelTyped, ListingKept, Size, listingVars
<1>3. CASE /\ Push([type |-> "rejected", key |-> k])
           /\ UNCHANGED <<banned, due, unsent, held, moved>>
    <2>1. [type |-> "rejected", key |-> k] \in Message
        BY DEF Message
    <2>2. feed' \in Seq(Message) /\ Len(feed') <= QueueCap
        BY <1>3, <2>1, PushTyped
    <2> QED
        BY <1>3, <2>2 DEF KernelTyped, ListingKept, Size, listingVars
<1> QED
    BY <1>1, <1>2, <1>3 DEF KernelBan, kernelVars, channelVars, listingVars

LEMMA RemoveTyped ==
    ASSUME KernelTyped, NEW k, k \in banned, banned' = banned \ {k}, due' = due \ {k}
    PROVE  banned' \subseteq Key /\ Size' <= MaxBan /\ due' \subseteq banned'
<1>1. IsFiniteSet(banned) /\ Size \in Nat /\ Size <= MaxBan
    BY KeysFinite DEF KernelTyped, Size
<1>2. Size' = Size - 1
    BY <1>1, FS_RemoveElement DEF Size
<1>3. Size' <= MaxBan
    BY <1>1, <1>2, MirrorNumbers
<1> QED
    BY <1>3 DEF KernelTyped

LEMMA UnbanTyped ==
    ASSUME KernelTyped, NEW t \in Sender, NEW k \in Key,
           KernelUnban(t, k)
    PROVE  KernelTyped' /\ ListingKept
<1>1. CASE k \in banned
    <2>1. /\ banned' = banned \ {k} /\ due' = due \ {k} /\ Moved /\ feed' = feed
          /\ unsent' = [unsent EXCEPT ![t] = [type |-> "unban", key |-> k]]
        BY <1>1 DEF KernelUnban, Table!Remove
    <2>2. [type |-> "unban", key |-> k] \in Message
        BY DEF Message
    <2>3. unsent' \in [Sender -> Message \cup {Nothing}]
        BY <2>1, <2>2 DEF KernelTyped
    <2>4. banned' \subseteq Key /\ Size' <= MaxBan /\ due' \subseteq banned'
        BY <1>1, <2>1, RemoveTyped
    <2> QED
        BY <2>1, <2>3, <2>4 DEF KernelTyped, ListingKept, Moved
<1>2. CASE k \notin banned
    BY <1>2 DEF KernelUnban, KernelTyped, ListingKept, Size, kernelVars,
                channelVars, listingVars
<1> QED
    BY <1>1, <1>2

LEMMA KernelSame ==
    ASSUME KernelTyped, UNCHANGED <<kernelVars, channelVars, listingVars>>
    PROVE  KernelTyped' /\ ListingKept
BY DEF KernelTyped, ListingKept, Size, kernelVars, channelVars, listingVars

LEMMA MirrorSame ==
    ASSUME MirrorTyped, UNCHANGED mirrorVars
    PROVE  MirrorTyped'
BY DEF MirrorTyped, mirrorVars

LEMMA InsertTyped ==
    ASSUME MirrorTyped, NEW ip, NEW e \in MirrorEntry \cup {Nothing}, Insert(ip, e)
    PROVE  mirror' \in [Ip -> MirrorEntry \cup {Nothing}]
BY DEF MirrorTyped, Insert

LEMMA DropTyped ==
    ASSUME MirrorTyped, NEW S, Drop(S)
    PROVE  MirrorTyped'
BY DEF MirrorTyped, Drop

LEMMA UpsertTyped ==
    ASSUME MirrorTyped, NEW ip, NEW e \in MirrorEntry, Upsert(ip, e)
    PROVE  MirrorTyped'
<1>1. mirror' \in [Ip -> MirrorEntry \cup {Nothing}]
    BY InsertTyped DEF Upsert
<1> QED
    BY <1>1 DEF Upsert, MirrorTyped

-----------------------------------------------------------------------------
(* The steps of everybody but the pump                                     *)

LEMMA Spent ==
    ASSUME HistoryTyped, SpendAct \/ acts' = acts
    PROVE  acts' \in 0 .. MaxActs
BY MirrorNumbers DEF HistoryTyped, SpendAct

LEMMA HostIsPrefix ==
    ASSUME NEW ip \in Ip
    PROVE  HostOf[ip] \in Key
BY KeyAssumption

LEMMA KernelStep ==
    ASSUME KernelTyped, MirrorTyped, HistoryTyped, Kernel
    PROVE  /\ KernelTyped' /\ ListingKept /\ MirrorTyped' /\ acts' \in 0 .. MaxActs
           /\ UNCHANGED <<executorVars, apiVars, pumpVars>>
<1>s. Sender = {"executor", "api", "kernel"}
    BY DEF Sender
<1>1. ASSUME NEW k \in Key, KernelActs(k)
      PROVE  /\ KernelTyped' /\ ListingKept /\ SpendAct
             /\ UNCHANGED <<mirrorVars, executorVars, apiVars, pumpVars>>
    BY <1>1, <1>s, BanTyped, UnbanTyped DEF KernelActs
<1>2. ASSUME NEW k \in Key, KernelDeletesSilently(k)
      PROVE  /\ KernelTyped' /\ ListingKept /\ SpendAct
             /\ UNCHANGED <<mirrorVars, executorVars, apiVars, pumpVars>>
    <2>1. /\ k \in banned /\ banned' = banned \ {k} /\ due' = due \ {k} /\ Moved
          /\ UNCHANGED channelVars
        BY <1>2 DEF KernelDeletesSilently, Table!Remove
    <2>2. banned' \subseteq Key /\ Size' <= MaxBan /\ due' \subseteq banned'
        BY <2>1, RemoveTyped
    <2>3. KernelTyped' /\ ListingKept
        BY <2>1, <2>2 DEF KernelTyped, ListingKept, Moved, channelVars
    <2> QED
        BY <1>2, <2>3 DEF KernelDeletesSilently
<1>3. ASSUME NEW k \in Key, TimePasses(k)
      PROVE  /\ KernelTyped' /\ ListingKept /\ SpendAct
             /\ UNCHANGED <<mirrorVars, executorVars, apiVars, pumpVars>>
    BY <1>3 DEF TimePasses, KernelTyped, ListingKept, Size, channelVars
<1>4. ASSUME NEW k \in Key, KernelExpires(k)
      PROVE  /\ KernelTyped' /\ ListingKept /\ acts' = acts
             /\ UNCHANGED <<mirrorVars, executorVars, apiVars, pumpVars>>
    BY <1>4, <1>s, UnbanTyped DEF KernelExpires
<1>5. ASSUME NEW t \in Sender, Broadcast(t)
      PROVE  /\ KernelTyped' /\ ListingKept /\ acts' = acts
             /\ UNCHANGED <<mirrorVars, executorVars, apiVars, pumpVars>>
    <2>1. unsent[t] \in Message /\ Push(unsent[t])
        BY <1>5 DEF Broadcast, KernelTyped
    <2>2. feed' \in Seq(Message) /\ Len(feed') <= QueueCap
        BY <2>1, PushTyped
    <2>3. /\ unsent' = [unsent EXCEPT ![t] = Nothing]
          /\ UNCHANGED <<kernelVars, listingVars>>
        BY <1>5 DEF Broadcast
    <2>4. KernelTyped' /\ ListingKept
        BY <2>2, <2>3 DEF KernelTyped, ListingKept, Size, kernelVars
    <2> QED
        BY <1>5, <2>4 DEF Broadcast
<1>6. ASSUME NEW ip \in Ip, MirrorLapses(ip)
      PROVE  /\ KernelTyped' /\ ListingKept /\ MirrorTyped' /\ SpendAct
             /\ UNCHANGED <<executorVars, apiVars, pumpVars>>
    <2>1. /\ Insert(ip, "over") /\ "over" \in MirrorEntry /\ marks' = marks /\ SpendAct
          /\ UNCHANGED <<kernelVars, channelVars, listingVars>>
          /\ UNCHANGED <<executorVars, apiVars, pumpVars>>
        BY <1>6 DEF MirrorLapses, MirrorEntry
    <2>2. mirror' \in [Ip -> MirrorEntry \cup {Nothing}]
        BY <2>1, InsertTyped
    <2> QED
        BY <2>1, <2>2, KernelSame DEF MirrorTyped
<1> QED
    BY <1>1, <1>2, <1>3, <1>4, <1>5, <1>6, MirrorSame, Spent DEF Kernel

LEMMA ExecutorStep ==
    ASSUME KernelTyped, MirrorTyped, ExecutorTyped, HistoryTyped, Executor
    PROVE  /\ KernelTyped' /\ ListingKept /\ MirrorTyped' /\ ExecutorTyped'
           /\ acts' \in 0 .. MaxActs
           /\ UNCHANGED <<apiVars, pumpVars>>
<1>s. "executor" \in Sender /\ "running" \in MirrorEntry
    BY DEF Sender, MirrorEntry
<1>1. ASSUME NEW ip \in Ip, Intent(ip)
      PROVE  /\ UNCHANGED <<kernelVars, channelVars, listingVars>>
             /\ MirrorTyped' /\ ExecutorTyped' /\ SpendAct
             /\ UNCHANGED <<apiVars, pumpVars>>
    <2>1. CASE ip \in Mirrored
        BY <1>1, <2>1 DEF Intent, MirrorTyped, ExecutorTyped, executorOnly
    <2>2. CASE ip \notin Mirrored
        <3>1. /\ Insert(ip, "running") /\ epc' = "inserted" /\ eip' = ip /\ marks' = marks
              /\ SpendAct
              /\ UNCHANGED <<kernelVars, channelVars, listingVars>>
              /\ UNCHANGED <<apiVars, pumpVars>>
            BY <1>1, <2>2 DEF Intent, executorOnly
        <3>2. mirror' \in [Ip -> MirrorEntry \cup {Nothing}]
            BY <1>s, <3>1, InsertTyped
        <3> QED
            BY <3>1, <3>2 DEF MirrorTyped, ExecutorTyped
    <2> QED
        BY <2>1, <2>2
<1>2. CASE MarkPendingAck
    <2>1. /\ UNCHANGED <<kernelVars, channelVars, listingVars>>
          /\ MirrorTyped' /\ ExecutorTyped' /\ acts' = acts
          /\ UNCHANGED <<apiVars, pumpVars>>
        BY <1>2 DEF MarkPendingAck, MirrorTyped, ExecutorTyped, executorOnly
    <2> QED
        BY <2>1, KernelSame, Spent
<1>3. CASE SendIntent
    <2>1. /\ KernelBan("executor", HostOf[eip]) /\ eip \in Ip
          /\ ExecutorTyped' /\ acts' = acts
          /\ UNCHANGED <<mirrorVars, apiVars, pumpVars>>
        BY <1>3 DEF SendIntent, ExecutorTyped, executorOnly
    <2>2. KernelTyped' /\ ListingKept
        BY <1>s, <2>1, HostIsPrefix, BanTyped
    <2> QED
        BY <2>1, <2>2, MirrorSame, Spent
<1>4. CASE SendIntentFails
    <2>1. /\ UNCHANGED <<kernelVars, channelVars, listingVars>>
          /\ Drop({eip}) /\ ExecutorTyped' /\ acts' = acts
          /\ UNCHANGED <<apiVars, pumpVars>>
        BY <1>4 DEF SendIntentFails, ExecutorTyped, executorOnly
    <2> QED
        BY <2>1, DropTyped, KernelSame, Spent
<1>5. ASSUME NEW k \in Key, ClusterHit(k)
      PROVE  /\ KernelTyped' /\ ListingKept /\ MirrorTyped' /\ ExecutorTyped' /\ SpendAct
             /\ UNCHANGED <<apiVars, pumpVars>>
    <2>1. /\ KernelBan("executor", k) /\ k \in Key /\ SpendAct
          /\ UNCHANGED <<mirrorVars, epc, eip, apiVars, pumpVars>>
        BY <1>5 DEF ClusterHit, executorOnly, executorVars
    <2>2. KernelTyped' /\ ListingKept
        BY <1>s, <2>1, BanTyped
    <2> QED
        BY <2>1, <2>2, MirrorSame DEF ExecutorTyped
<1>6. ASSUME NEW ip \in Ip, AckTimeout(ip)
      PROVE  /\ UNCHANGED <<kernelVars, channelVars, listingVars>>
             /\ MirrorTyped' /\ ExecutorTyped' /\ acts' = acts
             /\ UNCHANGED <<apiVars, pumpVars>>
    BY <1>6 DEF AckTimeout, MirrorTyped, ExecutorTyped, executorVars
<1> QED
    BY <1>1, <1>2, <1>3, <1>4, <1>5, <1>6, KernelSame, Spent DEF Executor

LEMMA ApiStep ==
    ASSUME KernelTyped, MirrorTyped, ApiTyped, HistoryTyped, Api
    PROVE  /\ KernelTyped' /\ ListingKept /\ MirrorTyped' /\ ApiTyped'
           /\ acts' \in 0 .. MaxActs
           /\ UNCHANGED <<executorVars, pumpVars>>
<1>s. "api" \in Sender /\ "running" \in MirrorEntry
    BY DEF Sender, MirrorEntry
<1>1. ASSUME NEW ip \in Ip, Create(ip)
      PROVE  /\ UNCHANGED <<kernelVars, channelVars, listingVars>>
             /\ MirrorTyped' /\ ApiTyped' /\ SpendAct
             /\ UNCHANGED <<executorVars, pumpVars>>
    <2>1. Insert(ip, "running") /\ marks' = marks
        BY <1>1 DEF Create
    <2>2. mirror' \in [Ip -> MirrorEntry \cup {Nothing}]
        BY <1>s, <2>1, InsertTyped
    <2> QED
        BY <1>1, <2>1, <2>2 DEF Create, MirrorTyped, ApiTyped, apiOnly
<1>2. CASE CreateSends
    <2>1. /\ KernelBan("api", HostOf[hip]) /\ hip \in Ip /\ ApiTyped' /\ acts' = acts
          /\ UNCHANGED <<mirrorVars, executorVars, pumpVars>>
        BY <1>2 DEF CreateSends, ApiTyped, apiOnly
    <2>2. KernelTyped' /\ ListingKept
        BY <1>s, <2>1, HostIsPrefix, BanTyped
    <2> QED
        BY <2>1, <2>2, MirrorSame, Spent
<1>3. CASE CreateFails
    <2>1. /\ UNCHANGED <<kernelVars, channelVars, listingVars>>
          /\ Drop({hip}) /\ ApiTyped' /\ acts' = acts
          /\ UNCHANGED <<executorVars, pumpVars>>
        BY <1>3 DEF CreateFails, ApiTyped, apiOnly
    <2> QED
        BY <2>1, DropTyped, KernelSame, Spent
<1>4. CASE CreateReturns \/ DeleteEnds
    <2>1. /\ UNCHANGED <<kernelVars, channelVars, listingVars>>
          /\ UNCHANGED mirrorVars /\ ApiTyped' /\ acts' = acts
          /\ UNCHANGED <<executorVars, pumpVars>>
        BY <1>4 DEF CreateReturns, DeleteEnds, ApiTyped, apiOnly
    <2> QED
        BY <2>1, MirrorSame, KernelSame, Spent
<1>5. ASSUME NEW S \in SUBSET Mirrored, Delete(S)
      PROVE  /\ UNCHANGED <<kernelVars, channelVars, listingVars>>
             /\ MirrorTyped' /\ ApiTyped' /\ SpendAct
             /\ UNCHANGED <<executorVars, pumpVars>>
    <2>1. MirrorTyped'
        BY <1>5, DropTyped DEF Delete
    <2> QED
        BY <1>5, <2>1 DEF Delete, Mirrored, ApiTyped, apiOnly
<1>6. ASSUME NEW ip \in Ip, DeleteSends(ip)
      PROVE  /\ KernelTyped' /\ ListingKept /\ MirrorTyped' /\ ApiTyped' /\ acts' = acts
             /\ UNCHANGED <<executorVars, pumpVars>>
    <2>1. /\ ApiTyped' /\ acts' = acts
          /\ UNCHANGED <<mirrorVars, executorVars, pumpVars>>
          /\ \/ KernelUnban("api", HostOf[ip])
             \/ UNCHANGED <<kernelVars, channelVars, listingVars>>
        BY <1>6 DEF DeleteSends, ApiTyped, apiOnly
    <2>2. KernelTyped' /\ ListingKept
        BY <1>s, <2>1, HostIsPrefix, UnbanTyped, KernelSame
    <2> QED
        BY <2>1, <2>2, MirrorSame
<1> QED
    BY <1>1, <1>2, <1>3, <1>4, <1>5, <1>6, KernelSame, Spent DEF Api

(* Whoever else acts: the listing goes on as it was, or the history knows  *)
(* that the table has moved.                                               *)
LEMMA PumpAside ==
    ASSUME PumpTyped, HistoryTyped, SteadyOK, ListingKept, acts' \in 0 .. MaxActs,
           UNCHANGED pumpVars
    PROVE  PumpTyped' /\ HistoryTyped' /\ SteadyOK'
<1>1. UNCHANGED <<ppc, offset, total, got, ghosts>>
    BY DEF pumpVars
<1>2. Listing' = Listing
    BY <1>1 DEF Listing
<1>3. PumpTyped'
    BY <1>1, <1>2 DEF PumpTyped
<1>4. CASE banned' = banned /\ UNCHANGED listingVars
    <2>1. \A i : RowNumber(i)' = RowNumber(i)
        BY <1>4 DEF RowNumber
    <2> QED
        BY <1>1, <1>2, <1>3, <1>4, <2>1 DEF SteadyOK, HistoryTyped, Size, listingVars
<1>5. CASE held' = held /\ moved' = (moved \/ Listing)
    <2>1. moved \in BOOLEAN /\ Listing \in BOOLEAN
        BY DEF HistoryTyped, Listing
    <2>2. HistoryTyped'
        BY <1>5, <2>1 DEF HistoryTyped
    <2>3. SteadyOK'
        BY <1>1, <1>2, <1>5, <2>1 DEF SteadyOK, Listing
    <2> QED
        BY <1>3, <2>2, <2>3
<1> QED
    BY <1>4, <1>5 DEF ListingKept

-----------------------------------------------------------------------------
(* The steps of the pump                                                   *)

LEMMA NoPlaceIsAnAddress ==
    /\ Places = {"idle", "counting", "paging", "adopting", "judging"}
    /\ \A ip \in Ip : ip \notin {"idle", "counting", "paging", "adopting", "judging"}
BY PlaceAssumption DEF Places

LEMMA ReconcileStartsKeeps ==
    ASSUME KernelTyped, PumpTyped, HistoryTyped, SteadyOK, ReconcileStarts
    PROVE  PumpTyped' /\ HistoryTyped' /\ SteadyOK'
<1>1. /\ ppc' = "counting" /\ offset' = 0 /\ got' = <<>> /\ held' = banned /\ moved' = FALSE
      /\ ghosts' = ghosts /\ total' = total /\ banned' = banned /\ acts' = acts
    BY DEF ReconcileStarts, pumpOnly, kernelVars
<1>2. PumpTyped'
    <2>1. got' \in Seq(Rows) /\ Len(got') = 0
        BY <1>1
    <2>2. 0 \in 0 .. Cardinality(Key) /\ 0 <= Cardinality(Key)
        BY KeysFinite
    <2> QED
        BY <1>1, <2>1, <2>2, NoPlaceIsAnAddress DEF PumpTyped
<1>3. HistoryTyped'
    BY <1>1 DEF HistoryTyped, KernelTyped
<1>4. \A i \in DOMAIN KeyOrder : KeyOrder[i] \in banned => ~ (RowNumber(i) <= 0)
    BY RowIsWithin DEF KernelTyped
<1>5. \A i : RowNumber(i)' = RowNumber(i)
    BY <1>1 DEF RowNumber
<1>6. SteadyOK'
    BY <1>1, <1>4, <1>5, NoPlaceIsAnAddress DEF SteadyOK, Listing
<1> QED
    BY <1>2, <1>3, <1>6

LEMMA CountBansKeeps ==
    ASSUME KernelTyped, PumpTyped, HistoryTyped, SteadyOK, CountBans
    PROVE  PumpTyped' /\ HistoryTyped' /\ SteadyOK'
<1>1. /\ ppc = "counting" /\ ppc' = "paging" /\ total' = Size
      /\ UNCHANGED <<offset, got, ghosts, held, moved, banned, acts>>
    BY DEF CountBans, pumpOnly, kernelVars, listingVars, Size
<1>2. Size \in Nat /\ Size <= Cardinality(Key) /\ Cardinality(Key) \in Nat
    BY KeysFinite DEF KernelTyped, Size
<1>3. PumpTyped'
    BY <1>1, <1>2, NoPlaceIsAnAddress DEF PumpTyped, Listing
<1>4. HistoryTyped'
    BY <1>1 DEF HistoryTyped
<1>5. \A i : RowNumber(i)' = RowNumber(i)
    BY <1>1 DEF RowNumber
<1>6. Size' = Size
    BY <1>1 DEF Size
<1>7. SteadyOK'
    BY <1>1, <1>5, <1>6, NoPlaceIsAnAddress DEF SteadyOK, Listing
<1> QED
    BY <1>3, <1>4, <1>7

(* The page: as many rows as there are left, at most PageCap.              *)
LEMMA PageIs ==
    ASSUME KernelTyped, PumpTyped, Listing
    PROVE  /\ PageSize \in Nat /\ Page \in Seq(Rows) /\ Len(Page) = PageSize
           /\ \A n \in 1 .. PageSize : Page[n].key = KeyAt(offset + n)
           /\ PageSize > 0 => offset + PageSize <= Size
           /\ PageSize = 0 => offset >= total \/ offset >= Size
<1>1. Size \in Nat /\ Size <= Cardinality(Key) /\ Cardinality(Key) \in Nat
    BY KeysFinite DEF KernelTyped, Size
<1>2. offset \in Nat /\ total \in Nat /\ PageCap \in Nat \ {0}
    BY MirrorNumbers DEF PumpTyped
<1>3. Behind = Size - offset
    BY DEF Behind, Size
<1>4. PageSize = IF offset >= total \/ Size - offset <= 0 THEN 0
                      ELSE IF PageCap < Size - offset THEN PageCap ELSE Size - offset
    BY <1>3 DEF PageSize
<1>5. PageSize \in Nat
    BY <1>1, <1>2, <1>4
<1>6. /\ PageSize > 0 => offset + PageSize <= Size
      /\ PageSize = 0 => offset >= total \/ offset >= Size
    BY <1>1, <1>2, <1>4
<1>7. \A n \in 1 .. PageSize : Row(KeyAt(offset + n)) \in Rows
    <2> TAKE n \in 1 .. PageSize
    <2>1. offset + n \in 1 .. Size
        BY <1>1, <1>2, <1>5, <1>6
    <2>2. KeyAt(offset + n) \in Key
        BY <2>1, RowAt DEF KernelTyped
    <2> QED
        BY <2>2 DEF Row, Rows, MirrorEntry
<1>8. Page \in Seq(Rows) /\ Len(Page) = PageSize
    <2> HIDE DEF Rows
    <2> QED
        BY <1>5, <1>7 DEF Page
<1>9. \A n \in 1 .. PageSize : Page[n].key = KeyAt(offset + n)
    BY DEF Page, Row
<1> QED
    BY <1>5, <1>6, <1>8, <1>9

LEMMA ListPageKeeps ==
    ASSUME KernelTyped, PumpTyped, HistoryTyped, SteadyOK, ListPage
    PROVE  PumpTyped' /\ HistoryTyped' /\ SteadyOK'
<1> DEFINE all == got \o Page
           S == PageSize
<1>1. /\ ppc = "paging" /\ got' = all /\ offset' = offset + S /\ total' = total
      /\ ppc' = IF More(all) THEN "counting" ELSE "adopting"
      /\ ghosts' = Ip \ Seen(all)
      /\ UNCHANGED <<held, moved, banned, acts>>
    BY DEF ListPage, pumpOnly, kernelVars, listingVars
<1>2. Listing
    BY <1>1 DEF Listing
<1>3. /\ S \in Nat /\ Page \in Seq(Rows) /\ Len(Page) = S
      /\ \A n \in 1 .. S : Page[n].key = KeyAt(offset + n)
      /\ S > 0 => offset + S <= Size
      /\ S = 0 => offset >= total \/ offset >= Size
    BY <1>2, PageIs
<1>4. /\ got \in Seq(Rows) /\ Len(got) = offset /\ offset \in Nat /\ total \in Nat
      /\ offset <= Cardinality(Key)
    BY <1>2 DEF PumpTyped
<1>5. Size \in Nat /\ Size <= Cardinality(Key) /\ Cardinality(Key) \in Nat
    BY KeysFinite DEF KernelTyped, Size
<1>6. More(all) <=> S > 0 /\ Len(all) < total
    BY DEF More
<1> HIDE DEF S
<1>7. /\ all \in Seq(Rows) /\ Len(all) = offset + S
      /\ \A r \in 1 .. offset : all[r] = got[r]
      /\ \A n \in 1 .. S : all[offset + n] = Page[n]
    <2> HIDE DEF Rows
    <2>1. /\ all \in Seq(Rows) /\ Len(all) = Len(got) + Len(Page)
          /\ \A i \in 1 .. Len(got) + Len(Page) :
                all[i] = IF i <= Len(got) THEN got[i] ELSE Page[i - Len(got)]
        BY <1>3, <1>4, ConcatProperties
    <2> HIDE DEF all
    <2>2. Len(all) = offset + S
        BY <1>3, <1>4, <2>1
    <2>3. \A r \in 1 .. offset : all[r] = got[r]
        BY <1>3, <1>4, <2>1
    <2>4. \A n \in 1 .. S : all[offset + n] = Page[n]
        <3> TAKE n \in 1 .. S
        <3>1. offset + n \in 1 .. Len(got) + Len(Page) /\ ~ (offset + n <= Len(got))
            BY <1>3, <1>4
        <3>2. (offset + n) - Len(got) = n
            BY <1>3, <1>4
        <3> QED
            BY <2>1, <3>1, <3>2
    <2> QED
        BY <2>1, <2>2, <2>3, <2>4
<1> HIDE DEF all
<1>8. PumpTyped'
    <2>1. offset + S \in 0 .. Cardinality(Key)
        BY <1>3, <1>4, <1>5
    <2>2. ghosts' \subseteq Ip /\ ppc' \in Places \cup Ip
        BY <1>1, NoPlaceIsAnAddress
    <2>3. Cardinality(Key)' = Cardinality(Key)
        BY DEF Key
    <2>4. Len(got') <= Cardinality(Key) /\ got' \in Seq(Rows) /\ Len(got') = offset'
        BY <1>1, <1>7, <2>1
    <2> QED
        BY <1>1, <2>1, <2>2, <2>4 DEF PumpTyped
<1>9. HistoryTyped'
    BY <1>1 DEF HistoryTyped
<1>10. ASSUME ~moved
       PROVE  /\ held = banned /\ total = Size
              /\ \A i \in DOMAIN KeyOrder :
                    KeyOrder[i] \in banned /\ RowNumber(i) <= offset + S =>
                        all[RowNumber(i)].key = KeyOrder[i]
    <2>1. held = banned /\ total = Size
        BY <1>1, <1>2, <1>10 DEF SteadyOK
    <2>2. ASSUME NEW i \in DOMAIN KeyOrder, KeyOrder[i] \in banned,
                 RowNumber(i) <= offset + S
          PROVE  all[RowNumber(i)].key = KeyOrder[i]
        <3> DEFINE r == RowNumber(i)
        <3>1. r \in 1 .. Size
            BY <2>2, RowIsWithin DEF KernelTyped
        <3>2. r <= offset + S
            BY <2>2
        <3>3. r <= offset => got[r].key = KeyOrder[i]
            BY <1>2, <1>10, <2>2 DEF SteadyOK
        <3>4. KeyAt(r) = KeyOrder[i]
            BY <2>2, RowAt DEF KernelTyped
        <3> HIDE DEF r
        <3>5. CASE r <= offset
            <4>1. r \in 1 .. offset
                BY <1>4, <3>1, <3>5
            <4> QED
                BY <1>7, <3>3, <3>5, <4>1 DEF r
        <3>6. CASE ~ (r <= offset)
            <4>1. r - offset \in 1 .. S /\ offset + (r - offset) = r
                BY <1>3, <1>4, <1>5, <3>1, <3>2, <3>6
            <4>2. all[r] = Page[r - offset] /\ Page[r - offset].key = KeyAt(r)
                BY <1>3, <1>7, <4>1
            <4> QED
                BY <3>4, <4>2 DEF r
        <3> QED
            BY <3>5, <3>6
    <2> QED
        BY <2>1, <2>2
<1>11. ASSUME ~moved, ppc' = "adopting", NEW k \in held
       PROVE  /\ AddrOf[k] \in Invalid \/ AddrOf[k] \notin ghosts'
              /\ AddrOf[k] # "adopting"
    <2>1. PICK i \in DOMAIN KeyOrder : KeyOrder[i] = k
        BY <1>11, OrderOfKeys DEF HistoryTyped
    <2>2. KeyOrder[i] \in banned
        BY <1>10, <1>11, <2>1
    <2>3. RowNumber(i) \in 1 .. Size
        BY <2>2, RowIsWithin DEF KernelTyped
    <2>4. Size <= offset + S
        BY <1>1, <1>3, <1>4, <1>5, <1>6, <1>7, <1>10, <1>11
    <2>5. RowNumber(i) \in 1 .. offset + S /\ RowNumber(i) <= offset + S
        BY <1>3, <1>4, <1>5, <2>3, <2>4
    <2>6. all[RowNumber(i)].key = k
        BY <1>10, <1>11, <2>1, <2>2, <2>5
    <2>7. RowNumber(i) \in DOMAIN all
        <3> HIDE DEF Rows
        <3> QED
            BY <1>7, <2>5
    <2>8. AddrOf[k] \in {AddrOf[all[n].key] : n \in DOMAIN all}
        BY <2>6, <2>7
    <2>9. AddrOf[k] \in Ip
        BY <1>11, KeyAssumption DEF HistoryTyped
    <2> QED
        BY <1>1, <2>8, <2>9, NoPlaceIsAnAddress DEF Seen
<1>12. \A i : RowNumber(i)' = RowNumber(i)
    BY <1>1 DEF RowNumber
<1>13. SteadyOK'
    BY <1>1, <1>10, <1>11, <1>12, NoPlaceIsAnAddress DEF SteadyOK, Listing
<1> QED
    BY <1>8, <1>9, <1>13

(* The rest of a reconciliation takes from the ghosts only.                *)
LEMMA JudgingKeeps ==
    ASSUME PumpTyped, HistoryTyped, SteadyOK,
           UNCHANGED <<banned, held, moved, acts, offset, total>>,
           ppc \in {"adopting", "judging"} \cup Ip, ghosts' \subseteq ghosts,
           got' \in Seq(Rows) /\ Len(got') <= Len(got),
           \/ ppc' \in {"adopting", "judging"}
           \/ ppc' \in ghosts
    PROVE  PumpTyped' /\ HistoryTyped' /\ SteadyOK'
<1>1. ppc' \in {"adopting", "judging"} \cup Ip
    BY DEF PumpTyped
<1>2. ~ Listing'
    BY <1>1, NoPlaceIsAnAddress DEF Listing
<1>3. PumpTyped'
    <2>1. Len(got') <= Cardinality(Key)
        <3>1. Len(got) \in Nat /\ Len(got') \in Nat /\ Cardinality(Key) \in Nat
            BY KeysFinite DEF PumpTyped
        <3> QED
            BY <3>1 DEF PumpTyped
    <2> QED
        BY <1>1, <1>2, <2>1, NoPlaceIsAnAddress DEF PumpTyped
<1>4. HistoryTyped'
    BY DEF HistoryTyped
<1>5. ASSUME ~moved, NEW k \in held
      PROVE  AddrOf[k] \in Invalid \/ AddrOf[k] \notin ghosts' \cup {ppc'}
    <2>1. AddrOf[k] \in Invalid \/ AddrOf[k] \notin ghosts
        BY <1>5 DEF SteadyOK
    <2>2. AddrOf[k] \in Ip
        BY <1>5, KeyAssumption DEF HistoryTyped
    <2> QED
        BY <2>1, <2>2, NoPlaceIsAnAddress
<1>6. ppc' # "paging"
    BY <1>1, NoPlaceIsAnAddress
<1>7. SteadyOK'
    BY <1>2, <1>5, <1>6 DEF SteadyOK
<1> QED
    BY <1>3, <1>4, <1>7

LEMMA HandleEventKeeps ==
    ASSUME MirrorInv, HandleEvent
    PROVE  KernelTyped' /\ MirrorTyped' /\ UNCHANGED <<pumpVars, listingVars>>
<1>1. /\ feed # <<>> /\ feed' = Tail(feed) /\ handle(Head(feed))
      /\ UNCHANGED <<banned, due, unsent, pumpVars, listingVars>>
    BY DEF HandleEvent, pumpOnly, kernelVars
<1>2. feed \in Seq(Message) /\ Len(feed) \in Nat /\ Len(feed) <= QueueCap /\ QueueCap \in Nat
    BY MirrorNumbers DEF MirrorInv, KernelTyped
<1>3. feed' \in Seq(Message) /\ Len(feed') = Len(feed) - 1
    BY <1>1, <1>2, HeadTailProperties
<1>4. Len(feed') <= QueueCap
    BY <1>2, <1>3
<1>5. KernelTyped'
    BY <1>1, <1>3, <1>4 DEF MirrorInv, KernelTyped, Size
<1>6. MirrorTyped'
    <2>1. "running" \in MirrorEntry /\ MirrorTyped
        BY DEF MirrorEntry, MirrorInv
    <2> QED
        BY <1>1, <2>1, DropTyped, UpsertTyped
        DEF handle, handleBan, handleCmdResult
<1> QED
    BY <1>1, <1>5, <1>6

LEMMA PumpStep ==
    ASSUME MirrorInv,
           HandleEvent \/ ReconcileStarts \/ ListFails \/ Reconcile
    PROVE  /\ KernelTyped' /\ MirrorTyped' /\ PumpTyped' /\ HistoryTyped' /\ SteadyOK'
           /\ UNCHANGED <<executorVars, apiVars>>
<1>i. KernelTyped /\ MirrorTyped /\ PumpTyped /\ HistoryTyped /\ SteadyOK
    BY DEF MirrorInv
<1>s. UNCHANGED <<banned, due, unsent, feed>> => KernelTyped'
    BY <1>i DEF KernelTyped, Size
<1>a. /\ ppc = "adopting" => ppc \in {"adopting", "judging"} \cup Ip
      /\ ppc = "judging" => ppc \in {"adopting", "judging"} \cup Ip
      /\ ppc \in Ip => ppc \in {"adopting", "judging"} \cup Ip
    OBVIOUS
<1>g. got \in Seq(Rows) /\ Len(got) <= Len(got)
    BY <1>i DEF PumpTyped
<1>1. CASE HandleEvent
    <2>1. KernelTyped' /\ MirrorTyped' /\ UNCHANGED <<pumpVars, listingVars>>
        BY <1>1, HandleEventKeeps
    <2>2. banned' = banned /\ acts' = acts /\ UNCHANGED <<executorVars, apiVars>>
        BY <1>1 DEF HandleEvent, pumpOnly, kernelVars
    <2>3. ListingKept /\ acts' \in 0 .. MaxActs
        BY <1>i, <2>1, <2>2 DEF ListingKept, HistoryTyped
    <2> QED
        BY <1>i, <2>1, <2>2, <2>3, PumpAside
<1>2. CASE ReconcileStarts
    <2>1. /\ UNCHANGED <<banned, due, unsent, feed, mirrorVars>>
          /\ UNCHANGED <<executorVars, apiVars>>
        BY <1>2 DEF ReconcileStarts, pumpOnly, kernelVars
    <2> QED
        BY <1>2, <1>i, <1>s, <2>1, ReconcileStartsKeeps, MirrorSame
<1>3. CASE CountBans
    <2>1. /\ UNCHANGED <<banned, due, unsent, feed, mirrorVars>>
          /\ UNCHANGED <<executorVars, apiVars>>
        BY <1>3 DEF CountBans, pumpOnly, kernelVars
    <2> QED
        BY <1>3, <1>i, <1>s, <2>1, CountBansKeeps, MirrorSame
<1>4. CASE ListPage
    <2>1. /\ UNCHANGED <<banned, due, unsent, feed, mirrorVars>>
          /\ UNCHANGED <<executorVars, apiVars>>
        BY <1>4 DEF ListPage, pumpOnly, kernelVars
    <2> QED
        BY <1>4, <1>i, <1>s, <2>1, ListPageKeeps, MirrorSame
<1>5. CASE ListFails
    <2>1. /\ UNCHANGED <<banned, due, unsent, feed, mirrorVars>>
          /\ UNCHANGED <<executorVars, apiVars>>
          /\ ppc' = "idle" /\ offset' = 0 /\ total' = 0 /\ got' = <<>> /\ ghosts' = {}
          /\ held' = {} /\ moved' = FALSE /\ SpendAct
        BY <1>5 DEF ListFails, kernelVars
    <2>2. PumpTyped' /\ HistoryTyped' /\ SteadyOK'
        <3>1. 0 \in 0 .. Cardinality(Key) /\ 0 <= Cardinality(Key)
            BY KeysFinite
        <3>2. got' \in Seq(Rows) /\ Len(got') = 0
            BY <2>1
        <3>3. PumpTyped'
            BY <2>1, <3>1, <3>2, NoPlaceIsAnAddress DEF PumpTyped, Listing
        <3>4. HistoryTyped'
            BY <1>i, <2>1, Spent DEF HistoryTyped
        <3>5. SteadyOK'
            BY <2>1, NoPlaceIsAnAddress DEF SteadyOK, Listing
        <3> QED
            BY <3>3, <3>4, <3>5
    <2> QED
        BY <1>i, <1>s, <2>1, <2>2, MirrorSame
<1>6. CASE Adopt
    <2>1. /\ ppc = "adopting" /\ got # <<>> /\ got' = Tail(got)
          /\ UNCHANGED mirrorVars \/ Upsert(AddrOf[Head(got).key], Head(got).state)
          /\ UNCHANGED <<banned, due, unsent, feed, held, moved, acts, offset, total, ghosts, ppc>>
          /\ UNCHANGED <<executorVars, apiVars>>
        BY <1>6 DEF Adopt, pumpOnly, kernelVars, listingVars
    <2>2. Head(got) \in Rows /\ got' \in Seq(Rows) /\ Len(got') <= Len(got)
        <3> HIDE DEF Rows
        <3>1. Head(got) \in Rows /\ got' \in Seq(Rows) /\ Len(got') = Len(got) - 1
            BY <1>g, <2>1, HeadTailProperties
        <3>2. Len(got) \in Nat
            BY <1>g
        <3> QED
            BY <3>1, <3>2
    <2>3. MirrorTyped'
        <3>1. Head(got).state \in MirrorEntry
            BY <2>2 DEF Rows
        <3> QED
            BY <1>i, <2>1, <3>1, UpsertTyped, MirrorSame
    <2>4. PumpTyped' /\ HistoryTyped' /\ SteadyOK'
        BY <1>i, <2>1, <2>2, JudgingKeeps
    <2> QED
        BY <1>s, <2>1, <2>3, <2>4
<1>7. CASE \/ CopyMirror
           \/ \E ip \in Ip : GhostStays(ip) \/ JudgeGhost(ip)
    <2>1. /\ ppc \in {"adopting", "judging"} /\ ghosts' \subseteq ghosts /\ got' = got
          /\ ppc' = "judging" \/ ppc' \in ghosts
          /\ UNCHANGED <<banned, due, unsent, feed, held, moved, acts, offset, total>>
          /\ UNCHANGED <<mirrorVars, executorVars, apiVars>>
        BY <1>7 DEF CopyMirror, GhostStays, JudgeGhost, pumpOnly,
                    kernelVars, listingVars
    <2>2. PumpTyped' /\ HistoryTyped' /\ SteadyOK'
        BY <1>i, <1>g, <2>1, JudgingKeeps
    <2> QED
        BY <1>i, <1>s, <2>1, <2>2, MirrorSame
<1>8. CASE RemoveGhost
    <2>1. /\ ppc \in Ip /\ Drop({ppc}) /\ ppc' = "judging" /\ got' = got /\ ghosts' = ghosts
          /\ UNCHANGED <<banned, due, unsent, feed, held, moved, acts, offset, total>>
          /\ UNCHANGED <<executorVars, apiVars>>
        BY <1>8 DEF RemoveGhost, pumpOnly, kernelVars, listingVars
    <2>2. PumpTyped' /\ HistoryTyped' /\ SteadyOK'
        BY <1>i, <1>g, <2>1, JudgingKeeps
    <2> QED
        BY <1>i, <1>s, <2>1, <2>2, DropTyped
<1>9. CASE Sweep
    <2>1. /\ \E S : Drop(S)
          /\ ppc' = "idle" /\ offset' = 0 /\ total' = 0 /\ held' = {} /\ moved' = FALSE
          /\ UNCHANGED <<banned, due, unsent, feed, got, ghosts, acts>>
          /\ UNCHANGED <<executorVars, apiVars>>
        BY <1>9 DEF Sweep, pumpOnly, kernelVars
    <2>2. PumpTyped' /\ HistoryTyped' /\ SteadyOK'
        <3>1. 0 \in 0 .. Cardinality(Key)
            BY KeysFinite
        <3>2. PumpTyped'
            BY <1>i, <2>1, <3>1, NoPlaceIsAnAddress DEF PumpTyped, Listing
        <3>3. HistoryTyped'
            BY <1>i, <2>1 DEF HistoryTyped
        <3>4. SteadyOK'
            BY <2>1, NoPlaceIsAnAddress DEF SteadyOK, Listing
        <3> QED
            BY <3>2, <3>3, <3>4
    <2> QED
        BY <1>i, <1>s, <2>1, <2>2, DropTyped
<1> QED
    BY <1>1, <1>2, <1>3, <1>4, <1>5, <1>6, <1>7, <1>8, <1>9 DEF Reconcile

-----------------------------------------------------------------------------
LEMMA MirrorBegins ==
    ASSUME MirrorInit
    PROVE  MirrorInv
<1>1. banned \in Start /\ due = {}
    BY DEF MirrorInit
<1>2. banned \subseteq Key /\ Size <= MaxBan
    BY <1>1, BoundAssumption DEF Size
<1>3. KernelTyped
    BY <1>1, <1>2, MirrorNumbers DEF MirrorInit, KernelTyped
<1>4. MirrorTyped /\ ExecutorTyped /\ ApiTyped
    BY DEF MirrorInit, MirrorTyped, ExecutorTyped, ApiTyped
<1>5. 0 \in 0 .. Cardinality(Key) /\ 0 <= Cardinality(Key)
    BY KeysFinite
<1>6. PumpTyped
    BY <1>5, NoPlaceIsAnAddress DEF MirrorInit, PumpTyped, Listing
<1>7. HistoryTyped
    <2>1. held = {} /\ moved = FALSE /\ acts = 0
        BY DEF MirrorInit
    <2>2. acts \in 0 .. MaxActs
        BY <2>1, MirrorNumbers
    <2> QED
        BY <2>1, <2>2 DEF HistoryTyped
<1>8. SteadyOK
    BY NoPlaceIsAnAddress DEF MirrorInit, SteadyOK, Listing
<1> QED
    BY <1>3, <1>4, <1>6, <1>7, <1>8 DEF MirrorInv

LEMMA MirrorStep ==
    ASSUME MirrorInv, [MirrorNext]_(allVars)
    PROVE  MirrorInv'
<1>i. /\ KernelTyped /\ MirrorTyped /\ ExecutorTyped /\ ApiTyped /\ PumpTyped
      /\ HistoryTyped /\ SteadyOK
    BY DEF MirrorInv
<1>e. UNCHANGED executorVars => ExecutorTyped'
    BY <1>i DEF ExecutorTyped, executorVars
<1>a. UNCHANGED apiVars => ApiTyped'
    BY <1>i DEF ApiTyped, apiVars
<1>1. CASE Kernel
    BY <1>1, <1>i, <1>e, <1>a, KernelStep, PumpAside DEF MirrorInv
<1>2. CASE Executor
    BY <1>2, <1>i, <1>a, ExecutorStep, PumpAside DEF MirrorInv
<1>3. CASE Api
    BY <1>3, <1>i, <1>e, ApiStep, PumpAside DEF MirrorInv
<1>4. CASE HandleEvent \/ ReconcileStarts \/ ListFails \/ Reconcile
    BY <1>4, <1>e, <1>a, PumpStep DEF MirrorInv
<1>5. CASE UNCHANGED allVars
    <2>1. /\ UNCHANGED <<kernelVars, channelVars, mirrorVars, executorVars>>
          /\ UNCHANGED <<apiVars, pumpVars, listingVars>> /\ acts' = acts
        BY <1>5 DEF allVars
    <2>2. acts' \in 0 .. MaxActs
        BY <1>i, <2>1 DEF HistoryTyped
    <2> QED
        BY <1>i, <1>e, <1>a, <2>1, <2>2, KernelSame, MirrorSame, PumpAside DEF MirrorInv
<1> QED
    BY <1>1, <1>2, <1>3, <1>4, <1>5 DEF MirrorNext

(* The mirror's module: what the pump has read of the table, who waits for *)
(* what, and how the listing stands to the table.                          *)
THEOREM MirrorHolds == MirrorSpec => []MirrorInv
<1>1. MirrorInit => MirrorInv
    BY MirrorBegins
<1>2. MirrorInv /\ [MirrorNext]_(allVars) => MirrorInv'
    BY MirrorStep
<1> QED
    BY <1>1, <1>2, PTL DEF MirrorSpec

(* reconcile: a ban that was in the table when the listing began, and      *)
(* stayed, of an address that the daemon accepts, is not taken out of the  *)
(* mirror as a ghost, if the table stood still while the pages were read.  *)
THEOREM SteadyBansStay == MirrorSpec => SteadyBansKept
<1>1. MirrorInv => [\A ip \in Ip : ppc = ip /\ ppc' = "judging" /\ ~moved =>
                        ip \in Invalid \/ \A k \in held : AddrOf[k] # ip]_(allVars)
    BY DEF MirrorInv, SteadyOK
<1> QED
    BY <1>1, MirrorHolds, PTL DEF SteadyBansKept

(* Every variable keeps its type, the queue to the pump its depth and the  *)
(* table its capacity.                                                     *)
THEOREM MirrorTypeCorrect == MirrorSpec => []MirrorTypeOK
<1>1. ASSUME MirrorInv PROVE MirrorTypeOK
    <2>1. {offset, total, Len(got)} \subseteq 0 .. Cardinality(Key)
        <3>1. Len(got) \in Nat
            BY <1>1 DEF MirrorInv, PumpTyped
        <3> QED
            BY <1>1, <3>1, KeysFinite DEF MirrorInv, PumpTyped
    <2> QED
        BY <1>1, <2>1
        DEF MirrorInv, KernelTyped, MirrorTyped, ExecutorTyped, ApiTyped, PumpTyped,
            HistoryTyped, MirrorTypeOK, Size
<1> QED
    BY <1>1, MirrorHolds, PTL
==============================================================================
