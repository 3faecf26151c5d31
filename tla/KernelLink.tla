----------------------------- MODULE KernelLink -----------------------------
(***************************************************************************)
(* The daemon's side of the netlink socket: typed requests that wait for   *)
(* the reply with their sequence number (kernel/client.go, router.go), and *)
(* the one goroutine that receives (kernel/reactor.go, transport.go).      *)
(*                                                                         *)
(* The kernel answers in the context of the sender: the reply, if the      *)
(* socket's buffer has room for it, is there when sendto returns.          *)
(***************************************************************************)
EXTENDS Naturals, FiniteSets, Sequences

CONSTANTS
    Caller,      \* goroutines that make requests: pump, executor, HTTP
    SeqSpace,      \* sequence numbers are below it (2^32 in the code)
    MaxInFlight, \* entries of the pending table
    RxCap,       \* datagrams in the socket's receive buffer
    EventQueue,  \* events between router and pump
    MaxOps,      \* bound: requests and events
    None

ASSUME LinkAssumption ==
    /\ {SeqSpace, MaxInFlight, RxCap, EventQueue} \subseteq Nat \ {0}
    /\ MaxOps \in Nat /\ SeqSpace > MaxOps + 1
    /\ None \notin [seq : 1 .. SeqSpace - 1, to : Caller]

VARIABLES
    nextSeq,
    cpc, cseq,   \* cpc[c]: what c does; cseq[c]: the number of its request
    inbox,       \* inbox[c]: the channel of c's reply handle holds a message
    pending,     \* the pending table: records [seq, to]
    alive,       \* it admits requests
    down,        \* router.linkDown is closed
    rx,          \* the receive buffer: sequence numbers of replies, Event, Junk
    events,      \* number of events that wait for the pump
    rpc, tx,     \* the reactor, and the table entry it has claimed
    stopping,    \* the reactor's shutdown token
    fds,         \* "open", "marked" (closed = true, descriptors taken), "closed"
    wake,        \* the eventfd that wakes epoll_wait
    ops

(* An unsolicited message; and one that is foreign, cut, malformed, of an  *)
(* unknown type or cannot be decoded.  Neither is a sequence number.       *)
Event == 0
Junk == SeqSpace

callerVars == <<cpc, cseq, inbox>>
tableVars  == <<pending, alive, down>>
reactorVars == <<rpc, tx>>
closeVars  == <<stopping, fds, wake>>
vars == <<nextSeq, callerVars, tableVars, rx, events, reactorVars, closeVars, ops>>

Init ==
    /\ nextSeq \in 0 .. SeqSpace - 1
    /\ cpc = [c \in Caller |-> "idle"] /\ cseq = [c \in Caller |-> 0]
    /\ inbox = [c \in Caller |-> FALSE]
    /\ pending = {} /\ alive = TRUE /\ down = FALSE
    /\ rx = <<>> /\ events = 0
    /\ rpc = "loop" /\ tx = None
    /\ stopping = FALSE /\ fds = "open" /\ wake = FALSE
    /\ ops = 0

Spend == ops < MaxOps /\ ops' = ops + 1

-----------------------------------------------------------------------------
(* client.go: request, exchangeWith                                        *)

Entry(c) == [seq |-> cseq[c], to |-> c]
Ends(c) == cpc' = [cpc EXCEPT ![c] = "idle"]

(* allocSeq; 0 means "no reply expected" and is skipped.                   *)
Alloc(c) ==
    /\ cpc[c] = "idle"
    /\ Spend
    /\ LET seq == IF nextSeq = 0 THEN 1 ELSE nextSeq IN
       /\ cseq' = [cseq EXCEPT ![c] = seq]
       /\ nextSeq' = (seq + 1) % SeqSpace
    /\ cpc' = [cpc EXCEPT ![c] = "allocated"]
    /\ inbox' = [inbox EXCEPT ![c] = FALSE]
    /\ UNCHANGED <<tableVars, rx, events, reactorVars, closeVars>>

(* Ban, Unban, SetProtectedPorts, Add- and RemoveWhitelist: sent and not   *)
(* waited for; a rejection comes as an event.                              *)
Command(c) ==
    /\ cpc[c] = "idle"
    /\ fds # "closed"
    /\ Spend
    /\ nextSeq' = ((IF nextSeq = 0 THEN 1 ELSE nextSeq) + 1) % SeqSpace
    /\ \/ Len(rx) < RxCap /\ rx' = Append(rx, Event)
       \/ UNCHANGED rx
    /\ UNCHANGED <<callerVars, tableVars, events, reactorVars, closeVars>>

\* deviation: whether the link is alive is not looked at under the lock
Register_NoAlive(c) ==
    /\ cpc[c] = "allocated"
    /\ pending' = pending \cup {Entry(c)}
    /\ cpc' = [cpc EXCEPT ![c] = "registered"]
    /\ UNCHANGED <<nextSeq, cseq, inbox, alive, down, rx, events,
                   reactorVars, closeVars, ops>>

(* pendingTable.insert, under its lock: link down, full, or duplicate.     *)
Refused(c) ==
    \/ ~alive
    \/ Cardinality(pending) >= MaxInFlight
    \/ \E e \in pending : e.seq = cseq[c]

Register(c) ==
    /\ cpc[c] = "allocated"
    /\ ~Refused(c)
    /\ pending' = pending \cup {Entry(c)}
    /\ cpc' = [cpc EXCEPT ![c] = "registered"]
    /\ UNCHANGED <<nextSeq, cseq, inbox, alive, down, rx, events, reactorVars,
                   closeVars, ops>>

(* registered: the caller gets ErrLinkDown, ErrBusy or ErrSeqReused.       *)
RegisterFails(c) ==
    /\ cpc[c] = "allocated"
    /\ Refused(c)
    /\ Ends(c)
    /\ UNCHANGED <<nextSeq, cseq, inbox, tableVars, rx, events, reactorVars,
                   closeVars, ops>>

(* transport.Send; the kernel may answer, and its answer may not fit.      *)
SendOk(c) ==
    /\ cpc[c] = "registered"
    /\ fds # "closed"
    /\ cpc' = [cpc EXCEPT ![c] = "waiting"]
    /\ \/ Len(rx) < RxCap /\ rx' = Append(rx, cseq[c])
       \/ UNCHANGED rx
    /\ UNCHANGED <<nextSeq, cseq, inbox, tableVars, events,
                   reactorVars, closeVars, ops>>

\* deviation: a request that could not be sent stays in the table
SendFails_NoAbandon(c) ==
    /\ cpc[c] = "registered"
    /\ Ends(c)
    /\ UNCHANGED <<nextSeq, cseq, inbox, tableVars, rx, events, reactorVars,
                   closeVars, ops>>

(* Abandon removes by key, whoever's entry that is.                        *)
Abandon(c) == pending' = {e \in pending : e.seq # cseq[c]}

SendFails(c) ==
    /\ cpc[c] = "registered"
    /\ Abandon(c)
    /\ Ends(c)
    /\ UNCHANGED <<nextSeq, cseq, inbox, alive, down, rx, events, reactorVars,
                   closeVars, ops>>

(* RecvTimeout: reply, loss of the link, timer, whichever select takes.    *)
Receive(c) ==
    /\ cpc[c] = "waiting"
    /\ inbox[c]
    /\ inbox' = [inbox EXCEPT ![c] = FALSE]
    /\ Ends(c)
    /\ UNCHANGED <<nextSeq, cseq, tableVars, rx, events, reactorVars, closeVars, ops>>

GiveUp(c) ==
    /\ cpc[c] = "waiting"
    /\ cpc' = [cpc EXCEPT ![c] = "abandoning"]
    /\ UNCHANGED <<nextSeq, cseq, inbox, tableVars, rx, events, reactorVars,
                   closeVars, ops>>

GiveUpEnds(c) ==
    /\ cpc[c] = "abandoning"
    /\ Abandon(c)
    /\ cpc' = [cpc EXCEPT ![c] = "idle"]
    /\ UNCHANGED <<nextSeq, cseq, inbox, alive, down, rx, events,
                   reactorVars, closeVars, ops>>

-----------------------------------------------------------------------------
(* The kernel broadcasts, or some process sends; the pump takes events.    *)
Arrives ==
    /\ Spend
    /\ Len(rx) < RxCap
    /\ \E d \in {Event, Junk} : rx' = Append(rx, d)
    /\ UNCHANGED <<nextSeq, callerVars, tableVars, events, reactorVars, closeVars>>

PumpTakes ==
    /\ events > 0
    /\ events' = events - 1
    /\ UNCHANGED <<nextSeq, callerVars, tableVars, rx, reactorVars, closeVars, ops>>

-----------------------------------------------------------------------------
(* reactor.go: Run                                                         *)

notReactor == <<nextSeq, callerVars, stopping, fds, ops>>

\* deviation: the loop looks at the descriptors only
LoopHead_NoToken ==
    /\ rpc = "loop"
    /\ rpc' = IF fds # "open" THEN "leaving" ELSE "polling"
    /\ UNCHANGED <<notReactor, tx, tableVars, rx, events, wake>>

(* The loop's condition, and Poll's look at closed.                        *)
LoopHead ==
    /\ rpc = "loop"
    /\ rpc' = IF stopping \/ fds # "open" THEN "leaving" ELSE "polling"
    /\ UNCHANGED <<notReactor, tx, tableVars, rx, events, wake>>

(* epoll_wait returns with the eventfd, which is read empty; with a        *)
(* datagram; or after PollInterval, EINTR or an error.                     *)
PollReturns ==
    /\ rpc = "polling"
    /\ \/ wake /\ rpc' = "leaving"
       \/ ~wake /\ rx # <<>> /\ fds # "closed" /\ rpc' = "draining"
       \/ ~wake /\ (rx = <<>> \/ fds = "closed") /\ rpc' = "loop"
    /\ wake' = FALSE
    /\ UNCHANGED <<notReactor, tx, tableVars, rx, events>>

(* Subscribe has given the blocking receive a timeout: it returns with     *)
(* nothing from an empty socket, and with an error from a closed one.      *)
NothingToReceive == rx = <<>> \/ fds = "closed"

(* drain: until the token, an error, or a receive timeout.                 *)
DrainEnds ==
    /\ rpc = "draining"
    /\ stopping \/ NothingToReceive
    /\ rpc' = "loop"
    /\ UNCHANGED <<notReactor, tx, tableVars, rx, events, wake>>

Receives == rpc = "draining" /\ ~stopping /\ ~NothingToReceive

\* deviation: the receiver waits for room in the queue
TakeEvent_Waits ==
    /\ Receives /\ Head(rx) = Event
    /\ events < EventQueue
    /\ rx' = Tail(rx)
    /\ events' = events + 1
    /\ UNCHANGED <<notReactor, reactorVars, tableVars, wake>>

(* HandleDatagram: junk is counted and dropped; an event goes to the pump  *)
(* if its queue has room.                                                  *)
TakeEvent ==
    /\ Receives /\ Head(rx) = Event
    /\ rx' = Tail(rx)
    /\ events' = IF events < EventQueue THEN events + 1 ELSE events
    /\ UNCHANGED <<notReactor, reactorVars, tableVars, wake>>

DropJunk ==
    /\ Receives /\ Head(rx) = Junk
    /\ rx' = Tail(rx)
    /\ UNCHANGED <<notReactor, reactorVars, tableVars, events, wake>>

(* TryRecv: a datagram that is cut, or not a netlink message, is an error  *)
(* that ends this round.                                                   *)
ReceiveFails ==
    /\ Receives /\ Head(rx) = Junk
    /\ rx' = Tail(rx)
    /\ rpc' = "loop"
    /\ UNCHANGED <<notReactor, tx, tableVars, events, wake>>

(* A reply claims its entry first; it is decoded, which may fail, and put  *)
(* into the handle's channel afterwards.  One nobody waits for is dropped. *)
ClaimReply ==
    /\ Receives /\ Head(rx) \notin {Event, Junk}
    /\ rx' = Tail(rx)
    /\ LET mine == {e \in pending : e.seq = Head(rx)} IN
       /\ pending' = pending \ mine
       /\ \/ \E e \in mine : tx' = e /\ rpc' = "delivering"
          \/ UNCHANGED reactorVars
    /\ UNCHANGED <<notReactor, alive, down, events, wake>>

(* The channel belongs to the handle of one request.  A number stands for  *)
(* its request as long as the space is larger than the number of requests; *)
(* the code's counter starts at 1, far from where it wraps, and the model's*)
(* anywhere.                                                               *)
Deliver ==
    /\ rpc = "delivering"
    /\ inbox' = IF cpc[tx.to] # "idle" /\ cseq[tx.to] = tx.seq
                THEN [inbox EXCEPT ![tx.to] = TRUE] ELSE inbox
    /\ tx' = None
    /\ rpc' = "draining"
    /\ UNCHANGED <<nextSeq, cpc, cseq, stopping, fds, ops, tableVars,
                   rx, events, wake>>

(* Router.Close: dead, then empty, then linkDown.                          *)
MarkDead ==
    /\ rpc = "leaving"
    /\ alive' = FALSE
    /\ rpc' = "dead"
    /\ UNCHANGED <<notReactor, tx, pending, down, rx, events, wake>>

ClearPending ==
    /\ rpc = "dead"
    /\ pending' = {}
    /\ rpc' = "cleared"
    /\ UNCHANGED <<notReactor, tx, alive, down, rx, events, wake>>

CloseLinkDown ==
    /\ rpc = "cleared"
    /\ down' = TRUE
    /\ rpc' = "exited"
    /\ UNCHANGED <<notReactor, tx, pending, alive, rx, events, wake>>

-----------------------------------------------------------------------------
(* The composition root: the token first, Close when the join is over or   *)
(* has timed out.                                                          *)

rootOnly == <<nextSeq, callerVars, tableVars, rx, events, reactorVars, ops>>

RequestStop ==
    /\ ~stopping
    /\ stopping' = TRUE
    /\ UNCHANGED <<rootOnly, fds, wake>>

(* Close takes the descriptors away before it signals, so that             *)
(* pokeWakeFd finds none.                                                  *)
CloseMark ==
    /\ stopping /\ fds = "open"
    /\ fds' = "marked"
    /\ UNCHANGED <<rootOnly, stopping, wake>>

CloseFds ==
    /\ fds = "marked"
    /\ fds' = "closed"
    /\ wake' = FALSE
    /\ UNCHANGED <<rootOnly, stopping>>

(* SignalLinkDown by itself.                                               *)
SignalLinkDown ==
    /\ fds = "open" /\ ~wake
    /\ Spend
    /\ wake' = TRUE
    /\ UNCHANGED <<nextSeq, callerVars, tableVars, rx, events, reactorVars,
                   stopping, fds>>
-----------------------------------------------------------------------------
Exchange(c) ==
    \/ Register(c) \/ RegisterFails(c) \/ SendOk(c) \/ SendFails(c) \/ Receive(c)
    \/ GiveUp(c) \/ GiveUpEnds(c)

Reactor ==
    \/ LoopHead \/ PollReturns \/ DrainEnds
    \/ TakeEvent \/ DropJunk \/ ReceiveFails \/ ClaimReply \/ Deliver
    \/ MarkDead \/ ClearPending \/ CloseLinkDown

Next ==
    \/ \E c \in Caller : Alloc(c) \/ Exchange(c) \/ Command(c)
    \/ Arrives \/ PumpTakes
    \/ Reactor
    \/ RequestStop \/ CloseMark \/ CloseFds \/ SignalLinkDown

(* The receiving goroutine is scheduled, and every call it makes returns   *)
(* within half a second.  Nobody has to make requests, to take events, or  *)
(* to close anything.                                                      *)
Fairness == WF_vars(Reactor)

Spec == Init /\ [][Next]_vars
FairSpec == Spec /\ Fairness
-----------------------------------------------------------------------------
InExchange == {"registered", "waiting", "abandoning"}

TypeOK ==
    /\ nextSeq \in 0 .. SeqSpace - 1
    /\ cpc \in [Caller -> {"idle", "allocated"} \cup InExchange]
    /\ cseq \in [Caller -> 0 .. SeqSpace - 1]
    /\ inbox \in [Caller -> BOOLEAN]
    /\ pending \subseteq [seq : 1 .. SeqSpace - 1, to : Caller]
    /\ Cardinality(pending) <= MaxInFlight
    /\ alive \in BOOLEAN /\ down \in BOOLEAN
    /\ rx \in Seq(0 .. SeqSpace) /\ Len(rx) <= RxCap
    /\ events \in 0 .. EventQueue
    /\ rpc \in {"loop", "polling", "draining", "delivering", "leaving", "dead",
                "cleared", "exited"}
    /\ tx \in {None} \cup [seq : 1 .. SeqSpace - 1, to : Caller]
    /\ stopping \in BOOLEAN /\ wake \in BOOLEAN
    /\ fds \in {"open", "marked", "closed"} /\ ops \in 0 .. MaxOps

(* An entry of the pending table belongs to a request that is under way,   *)
(* on each of the paths an exchange can end on.  The table has 64 places   *)
(* and no other way to lose an entry (client.go:93-116, router.go:113-117).*)
NoOrphanEntry ==
    \A e \in pending : cpc[e.to] \in InExchange /\ cseq[e.to] = e.seq

(* Once the table has been cleared nobody gets into it any more: a request *)
(* that is admitted late would wait its whole timeout for a reply that     *)
(* nobody receives (router.go:224-229, 323-325).                           *)
ClosedIsEmpty == rpc \in {"cleared", "exited"} => pending = {}

(* The receiver stops when it is asked to, whatever callers, pump and      *)
(* kernel do (reactor.go:60-86).                                           *)
ReactorStops == stopping ~> rpc = "exited"

(* The receiver empties the socket even if the pump takes nothing: else    *)
(* the kernel would lose events unseen (router.go:18-22).                  *)
SocketIsEmptied == rx # <<>> ~> (rx = <<>> \/ rpc = "exited")
=============================================================================
