--------------------------------- MODULE Web ---------------------------------
(***************************************************************************)
(* The daemon's HTTP side under load and while the process goes down:      *)
(* internal/http/server.go (the connection limiter, Stop), auth.go and     *)
(* auth_lockout.go (the gate in front of every protected route), sse.go    *)
(* (slots, the fan-out loop of the event stream, the life of a             *)
(* connection), logs.go (the log stream), internal/runtime/supervisor.go   *)
(* and the part of cmd/firewall-daemon/main.go that starts and stops them. *)
(*                                                                         *)
(* A request takes one of the limiter's places; the place is taken again   *)
(* once nothing refers to the channel of the last request in it.  Each     *)
(* step of a request is what its goroutine does between two points where   *)
(* another goroutine can come in: a lock, a channel, a write to the        *)
(* client.  Frames of the event stream are numbered in the order they      *)
(* entered the broadcast queue; what they say is left out, and so are      *)
(* routing, the bodies of the handlers and the routes without a login.     *)
(***************************************************************************)
EXTENDS Naturals, Sequences, FiniteSets

CONSTANTS
    Requests,       \* the places under the connection limiter (32)
    Slots,          \* for each stream its connections at most (10 events, 5 logs)
    Threshold,      \* failures in a row that close the gate
    Buffer,         \* frames a connection's own channel holds (16)
    QueueSize,      \* frames the broadcast queue holds (256)
    MaxFrames,      \* bound: frames published in a behaviour
    MaxNew,         \* bound: connections without a request when the listener closes
    Nobody

ASSUME WebAssumption ==
    /\ IsFiniteSet(Requests) /\ Requests # {} /\ Slots \in [{"events", "logs"} -> Nat]
    /\ Threshold \in Nat \ {0} /\ Buffer \in Nat \ {0}
    /\ QueueSize \in Nat \ {0} /\ MaxFrames \in Nat /\ MaxNew \in Nat
    /\ Nobody \notin Requests

Kinds == {"page", "events", "logs"}
Streams == {"events", "logs"}

\* the frame a connection begins with, and a line of the log stream
Connected == 0
LogLine == MaxFrames + 1

VARIABLES
    stage,          \* where each request is, "none" when the place is free
    kind,           \* what it asks for
    out,            \* the channel of its connection
    shut,           \* the channel is closed
    seen,           \* last broadcast frame it was given, or missed by joining late
    tail,           \* the reader of its log stream can still give lines
    locked,         \* the window of the login lockout is open
    failures,       \* AuthLockout.consecutive
    late,           \* wrong credentials compared since the window opened
    slots,          \* for each stream, the connections that hold a slot
    clients,        \* SSEBroker.clients
    run,            \* what the fan-out loop is at
    queue,          \* SSEBroker.broadcast
    cast,           \* last frame taken from it and fanned out
    published,      \* last frame put into it
    streamStop,     \* streams whose stopCh is closed
    brokerStop,     \* SSEBroker.stopCh is closed
    stopped,        \* SSEBroker.stopped
    crashed,        \* a goroutine nobody recovers used a closed channel
    server,         \* where the http-server executor is
    newcomers,      \* connections that were accepted and wait with their first request
    main            \* where the main goroutine is

requestVars == <<stage, kind, out, shut, seen, tail>>
gateVars == <<locked, failures, late>>
brokerVars == <<clients, run, queue, cast, published, stopped, crashed>>
stopVars == <<streamStop, brokerStop, server, newcomers>>
vars == <<requestVars, gateVars, slots, brokerVars, stopVars, main>>

\* the executors in the order main registers them; the last is asked to stop first
Executors == <<"kernel-reactor", "http-server", "kernel-event-pump", "ingest">>

\* what the fan-out loop does with what it received
Selecting == [does |-> "select", with |-> Nobody]
Working(what, with) == [does |-> what, with |-> with]
Gone == [does |-> "gone", with |-> Nobody]

\* main: running, or shutting down with the executors 1 .. main still to be joined,
\* or exited
Running == Len(Executors) + 1
Exited == Nobody

\* the token of an executor is set when main has come to it; one that waits for
\* nobody has ended when main has gone past it
Asked(e) == \E n \in 1 .. Len(Executors) : Executors[n] = e /\ main \in 0 .. n
Up(e) == \E n \in 1 .. Len(Executors) : Executors[n] = e /\ main >= n

\* The values of the variables.
TypeOK ==
    /\ stage \in [Requests -> {"none", "compare", "serve", "attach", "hello", "loop",
                              "write", "detach", "release"}]
    /\ kind \in [Requests -> Kinds]
    /\ out \in [Requests -> Seq(0 .. LogLine)]
    /\ \A r \in Requests : Len(out[r]) <= Buffer
    /\ shut \in [Requests -> BOOLEAN]
    /\ tail \in [Requests -> BOOLEAN]
    /\ seen \in [Requests -> 0 .. MaxFrames]
    /\ locked \in BOOLEAN /\ failures \in 0 .. Threshold - 1
    /\ slots \in [Streams -> SUBSET Requests]
    /\ clients \subseteq Requests
    /\ run \in [does : {"select", "gone"}, with : {Nobody}]
             \cup [does : {"register", "unregister"}, with : Requests]
             \cup [does : {"broadcast"}, with : 1 .. MaxFrames]
    /\ queue \in Seq(1 .. MaxFrames) /\ Len(queue) <= QueueSize
    /\ cast \in 0 .. MaxFrames /\ published \in 0 .. MaxFrames
    /\ stopped \in BOOLEAN /\ crashed \in BOOLEAN
    /\ streamStop \subseteq Streams /\ brokerStop \in BOOLEAN
    /\ server \in {"serving", "failed", "clients", "logs", "drain", "done"}
    /\ newcomers \in 0 .. MaxNew
    /\ main \in 0 .. Running \cup {Exited}

Init ==
    /\ stage = [r \in Requests |-> "none"]
    /\ kind = [r \in Requests |-> "page"]
    /\ out = [r \in Requests |-> <<>>]
    /\ shut = [r \in Requests |-> FALSE]
    /\ seen = [r \in Requests |-> 0]
    /\ tail = [r \in Requests |-> FALSE]
    /\ locked = FALSE /\ failures = 0 /\ late = 0
    /\ slots = [s \in Streams |-> {}]
    /\ clients = {} /\ run = Selecting /\ queue = <<>>
    /\ cast = 0 /\ published = 0 /\ stopped = FALSE /\ crashed = FALSE
    /\ streamStop = {} /\ brokerStop = FALSE /\ server = "serving" /\ newcomers = 0
    /\ main = Running

Goto(r, s) == stage' = [stage EXCEPT ![r] = s]

-----------------------------------------------------------------------------
(* The limiter and the login                                               *)

\* Nothing refers to the channel of the last request in this place.
Free(r) == stage[r] = "none" /\ r \notin clients /\ run.with # r /\ ~tail[r]

\* the place the next request takes: one is as good as another
NextPlace == CHOOSE r \in Requests : Free(r)

\* The connection of a request: while the server is up, or its listener has failed,
\* a new one or one that is kept; later one that was accepted before.
Connects ==
    IF server \in {"drain", "done"} THEN newcomers > 0 /\ newcomers' = newcomers - 1
    ELSE UNCHANGED newcomers

\* What a bug would do here: compare the credentials whatever the window.
Arrive_Ungated(r, k) ==
    /\ Connects
    /\ Free(r) /\ r = NextPlace
    /\ Goto(r, "compare")
    /\ kind' = [kind EXCEPT ![r] = k]
    /\ out' = [out EXCEPT ![r] = <<>>]
    /\ shut' = [shut EXCEPT ![r] = FALSE]
    /\ seen' = [seen EXCEPT ![r] = 0]
    /\ UNCHANGED <<tail, gateVars, slots, brokerVars, streamStop, brokerStop, server, main>>

\* connectionLimiter, then the first lock of RequireAuth, AuthLockout.Allow: a
\* request past the limit or in the window is answered and changes nothing.
Arrive(r, k) ==
    /\ Connects
    /\ Free(r) /\ r = NextPlace
    /\ ~locked
    /\ Goto(r, "compare")
    /\ kind' = [kind EXCEPT ![r] = k]
    /\ out' = [out EXCEPT ![r] = <<>>]
    /\ shut' = [shut EXCEPT ![r] = FALSE]
    /\ seen' = [seen EXCEPT ![r] = 0]
    /\ UNCHANGED <<tail, gateVars, slots, brokerVars, streamStop, brokerStop, server, main>>

\* The handler returned: the limiter's deferred decrement.  What the broker does
\* not refer to is forgotten.
Return(r) ==
    /\ Goto(r, "none")
    /\ kind' = [kind EXCEPT ![r] = "page"]
    /\ IF r \in clients \/ run.with = r
       THEN UNCHANGED <<out, shut, seen>>
       ELSE /\ out' = [out EXCEPT ![r] = <<>>]
            /\ shut' = [shut EXCEPT ![r] = FALSE]
            /\ seen' = [seen EXCEPT ![r] = 0]

\* A request without credentials is refused and not counted.
ComesWithout(r) ==
    /\ stage[r] = "compare"
    /\ Return(r)
    /\ UNCHANGED <<tail, gateVars, slots, brokerVars, stopVars, main>>

\* RecordFailure: the threshold opens the window and clears the count.
CredentialsWrong(r) ==
    /\ stage[r] = "compare"
    /\ Return(r)
    /\ LET closes == failures + 1 >= Threshold
       IN  /\ failures' = IF closes THEN 0 ELSE failures + 1
           /\ locked' = (locked \/ closes)
           /\ late' = IF locked /\ late < Cardinality(Requests) THEN late + 1 ELSE late
    /\ UNCHANGED <<tail, slots, brokerVars, stopVars, main>>

\* RecordSuccess, then the handler.  streamSSE lets nobody in while its stream
\* stops, nor past its slots.
CredentialsRight(r) ==
    LET s == kind[r] IN
    /\ stage[r] = "compare"
    /\ failures' = 0
    /\ \/ /\ s = "page"
          /\ Goto(r, "serve")
          /\ UNCHANGED <<kind, out, shut, seen, slots>>
       \/ /\ s \in streamStop \/ (s \in Streams /\ Cardinality(slots[s]) >= Slots[s])
          /\ Return(r)
          /\ UNCHANGED slots
       \/ /\ s \in Streams \ streamStop /\ Cardinality(slots[s]) < Slots[s]
          /\ Goto(r, "attach")
          /\ slots' = [slots EXCEPT ![s] = @ \cup {r}]
          /\ UNCHANGED <<kind, out, shut, seen>>
    /\ UNCHANGED <<tail, locked, late, brokerVars, stopVars, main>>

\* lockedUntil is in the past.
WindowEnds ==
    /\ locked
    /\ locked' = FALSE
    /\ late' = 0
    /\ UNCHANGED <<requestVars, failures, slots, brokerVars, stopVars, main>>

\* A handler that is no stream answers.
Serve(r) ==
    /\ stage[r] = "serve"
    /\ Return(r)
    /\ UNCHANGED <<tail, gateVars, slots, brokerVars, stopVars, main>>

-----------------------------------------------------------------------------
(* A connection of a stream                                                *)

\* SSEBroker.attach: the loop received the channel; it has not registered it yet.
Attach(r) ==
    /\ stage[r] = "attach" /\ kind[r] = "events"
    /\ run = Selecting
    /\ run' = Working("register", r)
    /\ Goto(r, "hello")
    /\ UNCHANGED <<kind, out, shut, seen, tail, gateVars, slots, clients, queue, cast, published,
                   stopped, crashed, stopVars, main>>

\* attach when the broker stopped: there is nothing to detach.
AttachTooLate(r) ==
    /\ stage[r] = "attach" /\ kind[r] = "events"
    /\ brokerStop
    /\ Goto(r, "release")
    /\ UNCHANGED <<kind, out, shut, seen, tail, gateVars, slots, brokerVars, stopVars, main>>

\* StreamLogs: its attach starts a reader of its own.
AttachLogs(r) ==
    /\ stage[r] = "attach" /\ kind[r] = "logs"
    /\ Goto(r, "hello")
    /\ tail' = [tail EXCEPT ![r] = TRUE]
    /\ UNCHANGED <<kind, out, shut, seen, gateVars, slots, brokerVars, stopVars, main>>

\* The handshake writes into the channel without the broker's lock.  A full
\* channel ends the connection; so does one the broker has closed, by a panic
\* that net/http recovers while the deferred calls run.
Handshake(r) ==
    /\ stage[r] = "hello"
    /\ IF shut[r] \/ Len(out[r]) = Buffer
       THEN Goto(r, "detach") /\ UNCHANGED out
       ELSE Goto(r, "loop") /\ out' = [out EXCEPT ![r] = Append(@, Connected)]
    /\ UNCHANGED <<kind, shut, seen, tail, gateVars, slots, brokerVars, stopVars, main>>

\* streamSSE's loop takes a frame and writes it to the client.
TakeFrame(r) ==
    /\ stage[r] = "loop"
    /\ out[r] # <<>>
    /\ Goto(r, "write")
    /\ out' = [out EXCEPT ![r] = Tail(@)]
    /\ seen' = [seen EXCEPT ![r] = IF Head(out[r]) \in 1 .. MaxFrames THEN Head(out[r]) ELSE @]
    /\ UNCHANGED <<kind, shut, tail, gateVars, slots, brokerVars, stopVars, main>>

\* The client has read it.
Written(r) ==
    /\ stage[r] = "write"
    /\ Goto(r, "loop")
    /\ UNCHANGED <<kind, out, shut, seen, tail, gateVars, slots, brokerVars, stopVars, main>>

\* The ways out of the loop: the stream stops, the broker closed the channel and
\* it is empty.
LeaveLoop(r) ==
    /\ stage[r] = "loop"
    /\ kind[r] \in streamStop \/ (shut[r] /\ out[r] = <<>>)
    /\ Goto(r, "detach")
    /\ UNCHANGED <<kind, out, shut, seen, tail, gateVars, slots, brokerVars, stopVars, main>>

\* The client goes away, its write fails or times out, the server closes it.
LoseClient(r) ==
    /\ stage[r] \in {"loop", "write"}
    /\ Goto(r, "detach")
    /\ UNCHANGED <<kind, out, shut, seen, tail, gateVars, slots, brokerVars, stopVars, main>>

\* SSEBroker.detach, the deferred call.
Detach(r) ==
    /\ stage[r] = "detach" /\ kind[r] = "events"
    /\ Goto(r, "release")
    /\ \/ run = Selecting /\ run' = Working("unregister", r)
       \/ brokerStop /\ UNCHANGED run
    /\ UNCHANGED <<kind, out, shut, seen, tail, gateVars, slots, clients, queue, cast, published,
                   stopped, crashed, stopVars, main>>

\* The log stream's detach closes "done"; its reader ends at its next look.
DetachLogs(r) ==
    /\ stage[r] = "detach" /\ kind[r] = "logs"
    /\ Goto(r, "release")
    /\ UNCHANGED <<kind, out, shut, seen, tail, gateVars, slots, brokerVars, stopVars, main>>

\* The release function Acquire returned, and the end of the handler.
Release(r) ==
    /\ stage[r] = "release"
    /\ slots' = [slots EXCEPT ![kind[r]] = @ \ {r}]
    /\ Return(r)
    /\ UNCHANGED <<tail, gateVars, brokerVars, stopVars, main>>

\* tailLogs at its first tick: the lines written since the file was opened, until
\* the channel is full.  A bufio.Scanner that has met the end of its file gives
\* nothing more: every later tick is empty.
TailReads(r, lines) ==
    /\ tail[r] /\ stage[r] \notin {"release", "none"}
    /\ tail' = [tail EXCEPT ![r] = FALSE]
    /\ LET room == Buffer - Len(out[r])
           written == IF lines <= room THEN lines ELSE room
       IN  out' = [out EXCEPT ![r] = @ \o [i \in 1 .. written |-> LogLine]]
    /\ UNCHANGED <<stage, kind, shut, seen, gateVars, slots, brokerVars, stopVars, main>>

TailEnds(r) ==
    /\ tail[r] /\ stage[r] \in {"release", "none"}
    /\ tail' = [tail EXCEPT ![r] = FALSE]
    /\ UNCHANGED <<stage, kind, out, shut, seen, gateVars, slots, brokerVars, stopVars, main>>

-----------------------------------------------------------------------------
(* The fan-out loop of the event stream                                    *)

\* who has a frame to publish: the event pump and the executor while they are up,
\* and a handler that changed something
DaemonPublishes == Up("kernel-event-pump") \/ Up("ingest")
HandlerPublishes == \E r \in Requests : stage[r] = "serve"

\* Publish: a full queue drops the frame, which changes nothing.
Publish ==
    /\ published < MaxFrames
    /\ DaemonPublishes \/ HandlerPublishes
    /\ Len(queue) < QueueSize
    /\ published' = published + 1
    /\ queue' = Append(queue, published + 1)
    /\ UNCHANGED <<requestVars, gateVars, slots, clients, run, cast, stopped, crashed, stopVars,
                   main>>

\* close(ch) for the channels of S; a second close of one ends the process
Close(S) ==
    /\ shut' = [r \in Requests |-> shut[r] \/ r \in S]
    /\ crashed' = (crashed \/ \E r \in S : shut[r])

\* run, the select: Attach and Detach are its rendezvous with a connection.
TakeBroadcast ==
    /\ run = Selecting /\ queue # <<>>
    /\ run' = Working("broadcast", Head(queue))
    /\ queue' = Tail(queue)
    /\ UNCHANGED <<requestVars, gateVars, slots, clients, cast, published, stopped, crashed,
                   stopVars, main>>

RunStops ==
    /\ run = Selecting /\ brokerStop
    /\ run' = Gone
    /\ UNCHANGED <<requestVars, gateVars, slots, clients, queue, cast, published, stopped, crashed,
                   stopVars, main>>

\* A connection that attached while Stop ran is closed and not registered.
Register ==
    /\ run.does = "register"
    /\ IF stopped
       THEN Close({run.with}) /\ run' = Gone /\ UNCHANGED <<clients, seen>>
       ELSE /\ clients' = clients \cup {run.with}
            /\ seen' = [seen EXCEPT ![run.with] = cast]
            /\ run' = Selecting
            /\ UNCHANGED <<shut, crashed>>
    /\ UNCHANGED <<stage, kind, out, tail, gateVars, slots, queue, cast, published, stopped,
                   stopVars, main>>

\* What a bug would do here: close without asking whether the client is registered.
Unregister_Unchecked ==
    /\ run.does = "unregister"
    /\ IF stopped
       THEN run' = Gone /\ UNCHANGED <<clients, shut, crashed>>
       ELSE /\ Close({run.with})
            /\ clients' = clients \ {run.with}
            /\ run' = Selecting
    /\ UNCHANGED <<stage, kind, out, seen, tail, gateVars, slots, queue, cast, published, stopped,
                   stopVars, main>>

\* Stop has closed the channels of a stopped broker.
Unregister ==
    /\ run.does = "unregister"
    /\ IF stopped
       THEN run' = Gone /\ UNCHANGED <<clients, shut, crashed>>
       ELSE /\ Close({run.with} \cap clients)
            /\ clients' = clients \ {run.with}
            /\ run' = Selecting
    /\ UNCHANGED <<stage, kind, out, seen, tail, gateVars, slots, queue, cast, published, stopped,
                   stopVars, main>>

\* What a bug would do here: pass over a client whose channel is full.
Broadcast_Skips ==
    /\ run.does = "broadcast"
    /\ IF stopped
       THEN run' = Gone /\ UNCHANGED <<clients, shut, crashed, out, cast>>
       ELSE /\ out' = [r \in Requests |-> IF r \in clients /\ Len(out[r]) < Buffer
                                          THEN Append(out[r], run.with) ELSE out[r]]
            /\ cast' = run.with
            /\ run' = Selecting
            /\ UNCHANGED <<clients, shut, crashed>>
    /\ UNCHANGED <<stage, kind, seen, tail, gateVars, slots, queue, published, stopped, stopVars,
                   main>>

\* The frame goes to every client that has room; the others are dropped.
Broadcast ==
    /\ run.does = "broadcast"
    /\ IF stopped
       THEN run' = Gone /\ UNCHANGED <<clients, shut, crashed, out, cast>>
       ELSE LET slow == {r \in clients : Len(out[r]) = Buffer} IN
            /\ out' = [r \in Requests |-> IF r \in clients \ slow
                                          THEN Append(out[r], run.with) ELSE out[r]]
            /\ Close(slow)
            /\ clients' = clients \ slow
            /\ cast' = run.with
            /\ run' = Selecting
    /\ UNCHANGED <<stage, kind, seen, tail, gateVars, slots, queue, published, stopped, stopVars,
                   main>>

-----------------------------------------------------------------------------
(* Going down                                                              *)

\* SIGTERM or SIGINT reaches main.
Terminate ==
    /\ main = Running
    /\ main' = Len(Executors)
    /\ UNCHANGED <<requestVars, gateVars, slots, brokerVars, stopVars>>

\* Supervisor.Shutdown: the token of the executor is set and main waits for it.
\* The HTTP server waits for others and is modelled below; each of the others ends
\* by itself.
Join ==
    /\ main \in 1 .. Len(Executors)
    /\ Executors[main] = "http-server" => server \in {"failed", "done"}
    /\ main' = main - 1
    /\ UNCHANGED <<requestVars, gateVars, slots, brokerVars, stopVars>>

\* joinWithTimeout gives the HTTP server up.
JoinTimesOut ==
    /\ main \in 1 .. Len(Executors)
    /\ Executors[main] = "http-server" /\ server \notin {"failed", "done"}
    /\ main' = main - 1
    /\ UNCHANGED <<requestVars, gateVars, slots, brokerVars, stopVars>>

\* SSEBroker.Stop: its lock section closes every registered client.
StopClients ==
    /\ stopped' = TRUE
    /\ Close(clients)
    /\ clients' = {}

\* The http-server executor: its token is set; it closes the stopCh of the event
\* stream and that of the broker.
StopStream ==
    /\ server = "serving" /\ Asked("http-server")
    /\ streamStop' = streamStop \cup {"events"}
    /\ brokerStop' = TRUE
    /\ server' = "clients"
    /\ UNCHANGED <<requestVars, gateVars, slots, brokerVars, newcomers, main>>

\* The listener fails and the executor ends: the streams, and the connections that
\* are open, are left to main's deferred calls and the end of the process.
ListenerFails ==
    /\ server = "serving"
    /\ server' = "failed"
    /\ UNCHANGED <<requestVars, gateVars, slots, brokerVars, streamStop, brokerStop, newcomers,
                   main>>

StopFanOut ==
    /\ server = "clients"
    /\ StopClients
    /\ server' = "logs"
    /\ UNCHANGED <<stage, kind, out, seen, tail, gateVars, slots, run, queue, cast, published,
                   streamStop, brokerStop, newcomers, main>>

\* What a bug would do here: go on to the server without stopping the log stream.
StopLogs_Forgotten ==
    /\ server = "logs"
    /\ server' = "drain"
    /\ newcomers' \in 0 .. MaxNew
    /\ UNCHANGED <<requestVars, gateVars, slots, brokerVars, streamStop, brokerStop,
                   main>>

\* logStream.Stop; then http.Server.Shutdown closes the listener and waits for the
\* connections that have not said anything yet, as for the active ones.
StopLogs ==
    /\ server = "logs"
    /\ streamStop' = streamStop \cup {"logs"}
    /\ server' = "drain"
    /\ newcomers' \in 0 .. MaxNew
    /\ UNCHANGED <<requestVars, gateVars, slots, brokerVars, brokerStop, main>>

\* One of them goes away, is past its five seconds, or is answered by the limiter or
\* the gate.
NewcomerLeaves ==
    /\ newcomers > 0
    /\ newcomers' = newcomers - 1
    /\ UNCHANGED <<requestVars, gateVars, slots, brokerVars, streamStop, brokerStop, server, main>>

\* Shutdown returns once no request is active.
Drained ==
    /\ server = "drain" /\ newcomers = 0
    /\ \A r \in Requests : stage[r] = "none"
    /\ server' = "done"
    /\ UNCHANGED <<requestVars, gateVars, slots, brokerVars, streamStop, brokerStop, newcomers,
                   main>>

\* Its time is up: Close cuts the connections and does not wait for the handlers.
CutConnections ==
    /\ server = "drain"
    /\ newcomers > 0 \/ \E r \in Requests : stage[r] # "none"
    /\ server' = "done"
    /\ UNCHANGED <<requestVars, gateVars, slots, brokerVars, streamStop, brokerStop, newcomers,
                   main>>

\* main's deferred calls: SSEBroker.Stop once more, then the process is over.
Exit ==
    /\ main = 0
    /\ StopClients
    /\ streamStop' = streamStop \cup {"events"}
    /\ brokerStop' = TRUE
    /\ main' = Exited
    /\ UNCHANGED <<stage, kind, out, seen, tail, gateVars, slots, run, queue, cast, published,
                   server, newcomers>>

-----------------------------------------------------------------------------

Request(r) ==
    \/ ComesWithout(r) \/ CredentialsWrong(r) \/ CredentialsRight(r) \/ Serve(r)
    \/ Attach(r) \/ AttachTooLate(r) \/ AttachLogs(r) \/ Handshake(r)
    \/ TakeFrame(r) \/ Written(r) \/ LeaveLoop(r)
    \/ Detach(r) \/ DetachLogs(r) \/ Release(r) \/ TailEnds(r)

Broker == TakeBroadcast \/ RunStops \/ Register \/ Unregister \/ Broadcast

GoingDown ==
    \/ StopStream \/ StopFanOut \/ StopLogs \/ NewcomerLeaves \/ Drained
    \/ Join \/ Exit

Environment ==
    \/ \E r \in Requests : \/ \E k \in Kinds : Arrive(r, k)
                           \/ LoseClient(r)
                           \/ \E lines \in 0 .. Buffer + 1 : TailReads(r, lines)
    \/ WindowEnds \/ Publish \/ Terminate \/ ListenerFails \/ JoinTimesOut \/ CutConnections

Next ==
    /\ main # Exited
    /\ (\E r \in Requests : Request(r)) \/ Broker \/ GoingDown \/ Environment

Spec == Init /\ [][Next]_vars

(* The Go scheduler runs a goroutine that can run: the requests and the fan-out    *)
(* loop together make progress, and so do the goroutines that take the process     *)
(* down.  A client reads what is written to it, one that has only connected says   *)
(* something or is given up, and a handler that is no stream comes to its end;     *)
(* arrivals, losses, signals and timeouts are owed to nobody.                      *)
Alive == main # Exited
FairSpec ==
    /\ Spec
    /\ WF_vars(Alive /\ ((\E r \in Requests : Request(r)) \/ Broker))
    /\ WF_vars(Alive /\ GoingDown)

-----------------------------------------------------------------------------
(* Properties                                                              *)

\* A client in the fan-out table is owed, in order and without a gap, every frame
\* cast since it was registered: it has them, or they wait in its channel.  A
\* client that cannot keep up is dropped and not left with a hole
\* (SSEBroker.run, Stop; the frame replaces a table in the panel).
EveryFrame ==
    \A r \in clients :
        LET frame == {i \in 1 .. Len(out[r]) : out[r][i] \in 1 .. MaxFrames} IN
        /\ {out[r][i] : i \in frame} = seen[r] + 1 .. cast
        /\ \A i, j \in frame : i < j => out[r][i] < out[r][j]

\* Neither the fan-out loop nor Stop, which nothing recovers, closes a channel
\* twice or sends into a closed one, whatever a connection that attaches, falls
\* behind, detaches or is stopped twice does meanwhile (sse.go, Stop and run).
BrokerSurvives ==
    /\ ~crashed
    /\ \A r \in clients : ~shut[r]

\* Once the gate is closed, no more wrong credentials are compared until the window
\* ends than there were other requests past the gate when it closed: the limiter
\* bounds what Allow, which is not in one section with RecordFailure, lets slip.
LateGuesses == late < Cardinality(Requests)

\* A process told to stop exits without any timeout having to cut it short: when the
\* streams are stopped before the server, idle connections do not hold Shutdown up
\* (main.go, the http-server executor; Supervisor.Shutdown).
ShutdownConverges == (main = Len(Executors)) ~> (main = Exited)

=============================================================================
