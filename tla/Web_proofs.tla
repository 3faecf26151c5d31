----------------------------- MODULE Web_proofs -----------------------------
(***************************************************************************)
(* For any number of requests, slots and frames, and any sizes of the      *)
(* queues: a client of the event stream misses no frame, the broker never  *)
(* touches a channel it has closed, and a closed gate lets few guesses     *)
(* through.                                                                *)
(*                                                                         *)
(* A connection that is not registered yet has an open channel without a   *)
(* frame in it (NewOK); the frames in the queue are the next numbers       *)
(* (QueueOK); a client's channel holds the frames it is owed, in order     *)
(* (OwedOK).  While the gate is closed nobody comes to the comparison, so  *)
(* each late guess uses up one of those who were there (GateOK).           *)
(*                                                                         *)
(* The second half is about the configuration that this side shows and     *)
(* writes (Settings), for any texts, jails and number of requests:         *)
(* SettingsInv says, for every difference between the file, the Config and *)
(* the kernel, what is still under way that will end it, or which          *)
(* exception the history names.                                            *)
(***************************************************************************)
EXTENDS Web, Settings, FiniteSetTheorems, SequenceTheorems, TLAPS

Registering(r) == run.does = "register" /\ run.with = r

NoFrame(q) == \A i \in 1 .. Len(q) : q[i] \notin 1 .. MaxFrames

(* A connection that the fan-out loop does not know yet.                   *)
NewOK ==
    \A r \in Requests :
        /\ stage[r] \in {"compare", "attach"} => ~Registering(r)
        /\ stage[r] \in {"compare", "attach"} \/ Registering(r) =>
              ~shut[r] /\ r \notin clients /\ NoFrame(out[r])

(* As long as the fan-out loop runs, what waits in the queue are the       *)
(* numbers behind those that have been cast.                               *)
QueueOK ==
    run.does # "gone" =>
        /\ published = cast + Len(queue) + (IF run.does = "broadcast" THEN 1 ELSE 0)
        /\ \A i \in 1 .. Len(queue) : queue[i] = published - Len(queue) + i
        /\ run.does = "broadcast" => run.with = cast + 1

(* The frames in q are lo + 1 .. hi, in this order; other elements may be  *)
(* between them.                                                           *)
Frame(q) == {i \in 1 .. Len(q) : q[i] \in 1 .. MaxFrames}
InOrder(q, lo, hi) ==
    /\ \A i \in Frame(q) : q[i] \in lo + 1 .. hi
    /\ \A f \in lo + 1 .. hi : \E i \in Frame(q) : q[i] = f
    /\ \A i, j \in Frame(q) : i < j => q[i] < q[j]

OwedOK == \A r \in clients : seen[r] <= cast /\ InOrder(out[r], seen[r], cast)

Comparing == {r \in Requests : stage[r] = "compare"}

GateOK ==
    /\ late \in Nat
    /\ locked => late + Cardinality(Comparing) < Cardinality(Requests)
    /\ ~locked => late = 0

IInv == TypeOK /\ BrokerSurvives /\ NewOK /\ QueueOK /\ OwedOK /\ GateOK

-----------------------------------------------------------------------------
LEMMA Numbers ==
    /\ Threshold \in Nat \ {0} /\ Buffer \in Nat \ {0} /\ QueueSize \in Nat \ {0}
    /\ MaxFrames \in Nat /\ MaxNew \in Nat /\ LogLine \in Nat /\ LogLine = MaxFrames + 1 /\ Connected = 0
    BY WebAssumption DEF LogLine, Connected

LEMMA TailOf ==
    ASSUME NEW S, NEW q \in Seq(S), q # <<>>
    PROVE  /\ Len(q) \in Nat /\ Len(q) > 0 /\ Head(q) = q[1] /\ Head(q) \in S
           /\ Tail(q) \in Seq(S) /\ Len(Tail(q)) = Len(q) - 1
           /\ \A i \in 1 .. Len(Tail(q)) : Tail(q)[i] = q[i + 1]
    OBVIOUS

(* Channels                                                                *)

(* What is no frame, at the end of a channel, changes nothing.             *)
LEMMA AppendOther ==
    ASSUME NEW q \in Seq(Nat), NEW x \in Nat, x \notin 1 .. MaxFrames, NEW lo, NEW hi
    PROVE  /\ InOrder(q, lo, hi) => InOrder(Append(q, x), lo, hi)
           /\ NoFrame(q) => NoFrame(Append(q, x))
<1>1. Len(Append(q, x)) = Len(q) + 1 /\ Len(q) \in Nat
    OBVIOUS
<1>2. \A i \in 1 .. Len(q) : Append(q, x)[i] = q[i]
    OBVIOUS
<1>3. Append(q, x)[Len(q) + 1] = x
    OBVIOUS
<1>4. Frame(Append(q, x)) = Frame(q)
    BY <1>1, <1>2, <1>3 DEF Frame
<1>5. \A i \in Frame(q) : i \in 1 .. Len(q) /\ Append(q, x)[i] = q[i]
    BY <1>2 DEF Frame
<1>6. InOrder(q, lo, hi) => InOrder(Append(q, x), lo, hi)
    BY <1>4, <1>5 DEF InOrder
<1>7. NoFrame(q) => NoFrame(Append(q, x))
    BY <1>1, <1>2, <1>3 DEF NoFrame
<1> QED
    BY <1>6, <1>7

(* The next frame, at the end of a channel.                                *)
LEMMA AppendFrame ==
    ASSUME NEW q \in Seq(Nat), NEW lo \in Nat, NEW hi \in Nat, lo <= hi,
           hi + 1 \in 1 .. MaxFrames, InOrder(q, lo, hi)
    PROVE  InOrder(Append(q, hi + 1), lo, hi + 1)
<1> DEFINE p == Append(q, hi + 1)
<1>1. Len(p) = Len(q) + 1 /\ Len(q) \in Nat
    OBVIOUS
<1>2. \A i \in 1 .. Len(q) : p[i] = q[i] /\ q[i] \in Nat
    OBVIOUS
<1>3. p[Len(q) + 1] = hi + 1
    OBVIOUS
<1> HIDE DEF p
<1>4. Frame(p) = Frame(q) \cup {Len(q) + 1}
    BY <1>1, <1>2, <1>3 DEF Frame
<1>5. \A i \in Frame(q) : i \in 1 .. Len(q) /\ p[i] = q[i]
    BY <1>2 DEF Frame
<1>6. \A i \in Frame(q) : i < Len(q) + 1 /\ i \in Nat /\ q[i] \in lo + 1 .. hi
    BY <1>1, <1>5 DEF InOrder
<1>7. \A i \in Frame(p) : p[i] \in lo + 1 .. hi + 1
    BY <1>3, <1>4, <1>5, <1>6
<1>8. ASSUME NEW f \in lo + 1 .. hi + 1 PROVE \E i \in Frame(p) : p[i] = f
    <2>1. CASE f = hi + 1
        BY <2>1, <1>3, <1>4
    <2>2. CASE f # hi + 1
        <3>1. f \in lo + 1 .. hi
            BY <2>2
        <3> QED
            BY <3>1, <1>4, <1>5 DEF InOrder
    <2> QED
        BY <2>1, <2>2
<1>9. ASSUME NEW i \in Frame(p), NEW j \in Frame(p), i < j PROVE p[i] < p[j]
    <2>1. CASE j \in Frame(q)
        <3>1. i \in Frame(q)
            BY <2>1, <1>1, <1>4, <1>6, <1>9
        <3> QED
            BY <3>1, <2>1, <1>5, <1>9 DEF InOrder
    <2>2. CASE j = Len(q) + 1
        <3>1. i \in Frame(q)
            BY <2>2, <1>1, <1>4, <1>9
        <3> QED
            BY <3>1, <2>2, <1>3, <1>5, <1>6
    <2> QED
        BY <2>1, <2>2, <1>4
<1> QED
    BY <1>7, <1>8, <1>9 DEF InOrder, p

(* What is taken from a channel is no frame, or the next one.              *)
LEMMA TakeHead ==
    ASSUME NEW q \in Seq(Nat), q # <<>>, NEW lo \in Nat, NEW hi \in Nat, InOrder(q, lo, hi)
    PROVE  /\ Head(q) \notin 1 .. MaxFrames => InOrder(Tail(q), lo, hi)
           /\ Head(q) \in 1 .. MaxFrames =>
                 Head(q) = lo + 1 /\ lo + 1 <= hi /\ InOrder(Tail(q), lo + 1, hi)
<1> DEFINE p == Tail(q)
<1>1. Len(q) \in Nat /\ Len(q) > 0 /\ Len(p) = Len(q) - 1 /\ Head(q) = q[1]
    OBVIOUS
<1>2. \A i \in 1 .. Len(p) : p[i] = q[i + 1] /\ i + 1 \in 1 .. Len(q)
    BY <1>1
<1>3. \A i \in 1 .. Len(q) : q[i] \in Nat
    OBVIOUS
<1> HIDE DEF p
<1>4. \A i \in Frame(p) : i \in 1 .. Len(p) /\ i + 1 \in Frame(q) /\ p[i] = q[i + 1]
    BY <1>2 DEF Frame
<1>5. \A i \in Frame(q) : i \in 1 .. Len(q) /\ (i # 1 => i - 1 \in Frame(p) /\ p[i - 1] = q[i])
    <2> SUFFICES ASSUME NEW i \in Frame(q), i # 1
                 PROVE  i - 1 \in Frame(p) /\ p[i - 1] = q[i]
        BY DEF Frame
    <2>1. i \in 1 .. Len(q) /\ i - 1 \in 1 .. Len(p) /\ (i - 1) + 1 = i
        BY <1>1 DEF Frame
    <2>2. p[i - 1] = q[i]
        BY <2>1, <1>2
    <2> QED
        BY <2>1, <2>2 DEF Frame
<1>6. \A i, j \in Frame(p) : i < j => p[i] < p[j]
    <2> SUFFICES ASSUME NEW i \in Frame(p), NEW j \in Frame(p), i < j PROVE p[i] < p[j]
        OBVIOUS
    <2>1. i + 1 \in Frame(q) /\ j + 1 \in Frame(q) /\ i + 1 < j + 1
        BY <1>1, <1>4
    <2> QED
        BY <2>1, <1>4 DEF InOrder
<1>7. CASE q[1] \notin 1 .. MaxFrames
    <2>1. 1 \notin Frame(q)
        BY <1>7 DEF Frame
    <2>2. \A i \in Frame(p) : p[i] \in lo + 1 .. hi
        BY <1>4 DEF InOrder
    <2>3. \A f \in lo + 1 .. hi : \E i \in Frame(p) : p[i] = f
        BY <2>1, <1>5 DEF InOrder
    <2> QED
        BY <2>2, <2>3, <1>6, <1>7, <1>1 DEF InOrder, p
<1>8. CASE q[1] \in 1 .. MaxFrames
    <2>1. 1 \in Frame(q) /\ q[1] \in lo + 1 .. hi
        BY <1>1, <1>8 DEF Frame, InOrder
    <2>2. PICK k \in Frame(q) : q[k] = lo + 1
        BY <2>1 DEF InOrder
    <2>3. q[1] = lo + 1
        <3>1. k # 1 => q[1] < q[k]
            <4> SUFFICES ASSUME k # 1 PROVE q[1] < q[k]
                OBVIOUS
            <4>1. 1 < k
                BY <1>5
            <4> QED
                BY <4>1, <2>1 DEF InOrder
        <3> QED
            BY <3>1, <2>1, <2>2
    <2>4. \A i \in Frame(p) : p[i] \in (lo + 1) + 1 .. hi
        <3> SUFFICES ASSUME NEW i \in Frame(p) PROVE p[i] \in (lo + 1) + 1 .. hi
            OBVIOUS
        <3>1. i + 1 \in Frame(q) /\ 1 < i + 1
            BY <1>1, <1>4
        <3>2. q[1] < q[i + 1] /\ q[i + 1] \in lo + 1 .. hi
            BY <3>1, <2>1 DEF InOrder
        <3> QED
            BY <3>2, <2>3, <1>4
    <2>5. ASSUME NEW f \in (lo + 1) + 1 .. hi PROVE \E i \in Frame(p) : p[i] = f
        <3>1. f \in lo + 1 .. hi /\ f # lo + 1
            OBVIOUS
        <3>2. PICK i \in Frame(q) : q[i] = f
            BY <3>1 DEF InOrder
        <3>3. i # 1
            BY <3>1, <3>2, <2>3
        <3> QED
            BY <3>2, <3>3, <1>5
    <2> QED
        <3>1. Head(q) = lo + 1 /\ lo + 1 <= hi
            BY <2>1, <2>3, <1>1
        <3>2. InOrder(p, lo + 1, hi)
            BY <2>4, <2>5, <1>6 DEF InOrder
        <3> QED
            BY <3>1, <3>2, <1>1, <1>8 DEF p
<1> QED
    BY <1>1, <1>7, <1>8

(* Log lines are no frames.                                                *)
LEMMA ConcatLines ==
    ASSUME NEW q \in Seq(Nat), NEW n \in Nat, NEW lo, NEW hi
    PROVE  LET p == q \o [i \in 1 .. n |-> LogLine] IN
           /\ InOrder(q, lo, hi) => InOrder(p, lo, hi)
           /\ NoFrame(q) => NoFrame(p)
<1> DEFINE e == [i \in 1 .. n |-> LogLine]
           p == q \o e
<1>0. LogLine \in Nat /\ LogLine \notin 1 .. MaxFrames
    BY WebAssumption DEF LogLine
<1>1. e \in Seq(Nat) /\ Len(e) = n /\ \A i \in 1 .. n : e[i] = LogLine
    BY <1>0
<1> HIDE DEF e
<1>2. Len(p) = Len(q) + n /\ Len(q) \in Nat
    BY <1>1
<1>3. \A i \in 1 .. Len(q) : p[i] = q[i]
    BY <1>1
<1>4. \A i \in 1 .. Len(p) : i \notin 1 .. Len(q) => p[i] = LogLine
    <2> SUFFICES ASSUME NEW i \in 1 .. Len(p), i \notin 1 .. Len(q) PROVE p[i] = LogLine
        OBVIOUS
    <2>1. i > Len(q) /\ i - Len(q) \in 1 .. n
        BY <1>2
    <2>2. p[i] = e[i - Len(q)]
        BY <2>1, <1>1, <1>2
    <2> QED
        BY <2>1, <2>2, <1>1
<1> HIDE DEF p
<1>5. Frame(p) = Frame(q)
    <2>1. 1 .. Len(q) \subseteq 1 .. Len(p)
        BY <1>2
    <2> QED
        BY <2>1, <1>0, <1>3, <1>4 DEF Frame
<1>6. \A i \in Frame(q) : p[i] = q[i]
    BY <1>3 DEF Frame
<1>7. InOrder(q, lo, hi) => InOrder(p, lo, hi)
    BY <1>5, <1>6 DEF InOrder
<1>8. NoFrame(q) => NoFrame(p)
    BY <1>0, <1>3, <1>4 DEF NoFrame
<1> QED
    BY <1>7, <1>8 DEF p, e

(* The property of the run says the same.                                  *)
LEMMA OwedIsEveryFrame == TypeOK /\ OwedOK => EveryFrame
<1> SUFFICES ASSUME TypeOK, OwedOK, NEW r \in clients
             PROVE  /\ {out[r][i] : i \in Frame(out[r])} = seen[r] + 1 .. cast
                    /\ \A i, j \in Frame(out[r]) : i < j => out[r][i] < out[r][j]
    BY DEF EveryFrame, Frame
<1>1. InOrder(out[r], seen[r], cast)
    BY DEF OwedOK
<1> QED
    BY <1>1 DEF InOrder

-----------------------------------------------------------------------------
(* Types                                                                   *)

\* The types of what a request is made of.
RequestsTyped ==
    /\ stage \in [Requests -> {"none", "compare", "serve", "attach", "hello", "loop",
                              "write", "detach", "release"}]
    /\ kind \in [Requests -> Kinds]
    /\ out \in [Requests -> Seq(0 .. LogLine)]
    /\ \A r \in Requests : Len(out[r]) <= Buffer
    /\ shut \in [Requests -> BOOLEAN]
    /\ tail \in [Requests -> BOOLEAN]
    /\ seen \in [Requests -> 0 .. MaxFrames]

LEMMA ReturnTyped ==
    ASSUME TypeOK, NEW r \in Requests, Return(r), tail' = tail
    PROVE  RequestsTyped'
<1>1. stage' \in [Requests -> {"none", "compare", "serve", "attach", "hello", "loop",
                              "write", "detach", "release"}]
    BY DEF Return, Goto, TypeOK
<1>2. kind' \in [Requests -> Kinds]
    BY DEF Return, TypeOK, Kinds
<1>3. out' \in [Requests -> Seq(0 .. LogLine)] /\ \A x \in Requests : Len(out'[x]) <= Buffer
    <2>1. <<>> \in Seq(0 .. LogLine) /\ Len(<<>>) <= Buffer
        BY WebAssumption
    <2> QED
        BY <2>1 DEF Return, TypeOK
<1>4. shut' \in [Requests -> BOOLEAN] /\ seen' \in [Requests -> 0 .. MaxFrames]
    <2>1. CASE UNCHANGED <<shut, seen>>
        BY <2>1 DEF TypeOK
    <2>2. CASE shut' = [shut EXCEPT ![r] = FALSE] /\ seen' = [seen EXCEPT ![r] = 0]
        <3>1. 0 \in 0 .. MaxFrames
            BY Numbers
        <3> QED
            BY <2>2, <3>1 DEF TypeOK
    <2> QED
        BY <2>1, <2>2 DEF Return
<1> QED
    BY <1>1, <1>2, <1>3, <1>4 DEF RequestsTyped, TypeOK

LEMMA InitTyped == Init => TypeOK
<1> SUFFICES ASSUME Init PROVE TypeOK
    OBVIOUS
<1>1. <<>> \in Seq(0 .. LogLine) /\ <<>> \in Seq(1 .. MaxFrames) /\ Len(<<>>) = 0
    OBVIOUS
<1>2. stage \in [Requests -> {"none", "compare", "serve", "attach", "hello", "loop",
                              "write", "detach", "release"}]
      /\ kind \in [Requests -> Kinds] /\ shut \in [Requests -> BOOLEAN]
      /\ tail \in [Requests -> BOOLEAN] /\ seen \in [Requests -> 0 .. MaxFrames]
    BY Numbers DEF Init, Kinds
<1>3. out \in [Requests -> Seq(0 .. LogLine)] /\ \A r \in Requests : Len(out[r]) <= Buffer
    BY <1>1, Numbers DEF Init
<1>4. run \in [does : {"select", "gone"}, with : {Nobody}]
    BY DEF Init, Selecting
<1>5. queue \in Seq(1 .. MaxFrames) /\ Len(queue) <= QueueSize
    BY <1>1, Numbers DEF Init
<1>6. main \in 0 .. Running
    BY DEF Init, Running, Executors
<1>7. failures \in 0 .. Threshold - 1 /\ cast \in 0 .. MaxFrames /\ published \in 0 .. MaxFrames
    BY Numbers DEF Init
<1>8. slots \in [Streams -> SUBSET Requests] /\ newcomers \in 0 .. MaxNew
    BY Numbers DEF Init
<1> QED
    BY <1>2, <1>3, <1>4, <1>5, <1>6, <1>7, <1>8 DEF Init, TypeOK

LEMMA RequestTyped ==
    ASSUME TypeOK, NEW r \in Requests, Request(r) \/ \E k \in Kinds : Arrive(r, k)
    PROVE  TypeOK'
<1>1. ASSUME NEW k \in Kinds, Arrive(r, k) PROVE TypeOK'
    <2>1. <<>> \in Seq(0 .. LogLine) /\ Len(<<>>) <= Buffer
        BY WebAssumption
    <2>2. newcomers' \in 0 .. MaxNew
        BY <1>1, Numbers DEF Arrive, Connects, TypeOK
    <2> QED
        BY <1>1, <2>1, <2>2, WebAssumption DEF Arrive, Goto, TypeOK, gateVars, brokerVars
<1>2. CASE ComesWithout(r)
    BY <1>2, ReturnTyped
    DEF ComesWithout, TypeOK, RequestsTyped, gateVars, brokerVars, stopVars
<1>3. CASE CredentialsWrong(r)
    <2>1. RequestsTyped'
        BY <1>3, ReturnTyped DEF CredentialsWrong
    <2>2. locked' \in BOOLEAN /\ failures' \in 0 .. Threshold - 1
        BY <1>3, WebAssumption DEF CredentialsWrong, TypeOK
    <2> QED
        BY <1>3, <2>1, <2>2 DEF CredentialsWrong, TypeOK, RequestsTyped, brokerVars, stopVars
<1>4. CASE CredentialsRight(r)
    <2>1. RequestsTyped'
        <3>1. CASE Return(r)
            BY <3>1, <1>4, ReturnTyped DEF CredentialsRight
        <3>2. CASE UNCHANGED <<kind, out, shut, seen>> /\ (Goto(r, "serve") \/ Goto(r, "attach"))
            <4>1. stage' = [stage EXCEPT ![r] = "serve"] \/ stage' = [stage EXCEPT ![r] = "attach"]
                BY <3>2 DEF Goto
            <4>2. tail' = tail
                BY <1>4 DEF CredentialsRight
            <4> QED
                BY <3>2, <4>1, <4>2 DEF TypeOK, RequestsTyped
        <3> QED
            BY <3>1, <3>2, <1>4 DEF CredentialsRight
    <2>2. slots' \in [Streams -> SUBSET Requests] /\ failures' \in 0 .. Threshold - 1
        <3>1. slots' = slots \/ \E s \in Streams : slots' = [slots EXCEPT ![s] = slots[s] \cup {r}]
            BY <1>4 DEF CredentialsRight
        <3>2. slots \in [Streams -> SUBSET Requests]
            BY DEF TypeOK
        <3>3. slots' \in [Streams -> SUBSET Requests]
            BY <3>1, <3>2
        <3>4. failures' = 0
            BY <1>4 DEF CredentialsRight
        <3> QED
            BY <3>3, <3>4, WebAssumption
    <2>3. UNCHANGED <<locked, late, brokerVars, stopVars, main>>
        BY <1>4 DEF CredentialsRight
    <2> QED
        BY <2>1, <2>2, <2>3 DEF TypeOK, RequestsTyped, brokerVars, stopVars
<1>5. CASE Serve(r)
    BY <1>5, ReturnTyped DEF Serve, TypeOK, RequestsTyped, gateVars, brokerVars, stopVars
<1>6. CASE Release(r)
    <2>1. RequestsTyped'
        BY <1>6, ReturnTyped DEF Release
    <2>2. slots' \in [Streams -> SUBSET Requests]
        BY <1>6 DEF Release, TypeOK
    <2> QED
        BY <1>6, <2>1, <2>2 DEF Release, TypeOK, RequestsTyped, gateVars, brokerVars, stopVars
<1>7. CASE Attach(r)
    BY <1>7 DEF Attach, Goto, Working, TypeOK, gateVars, stopVars
<1>8. CASE AttachTooLate(r) \/ Written(r) \/ LeaveLoop(r) \/ DetachLogs(r)
    BY <1>8
    DEF AttachTooLate, Written, LeaveLoop, DetachLogs, Goto, TypeOK, gateVars, brokerVars, stopVars
<1>9. CASE AttachLogs(r) \/ TailEnds(r)
    BY <1>9 DEF AttachLogs, TailEnds, Goto, TypeOK, gateVars, brokerVars, stopVars
<1>10. CASE Handshake(r)
    <2>1. out'[r] \in Seq(0 .. LogLine) /\ Len(out'[r]) <= Buffer /\ out' = [out EXCEPT ![r] = out'[r]]
        <3>1. CASE shut[r] \/ Len(out[r]) = Buffer
            BY <3>1, <1>10 DEF Handshake, TypeOK
        <3>2. CASE ~(shut[r] \/ Len(out[r]) = Buffer)
            <4>1. out' = [out EXCEPT ![r] = Append(out[r], Connected)]
                BY <3>2, <1>10 DEF Handshake
            <4>2. out'[r] = Append(out[r], Connected)
                BY <4>1 DEF TypeOK
            <4>3. Connected \in 0 .. LogLine /\ out[r] \in Seq(0 .. LogLine)
                BY WebAssumption DEF Connected, LogLine, TypeOK
            <4>4. Len(out[r]) \in Nat /\ Len(out[r]) <= Buffer
                BY <4>3 DEF TypeOK
            <4>5. Append(out[r], Connected) \in Seq(0 .. LogLine)
                  /\ Len(Append(out[r], Connected)) = Len(out[r]) + 1
                BY <4>3
            <4>6. Len(out[r]) + 1 <= Buffer
                BY <4>4, <3>2, Numbers
            <4> QED
                BY <4>1, <4>2, <4>5, <4>6
        <3> QED
            BY <3>1, <3>2
    <2>2. out' \in [Requests -> Seq(0 .. LogLine)] /\ \A x \in Requests : Len(out'[x]) <= Buffer
        BY <2>1 DEF TypeOK
    <2> QED
        BY <1>10, <2>2 DEF Handshake, Goto, TypeOK, gateVars, brokerVars, stopVars
<1>11. CASE TakeFrame(r)
    <2>1. out' = [out EXCEPT ![r] = Tail(out[r])] /\ out[r] \in Seq(0 .. LogLine) /\ out[r] # <<>>
          /\ Len(out[r]) <= Buffer
        BY <1>11 DEF TakeFrame, TypeOK
    <2>2. Tail(out[r]) \in Seq(0 .. LogLine) /\ Len(Tail(out[r])) <= Buffer
        <3>1. Tail(out[r]) \in Seq(0 .. LogLine) /\ Len(Tail(out[r])) = Len(out[r]) - 1
              /\ Len(out[r]) \in Nat
            BY <2>1, TailOf
        <3> QED
            BY <3>1, <2>1, Numbers
    <2>3. out' \in [Requests -> Seq(0 .. LogLine)] /\ \A x \in Requests : Len(out'[x]) <= Buffer
        BY <2>1, <2>2 DEF TypeOK
    <2>4. seen' \in [Requests -> 0 .. MaxFrames]
        <3>1. seen \in [Requests -> 0 .. MaxFrames]
            BY DEF TypeOK
        <3>2. seen' = [seen EXCEPT ![r] = IF Head(out[r]) \in 1 .. MaxFrames
                                          THEN Head(out[r]) ELSE seen[r]]
            BY <1>11 DEF TakeFrame
        <3> QED
            BY <3>1, <3>2
    <2>5. stage' = [stage EXCEPT ![r] = "write"]
          /\ UNCHANGED <<kind, shut, tail, gateVars, slots, brokerVars, stopVars, main>>
        BY <1>11 DEF TakeFrame, Goto
    <2> QED
        BY <2>3, <2>4, <2>5 DEF TypeOK, gateVars, brokerVars, stopVars
<1>12. CASE Detach(r)
    BY <1>12 DEF Detach, Goto, Working, TypeOK, gateVars, stopVars
<1> QED
    BY <1>1, <1>2, <1>3, <1>4, <1>5, <1>6, <1>7, <1>8, <1>9, <1>10, <1>11, <1>12 DEF Request

LEMMA CloseTyped ==
    ASSUME TypeOK, NEW S, Close(S)
    PROVE  shut' \in [Requests -> BOOLEAN] /\ crashed' \in BOOLEAN
    BY DEF Close, TypeOK

LEMMA RestTyped ==
    ASSUME TypeOK, Broker \/ GoingDown \/ Environment,
           ~(\E r \in Requests : \E k \in Kinds : Arrive(r, k))
    PROVE  TypeOK'
<1>1. ASSUME NEW r \in Requests, LoseClient(r) PROVE TypeOK'
    BY <1>1 DEF LoseClient, Goto, TypeOK, gateVars, brokerVars, stopVars
<1>2. ASSUME NEW r \in Requests, NEW lines \in 0 .. Buffer + 1, TailReads(r, lines) PROVE TypeOK'
    <2> DEFINE room == Buffer - Len(out[r])
               written == IF lines <= room THEN lines ELSE room
               e == [i \in 1 .. written |-> LogLine]
    <2>1. out[r] \in Seq(0 .. LogLine) /\ Len(out[r]) \in Nat /\ room \in Nat
        BY WebAssumption DEF TypeOK
    <2>2. written \in Nat /\ written <= room
        BY <2>1
    <2>3. e \in Seq(0 .. LogLine) /\ Len(e) = written
        BY <2>2, WebAssumption DEF LogLine
    <2>4. out' = [out EXCEPT ![r] = out[r] \o e]
        BY <1>2 DEF TailReads
    <2> HIDE DEF e, written
    <2>5. out[r] \o e \in Seq(0 .. LogLine) /\ Len(out[r] \o e) <= Buffer
        BY <2>1, <2>2, <2>3, WebAssumption
    <2>6. out' \in [Requests -> Seq(0 .. LogLine)] /\ \A x \in Requests : Len(out'[x]) <= Buffer
        BY <2>4, <2>5 DEF TypeOK
    <2> QED
        BY <1>2, <2>6 DEF TailReads, TypeOK, gateVars, brokerVars, stopVars
<1>3. CASE WindowEnds
    BY <1>3 DEF WindowEnds, TypeOK, requestVars, brokerVars, stopVars
<1>4. CASE Publish
    <2>1. published + 1 \in 1 .. MaxFrames /\ queue' \in Seq(1 .. MaxFrames) /\ Len(queue') <= QueueSize
        BY <1>4, WebAssumption DEF Publish, TypeOK
    <2> QED
        BY <1>4, <2>1 DEF Publish, TypeOK, requestVars, gateVars, stopVars
<1>5. CASE Terminate \/ Join \/ JoinTimesOut
    BY <1>5
    DEF Terminate, Join, JoinTimesOut, TypeOK, requestVars, gateVars, brokerVars, stopVars,
        Running, Executors, Exited
<1>6. CASE CutConnections \/ Drained \/ ListenerFails
    BY <1>6 DEF CutConnections, Drained, ListenerFails, TypeOK, requestVars, gateVars, brokerVars
<1>15. CASE NewcomerLeaves
    <2>1. newcomers' \in 0 .. MaxNew
        BY <1>15, Numbers DEF NewcomerLeaves, TypeOK
    <2> QED
        BY <1>15, <2>1 DEF NewcomerLeaves, TypeOK, requestVars, gateVars, brokerVars
<1>7. CASE StopStream \/ StopLogs
    BY <1>7 DEF StopStream, StopLogs, TypeOK, requestVars, gateVars, brokerVars, Streams
<1>8. CASE StopFanOut
    BY <1>8 DEF StopFanOut, StopClients, Close, TypeOK, gateVars
<1>9. CASE Exit
    BY <1>9 DEF Exit, StopClients, Close, TypeOK, gateVars, Streams
<1>10. CASE TakeBroadcast
    <2>1. Head(queue) \in 1 .. MaxFrames /\ Tail(queue) \in Seq(1 .. MaxFrames)
          /\ Len(Tail(queue)) <= QueueSize
        BY <1>10, WebAssumption DEF TakeBroadcast, TypeOK
    <2>2. run' \in [does : {"broadcast"}, with : 1 .. MaxFrames]
        BY <1>10, <2>1 DEF TakeBroadcast, Working
    <2> QED
        BY <1>10, <2>1, <2>2 DEF TakeBroadcast, TypeOK, requestVars, gateVars, stopVars
<1>11. CASE RunStops
    BY <1>11 DEF RunStops, Gone, TypeOK, requestVars, gateVars, stopVars
<1>12. CASE Register
    <2>1. run.with \in Requests /\ run' \in [does : {"select", "gone"}, with : {Nobody}]
        BY <1>12 DEF Register, Gone, Selecting, TypeOK
    <2>2. clients' \subseteq Requests /\ seen' \in [Requests -> 0 .. MaxFrames]
          /\ shut' \in [Requests -> BOOLEAN] /\ crashed' \in BOOLEAN
        <3>1. CASE stopped
            <4>1. Close({run.with}) /\ UNCHANGED <<clients, seen>>
                BY <3>1, <1>12 DEF Register
            <4> QED
                BY <4>1, CloseTyped DEF TypeOK
        <3>2. CASE ~stopped
            <4>1. clients' = clients \cup {run.with} /\ seen' = [seen EXCEPT ![run.with] = cast]
                  /\ UNCHANGED <<shut, crashed>>
                BY <3>2, <1>12 DEF Register
            <4> QED
                BY <4>1, <2>1 DEF TypeOK
        <3> QED
            BY <3>1, <3>2
    <2> QED
        BY <1>12, <2>1, <2>2 DEF Register, TypeOK, gateVars, stopVars
<1>13. CASE Unregister
    <2>1. run' \in [does : {"select", "gone"}, with : {Nobody}]
        BY <1>13 DEF Unregister, Gone, Selecting
    <2>2. clients' \subseteq Requests /\ shut' \in [Requests -> BOOLEAN] /\ crashed' \in BOOLEAN
        BY <1>13 DEF Unregister, Close, TypeOK
    <2> QED
        BY <1>13, <2>1, <2>2 DEF Unregister, TypeOK, gateVars, stopVars
<1>14. CASE Broadcast
    <2>1. run.with \in 1 .. MaxFrames /\ run' \in [does : {"select", "gone"}, with : {Nobody}]
        BY <1>14 DEF Broadcast, Gone, Selecting, TypeOK
    <2>2. clients' \subseteq Requests /\ shut' \in [Requests -> BOOLEAN] /\ crashed' \in BOOLEAN
          /\ cast' \in 0 .. MaxFrames
        <3>1. CASE stopped
            BY <3>1, <1>14 DEF Broadcast, TypeOK
        <3>2. CASE ~stopped
            <4> DEFINE slow == {c \in clients : Len(out[c]) = Buffer}
            <4>1. Close(slow) /\ clients' = clients \ slow /\ cast' = run.with
                BY <3>2, <1>14 DEF Broadcast
            <4>2. run.with \in 0 .. MaxFrames
                BY <2>1, Numbers
            <4> QED
                BY <4>1, <4>2, CloseTyped DEF TypeOK
        <3> QED
            BY <3>1, <3>2
    <2>3. out' \in [Requests -> Seq(0 .. LogLine)] /\ \A x \in Requests : Len(out'[x]) <= Buffer
        <3>1. CASE stopped
            BY <3>1, <1>14 DEF Broadcast, TypeOK
        <3>2. CASE ~stopped
            <4>1. run.with \in 0 .. LogLine
                BY <2>1, WebAssumption DEF LogLine
            <4>2. \A x \in Requests : Len(out[x]) \in Nat /\ Len(out[x]) <= Buffer
                                     /\ out[x] \in Seq(0 .. LogLine)
                BY DEF TypeOK
            <4>3. \A x \in Requests : Append(out[x], run.with) \in Seq(0 .. LogLine)
                                     /\ Len(Append(out[x], run.with)) = Len(out[x]) + 1
                BY <4>1, <4>2
            <4>4. out' = [x \in Requests |->
                            IF x \in clients \ {c \in clients : Len(out[c]) = Buffer}
                            THEN Append(out[x], run.with) ELSE out[x]]
                BY <3>2, <1>14 DEF Broadcast
            <4>5. ASSUME NEW x \in Requests PROVE out'[x] \in Seq(0 .. LogLine) /\ Len(out'[x]) <= Buffer
                <5>1. CASE x \in clients /\ Len(out[x]) # Buffer
                    <6>1. out'[x] = Append(out[x], run.with)
                        BY <5>1, <4>4
                    <6>2. Len(out[x]) + 1 <= Buffer
                        BY <5>1, <4>2, Numbers
                    <6> QED
                        BY <6>1, <6>2, <4>3
                <5>2. CASE ~(x \in clients /\ Len(out[x]) # Buffer)
                    BY <5>2, <4>2, <4>4
                <5> QED
                    BY <5>1, <5>2
            <4> QED
                BY <4>4, <4>5
        <3> QED
            BY <3>1, <3>2
    <2> QED
        BY <1>14, <2>1, <2>2, <2>3 DEF Broadcast, TypeOK, gateVars, stopVars
<1> QED
    BY <1>1, <1>2, <1>3, <1>4, <1>5, <1>6, <1>7, <1>8, <1>9, <1>10, <1>11, <1>12, <1>13, <1>14,
       <1>15
    DEF Broker, GoingDown, Environment

LEMMA TypeStep == TypeOK /\ [Next]_vars => TypeOK'
<1>1. ASSUME TypeOK, Next PROVE TypeOK'
    BY <1>1, RequestTyped, RestTyped DEF Next
<1>2. ASSUME TypeOK, UNCHANGED vars PROVE TypeOK'
    BY <1>2 DEF TypeOK, vars, requestVars, gateVars, brokerVars, stopVars
<1> QED
    BY <1>1, <1>2

-----------------------------------------------------------------------------
(* The gate                                                                *)

LEMMA ComparingFinite ==
    /\ IsFiniteSet(Requests) /\ Cardinality(Requests) \in Nat /\ Cardinality(Requests) > 0
    /\ IsFiniteSet(Comparing) /\ Cardinality(Comparing) \in Nat
    /\ Cardinality(Comparing) <= Cardinality(Requests)
<1>1. IsFiniteSet(Requests) /\ Requests # {} /\ Comparing \subseteq Requests
    BY WebAssumption DEF Comparing
<1> QED
    BY <1>1, FS_Subset, FS_CardinalityType, FS_EmptySet

(* Nobody comes to the comparison, and the gate stays as it is.            *)
LEMMA GateShrinks ==
    ASSUME GateOK, UNCHANGED <<late, locked>>,
           \A r \in Requests : stage'[r] = "compare" => stage[r] = "compare"
    PROVE  GateOK'
<1>1. Comparing' \subseteq Comparing
    BY DEF Comparing
<1>2. Cardinality(Comparing') \in Nat /\ Cardinality(Comparing') <= Cardinality(Comparing)
    BY <1>1, ComparingFinite, FS_Subset, FS_CardinalityType
<1> QED
    BY <1>2, ComparingFinite DEF GateOK

LEMMA WrongKeepsGate ==
    ASSUME TypeOK, GateOK, NEW r \in Requests, CredentialsWrong(r)
    PROVE  GateOK'
<1>1. Comparing' = Comparing \ {r} /\ r \in Comparing
    BY DEF CredentialsWrong, Return, Goto, Comparing, TypeOK
<1>2. Cardinality(Comparing') = Cardinality(Comparing) - 1
    BY <1>1, ComparingFinite, FS_RemoveElement
<1>3. locked \in BOOLEAN /\ late \in Nat
    BY DEF TypeOK, GateOK
<1>4. late' = IF locked /\ late < Cardinality(Requests) THEN late + 1 ELSE late
    BY DEF CredentialsWrong
<1>5. CASE locked
    <2>1. late + Cardinality(Comparing) < Cardinality(Requests)
        BY <1>5 DEF GateOK
    <2>2. late < Cardinality(Requests)
        BY <2>1, <1>3, ComparingFinite
    <2>3. late' = late + 1 /\ late' + Cardinality(Comparing') = late + Cardinality(Comparing)
        BY <2>2, <1>2, <1>3, <1>4, <1>5, ComparingFinite
    <2>4. locked'
        BY <1>5 DEF CredentialsWrong
    <2> QED
        BY <2>1, <2>3, <2>4, <1>3 DEF GateOK
<1>6. CASE ~locked
    <2>1. late = 0 /\ late' = 0
        BY <1>4, <1>6 DEF GateOK
    <2>2. 0 + Cardinality(Comparing') < Cardinality(Requests)
        BY <1>2, ComparingFinite
    <2> QED
        BY <2>1, <2>2 DEF GateOK
<1> QED
    BY <1>5, <1>6

LEMMA GateStep == TypeOK /\ GateOK /\ [Next]_vars => GateOK'
<1> SUFFICES ASSUME TypeOK, GateOK, [Next]_vars PROVE GateOK'
    OBVIOUS
<1>1. ASSUME NEW r \in Requests, Request(r) \/ LoseClient(r), ~CredentialsWrong(r) PROVE GateOK'
    <2>1. UNCHANGED <<late, locked>>
        BY <1>1
        DEF Request, ComesWithout, CredentialsRight, Serve, Attach, AttachTooLate, AttachLogs,
            Handshake, TakeFrame, Written, LeaveLoop, LoseClient, Detach, DetachLogs, Release,
            TailEnds, gateVars
    <2>2. \E s \in {"none", "serve", "attach", "hello", "loop", "write", "detach", "release"} :
              stage' = [stage EXCEPT ![r] = s] \/ stage' = stage
        BY <1>1
        DEF Request, ComesWithout, CredentialsRight, Serve, Attach, AttachTooLate, AttachLogs,
            Handshake, TakeFrame, Written, LeaveLoop, LoseClient, Detach, DetachLogs, Release,
            TailEnds, Return, Goto
    <2>3. \A x \in Requests : stage'[x] = "compare" => stage[x] = "compare"
        BY <2>2 DEF TypeOK
    <2> QED
        BY <2>1, <2>3, GateShrinks
<1>2. ASSUME NEW r \in Requests, CredentialsWrong(r) PROVE GateOK'
    BY <1>2, WrongKeepsGate
<1>3. ASSUME NEW r \in Requests, NEW k \in Kinds, Arrive(r, k) PROVE GateOK'
    BY <1>3 DEF Arrive, GateOK, gateVars
<1>4. ASSUME NEW r \in Requests, NEW lines \in 0 .. Buffer + 1, TailReads(r, lines) PROVE GateOK'
    BY <1>4, GateShrinks DEF TailReads, gateVars
<1>5. CASE WindowEnds
    BY <1>5 DEF WindowEnds, GateOK
<1>6. CASE Broker \/ GoingDown \/ Publish \/ Terminate \/ ListenerFails \/ JoinTimesOut
           \/ CutConnections \/ UNCHANGED vars
    <2>1. UNCHANGED <<late, locked, stage>>
        BY <1>6
        DEF Broker, TakeBroadcast, RunStops, Register, Unregister, Broadcast, GoingDown, StopStream,
            StopFanOut, StopLogs, NewcomerLeaves, Drained, Join, Exit, Publish, Terminate,
            ListenerFails, JoinTimesOut, CutConnections, gateVars, requestVars, vars
    <2> QED
        BY <2>1, GateShrinks
<1> QED
    BY <1>1, <1>2, <1>3, <1>4, <1>5, <1>6 DEF Next, Environment

-----------------------------------------------------------------------------
(* The channels that are open                                              *)

(* What a request does to others: nothing; and its own channel gets no     *)
(* frame.                                                                  *)
ReturnFacts(r) ==
    /\ \A x \in Requests : x # r => /\ out'[x] = out[x] /\ shut'[x] = shut[x]
                                    /\ seen'[x] = seen[x] /\ stage'[x] = stage[x]
    /\ stage'[r] = "none"
    /\ \/ out'[r] = out[r] /\ shut'[r] = shut[r] /\ seen'[r] = seen[r]
       \/ out'[r] = <<>> /\ ~shut'[r] /\ r \notin clients

LEMMA ReturnDoes ==
    ASSUME TypeOK, NEW r \in Requests, Return(r)
    PROVE  ReturnFacts(r)
<1>1. stage' = [stage EXCEPT ![r] = "none"]
    BY DEF Return, Goto
<1>2. CASE r \in clients \/ run.with = r
    BY <1>1, <1>2 DEF Return, ReturnFacts, TypeOK
<1>3. CASE ~(r \in clients \/ run.with = r)
    <2>1. /\ out' = [out EXCEPT ![r] = <<>>]
          /\ shut' = [shut EXCEPT ![r] = FALSE]
          /\ seen' = [seen EXCEPT ![r] = 0]
        BY <1>3 DEF Return
    <2> QED
        BY <1>1, <1>3, <2>1 DEF ReturnFacts, TypeOK
<1> QED
    BY <1>2, <1>3

Earlier(r) == stage[r] \in {"compare", "attach"}

LEMMA Kept ==
    ASSUME TypeOK, BrokerSurvives, NewOK,
           crashed' = crashed, clients' \subseteq clients,
           run' = run \/ run'.does # "register",
           \A x \in Requests :
               /\ Earlier(x)' => Earlier(x)
               /\ shut'[x] => shut[x]
               /\ NoFrame(out[x]) => NoFrame(out'[x])
    PROVE  BrokerSurvives' /\ NewOK'
<1>1. BrokerSurvives'
    BY DEF BrokerSurvives, TypeOK
<1>2. \A x \in Requests : Registering(x)' => Registering(x)
    BY DEF Registering
<1>3. NewOK'
    <2> SUFFICES ASSUME NEW x \in Requests
                 PROVE  /\ Earlier(x)' => ~Registering(x)'
                        /\ Earlier(x)' \/ Registering(x)' =>
                              ~shut'[x] /\ x \notin clients' /\ NoFrame(out'[x])
        BY DEF NewOK, Earlier
    <2>1. Earlier(x)' => ~Registering(x)'
        BY <1>2 DEF NewOK, Earlier
    <2>2. ASSUME Earlier(x)' \/ Registering(x)'
          PROVE  ~shut'[x] /\ x \notin clients' /\ NoFrame(out'[x])
        <3>1. Earlier(x) \/ Registering(x)
            BY <2>2, <1>2
        <3> QED
            BY <3>1 DEF NewOK, Earlier
    <2> QED
        BY <2>1, <2>2
<1> QED
    BY <1>1, <1>3

(* The channels of some clients are closed, and they leave the table.      *)
LEMMA CloseKeeps ==
    ASSUME TypeOK, BrokerSurvives, NewOK, NEW S, S \subseteq clients, Close(S),
           clients' \subseteq clients \ S, stage' = stage,
           run' = run \/ run'.does # "register",
           \A x \in Requests : x \notin clients => out'[x] = out[x]
    PROVE  BrokerSurvives' /\ NewOK'
<1>1. \A x \in Requests : x \notin S /\ shut'[x] => shut[x]
    BY DEF Close
<1>2. crashed' = FALSE
    BY DEF Close, BrokerSurvives, TypeOK
<1>3. BrokerSurvives'
    BY <1>1, <1>2 DEF BrokerSurvives, TypeOK
<1>4. ASSUME NEW x \in Requests
      PROVE  /\ Earlier(x)' => ~Registering(x)'
             /\ Earlier(x)' \/ Registering(x)' =>
                   ~shut'[x] /\ x \notin clients' /\ NoFrame(out'[x])
    <2>1. Registering(x)' => Registering(x)
        BY DEF Registering
    <2>2. Earlier(x)' => Earlier(x)
        BY DEF Earlier
    <2>3. Earlier(x) => ~Registering(x)
        BY DEF NewOK, Earlier
    <2>4. ASSUME Earlier(x) \/ Registering(x)
          PROVE  ~shut'[x] /\ x \notin clients' /\ NoFrame(out'[x])
        <3>1. ~shut[x] /\ x \notin clients /\ NoFrame(out[x])
            BY <2>4 DEF NewOK, Earlier
        <3> QED
            BY <3>1, <1>1
    <2> QED
        BY <2>1, <2>2, <2>3, <2>4
<1>5. NewOK'
    BY <1>4 DEF NewOK, Earlier
<1> QED
    BY <1>3, <1>5

LEMMA NoFrameInEmpty == NoFrame(<<>>)
    BY DEF NoFrame

LEMMA ArriveKeeps ==
    ASSUME TypeOK, BrokerSurvives, NewOK, NEW r \in Requests, NEW k \in Kinds, Arrive(r, k)
    PROVE  BrokerSurvives' /\ NewOK'
<1>1. /\ r \notin clients /\ run.with # r
      /\ stage' = [stage EXCEPT ![r] = "compare"]
      /\ out' = [out EXCEPT ![r] = <<>>]
      /\ shut' = [shut EXCEPT ![r] = FALSE]
      /\ UNCHANGED <<clients, run, crashed>>
    BY DEF Arrive, Free, Goto, brokerVars
<1>2. \A x \in Requests : x # r => stage'[x] = stage[x] /\ out'[x] = out[x] /\ shut'[x] = shut[x]
    BY <1>1 DEF TypeOK
<1>3. out'[r] = <<>> /\ ~shut'[r]
    BY <1>1 DEF TypeOK
<1>4. BrokerSurvives'
    BY <1>1, <1>2 DEF BrokerSurvives, TypeOK
<1>5. ASSUME NEW x \in Requests
      PROVE  /\ Earlier(x)' => ~Registering(x)'
             /\ Earlier(x)' \/ Registering(x)' =>
                   ~shut'[x] /\ x \notin clients' /\ NoFrame(out'[x])
    <2>1. CASE x = r
        BY <2>1, <1>1, <1>3, NoFrameInEmpty DEF Registering
    <2>2. CASE x # r
        <3>1. (Earlier(x)' <=> Earlier(x)) /\ (Registering(x)' <=> Registering(x))
            BY <2>2, <1>1, <1>2 DEF Earlier, Registering
        <3> QED
            BY <3>1, <2>2, <1>1, <1>2 DEF NewOK, Earlier
    <2> QED
        BY <2>1, <2>2
<1>6. NewOK'
    BY <1>5 DEF NewOK, Earlier
<1> QED
    BY <1>4, <1>6

LEMMA AttachKeeps ==
    ASSUME TypeOK, BrokerSurvives, NewOK, NEW r \in Requests, Attach(r)
    PROVE  BrokerSurvives' /\ NewOK'
<1>1. /\ stage[r] = "attach" /\ stage' = [stage EXCEPT ![r] = "hello"]
      /\ run' = [does |-> "register", with |-> r]
      /\ UNCHANGED <<out, shut, clients, crashed>>
    BY DEF Attach, Goto, Working
<1>2. BrokerSurvives'
    BY <1>1 DEF BrokerSurvives
<1>3. ~shut[r] /\ r \notin clients /\ NoFrame(out[r])
    BY <1>1 DEF NewOK
<1>4. ASSUME NEW x \in Requests
      PROVE  /\ Earlier(x)' => ~Registering(x)'
             /\ Earlier(x)' \/ Registering(x)' =>
                   ~shut'[x] /\ x \notin clients' /\ NoFrame(out'[x])
    <2>1. CASE x = r
        <3>1. ~Earlier(x)'
            BY <2>1, <1>1 DEF Earlier, TypeOK
        <3> QED
            BY <3>1, <2>1, <1>1, <1>3
    <2>2. CASE x # r
        <3>1. (Earlier(x)' => Earlier(x)) /\ ~Registering(x)'
            BY <2>2, <1>1 DEF Earlier, Registering, TypeOK
        <3> QED
            BY <3>1, <1>1 DEF NewOK, Earlier
    <2> QED
        BY <2>1, <2>2
<1>5. NewOK'
    BY <1>4 DEF NewOK, Earlier
<1> QED
    BY <1>2, <1>5

LEMMA RegisterKeeps ==
    ASSUME TypeOK, BrokerSurvives, NewOK, Register
    PROVE  BrokerSurvives' /\ NewOK'
<1> DEFINE r == run.with
<1>1. r \in Requests /\ Registering(r)
    BY DEF Register, Registering, TypeOK
<1>2. ~shut[r] /\ r \notin clients
    BY <1>1 DEF NewOK
<1>3. \A x \in Requests : ~Registering(x)'
    BY DEF Register, Registering, Gone, Selecting
<1>4. stage' = stage /\ out' = out
    BY DEF Register
<1>5. \A x \in Requests : Earlier(x) => x # r
    BY <1>1 DEF NewOK, Earlier
<1> HIDE DEF r
<1>6. CASE stopped
    <2>1. Close({r}) /\ clients' = clients
        BY <1>6 DEF Register, r
    <2>2. \A x \in Requests : x # r /\ shut'[x] => shut[x]
        BY <2>1 DEF Close
    <2>3. crashed' = FALSE
        BY <2>1, <1>2 DEF Close, BrokerSurvives, TypeOK
    <2>4. BrokerSurvives'
        BY <2>1, <2>2, <2>3, <1>2 DEF BrokerSurvives, TypeOK
    <2>5. NewOK'
        <3> SUFFICES ASSUME NEW x \in Requests, Earlier(x)'
                     PROVE  ~shut'[x] /\ x \notin clients' /\ NoFrame(out'[x])
            BY <1>3 DEF NewOK, Earlier
        <3>1. Earlier(x) /\ x # r
            BY <1>4, <1>5 DEF Earlier
        <3> QED
            BY <3>1, <2>1, <2>2, <1>4 DEF NewOK, Earlier
    <2> QED
        BY <2>4, <2>5
<1>7. CASE ~stopped
    <2>1. clients' = clients \cup {r} /\ UNCHANGED <<shut, crashed>>
        BY <1>7 DEF Register, r
    <2>2. BrokerSurvives'
        BY <2>1, <1>2 DEF BrokerSurvives
    <2>3. NewOK'
        <3> SUFFICES ASSUME NEW x \in Requests, Earlier(x)'
                     PROVE  ~shut'[x] /\ x \notin clients' /\ NoFrame(out'[x])
            BY <1>3 DEF NewOK, Earlier
        <3>1. Earlier(x) /\ x # r
            BY <1>4, <1>5 DEF Earlier
        <3> QED
            BY <3>1, <2>1, <1>4 DEF NewOK, Earlier
    <2> QED
        BY <2>2, <2>3
<1> QED
    BY <1>6, <1>7

-----------------------------------------------------------------------------
(* What the steps of a request do to the three invariants: its own channel *)
(* gets no frame and loses only the first, and nobody else's changes.      *)

Owed(x) == seen[x] <= cast /\ InOrder(out[x], seen[x], cast)

Harmless ==
    /\ UNCHANGED <<crashed, clients, queue, cast, published>>
    /\ run' = run \/ (run = Selecting /\ run'.does = "unregister")
    /\ \A x \in Requests :
          /\ Earlier(x)' => Earlier(x)
          /\ shut'[x] => shut[x]
          /\ NoFrame(out[x]) => NoFrame(out'[x])
          /\ x \in clients /\ Owed(x) => Owed(x)'

LEMMA SameChannels ==
    ASSUME UNCHANGED <<out, shut, seen, crashed, clients, queue, cast, published>>,
           run' = run \/ (run = Selecting /\ run'.does = "unregister"),
           \A x \in Requests : Earlier(x)' => Earlier(x)
    PROVE  Harmless
    BY DEF Harmless, Owed

LEMMA ReturnHarmless ==
    ASSUME TypeOK, NEW r \in Requests, Return(r),
           UNCHANGED <<crashed, clients, queue, cast, published, run>>
    PROVE  Harmless
<1>1. ReturnFacts(r)
    BY ReturnDoes
<1>2. ASSUME NEW x \in Requests
      PROVE  /\ Earlier(x)' => Earlier(x)
             /\ shut'[x] => shut[x]
             /\ NoFrame(out[x]) => NoFrame(out'[x])
             /\ x \in clients /\ Owed(x) => Owed(x)'
    <2>1. CASE x # r
        BY <2>1, <1>1 DEF ReturnFacts, Earlier, Owed
    <2>2. CASE x = r
        BY <2>2, <1>1, NoFrameInEmpty DEF ReturnFacts, Earlier, Owed
    <2> QED
        BY <2>1, <2>2
<1> QED
    BY <1>2 DEF Harmless

(* A step that changes only its own channel.                               *)
LEMMA OwnChannel ==
    ASSUME TypeOK, NEW r \in Requests, NEW q, out' = [out EXCEPT ![r] = q],
           UNCHANGED <<shut, crashed, clients, queue, cast, published, run>>,
           \A x \in Requests : Earlier(x)' => Earlier(x),
           \A x \in Requests : x # r => seen'[x] = seen[x],
           NoFrame(out[r]) => NoFrame(q),
           r \in clients /\ Owed(r) => seen'[r] <= cast /\ InOrder(q, seen'[r], cast)
    PROVE  Harmless
<1>1. out'[r] = q /\ \A x \in Requests : x # r => out'[x] = out[x]
    BY DEF TypeOK
<1>2. ASSUME NEW x \in Requests
      PROVE  /\ NoFrame(out[x]) => NoFrame(out'[x])
             /\ x \in clients /\ Owed(x) => Owed(x)'
    <2>1. CASE x = r
        BY <2>1, <1>1 DEF Owed
    <2>2. CASE x # r
        BY <2>2, <1>1 DEF Owed
    <2> QED
        BY <2>1, <2>2
<1> QED
    BY <1>2 DEF Harmless

LEMMA Widen ==
    ASSUME NEW S, NEW T, S \subseteq T, NEW q \in Seq(S)
    PROVE  q \in Seq(T) /\ Len(q) \in Nat
<1>1. Len(q) \in Nat /\ \A i \in 1 .. Len(q) : q[i] \in S
    OBVIOUS
<1>2. q = [i \in 1 .. Len(q) |-> q[i]]
    OBVIOUS
<1>3. [i \in 1 .. Len(q) |-> q[i]] \in Seq(T)
    BY <1>1
<1> QED
    BY <1>1, <1>2, <1>3

LEMMA ChannelTyped ==
    ASSUME TypeOK, NEW r \in Requests
    PROVE  out[r] \in Seq(Nat) /\ Len(out[r]) \in Nat /\ seen[r] \in Nat /\ cast \in Nat
<1>1. out[r] \in Seq(0 .. LogLine) /\ seen[r] \in 0 .. MaxFrames /\ cast \in 0 .. MaxFrames
    BY DEF TypeOK
<1>2. 0 .. LogLine \subseteq Nat /\ 0 .. MaxFrames \subseteq Nat
    BY Numbers
<1>3. out[r] \in Seq(Nat) /\ Len(out[r]) \in Nat
    BY <1>1, <1>2, Widen
<1> QED
    BY <1>1, <1>2, <1>3

LEMMA HandshakeHarmless ==
    ASSUME TypeOK, NEW r \in Requests, Handshake(r)
    PROVE  Harmless
<1>1. UNCHANGED <<shut, seen, crashed, clients, queue, cast, published, run>>
    BY DEF Handshake, brokerVars
<1>2. \A x \in Requests : Earlier(x)' => Earlier(x)
    BY DEF Handshake, Goto, Earlier, TypeOK
<1>3. CASE shut[r] \/ Len(out[r]) = Buffer
    BY <1>1, <1>2, <1>3, SameChannels DEF Handshake
<1>4. CASE ~(shut[r] \/ Len(out[r]) = Buffer)
    <2> DEFINE q == Append(out[r], Connected)
    <2>1. out' = [out EXCEPT ![r] = q]
        BY <1>4 DEF Handshake
    <2>2. Connected \in Nat /\ Connected \notin 1 .. MaxFrames
        BY Numbers
    <2>3. /\ InOrder(out[r], seen[r], cast) => InOrder(q, seen[r], cast)
          /\ NoFrame(out[r]) => NoFrame(q)
        BY <2>2, AppendOther, ChannelTyped
    <2> HIDE DEF q
    <2>4. r \in clients /\ Owed(r) => seen'[r] <= cast /\ InOrder(q, seen'[r], cast)
        BY <2>3, <1>1 DEF Owed
    <2> QED
        BY <1>1, <1>2, <2>1, <2>3, <2>4, OwnChannel
<1> QED
    BY <1>3, <1>4

LEMMA TakeFrameHarmless ==
    ASSUME TypeOK, NEW r \in Requests, TakeFrame(r)
    PROVE  Harmless
<1>1. /\ UNCHANGED <<shut, crashed, clients, queue, cast, published, run>>
      /\ out' = [out EXCEPT ![r] = Tail(out[r])] /\ out[r] # <<>>
      /\ seen' = [seen EXCEPT ![r] = IF Head(out[r]) \in 1 .. MaxFrames THEN Head(out[r]) ELSE seen[r]]
    BY DEF TakeFrame, brokerVars
<1>2. \A x \in Requests : Earlier(x)' => Earlier(x)
    BY DEF TakeFrame, Goto, Earlier, TypeOK
<1>3. /\ \A x \in Requests : x # r => seen'[x] = seen[x]
      /\ seen'[r] = IF Head(out[r]) \in 1 .. MaxFrames THEN Head(out[r]) ELSE seen[r]
    BY <1>1 DEF TypeOK
<1>4. out[r] \in Seq(Nat) /\ seen[r] \in Nat /\ cast \in Nat
    BY ChannelTyped
<1>5. ASSUME NoFrame(out[r]) PROVE NoFrame(Tail(out[r]))
    <2>1. /\ Len(out[r]) \in Nat /\ Len(Tail(out[r])) = Len(out[r]) - 1
          /\ \A i \in 1 .. Len(Tail(out[r])) : Tail(out[r])[i] = out[r][i + 1]
        BY <1>1, <1>4, TailOf
    <2>2. \A i \in 1 .. Len(Tail(out[r])) : i + 1 \in 1 .. Len(out[r])
        BY <2>1
    <2> QED
        BY <2>1, <2>2, <1>5 DEF NoFrame
<1>6. ASSUME Owed(r) PROVE seen'[r] <= cast /\ InOrder(Tail(out[r]), seen'[r], cast)
    <2>1. InOrder(out[r], seen[r], cast) /\ seen[r] <= cast
        BY <1>6 DEF Owed
    <2>2. /\ Head(out[r]) \notin 1 .. MaxFrames => InOrder(Tail(out[r]), seen[r], cast)
          /\ Head(out[r]) \in 1 .. MaxFrames =>
                 Head(out[r]) = seen[r] + 1 /\ seen[r] + 1 <= cast
                 /\ InOrder(Tail(out[r]), seen[r] + 1, cast)
        BY <2>1, <1>1, <1>4, TakeHead
    <2>3. CASE Head(out[r]) \in 1 .. MaxFrames
        BY <2>2, <2>3, <1>3
    <2>4. CASE Head(out[r]) \notin 1 .. MaxFrames
        BY <2>1, <2>2, <2>4, <1>3
    <2> QED
        BY <2>3, <2>4
<1> QED
    BY <1>1, <1>2, <1>3, <1>5, <1>6, OwnChannel

LEMMA TailReadsHarmless ==
    ASSUME TypeOK, NEW r \in Requests, NEW lines \in 0 .. Buffer + 1, TailReads(r, lines)
    PROVE  Harmless
<1> DEFINE room == Buffer - Len(out[r])
           written == IF lines <= room THEN lines ELSE room
           q == out[r] \o [i \in 1 .. written |-> LogLine]
<1>1. out[r] \in Seq(Nat) /\ Len(out[r]) \in Nat /\ Len(out[r]) <= Buffer
    BY ChannelTyped DEF TypeOK
<1>2. written \in Nat
    BY <1>1, Numbers
<1>3. out' = [out EXCEPT ![r] = q]
    BY DEF TailReads
<1>4. UNCHANGED <<stage, shut, seen, crashed, clients, queue, cast, published, run>>
    BY DEF TailReads, brokerVars
<1> HIDE DEF written
<1>5. /\ InOrder(out[r], seen[r], cast) => InOrder(q, seen[r], cast)
      /\ NoFrame(out[r]) => NoFrame(q)
    BY <1>1, <1>2, ConcatLines
<1> HIDE DEF q
<1>6. r \in clients /\ Owed(r) => seen'[r] <= cast /\ InOrder(q, seen'[r], cast)
    BY <1>4, <1>5 DEF Owed
<1>7. \A x \in Requests : Earlier(x)' => Earlier(x)
    BY <1>4 DEF Earlier
<1> QED
    BY <1>3, <1>4, <1>5, <1>6, <1>7, OwnChannel

LEMMA RequestHarmless ==
    ASSUME TypeOK, NEW r \in Requests, Request(r) \/ LoseClient(r), ~Attach(r)
    PROVE  Harmless
<1>1. CASE ComesWithout(r) \/ CredentialsWrong(r) \/ Serve(r) \/ Release(r)
    BY <1>1, ReturnHarmless DEF ComesWithout, CredentialsWrong, Serve, Release, brokerVars
<1>2. CASE CredentialsRight(r)
    <2>1. UNCHANGED <<crashed, clients, queue, cast, published, run>>
        BY <1>2 DEF CredentialsRight, brokerVars
    <2>2. CASE Return(r)
        BY <2>1, <2>2, ReturnHarmless
    <2>3. CASE UNCHANGED <<out, shut, seen>> /\ (Goto(r, "serve") \/ Goto(r, "attach"))
        <3>1. stage[r] = "compare"
            BY <1>2 DEF CredentialsRight
        <3>2. \A x \in Requests : Earlier(x)' => Earlier(x)
            BY <2>3, <3>1 DEF Goto, Earlier, TypeOK
        <3> QED
            BY <2>1, <2>3, <3>2, SameChannels
    <2> QED
        BY <2>2, <2>3, <1>2 DEF CredentialsRight
<1>3. CASE AttachTooLate(r) \/ AttachLogs(r) \/ Written(r) \/ LeaveLoop(r) \/ LoseClient(r)
           \/ DetachLogs(r)
    <2>1. UNCHANGED <<out, shut, seen, crashed, clients, queue, cast, published, run>>
        BY <1>3
        DEF AttachTooLate, AttachLogs, Written, LeaveLoop, LoseClient, DetachLogs, brokerVars
    <2>2. \E s \in {"hello", "loop", "detach", "release"} : stage' = [stage EXCEPT ![r] = s]
        BY <1>3
        DEF AttachTooLate, AttachLogs, Written, LeaveLoop, LoseClient, DetachLogs, Goto
    <2>3. \A x \in Requests : Earlier(x)' => Earlier(x)
        BY <2>2 DEF Earlier, TypeOK
    <2> QED
        BY <2>1, <2>3, SameChannels
<1>4. CASE Detach(r)
    <2>1. /\ UNCHANGED <<out, shut, seen, crashed, clients, queue, cast, published>>
          /\ run' = run \/ (run = Selecting /\ run'.does = "unregister")
        BY <1>4 DEF Detach, Working
    <2>2. \A x \in Requests : Earlier(x)' => Earlier(x)
        BY <1>4 DEF Detach, Goto, Earlier, TypeOK
    <2> QED
        BY <2>1, <2>2, SameChannels
<1>5. CASE TailEnds(r)
    <2>1. UNCHANGED <<stage, out, shut, seen, crashed, clients, queue, cast, published, run>>
        BY <1>5 DEF TailEnds, brokerVars
    <2>2. \A x \in Requests : Earlier(x)' => Earlier(x)
        BY <2>1 DEF Earlier
    <2> QED
        BY <2>1, <2>2, SameChannels
<1> QED
    BY <1>1, <1>2, <1>3, <1>4, <1>5, HandshakeHarmless, TakeFrameHarmless DEF Request

StreamInv == BrokerSurvives /\ NewOK /\ QueueOK /\ OwedOK

(* The queue and the loop's place in it stay as they are.                  *)
LEMMA QueueKept ==
    ASSUME TypeOK, QueueOK, UNCHANGED <<queue, cast, published>>,
           run' = run \/ run'.does = "gone"
           \/ (run.does \in {"select", "register", "unregister"}
               /\ run'.does \in {"select", "register", "unregister"})
    PROVE  QueueOK'
<1>1. CASE run' = run
    BY <1>1 DEF QueueOK
<1>2. CASE run'.does = "gone"
    BY <1>2 DEF QueueOK
<1>3. CASE run.does \in {"select", "register", "unregister"}
           /\ run'.does \in {"select", "register", "unregister"}
    BY <1>3 DEF QueueOK
<1> QED
    BY <1>1, <1>2, <1>3

LEMMA HarmlessKeeps == TypeOK /\ StreamInv /\ Harmless => StreamInv'
<1> SUFFICES ASSUME TypeOK, StreamInv, Harmless PROVE StreamInv'
    OBVIOUS
<1>1. BrokerSurvives' /\ NewOK'
    <2>1. run' = run \/ run'.does # "register"
        BY DEF Harmless
    <2>2. UNCHANGED <<crashed, clients>>
        BY DEF Harmless
    <2>3. \A x \in Requests :
               /\ Earlier(x)' => Earlier(x)
               /\ shut'[x] => shut[x]
               /\ NoFrame(out[x]) => NoFrame(out'[x])
        BY DEF Harmless
    <2> QED
        BY <2>1, <2>2, <2>3, Kept DEF StreamInv
<1>2. QueueOK'
    <2>1. UNCHANGED <<queue, cast, published>>
        BY DEF Harmless
    <2>2. run' = run \/ (run.does = "select" /\ run'.does = "unregister")
        BY DEF Harmless, Selecting
    <2> QED
        BY <2>1, <2>2, QueueKept DEF StreamInv
<1>3. OwedOK'
    BY DEF StreamInv, OwedOK, Owed, Harmless, TypeOK
<1> QED
    BY <1>1, <1>2, <1>3 DEF StreamInv

(* Clients leave, and those that stay have what they had.                  *)
LEMMA OwedKept ==
    ASSUME OwedOK, clients' \subseteq clients, cast' = cast,
           \A x \in clients' : out'[x] = out[x] /\ seen'[x] = seen[x]
    PROVE  OwedOK'
    BY DEF OwedOK

LEMMA PublishKeeps ==
    ASSUME TypeOK, StreamInv, Publish
    PROVE  StreamInv'
<1>1. UNCHANGED <<out, shut, seen, stage, clients, run, cast, crashed>>
    BY DEF Publish, requestVars
<1>2. BrokerSurvives' /\ NewOK'
    BY <1>1 DEF StreamInv, BrokerSurvives, NewOK, Registering, NoFrame
<1>3. OwedOK'
    BY <1>1, OwedKept DEF StreamInv
<1>4. QueueOK'
    <2> SUFFICES ASSUME run.does # "gone"
                 PROVE  /\ published' = cast + Len(queue') + (IF run.does = "broadcast" THEN 1 ELSE 0)
                        /\ \A i \in 1 .. Len(queue') : queue'[i] = published' - Len(queue') + i
                        /\ run.does = "broadcast" => run.with = cast + 1
        BY <1>1 DEF QueueOK
    <2>1. queue' = Append(queue, published + 1) /\ published' = published + 1
        BY DEF Publish
    <2>2. queue \in Seq(1 .. MaxFrames) /\ cast \in Nat /\ published \in Nat
        BY Numbers DEF TypeOK
    <2>3. Len(queue) \in Nat /\ Len(queue') = Len(queue) + 1
          /\ (\A i \in 1 .. Len(queue) : queue'[i] = queue[i])
          /\ queue'[Len(queue) + 1] = published + 1
        BY <2>1, <2>2
    <2>4. /\ published = cast + Len(queue) + (IF run.does = "broadcast" THEN 1 ELSE 0)
          /\ \A i \in 1 .. Len(queue) : queue[i] = published - Len(queue) + i
          /\ run.does = "broadcast" => run.with = cast + 1
        BY DEF StreamInv, QueueOK
    <2>5. published' = cast + Len(queue') + (IF run.does = "broadcast" THEN 1 ELSE 0)
        BY <2>1, <2>2, <2>3, <2>4
    <2>6. ASSUME NEW i \in 1 .. Len(queue') PROVE queue'[i] = published' - Len(queue') + i
        <3>1. CASE i \in 1 .. Len(queue)
            BY <3>1, <2>1, <2>2, <2>3, <2>4
        <3>2. CASE i = Len(queue) + 1
            BY <3>2, <2>1, <2>2, <2>3
        <3> QED
            BY <3>1, <3>2, <2>3
    <2> QED
        BY <2>4, <2>5, <2>6
<1> QED
    BY <1>2, <1>3, <1>4 DEF StreamInv

LEMMA TakeBroadcastKeeps ==
    ASSUME TypeOK, StreamInv, TakeBroadcast
    PROVE  StreamInv'
<1>1. /\ UNCHANGED <<out, shut, seen, stage, clients, cast, crashed, published>>
      /\ run = Selecting /\ run' = Working("broadcast", Head(queue))
      /\ queue # <<>> /\ queue' = Tail(queue)
    BY DEF TakeBroadcast, requestVars
<1>2. BrokerSurvives' /\ NewOK'
    <2>1. run'.does # "register"
        BY <1>1 DEF Working
    <2>2. \A x \in Requests : Earlier(x)' => Earlier(x)
        BY <1>1 DEF Earlier
    <2> QED
        BY <2>1, <2>2, <1>1, Kept DEF StreamInv
<1>3. OwedOK'
    BY <1>1, OwedKept DEF StreamInv
<1>4. QueueOK'
    <2>1. queue \in Seq(1 .. MaxFrames) /\ cast \in Nat /\ published \in Nat
        BY Numbers DEF TypeOK
    <2>2. /\ Len(queue) \in Nat /\ Len(queue) > 0 /\ Head(queue) = queue[1]
          /\ Len(queue') = Len(queue) - 1
          /\ \A i \in 1 .. Len(queue') : queue'[i] = queue[i + 1]
        BY <1>1, <2>1, TailOf
    <2>3. run.does = "select" /\ run'.does = "broadcast" /\ run'.with = queue[1]
        BY <1>1, <2>2 DEF Selecting, Working
    <2>4. /\ published = cast + Len(queue)
          /\ \A i \in 1 .. Len(queue) : queue[i] = published - Len(queue) + i
        BY <2>1, <2>2, <2>3 DEF StreamInv, QueueOK
    <2>5. published' = cast' + Len(queue') + 1
        BY <1>1, <2>1, <2>2, <2>4
    <2>6. ASSUME NEW i \in 1 .. Len(queue') PROVE queue'[i] = published' - Len(queue') + i
        <3>1. i + 1 \in 1 .. Len(queue)
            BY <2>2
        <3> QED
            BY <3>1, <1>1, <2>1, <2>2, <2>4
    <2>7. run'.with = cast' + 1
        BY <1>1, <2>1, <2>2, <2>3, <2>4
    <2> QED
        BY <2>3, <2>5, <2>6, <2>7 DEF QueueOK
<1> QED
    BY <1>2, <1>3, <1>4 DEF StreamInv

LEMMA RegisterKeepsAll ==
    ASSUME TypeOK, StreamInv, Register
    PROVE  StreamInv'
<1>1. BrokerSurvives' /\ NewOK'
    BY RegisterKeeps DEF StreamInv
<1>2. run.does = "register" /\ run'.does \in {"gone", "select"}
      /\ UNCHANGED <<out, queue, cast, published>>
    BY DEF Register, Gone, Selecting
<1>3. QueueOK'
    BY <1>2, QueueKept DEF StreamInv
<1>4. OwedOK'
    <2>1. CASE stopped
        BY <2>1, <1>2, OwedKept DEF Register, StreamInv
    <2>2. CASE ~stopped
        <3> DEFINE r == run.with
        <3>1. r \in Requests /\ Registering(r)
            BY <1>2 DEF Registering, TypeOK
        <3>2. clients' = clients \cup {r} /\ seen' = [seen EXCEPT ![r] = cast]
            BY <2>2 DEF Register
        <3> HIDE DEF r
        <3>3. NoFrame(out[r]) /\ r \notin clients
            BY <3>1 DEF StreamInv, NewOK
        <3>4. cast \in Nat
            BY <3>1, ChannelTyped
        <3>5. seen'[r] = cast /\ \A x \in clients : seen'[x] = seen[x]
            BY <3>1, <3>2, <3>3 DEF TypeOK
        <3>6. Frame(out[r]) = {} /\ cast + 1 .. cast = {}
            BY <3>3, <3>4 DEF NoFrame, Frame
        <3>7. InOrder(out[r], cast, cast) /\ cast <= cast
            BY <3>4, <3>6 DEF InOrder
        <3>8. \A x \in clients' : seen'[x] <= cast' /\ InOrder(out'[x], seen'[x], cast')
            BY <3>2, <3>5, <3>7, <1>2 DEF StreamInv, OwedOK
        <3> QED
            BY <3>8 DEF OwedOK
    <2> QED
        BY <2>1, <2>2
<1> QED
    BY <1>1, <1>3, <1>4 DEF StreamInv

LEMMA UnregisterKeeps ==
    ASSUME TypeOK, StreamInv, Unregister
    PROVE  StreamInv'
<1>1. run.does = "unregister" /\ run'.does \in {"gone", "select"}
      /\ UNCHANGED <<stage, out, seen, queue, cast, published>>
    BY DEF Unregister, Gone, Selecting
<1>2. QueueOK'
    BY <1>1, QueueKept DEF StreamInv
<1>3. CASE stopped
    <2>1. UNCHANGED <<clients, shut, crashed>>
        BY <1>3 DEF Unregister
    <2>2. \A x \in Requests : Earlier(x)' => Earlier(x)
        BY <1>1 DEF Earlier
    <2>3. run'.does # "register"
        BY <1>1
    <2>4. BrokerSurvives' /\ NewOK'
        BY <1>1, <2>1, <2>2, <2>3, Kept DEF StreamInv
    <2> QED
        BY <1>1, <1>2, <2>1, <2>4, OwedKept DEF StreamInv
<1>4. CASE ~stopped
    <2> DEFINE S == {run.with} \cap clients
    <2>1. Close(S) /\ clients' = clients \ {run.with}
        BY <1>4 DEF Unregister
    <2>2. clients' \subseteq clients \ S /\ S \subseteq clients
        BY <2>1
    <2>3. run'.does # "register"
        BY <1>1
    <2> HIDE DEF S
    <2>4. BrokerSurvives' /\ NewOK'
        BY <1>1, <2>1, <2>2, <2>3, CloseKeeps DEF StreamInv
    <2>5. OwedOK'
        BY <1>1, <2>2, OwedKept DEF StreamInv
    <2> QED
        BY <1>2, <2>4, <2>5 DEF StreamInv
<1> QED
    BY <1>3, <1>4

LEMMA BroadcastKeeps ==
    ASSUME TypeOK, StreamInv, Broadcast
    PROVE  StreamInv'
<1>1. run.does = "broadcast" /\ run'.does \in {"gone", "select"} /\ run'.does # "register"
      /\ UNCHANGED <<stage, seen, queue, published>>
    BY DEF Broadcast, Gone, Selecting
<1>2. CASE stopped
    <2>1. UNCHANGED <<clients, shut, crashed, out, cast>> /\ run'.does = "gone"
        BY <1>2 DEF Broadcast, Gone
    <2>2. \A x \in Requests : Earlier(x)' => Earlier(x)
        BY <1>1 DEF Earlier
    <2>3. BrokerSurvives' /\ NewOK'
        BY <1>1, <2>1, <2>2, Kept DEF StreamInv
    <2>4. QueueOK'
        BY <2>1 DEF QueueOK
    <2>5. OwedOK'
        BY <1>1, <2>1, OwedKept DEF StreamInv
    <2> QED
        BY <2>3, <2>4, <2>5 DEF StreamInv
<1>3. CASE ~stopped
    <2> DEFINE slow == {c \in clients : Len(out[c]) = Buffer}
    <2>1. /\ out' = [x \in Requests |-> IF x \in clients \ slow THEN Append(out[x], run.with)
                                        ELSE out[x]]
          /\ Close(slow) /\ clients' = clients \ slow /\ cast' = run.with
          /\ run'.does = "select"
        BY <1>3 DEF Broadcast, Selecting
    <2>2. slow \subseteq clients /\ clients \subseteq Requests
        BY DEF TypeOK
    <2> HIDE DEF slow
    <2>3. \A x \in Requests : x \notin clients => out'[x] = out[x]
        BY <2>1
    <2>4. BrokerSurvives' /\ NewOK'
        BY <1>1, <2>1, <2>2, <2>3, CloseKeeps DEF StreamInv
    <2>5. cast \in Nat /\ published \in Nat /\ Len(queue) \in Nat /\ run.with \in 1 .. MaxFrames
        BY <1>1, Numbers DEF TypeOK
    <2>6. /\ published = cast + Len(queue) + 1
          /\ \A i \in 1 .. Len(queue) : queue[i] = published - Len(queue) + i
          /\ run.with = cast + 1
        BY <1>1 DEF StreamInv, QueueOK
    <2>7. QueueOK'
        <3>1. published' = cast' + Len(queue') + 0
            BY <1>1, <2>1, <2>5, <2>6
        <3> QED
            BY <3>1, <1>1, <2>1, <2>6 DEF QueueOK
    <2>8. ASSUME NEW x \in clients' PROVE seen'[x] <= cast' /\ InOrder(out'[x], seen'[x], cast')
        <3>1. x \in clients \ slow /\ x \in Requests
            BY <2>1, <2>2, <2>8
        <3>2. out'[x] = Append(out[x], cast + 1) /\ seen'[x] = seen[x] /\ cast' = cast + 1
            BY <3>1, <2>1, <2>6, <1>1
        <3>3. seen[x] <= cast /\ InOrder(out[x], seen[x], cast)
            BY <3>1 DEF StreamInv, OwedOK
        <3>4. out[x] \in Seq(Nat) /\ seen[x] \in Nat
            BY <3>1, ChannelTyped
        <3>5. InOrder(Append(out[x], cast + 1), seen[x], cast + 1)
            BY <3>3, <3>4, <2>5, <2>6, AppendFrame
        <3> QED
            BY <3>2, <3>3, <3>4, <3>5, <2>5
    <2>9. OwedOK'
        BY <2>8 DEF OwedOK
    <2> QED
        BY <2>4, <2>7, <2>9 DEF StreamInv
<1> QED
    BY <1>2, <1>3

LEMMA StopKeeps ==
    ASSUME TypeOK, StreamInv, StopClients,
           UNCHANGED <<stage, out, seen, run, queue, cast, published>>
    PROVE  StreamInv'
<1>1. Close(clients) /\ clients' = {}
    BY DEF StopClients
<1>2. BrokerSurvives' /\ NewOK'
    BY <1>1, CloseKeeps DEF StreamInv
<1>3. QueueOK'
    BY QueueKept DEF StreamInv
<1>4. OwedOK'
    BY <1>1 DEF OwedOK
<1> QED
    BY <1>2, <1>3, <1>4 DEF StreamInv

LEMMA StreamStep == TypeOK /\ StreamInv /\ [Next]_vars => StreamInv'
<1> SUFFICES ASSUME TypeOK, StreamInv, [Next]_vars PROVE StreamInv'
    OBVIOUS
<1>1. ASSUME NEW r \in Requests, Request(r) \/ LoseClient(r) PROVE StreamInv'
    <2>1. CASE Attach(r)
        <3>1. BrokerSurvives' /\ NewOK'
            BY <2>1, AttachKeeps DEF StreamInv
        <3>2. UNCHANGED <<out, seen, clients, queue, cast, published>>
              /\ run.does = "select" /\ run'.does = "register"
            BY <2>1 DEF Attach, Selecting, Working
        <3>3. QueueOK'
            BY <3>2, QueueKept DEF StreamInv
        <3>4. OwedOK'
            BY <3>2, OwedKept DEF StreamInv
        <3> QED
            BY <3>1, <3>3, <3>4 DEF StreamInv
    <2>2. CASE ~Attach(r)
        BY <2>2, <1>1, RequestHarmless, HarmlessKeeps
    <2> QED
        BY <2>1, <2>2
<1>2. ASSUME NEW r \in Requests, NEW k \in Kinds, Arrive(r, k) PROVE StreamInv'
    <2>1. BrokerSurvives' /\ NewOK'
        BY <1>2, ArriveKeeps DEF StreamInv
    <2>2. /\ UNCHANGED <<clients, run, queue, cast, published>> /\ r \notin clients
          /\ out' = [out EXCEPT ![r] = <<>>] /\ seen' = [seen EXCEPT ![r] = 0]
        BY <1>2 DEF Arrive, Free, brokerVars
    <2>3. \A x \in clients' : out'[x] = out[x] /\ seen'[x] = seen[x]
        BY <2>2 DEF TypeOK
    <2>4. OwedOK'
        BY <2>2, <2>3, OwedKept DEF StreamInv
    <2>5. QueueOK'
        BY <2>2, QueueKept DEF StreamInv
    <2> QED
        BY <2>1, <2>4, <2>5 DEF StreamInv
<1>3. ASSUME NEW r \in Requests, NEW lines \in 0 .. Buffer + 1, TailReads(r, lines) PROVE StreamInv'
    BY <1>3, TailReadsHarmless, HarmlessKeeps
<1>4. CASE WindowEnds \/ Terminate \/ Join \/ JoinTimesOut \/ CutConnections \/ Drained
           \/ StopStream \/ StopLogs \/ ListenerFails \/ NewcomerLeaves \/ UNCHANGED vars
    <2>1. UNCHANGED <<stage, out, shut, seen, crashed, clients, queue, cast, published, run>>
        BY <1>4
        DEF WindowEnds, Terminate, Join, JoinTimesOut, CutConnections, Drained, StopStream,
            StopLogs, ListenerFails, NewcomerLeaves, vars, requestVars, brokerVars
    <2>2. \A x \in Requests : Earlier(x)' => Earlier(x)
        BY <2>1 DEF Earlier
    <2> QED
        BY <2>1, <2>2, SameChannels, HarmlessKeeps
<1>5. CASE RunStops
    <2>1. UNCHANGED <<stage, out, shut, seen, crashed, clients, queue, cast, published>>
          /\ run'.does = "gone"
        BY <1>5 DEF RunStops, Gone, requestVars
    <2>2. \A x \in Requests : Earlier(x)' => Earlier(x)
        BY <2>1 DEF Earlier
    <2>3. run'.does # "register"
        BY <2>1
    <2>4. BrokerSurvives' /\ NewOK'
        BY <2>1, <2>2, <2>3, Kept DEF StreamInv
    <2>5. OwedOK'
        BY <2>1, OwedKept DEF StreamInv
    <2>6. QueueOK'
        BY <2>1 DEF QueueOK
    <2> QED
        BY <2>4, <2>5, <2>6 DEF StreamInv
<1>6. CASE StopFanOut \/ Exit
    <2>1. StopClients /\ UNCHANGED <<stage, out, seen, run, queue, cast, published>>
        BY <1>6 DEF StopFanOut, Exit
    <2> QED
        BY <2>1, StopKeeps
<1>7. CASE Publish
    BY <1>7, PublishKeeps
<1>8. CASE TakeBroadcast
    BY <1>8, TakeBroadcastKeeps
<1>9. CASE Register \/ Unregister \/ Broadcast
    BY <1>9, RegisterKeepsAll, UnregisterKeeps, BroadcastKeeps
<1> QED
    BY <1>1, <1>2, <1>3, <1>4, <1>5, <1>6, <1>7, <1>8, <1>9
    DEF Next, Environment, Broker, GoingDown

-----------------------------------------------------------------------------
LEMMA InitHolds == Init => IInv
<1> SUFFICES ASSUME Init PROVE IInv
    OBVIOUS
<1>1. TypeOK
    BY InitTyped
<1>2. BrokerSurvives /\ OwedOK
    BY DEF Init, BrokerSurvives, OwedOK
<1>3. NewOK
    BY DEF Init, NewOK, Registering, Selecting
<1>4. QueueOK
    <2>1. Len(<<>>) = 0 /\ 1 .. 0 = {}
        OBVIOUS
    <2> QED
        BY <2>1 DEF Init, QueueOK, Selecting
<1>5. GateOK
    BY DEF Init, GateOK
<1> QED
    BY <1>1, <1>2, <1>3, <1>4, <1>5 DEF IInv

(* The invariant is inductive.                                             *)
THEOREM Invariance == Spec => []IInv
<1>1. IInv /\ [Next]_vars => IInv'
    BY TypeStep, StreamStep, GateStep DEF IInv, StreamInv
<1> QED
    BY InitHolds, <1>1, PTL DEF Spec

(* Every variable keeps its type; no channel holds more than it has room   *)
(* for (sse.go, the buffers of attach and of the broadcast queue).         *)
THEOREM TypeCorrect == Spec => []TypeOK
<1>1. IInv => TypeOK
    BY DEF IInv
<1> QED
    BY <1>1, Invariance, PTL

(* A client of the event stream gets every frame that was cast since it    *)
(* was registered, in order, or is dropped (sse.go, run).                  *)
THEOREM NoFrameIsMissed == Spec => []EveryFrame
<1>1. IInv => EveryFrame
    BY OwedIsEveryFrame DEF IInv
<1> QED
    BY <1>1, Invariance, PTL

(* Attach, the loop, a slow client, detach and both stops never close a    *)
(* channel twice, nor does the loop send into a closed one (sse.go).       *)
THEOREM ClosedOnce == Spec => []BrokerSurvives
<1>1. IInv => BrokerSurvives
    BY DEF IInv
<1> QED
    BY <1>1, Invariance, PTL

(* Although Allow and RecordFailure are separate sections, fewer wrong     *)
(* credentials are compared behind a closed gate than the limiter lets in  *)
(* (auth_lockout.go:38-68, server.go).                                     *)
THEOREM GateHolds == Spec => []LateGuesses
<1>1. IInv => LateGuesses
    <2> SUFFICES ASSUME IInv PROVE late < Cardinality(Requests)
        BY DEF LateGuesses
    <2>1. CASE locked
        BY <2>1, ComparingFinite DEF IInv, GateOK
    <2>2. CASE ~locked
        BY <2>2, ComparingFinite DEF IInv, GateOK
    <2> QED
        BY <2>1, <2>2
<1> QED
    BY <1>1, Invariance, PTL

-----------------------------------------------------------------------------
(* Settings.                                                               *)

(* A configuration and a jail, by their fields.                            *)
JailShape(x) ==
    x = [enabled |-> x.enabled, logs |-> x.logs, banTime |-> x.banTime,
         banSet |-> x.banSet, regex |-> x.regex, compiled |-> x.compiled]
ConfShape(c) ==
    /\ c = [banTime |-> c.banTime, rate |-> c.rate, web |-> c.web, jails |-> c.jails,
            file |-> c.file]
    /\ c.jails = [j \in Jail |-> c.jails[j]]
    /\ \A j \in Jail : c.jails[j] # None => JailShape(c.jails[j])

(* What is in force is valid, apart from the jails in S.                   *)
ValidBut(c, S) ==
    \A j \in Jail \ S : c.jails[j] # None /\ c.jails[j].enabled => JailOK(c.jails[j])
Switched == {j \in Jail : states[j] # None}

(* Rollback reads the configuration when there is no backup.               *)
Fresh == exec.kind = "reload" \/ backup = None
OnDisk == LoadedFrom(disk, source)
HomeNames == IF source.kind = "file" THEN {Main} ELSE {None}

(* What can be in the operator's file: a text he saved, or what requests   *)
(* make of one.                                                            *)
OnMain ==
    LET bases == Saved \cup {Empty, Garbled}
    IN  bases \cup {Patched(t, w) : t \in bases, w \in Section}

FilesTyped ==
    /\ source \in [kind : {"file", "directory"}, strict : BOOLEAN]
    /\ disk = [n \in {Main, Over} |-> disk[n]] /\ disk[Main] \in OnMain
    /\ source.kind = "directory" =>
          disk[Main] \in Saved /\ disk[Over] \in SavedOver \cup {None}
    /\ backup \in {None} \cup Backups
WatchTyped ==
    /\ pending \in BOOLEAN
    /\ watch # None =>
          /\ watch = [at |-> watch.at, live |-> watch.live]
          /\ watch.at = Backup \/ (watch.at = Main /\ source.kind = "file")
    /\ pending => watch # None /\ watch.at = Main
ExecTyped ==
    /\ exec = [pc |-> exec.pc, ready |-> exec.ready, loaded |-> exec.loaded,
               kind |-> exec.kind]
    /\ exec.pc \in {"down", "round", "signals", "load", "apply", "push"}
    /\ exec.kind \in {"reload", "rollback"}
    /\ exec.loaded # None =>
          /\ exec.pc = "apply"
          /\ ConfShape(exec.loaded) /\ ValidBut(exec.loaded, {})
          /\ exec.loaded.file \in HomeNames \cup {Backup}
          /\ Fresh => exec.loaded.file \in HomeNames
    /\ signals \in Seq({"reload", "rollback"})
KernelSideTyped ==
    /\ kernel = [rate |-> kernel.rate, ban |-> kernel.ban]
    /\ directives \in Seq(KernelBan \cup {None})
CfgTyped ==
    DaemonUp => /\ ConfShape(cfg) /\ ValidBut(cfg, Switched)
                /\ cfg.file \in HomeNames \cup {Backup}
                /\ cfg.file = Backup => "rollback" \in gap
DownOK ==
    ~DaemonUp => /\ exec = Down /\ \A r \in PutRequest : put[r].pc = "idle"
                 /\ watch = None /\ pending = FALSE /\ directives = <<>> /\ signals = <<>>
PanelOK ==
    /\ states = [j \in Jail |-> states[j]]
    /\ DaemonUp => snapshot = cfg.jails

(* What each place of a request knows: the text it has checked carries its *)
(* section, and would be loaded.                                           *)
PutOK(p) ==
    /\ p = [pc |-> p.pc, web |-> p.web, text |-> p.text, view |-> p.view, there |-> p.there]
    /\ p.pc \in {"idle", "read", "open", "write", "align", "push"}
    /\ p.pc = "read" => p.web \in Section
    /\ p.text # None =>
          /\ source.kind = "file" /\ p.text \in OnMain
          /\ p.text.web = p.web /\ p.web \in Section
          /\ FileLoads[p.text][Main][TRUE] # None
    /\ p.pc \in {"open", "write", "push"} => p.text # None
PutTyped ==
    /\ put = [r \in PutRequest |-> put[r]]
    /\ \A r \in PutRequest : PutOK(put[r])

(* The kernel has what the Config says, unless a push is due; of the ban   *)
(* time only once no directive is on its way.                              *)
KernelOK ==
    /\ DaemonUp /\ exec.pc # "push"
    /\ gap \cap {"late push", "failed push", "late directive"} = {}
    => /\ kernel.rate = Taken(kernel, KernelView(cfg)).rate
       /\ NoneComes(directives) => kernel.ban = Taken(kernel, KernelView(cfg)).ban

(* The Config has what the file says, unless an event of it waits or the   *)
(* executor is about to read it; what it has read is what the file says,   *)
(* unless an event came after.                                             *)
Agrees == OnDisk # None => cfg.rate = OnDisk.rate /\ cfg.web = OnDisk.web
FileOK ==
    /\ DaemonUp /\ (exec.pc \notin {"load", "apply"} \/ ~Fresh)
    /\ gap \cap {"unseen", "rollback", "late alignment"} = {}
    => pending \/ Agrees
LoadedOK ==
    exec.pc = "apply" /\ Fresh /\ "unseen" \notin gap => pending \/ exec.loaded = OnDisk

SettingsInv ==
    /\ FilesTyped /\ WatchTyped /\ ExecTyped /\ KernelSideTyped /\ CfgTyped
    /\ DownOK /\ PanelOK /\ PutTyped /\ KernelOK /\ FileOK /\ LoadedOK

-----------------------------------------------------------------------------
(* Loading                                                                 *)

LEMMA AtOnceIs == \A f : AtOnce(f) = f
BY DEF AtOnce

LEMMA NoneApart ==
    /\ None \notin Nat /\ None \notin Int /\ None # 1
    /\ None \notin {Main, Over, Backup} /\ Main # Over /\ Backup \notin {Main, Over}
    /\ Section \subseteq Nat /\ KernelBan \subseteq Nat \ {0}
    /\ MaxQueue \in Nat \ {0}
BY ConfigAssumption, SettingsAssumption

(* Finalize keeps the sections, and lets only what is valid through.       *)
LEMMA FinalizeGives ==
    ASSUME NEW c, NEW name, Finalize(From(c, name)) # None
    PROVE  /\ From(c, name) # None
           /\ ConfShape(Finalize(From(c, name))) /\ ValidBut(Finalize(From(c, name)), {})
           /\ Finalize(From(c, name)).file = name
           /\ Finalize(From(c, name)).rate = c.rate
           /\ Finalize(From(c, name)).web = c.web
<1> DEFINE f == From(c, name)
           s == SmartDefaults(f)
           r == Compiled(s)
<1>1. f # None /\ Valid(s) /\ Finalize(f) = r
    BY DEF Finalize
<1>2. f = [banTime |-> c.banTime, rate |-> c.rate, web |-> c.web, jails |-> c.jails,
           file |-> name]
    BY <1>1 DEF From
<1>3. /\ s.banTime = c.banTime /\ s.rate = c.rate /\ s.web = c.web /\ s.file = name
      /\ s = [banTime |-> s.banTime, rate |-> s.rate, web |-> s.web, jails |-> s.jails,
              file |-> s.file]
    BY <1>2 DEF SmartDefaults
<1>4. /\ r.banTime = s.banTime /\ r.rate = s.rate /\ r.web = s.web /\ r.file = s.file
      /\ r = [banTime |-> r.banTime, rate |-> r.rate, web |-> r.web, jails |-> r.jails,
              file |-> r.file]
      /\ r.jails = [k \in Jail |->
             IF s.jails[k] = None THEN None
             ELSE [enabled |-> s.jails[k].enabled, logs |-> s.jails[k].logs,
                   banTime |-> s.jails[k].banTime, banSet |-> s.jails[k].banSet,
                   regex |-> s.jails[k].regex,
                   compiled |-> s.jails[k].compiled
                       \/ (s.jails[k].enabled /\ s.jails[k].regex # "bad")]]
    <2> HIDE DEF s
    <2> QED
        BY <1>3, AtOnceIs DEF Compiled
<1>5. ConfShape(r)
    <2> HIDE DEF r, s
    <2>1. r.jails = [j \in Jail |-> r.jails[j]]
        BY <1>4
    <2>2. ASSUME NEW j \in Jail, r.jails[j] # None PROVE JailShape(r.jails[j])
        BY <1>4, <2>2 DEF JailShape
    <2> QED
        BY <1>4, <2>1, <2>2 DEF ConfShape
<1>6. ValidBut(r, {})
    <2> HIDE DEF r, s
    <2> SUFFICES ASSUME NEW j \in Jail, r.jails[j] # None, r.jails[j].enabled
                 PROVE  JailOK(r.jails[j])
        BY DEF ValidBut
    <2> DEFINE x == s.jails[j]
    <2>1. x # None
          /\ r.jails[j] = [enabled |-> x.enabled, logs |-> x.logs, banTime |-> x.banTime,
                           banSet |-> x.banSet, regex |-> x.regex,
                           compiled |-> x.compiled \/ (x.enabled /\ x.regex # "bad")]
        BY <1>4
    <2>2. x.enabled /\ r.jails[j].logs = x.logs /\ r.jails[j].banTime = x.banTime
        <3> HIDE DEF x
        <3> QED BY <2>1
    <2> QED
        BY <1>1, <2>1, <2>2 DEF Valid, JailOK
<1> HIDE DEF r, s, f
<1> QED
    BY <1>1, <1>3, <1>4, <1>5, <1>6 DEF f

LEMMA FileLoadsIs ==
    ASSUME NEW t \in Readable, NEW name \in {Main, Backup}, NEW strict \in BOOLEAN
    PROVE  FileLoads[t][name][strict] = Finalize(LoadFile(t, name, strict))
BY AtOnceIs DEF FileLoads

LEMMA DirectoryLoadsIs ==
    ASSUME NEW t \in Saved, NEW o \in SavedOver \cup {None}, NEW strict \in BOOLEAN
    PROVE  DirectoryLoads[t][o][strict] =
               Finalize(LoadDirectory([n \in {Main, Over} |-> IF n = Main THEN t ELSE o],
                                      strict))
<1> DEFINE F == [u \in Saved |-> [v \in SavedOver \cup {None} |-> [b \in BOOLEAN |->
                   Finalize(LoadDirectory([n \in {Main, Over} |-> IF n = Main THEN u ELSE v],
                                          b))]]]
<1>1. DirectoryLoads = AtOnce(F)
    BY Zenon DEF DirectoryLoads
<1>2. AtOnce(F) = F
    <2> HIDE DEF F
    <2> QED BY AtOnceIs
<1>3. F[t][o][strict] = Finalize(LoadDirectory([n \in {Main, Over} |-> IF n = Main THEN t ELSE o],
                                              strict))
    OBVIOUS
<1> HIDE DEF F
<1> QED
    BY <1>1, <1>2, <1>3

LEMMA FinalizeNone == Finalize(None) = None
BY DEF Finalize

(* A file that loads gives a valid configuration, with the file's section. *)
LEMMA FileGives ==
    ASSUME NEW t \in Readable, NEW name \in {Main, Backup}, NEW strict \in BOOLEAN,
           FileLoads[t][name][strict] # None
    PROVE  /\ ConfShape(FileLoads[t][name][strict])
           /\ ValidBut(FileLoads[t][name][strict], {})
           /\ FileLoads[t][name][strict].file = name
           /\ FileLoads[t][name][strict].web = Given(t.web, 1)
<1> DEFINE p == Parsed(Default, t, FALSE, strict)
<1>1. LoadFile(t, name, strict) # None
    BY FileLoadsIs, FinalizeNone
<1>2. LoadFile(t, name, strict) = From(p, name) /\ p # None
    BY <1>1 DEF LoadFile, From
<1>3. p.web = Given(t.web, 1)
    BY <1>2 DEF Parsed, AppliedWebui, AppliedDdos, AppliedDefaults, Default
<1> HIDE DEF p
<1> QED
    BY <1>2, <1>3, FileLoadsIs, FinalizeGives

LEMMA DirectoryGives ==
    ASSUME NEW t \in Saved, NEW o \in SavedOver \cup {None}, NEW strict \in BOOLEAN,
           DirectoryLoads[t][o][strict] # None
    PROVE  /\ ConfShape(DirectoryLoads[t][o][strict])
           /\ ValidBut(DirectoryLoads[t][o][strict], {})
           /\ DirectoryLoads[t][o][strict].file = None
<1> DEFINE files == [n \in {Main, Over} |-> IF n = Main THEN t ELSE o]
           l == LoadDirectory(files, strict)
           m == Merge({n \in DOMAIN files : files[n] # None}, files, strict)
<1>1. DirectoryLoads[t][o][strict] = Finalize(l)
    BY DirectoryLoadsIs
<1>2. l # None
    BY <1>1, FinalizeNone
<1>3. l = From(m, None)
    BY <1>2 DEF LoadDirectory
<1> HIDE DEF l, m, files
<1> QED
    BY <1>1, <1>3, FinalizeGives

(* What a strict check lets through loads just the same without it.        *)
LEMMA StrictIsStricter ==
    ASSUME NEW t \in Readable, NEW name \in {Main, Backup}, NEW strict \in BOOLEAN,
           FileLoads[t][name][TRUE] # None
    PROVE  FileLoads[t][name][strict] = FileLoads[t][name][TRUE]
<1>1. LoadFile(t, name, TRUE) # None
    BY FileLoadsIs, FinalizeNone
<1>2. Parsed(Default, t, FALSE, TRUE) # None
    BY <1>1 DEF LoadFile, From
<1>3. Parsed(Default, t, FALSE, FALSE) = Parsed(Default, t, FALSE, TRUE)
    BY <1>2 DEF Parsed
<1>4. LoadFile(t, name, strict) = LoadFile(t, name, TRUE)
    BY <1>3 DEF LoadFile
<1> QED
    BY <1>4, FileLoadsIs

(* A text that is patched again is one that was patched once.              *)
LEMMA PatchedOnMain ==
    ASSUME NEW t \in OnMain, NEW w \in Section
    PROVE  Patched(t, w) \in OnMain /\ Patched(t, w) # None /\ Patched(t, w).web = w
<1> DEFINE bases == Saved \cup {Empty, Garbled}
<1>1. Blank \in Texts /\ Empty \in Texts /\ Garbled \in Texts /\ Blank.decodes /\ ~Empty.decodes
      /\ Empty.web = None
    BY DEF Blank, Empty, Garbled, Texts
<1>2. bases \subseteq Texts
    BY <1>1, SettingsAssumption
<1>3. \A b \in Texts, v \in Nat :
          /\ [b EXCEPT !.web = v] \in Texts /\ [b EXCEPT !.web = v].web = v
          /\ [b EXCEPT !.web = v].decodes = b.decodes
          /\ [b EXCEPT !.web = v] # Empty \/ v = None
          /\ \A u \in Nat : [[b EXCEPT !.web = v] EXCEPT !.web = u] = [b EXCEPT !.web = u]
    BY <1>1 DEF Texts
<1> HIDE DEF bases
<1>4. \A b \in Texts, v \in Section :
          Patched(b, v).web = v /\ Patched(b, v) # Empty /\ Patched(b, v) # None
    <2> SUFFICES ASSUME NEW b \in Texts, NEW v \in Section
                 PROVE  /\ Patched(b, v).web = v /\ Patched(b, v) # Empty
                        /\ Patched(b, v) # None
        OBVIOUS
    <2>1. v \in Nat /\ v # None
        BY NoneApart
    <2>2. PICK e \in Texts : Patched(b, v) = [e EXCEPT !.web = v]
        BY <1>1 DEF Patched
    <2>3. Patched(b, v).web = v
        BY <2>2 DEF Texts
    <2>4. Patched(b, v) \in Texts
        BY <2>1, <2>2 DEF Texts
    <2>5. Patched(b, v) # None
        BY <2>4, SettingsAssumption
    <2> QED
        BY <1>1, <2>1, <2>3, <2>5
<1>5. \A b \in Texts, u, v \in Section : Patched(Patched(b, u), v) = Patched(b, v)
    BY <1>1, <1>3, <1>4, NoneApart DEF Patched
<1>6. OnMain = bases \cup {Patched(b, v) : b \in bases, v \in Section}
    BY DEF OnMain, bases
<1>7. CASE t \in bases
    BY <1>2, <1>4, <1>6, <1>7
<1>8. CASE t \notin bases
    <2>1. PICK b \in bases, v \in Section : t = Patched(b, v)
        BY <1>6, <1>8
    <2> QED
        BY <1>2, <1>4, <1>5, <1>6, <2>1
<1> QED
    BY <1>7, <1>8

LEMMA OnMainWritten == OnMain \subseteq Readable
BY DEF OnMain, Readable

-----------------------------------------------------------------------------
(* What is loaded from the disk and from the backup.                       *)

LEMMA OnDiskGives ==
    ASSUME FilesTyped, OnDisk # None
    PROVE  /\ ConfShape(OnDisk) /\ ValidBut(OnDisk, {}) /\ OnDisk.file \in HomeNames
           /\ source.kind = "file" => OnDisk.web = Given(disk[Main].web, 1)
<1>1. source.kind \in {"file", "directory"} /\ source.strict \in BOOLEAN
      /\ disk[Main] \in Readable
    BY OnMainWritten DEF FilesTyped
<1>2. CASE source.kind = "file"
    <2>1. OnDisk = FileLoads[disk[Main]][Main][source.strict]
        BY <1>2 DEF OnDisk, LoadedFrom
    <2>2. OnDisk.file = Main /\ OnDisk.web = Given(disk[Main].web, 1)
          /\ ConfShape(OnDisk) /\ ValidBut(OnDisk, {})
        BY <1>1, <2>1, FileGives
    <2> QED
        BY <1>2, <2>2 DEF HomeNames
<1>3. CASE source.kind = "directory"
    <2>1. OnDisk = DirectoryLoads[disk[Main]][disk[Over]][source.strict]
        BY <1>3 DEF OnDisk, LoadedFrom
    <2>2. disk[Main] \in Saved /\ disk[Over] \in SavedOver \cup {None}
        BY <1>3 DEF FilesTyped
    <2>3. OnDisk.file = None /\ ConfShape(OnDisk) /\ ValidBut(OnDisk, {})
        BY <1>1, <2>1, <2>2, DirectoryGives
    <2> QED
        BY <1>3, <2>3 DEF HomeNames
<1> QED
    BY <1>1, <1>2, <1>3

LEMMA RolledGives ==
    ASSUME FilesTyped
    PROVE  /\ backup = None => RolledBack(disk, source) = OnDisk
           /\ RolledBack(disk, source) # None =>
                 /\ ConfShape(RolledBack(disk, source))
                 /\ ValidBut(RolledBack(disk, source), {})
                 /\ RolledBack(disk, source).file \in HomeNames \cup {Backup}
<1>1. backup = None => RolledBack(disk, source) = OnDisk
    BY DEF RolledBack, OnDisk
<1>2. ASSUME backup # None, RolledBack(disk, source) # None
      PROVE  /\ ConfShape(RolledBack(disk, source))
             /\ ValidBut(RolledBack(disk, source), {})
             /\ RolledBack(disk, source).file = Backup
    <2>1. RolledBack(disk, source) = FileLoads[backup][Backup][source.strict]
        BY <1>2 DEF RolledBack
    <2>2. backup \in Readable /\ source.strict \in BOOLEAN
        BY <1>2 DEF FilesTyped, Readable
    <2> QED
        BY <1>2, <2>1, <2>2, FileGives
<1> QED
    BY <1>1, <1>2, OnDiskGives

-----------------------------------------------------------------------------
(* What a step that does not touch its variables leaves true.              *)

LEMMA FilesStay ==
    ASSUME FilesTyped, UNCHANGED <<source, disk, backup>> PROVE FilesTyped'
BY DEF FilesTyped

LEMMA WatchStays ==
    ASSUME WatchTyped, UNCHANGED <<source, watch, pending>> PROVE WatchTyped'
BY DEF WatchTyped

LEMMA ExecStays ==
    ASSUME ExecTyped, UNCHANGED <<source, backup, exec, signals>> PROVE ExecTyped'
BY DEF ExecTyped, HomeNames, Fresh

LEMMA KernelSideStays ==
    ASSUME KernelSideTyped, UNCHANGED <<kernel, directives>> PROVE KernelSideTyped'
BY DEF KernelSideTyped

LEMMA CfgStays ==
    ASSUME CfgTyped, UNCHANGED <<source, cfg, states>>, DaemonUp' => DaemonUp,
           "rollback" \in gap => "rollback" \in gap'
    PROVE  CfgTyped'
BY DEF CfgTyped, HomeNames, Switched

LEMMA DownStays ==
    ASSUME DownOK, UNCHANGED <<exec, put, watch, pending, directives, signals>>
    PROVE  DownOK'
BY DEF DownOK, DaemonUp

LEMMA StillUp == ASSUME DaemonUp' PROVE DownOK'
BY DEF DownOK

LEMMA PanelStays ==
    ASSUME PanelOK, UNCHANGED <<states, cfg, snapshot>>, DaemonUp' => DaemonUp PROVE PanelOK'
BY DEF PanelOK

LEMMA PutsStay ==
    ASSUME PutTyped, UNCHANGED <<source, put>> PROVE PutTyped'
BY DEF PutTyped, PutOK

LateKernel == {"late push", "failed push", "late directive"}
LateFile == {"unseen", "rollback", "late alignment"}

LEMMA KernelStays ==
    ASSUME KernelOK, UNCHANGED <<cfg, kernel, directives>>, DaemonUp' => DaemonUp,
           exec.pc = "push" => exec'.pc = "push", gap \cap LateKernel \subseteq gap'
    PROVE  KernelOK'
BY DEF KernelOK, LateKernel

LEMMA FileStays ==
    ASSUME FileOK, UNCHANGED <<source, backup, disk, cfg, pending>>,
           UNCHANGED <<exec.pc, exec.kind>>, gap \cap LateFile \subseteq gap'
    PROVE  FileOK'
BY DEF FileOK, LateFile, Fresh, Agrees, OnDisk, DaemonUp

LEMMA LoadedStays ==
    ASSUME LoadedOK, UNCHANGED <<source, backup, disk, pending, exec>>,
           gap \cap LateFile \subseteq gap'
    PROVE  LoadedOK'
BY DEF LoadedOK, LateFile, Fresh, OnDisk

-----------------------------------------------------------------------------
(* The watches                                                             *)

(* What is watched stays among the files, and an event is only dropped     *)
(* with the watch of the operator's file.                                  *)
LEMMA RewatchGives ==
    ASSUME WatchTyped, NEW c, Rewatch(c), c.file \in HomeNames \cup {Backup},
           source.kind \in {"file", "directory"}, UNCHANGED source
    PROVE  /\ WatchTyped'
           /\ c.file # Backup => pending' = pending
<1>1. watch' = Reconciled(c) /\ pending' = (pending /\ watch' = watch)
    BY DEF Rewatch
<1>2. CASE c.file = None
    <2>1. watch' = None /\ source.kind = "directory"
        BY <1>1, <1>2, NoneApart DEF Reconciled, HomeNames
    <2> QED
        BY <1>1, <1>2, <2>1, NoneApart DEF WatchTyped
<1>3. CASE c.file # None
    <2>1. c.file = Backup \/ (c.file = Main /\ source.kind = "file")
        BY <1>3 DEF HomeNames
    <2>2. CASE watch # None /\ watch.at = c.file
        BY <1>1, <1>3, <2>2 DEF Reconciled, WatchTyped
    <2>3. CASE ~(watch # None /\ watch.at = c.file)
        <3>1. watch' \in {None, [at |-> c.file, live |-> TRUE]}
            BY <1>1, <1>3, <2>3 DEF Reconciled
        <3>2. watch' = watch => watch = None
            BY <2>3, <3>1 DEF WatchTyped
        <3>3. c.file # Backup => pending = FALSE
            BY <2>1, <2>3 DEF WatchTyped
        <3>4. watch' # None => watch' = [at |-> watch'.at, live |-> watch'.live]
                               /\ watch'.at = c.file
            BY <3>1
        <3> QED
            BY <1>1, <2>1, <3>2, <3>3, <3>4 DEF WatchTyped
    <2> QED
        BY <2>2, <2>3
<1> QED
    BY <1>2, <1>3

-----------------------------------------------------------------------------
(* The invariant at the start                                              *)

LEMMA InitSettled == ASSUME SettingsInit PROVE SettingsInv
<1>1. cfg = None /\ watch = None /\ pending = FALSE /\ signals = <<>> /\ exec = Down
      /\ put = [r \in PutRequest |-> NoPut] /\ states = NoStates /\ directives = <<>>
    BY DEF SettingsInit
<1>2. FilesTyped
    <2>1. /\ source \in [kind : {"file", "directory"}, strict : BOOLEAN]
          /\ disk \in [{Main, Over} -> Saved \cup SavedOver \cup {None}]
          /\ disk[Main] \in Saved
          /\ disk[Over] \in (IF source.kind = "file" THEN {None} ELSE SavedOver \cup {None})
          /\ backup \in {None} \cup Backups
        BY DEF SettingsInit
    <2> QED
        BY <2>1 DEF FilesTyped, OnMain
<1>3. WatchTyped /\ CfgTyped /\ DownOK /\ KernelOK /\ FileOK
    BY <1>1 DEF WatchTyped, CfgTyped, DownOK, KernelOK, FileOK, DaemonUp, Down, Idle, NoPut
<1>4. ExecTyped /\ LoadedOK
    <2>1. exec = [pc |-> "down", ready |-> FALSE, loaded |-> None, kind |-> "reload"]
        BY <1>1 DEF Down, Idle
    <2>2. <<>> \in Seq({"reload", "rollback"})
        OBVIOUS
    <2> QED
        BY <1>1, <2>1, <2>2 DEF ExecTyped, LoadedOK
<1>5. KernelSideTyped
    BY DEF SettingsInit, KernelSideTyped
<1>6. PanelOK
    BY <1>1 DEF PanelOK, NoStates, DaemonUp, Down, Idle
<1>7. PutTyped
    BY <1>1 DEF PutTyped, PutOK, NoPut
<1> QED
    BY <1>2, <1>3, <1>4, <1>5, <1>6, <1>7 DEF SettingsInv

-----------------------------------------------------------------------------
(* The daemon and the operator                                             *)

LEMMA TakenTwice ==
    ASSUME NEW k, NEW v PROVE Taken(Taken(k, v), v) = Taken(k, v)
BY DEF Taken

LEMMA StartSettled == ASSUME SettingsInv, Start PROVE SettingsInv'
<1> USE DEF SettingsInv
<1> DEFINE c == OnDisk
<1>1. ~DaemonUp /\ Startable(c) /\ exec' = Idle /\ cfg' = c /\ snapshot' = c.jails /\ Rewatch(c)
      /\ (\/ kernel' = Taken(kernel, KernelView(c)) /\ gap' = {}
          \/ UNCHANGED kernel /\ gap' = {"failed push"})
    BY DEF Start, OnDisk, Published
<1>2. UNCHANGED <<source, backup, disk, signals, put, states, directives, ops>>
    BY DEF Start, world
<1>3. c # None
    BY <1>1 DEF Startable
<1>4. ConfShape(c) /\ ValidBut(c, {}) /\ c.file \in HomeNames
    BY <1>3, OnDiskGives
<1> HIDE DEF c
<1>5. DaemonUp' /\ exec'.pc = "round"
    BY <1>1 DEF Idle, DaemonUp
<1>6. FilesTyped' /\ PutTyped'
    BY <1>2, FilesStay, PutsStay
<1>7. ExecTyped'
    BY <1>1, <1>2 DEF ExecTyped, Idle
<1>8. source.kind \in {"file", "directory"}
    BY DEF FilesTyped
<1>9. WatchTyped'
    BY <1>1, <1>2, <1>4, <1>8, RewatchGives
<1>10. KernelSideTyped'
    BY <1>1, <1>2 DEF KernelSideTyped, Taken
<1>11. CfgTyped'
    <2>1. c.file # Backup
        BY <1>4, NoneApart DEF HomeNames
    <2> QED
        BY <1>1, <1>2, <1>3, <1>4, <2>1 DEF CfgTyped, HomeNames, ValidBut
<1>12. DownOK' /\ PanelOK'
    BY <1>1, <1>2, <1>5 DEF DownOK, PanelOK
<1>13. KernelOK'
    BY <1>1, TakenTwice DEF KernelOK
<1>14. FileOK' /\ LoadedOK'
    <2>1. OnDisk' = c
        BY <1>2 DEF c, OnDisk
    <2> QED
        BY <1>1, <1>5, <2>1 DEF FileOK, LoadedOK, Agrees
<1> QED
    BY <1>6, <1>7, <1>9, <1>10, <1>11, <1>12, <1>13, <1>14

LEMMA CrashSettled == ASSUME SettingsInv, Crash PROVE SettingsInv'
<1> USE DEF SettingsInv
<1>1. /\ cfg' = None /\ watch' = None /\ pending' = FALSE /\ signals' = <<>>
      /\ exec' = Down /\ put' = [r \in PutRequest |-> NoPut]
      /\ states' = NoStates /\ directives' = <<>>
      /\ UNCHANGED <<source, backup, disk, kernel>>
    BY DEF Crash, world
<1>2. FilesTyped' /\ KernelSideTyped'
    BY <1>1, FilesStay DEF KernelSideTyped
<1>3. (WatchTyped /\ CfgTyped /\ DownOK /\ KernelOK /\ FileOK)'
    BY <1>1 DEF WatchTyped, CfgTyped, DownOK, KernelOK, FileOK, DaemonUp, Down, Idle, NoPut
<1>4. ExecTyped' /\ LoadedOK'
    <2>1. exec' = [pc |-> "down", ready |-> FALSE, loaded |-> None, kind |-> "reload"]
        BY <1>1 DEF Down, Idle
    <2>2. <<>> \in Seq({"reload", "rollback"})
        OBVIOUS
    <2> QED
        BY <1>1, <2>1, <2>2 DEF ExecTyped, LoadedOK
<1>5. PanelOK' /\ PutTyped'
    BY <1>1 DEF PanelOK, NoStates, DaemonUp, PutTyped, PutOK, NoPut, Down, Idle
<1> QED
    BY <1>2, <1>3, <1>4, <1>5

(* A save: an event of the watch, or the history tells.                    *)
LEMMA SavedUnseen ==
    ASSUME FileOK, LoadedOK, NEW n, UNCHANGED <<source, backup, cfg, exec>>,
           pending' = (pending \/ Watched(n)), gap' = gap \cup Unseen(n)
    PROVE  FileOK' /\ LoadedOK'
<1>1. DaemonUp => pending' \/ "unseen" \in gap'
    BY DEF Unseen
<1> QED
    BY <1>1 DEF FileOK, LoadedOK, DaemonUp, Fresh

LEMMA SavedFiles ==
    ASSUME FilesTyped, NEW n \in Files, NEW t \in Texts4(n),
           disk' = [disk EXCEPT ![n] = t], UNCHANGED <<source, backup>>
    PROVE  FilesTyped'
<1>1. n \in {Main, Over} /\ (n = Over => source.kind = "directory")
    BY NoneApart DEF Files, FilesTyped
<1>2. n = Main => t \in Saved /\ t \in OnMain
    BY DEF Texts4, OnMain
<1>3. n = Over => t \in SavedOver
    BY NoneApart DEF Texts4
<1>4. disk' = [m \in {Main, Over} |-> IF m = n THEN t ELSE disk[m]]
    BY DEF FilesTyped
<1> QED
    BY <1>1, <1>2, <1>3, <1>4, NoneApart DEF FilesTyped

LEMMA SavedWatch ==
    ASSUME WatchTyped, NEW n \in Files, pending' = (pending \/ Watched(n)),
           source.kind \in {"file", "directory"}, UNCHANGED source,
           watch' = watch \/ (watch # None /\ watch' = [watch EXCEPT !.live = FALSE])
    PROVE  WatchTyped'
<1>1. Watched(n) => watch # None /\ watch.at = n
    BY DEF Watched
<1>2. Watched(n) => n = Main
    BY <1>1, NoneApart DEF Files, WatchTyped
<1>3. watch' = watch \/ (/\ watch # None /\ watch' # None
                           /\ watch' = [at |-> watch.at, live |-> FALSE])
    <2>1. watch # None => watch.at \in {Main, Backup}
        BY DEF WatchTyped
    <2>2. ASSUME NEW a \in {Main, Backup} PROVE [at |-> a, live |-> FALSE] # None
        <3>1. [at |-> a, live |-> FALSE] \in [at : {Main, Backup}, live : BOOLEAN]
            OBVIOUS
        <3>2. None \notin [at : {Main, Backup}, live : BOOLEAN]
            BY SettingsAssumption
        <3> QED
            BY <3>1, <3>2
    <2> QED
        BY <2>1, <2>2 DEF WatchTyped
<1> QED
    BY <1>1, <1>2, <1>3 DEF WatchTyped

LEMMA InPlaceSettled ==
    ASSUME SettingsInv, NEW n \in Files, NEW t \in Texts4(n), SaveInPlace(n, t)
    PROVE  SettingsInv'
<1> USE DEF SettingsInv
<1>1. /\ disk' = [disk EXCEPT ![n] = t] /\ pending' = (pending \/ Watched(n))
      /\ gap' = gap \cup Unseen(n)
      /\ UNCHANGED <<source, backup, cfg, watch, signals, exec, put, states, snapshot,
                     kernel, directives>>
    BY DEF SaveInPlace, world
<1>2. DaemonUp' = DaemonUp /\ gap \subseteq gap'
    BY <1>1 DEF DaemonUp
<1>3. FilesTyped' /\ FileOK' /\ LoadedOK'
    BY <1>1, SavedFiles, SavedUnseen
<1>4. WatchTyped'
    BY <1>1, SavedWatch DEF FilesTyped
<1>5. (ExecTyped /\ KernelSideTyped /\ PutTyped /\ PanelOK)'
    BY <1>1, <1>2, ExecStays, KernelSideStays, PutsStay, PanelStays
<1>6. CfgTyped' /\ KernelOK'
    BY <1>1, <1>2, CfgStays, KernelStays
<1>7. DownOK'
    BY <1>1, <1>2 DEF DownOK, Watched
<1> QED
    BY <1>3, <1>4, <1>5, <1>6, <1>7

LEMMA RenameSettled ==
    ASSUME SettingsInv, NEW n \in Files, NEW t \in Texts4(n), SaveByRename(n, t)
    PROVE  SettingsInv'
<1> USE DEF SettingsInv
<1>1. /\ disk' = [disk EXCEPT ![n] = t] /\ pending' = (pending \/ Watched(n))
      /\ watch' = IF Watched(n) THEN [watch EXCEPT !.live = FALSE] ELSE watch
      /\ put' = IF n = Main THEN [r \in PutRequest |-> [put[r] EXCEPT !.there = FALSE]] ELSE put
      /\ gap' = gap \cup Unseen(n)
      /\ UNCHANGED <<source, backup, cfg, signals, exec, states, snapshot, kernel, directives>>
    BY DEF SaveByRename, world
<1>2. DaemonUp' = DaemonUp /\ gap \subseteq gap'
    BY <1>1 DEF DaemonUp
<1>3. FilesTyped' /\ FileOK' /\ LoadedOK'
    BY <1>1, SavedFiles, SavedUnseen
<1>4. WatchTyped'
    BY <1>1, SavedWatch DEF FilesTyped, Watched
<1>5. (ExecTyped /\ KernelSideTyped /\ PanelOK)'
    BY <1>1, <1>2, ExecStays, KernelSideStays, PanelStays
<1>6. CfgTyped' /\ KernelOK'
    BY <1>1, <1>2, CfgStays, KernelStays
<1>7. DownOK'
    <2>1. ASSUME NEW r \in PutRequest PROVE put'[r].pc = put[r].pc
        BY <1>1 DEF PutTyped, PutOK
    <2> QED
        BY <1>1, <1>2, <2>1 DEF DownOK, Watched
<1>8. PutTyped'
    <2>1. ASSUME NEW r \in PutRequest PROVE PutOK(put'[r])
        <3>1. PutOK(put[r]) /\ put'[r] \in {put[r], [put[r] EXCEPT !.there = FALSE]}
            BY <1>1 DEF PutTyped
        <3> QED
            BY <3>1 DEF PutOK
    <2>2. put' = [r \in PutRequest |-> put'[r]]
        BY <1>1 DEF PutTyped
    <2> QED
        BY <1>1, <2>1, <2>2 DEF PutTyped, PutOK
<1> QED
    BY <1>3, <1>4, <1>5, <1>6, <1>7, <1>8

LEMMA SignalSettled ==
    ASSUME SettingsInv, NEW s \in {"reload", "rollback"}, Signal(s)
    PROVE  SettingsInv'
<1> USE DEF SettingsInv
<1>1. /\ DaemonUp /\ signals' = Append(signals, s)
      /\ UNCHANGED <<source, backup, disk, cfg, watch, pending, exec, put, states, snapshot,
                     kernel, directives, gap>>
    BY DEF Signal, world
<1>2. DaemonUp' /\ DaemonUp
    BY <1>1 DEF DaemonUp
<1>3. signals' \in Seq({"reload", "rollback"})
    BY <1>1, AppendProperties DEF ExecTyped
<1>4. ExecTyped'
    BY <1>1, <1>3 DEF ExecTyped, HomeNames, Fresh
<1>5. (FilesTyped /\ WatchTyped /\ KernelSideTyped /\ CfgTyped /\ DownOK /\ PanelOK)'
    BY <1>1, <1>2, FilesStay, WatchStays, KernelSideStays, CfgStays, StillUp, PanelStays
<1>6. (PutTyped /\ KernelOK /\ FileOK /\ LoadedOK)'
    BY <1>1, <1>2, PutsStay, KernelStays, FileStays, LoadedStays
<1> QED
    BY <1>4, <1>5, <1>6

LEMMA BanTimeSettled ==
    ASSUME SettingsInv, NEW v \in KernelBan, WriteBanTime(v)
    PROVE  SettingsInv'
<1> USE DEF SettingsInv
<1>1. /\ kernel' = [kernel EXCEPT !.ban = v]
      /\ directives' = IF DaemonUp /\ Room THEN Append(directives, v) ELSE directives
      /\ gap' = IF DaemonUp /\ NoneComes(directives') THEN gap \cup {"late directive"} ELSE gap
      /\ UNCHANGED <<source, backup, disk, cfg, watch, pending, signals, exec, put, states,
                     snapshot>>
    BY DEF WriteBanTime, world
<1>2. DaemonUp' = DaemonUp /\ gap \subseteq gap' /\ gap' \subseteq gap \cup {"late directive"}
    BY <1>1 DEF DaemonUp
<1>3. kernel'.rate = kernel.rate /\ kernel' = [rate |-> kernel.rate, ban |-> v]
    BY <1>1 DEF KernelSideTyped
<1>4. directives' \in Seq(KernelBan \cup {None})
    BY <1>1, AppendProperties DEF KernelSideTyped
<1>5. KernelSideTyped'
    BY <1>3, <1>4 DEF KernelSideTyped
<1>6. (FilesTyped /\ WatchTyped /\ ExecTyped /\ CfgTyped /\ PanelOK /\ PutTyped)'
    BY <1>1, <1>2, FilesStay, WatchStays, ExecStays, CfgStays, PanelStays, PutsStay
<1>7. DownOK'
    BY <1>1, <1>2 DEF DownOK
<1>8. FileOK' /\ LoadedOK'
    BY <1>1, FileStays, LoadedStays
<1>9. KernelOK'
    BY <1>1, <1>2, <1>3 DEF KernelOK, Taken
<1> QED
    BY <1>5, <1>6, <1>7, <1>8, <1>9

LEMMA RejectionSettled == ASSUME SettingsInv, RejectCommand PROVE SettingsInv'
<1> USE DEF SettingsInv
<1>1. /\ DaemonUp /\ directives' = Append(directives, None)
      /\ UNCHANGED <<source, backup, disk, cfg, watch, pending, signals, exec, put, states,
                     snapshot, kernel, gap>>
    BY DEF RejectCommand, world
<1>2. DaemonUp'
    BY <1>1 DEF DaemonUp
<1>3. KernelSideTyped'
    BY <1>1, AppendProperties DEF KernelSideTyped
<1>4. NoneComes(directives') => NoneComes(directives)
    <2> SUFFICES ASSUME NoneComes(directives'), NEW k \in DOMAIN directives
                 PROVE  directives[k] = None
        BY DEF NoneComes
    <2>1. k \in 1 .. Len(directives) /\ Len(directives) \in Nat
        BY DEF KernelSideTyped
    <2>2. DOMAIN directives' = 1 .. Len(directives) + 1 /\ directives'[k] = directives[k]
        BY <1>1, <2>1, AppendProperties DEF KernelSideTyped
    <2> QED
        BY <2>1, <2>2 DEF NoneComes
<1>5. KernelOK'
    BY <1>1, <1>2, <1>4 DEF KernelOK
<1>6. (FilesTyped /\ WatchTyped /\ ExecTyped /\ CfgTyped /\ PanelOK /\ PutTyped)'
    BY <1>1, <1>2, FilesStay, WatchStays, ExecStays, CfgStays, PanelStays, PutsStay
<1>7. (DownOK /\ FileOK /\ LoadedOK)'
    BY <1>1, <1>2, StillUp, FileStays, LoadedStays
<1> QED
    BY <1>3, <1>5, <1>6, <1>7

LEMMA ToggleSettled ==
    ASSUME SettingsInv, NEW k \in Jail, NEW b \in BOOLEAN, UpdateJail(k, b)
    PROVE  SettingsInv'
<1> USE DEF SettingsInv
<1>1. /\ DaemonUp /\ states' = [states EXCEPT ![k] = b]
      /\ UNCHANGED <<source, backup, disk, cfg, watch, pending, signals, exec, put, snapshot,
                     kernel, directives, gap>>
    BY DEF UpdateJail, world
<1>2. DaemonUp' /\ DaemonUp
    BY <1>1 DEF DaemonUp
<1>3. PanelOK'
    BY <1>1, <1>2 DEF PanelOK
<1>4. CfgTyped'
    <2>1. Switched \subseteq Switched'
        <3>1. b # None
            BY SettingsAssumption
        <3> QED
            BY <1>1, <3>1 DEF Switched, PanelOK
    <2> QED
        <3>1. CfgTyped => ValidBut(cfg, Switched) \/ ~DaemonUp
            BY DEF CfgTyped
        <3>2. ValidBut(cfg, Switched)'
            BY <1>1, <1>2, <2>1, <3>1 DEF ValidBut
        <3>3. UNCHANGED <<cfg, source, gap>>
            BY <1>1
        <3>4. (ConfShape(cfg) /\ cfg.file \in HomeNames \cup {Backup}
                  /\ (cfg.file = Backup => "rollback" \in gap))'
            BY <1>2, <3>3 DEF CfgTyped, HomeNames
        <3> QED
            BY <3>2, <3>4 DEF CfgTyped
<1>5. (FilesTyped /\ WatchTyped /\ ExecTyped /\ KernelSideTyped /\ DownOK)'
    BY <1>1, <1>2, FilesStay, WatchStays, ExecStays, KernelSideStays, StillUp
<1>6. (PutTyped /\ KernelOK /\ FileOK /\ LoadedOK)'
    BY <1>1, <1>2, PutsStay, KernelStays, FileStays, LoadedStays
<1> QED
    BY <1>3, <1>4, <1>5, <1>6

-----------------------------------------------------------------------------
(* PUT /api/v2/config                                                      *)

LEMMA PutMoves ==
    ASSUME PutTyped, NEW r \in PutRequest, NEW p, PutOK(p), UNCHANGED source,
           put' = [put EXCEPT ![r] = p]
    PROVE  PutTyped'
<1>1. \A s \in PutRequest : put'[s] = IF s = r THEN p ELSE put[s]
    BY DEF PutTyped
<1>2. put' = [s \in PutRequest |-> put'[s]]
    BY <1>1 DEF PutTyped
<1> QED
    BY <1>1, <1>2 DEF PutTyped, PutOK

(* A request that is under way has a daemon.                               *)
LEMMA PutIsUp ==
    ASSUME DownOK, NEW r \in PutRequest, put[r].pc # "idle" PROVE DaemonUp
BY DEF DownOK

(* The steps of a request that change nothing else.                        *)
LEMMA PutOnly ==
    ASSUME SettingsInv, DaemonUp, NEW r \in PutRequest, NEW p, PutOK(p),
           put' = [put EXCEPT ![r] = p],
           UNCHANGED <<source, backup, disk, cfg, watch, pending, signals, exec, states,
                       snapshot, kernel, directives, gap>>
    PROVE  SettingsInv'
<1> USE DEF SettingsInv
<1>1. DaemonUp'
    BY DEF DaemonUp
<1>2. PutTyped'
    BY PutMoves
<1>3. (FilesTyped /\ WatchTyped /\ ExecTyped /\ KernelSideTyped /\ CfgTyped)'
    BY <1>1, FilesStay, WatchStays, ExecStays, KernelSideStays, CfgStays
<1>4. (DownOK /\ PanelOK)'
    BY <1>1, StillUp, PanelStays
<1>5. (KernelOK /\ FileOK /\ LoadedOK)'
    BY <1>1, KernelStays, FileStays, LoadedStays
<1> QED
    BY <1>2, <1>3, <1>4, <1>5

LEMMA NoPutOK == PutOK(NoPut)
BY DEF PutOK, NoPut

(* What the steps of a request make of it.                                 *)
LEMMA PutIs ==
    ASSUME NEW z, NEW pc \in {"idle", "read", "open", "write", "align", "push"}, NEW w,
           NEW text, NEW view, NEW there,
           z = [pc |-> pc, web |-> w, text |-> text, view |-> view, there |-> there],
           pc = "read" => w \in Section, pc \in {"open", "write", "push"} => text # None,
           text # None => /\ source.kind = "file" /\ text \in OnMain
                          /\ text.web = w /\ w \in Section
                          /\ FileLoads[text][Main][TRUE] # None
    PROVE  PutOK(z)
<1>1. /\ z.pc = pc /\ z.web = w /\ z.text = text
      /\ z = [pc |-> z.pc, web |-> z.web, text |-> z.text, view |-> z.view,
              there |-> z.there]
    OBVIOUS
<1> QED
    BY <1>1 DEF PutOK

LEMMA StartedOK ==
    ASSUME NEW z, NEW pc, NEW w, z = [NoPut EXCEPT !.pc = pc, !.web = w],
           pc = "align" \/ (pc = "read" /\ w \in Section)
    PROVE  PutOK(z)
<1>1. z = [pc |-> pc, web |-> w, text |-> None, view |-> None, there |-> FALSE]
    BY DEF NoPut
<1> QED
    BY <1>1, PutIs

LEMMA ReadIs ==
    ASSUME NEW q, PutOK(q), NEW text, NEW view, NEW z,
           z = [q EXCEPT !.pc = "open", !.text = text, !.view = view]
    PROVE  z = [pc |-> "open", web |-> q.web, text |-> text, view |-> view,
                there |-> q.there]
BY DEF PutOK

LEMMA OpenedOK ==
    ASSUME NEW q, PutOK(q), q.text # None, NEW z,
           z = [q EXCEPT !.pc = "write", !.there = TRUE]
    PROVE  PutOK(z)
<1>1. z = [pc |-> "write", web |-> q.web, text |-> q.text, view |-> q.view, there |-> TRUE]
    BY DEF PutOK
<1> QED
    BY <1>1 DEF PutOK

LEMMA MovedOK ==
    ASSUME NEW q, PutOK(q), q.text # None, NEW pc \in {"align", "push"}, NEW z,
           z = [q EXCEPT !.pc = pc]
    PROVE  PutOK(z)
<1>1. z = [pc |-> pc, web |-> q.web, text |-> q.text, view |-> q.view, there |-> q.there]
    BY DEF PutOK
<1> QED
    BY <1>1 DEF PutOK

LEMMA PutStartsSettled ==
    ASSUME SettingsInv, NEW r \in PutRequest, NEW w \in Section \cup {None},
           PutStarts(r, w)
    PROVE  SettingsInv'
<1> DEFINE p == [NoPut EXCEPT !.pc = IF w = None THEN "align" ELSE "read",
                              !.web = Updated(cfg.web, w)]
<1>1. /\ DaemonUp /\ put' = [put EXCEPT ![r] = p]
      /\ UNCHANGED <<source, backup, disk, cfg, watch, pending, signals, exec, states,
                     snapshot, kernel, directives, gap>>
    BY DEF PutStarts, world
<1>2. w # None => Updated(cfg.web, w) = w
    BY DEF Updated, Given
<1>3. PutOK(p)
    BY <1>2, StartedOK
<1> HIDE DEF p
<1> QED
    BY <1>1, <1>3, PutOnly

LEMMA PutReadsSettled ==
    ASSUME SettingsInv, NEW r \in PutRequest, PutReads(r) PROVE SettingsInv'
<1> DEFINE text == Patched(disk[Main], put[r].web)
           p == [put[r] EXCEPT !.pc = "open", !.text = text, !.view = KernelView(Checked(text))]
<1>1. /\ put[r].pc = "read"
      /\ \/ put' = [put EXCEPT ![r] = NoPut]
         \/ /\ source.kind # "directory" /\ Checked(text) # None
            /\ put' = [put EXCEPT ![r] = p]
      /\ UNCHANGED <<source, backup, disk, cfg, watch, pending, signals, exec, states,
                     snapshot, kernel, directives, gap>>
    BY DEF PutReads, PutEnds, world
<1>2. DaemonUp
    BY <1>1, PutIsUp DEF SettingsInv
<1>3. CASE put' = [put EXCEPT ![r] = NoPut]
    BY <1>1, <1>2, <1>3, NoPutOK, PutOnly
<1>4. CASE /\ source.kind # "directory" /\ Checked(text) # None
           /\ put' = [put EXCEPT ![r] = p]
    <2>1. PutOK(put[r]) /\ put[r].web \in Section
        BY <1>1 DEF SettingsInv, PutTyped, PutOK
    <2>2. source.kind = "file" /\ disk[Main] \in OnMain
        BY <1>4 DEF SettingsInv, FilesTyped
    <2>3. text \in OnMain /\ text # None /\ text.web = put[r].web
        BY <2>1, <2>2, PatchedOnMain
    <2>4. FileLoads[text][Main][TRUE] # None
        BY <1>4 DEF Checked
    <2> HIDE DEF text
    <2>5. p = [pc |-> "open", web |-> put[r].web, text |-> text,
               view |-> KernelView(Checked(text)), there |-> put[r].there]
        BY <2>1, ReadIs
    <2> HIDE DEF p
    <2>6. PutOK(p)
        BY <2>1, <2>2, <2>3, <2>4, <2>5, PutIs
    <2> QED
        BY <1>1, <1>2, <1>4, <2>6, PutOnly
<1> QED
    BY <1>1, <1>3, <1>4

(* Both halves of os.WriteFile: the file, and the event.                   *)
LEMMA PutChangesFile ==
    ASSUME SettingsInv, DaemonUp, NEW r \in PutRequest, NEW p, PutOK(p),
           put' = [put EXCEPT ![r] = p], source.kind = "file",
           NEW t \in OnMain, disk' = [disk EXCEPT ![Main] = t],
           pending' = (pending \/ Watched(Main)), gap' = gap \cup Unseen(Main),
           UNCHANGED <<source, backup, cfg, watch, signals, exec, states, snapshot, kernel,
                       directives>>
    PROVE  SettingsInv'
<1> USE DEF SettingsInv
<1>1. DaemonUp' /\ gap \subseteq gap'
    BY DEF DaemonUp
<1>2. FilesTyped'
    <2>1. disk' = [m \in {Main, Over} |-> IF m = Main THEN t ELSE disk[m]]
        BY DEF FilesTyped
    <2> QED
        BY <2>1 DEF FilesTyped
<1>3. PutTyped'
    BY PutMoves
<1>4. WatchTyped'
    <2>1. Watched(Main) => watch # None /\ watch.at = Main
        BY DEF Watched
    <2> QED
        BY <2>1 DEF WatchTyped
<1>5. (FileOK /\ LoadedOK)'
    BY SavedUnseen
<1>6. (ExecTyped /\ KernelSideTyped /\ CfgTyped)'
    BY <1>1, ExecStays, KernelSideStays, CfgStays
<1>7. (DownOK /\ PanelOK /\ KernelOK)'
    BY <1>1, StillUp, PanelStays, KernelStays
<1> QED
    BY <1>2, <1>3, <1>4, <1>5, <1>6, <1>7

LEMMA PutOpensSettled ==
    ASSUME SettingsInv, NEW r \in PutRequest, PutOpens(r) PROVE SettingsInv'
<1> DEFINE p == [put[r] EXCEPT !.pc = "write", !.there = TRUE]
<1>1. /\ put[r].pc = "open"
      /\ \/ /\ put' = [put EXCEPT ![r] = p] /\ disk' = [disk EXCEPT ![Main] = Empty]
            /\ pending' = (pending \/ Watched(Main)) /\ gap' = gap \cup Unseen(Main)
         \/ /\ put' = [put EXCEPT ![r] = NoPut] /\ UNCHANGED <<disk, pending, gap>>
      /\ UNCHANGED <<source, backup, cfg, watch, signals, exec, states, snapshot, kernel,
                     directives>>
    BY DEF PutOpens, PutEnds, world
<1>2. DaemonUp /\ PutOK(put[r])
    BY <1>1, PutIsUp DEF SettingsInv, PutTyped
<1>3. put[r].text # None /\ source.kind = "file"
    BY <1>1, <1>2 DEF PutOK
<1>4. PutOK(p) /\ Empty \in OnMain
    <2>1. PutOK(p)
        BY <1>2, <1>3, OpenedOK
    <2> QED
        BY <2>1 DEF OnMain
<1> HIDE DEF p
<1>5. CASE put' = [put EXCEPT ![r] = NoPut] /\ UNCHANGED <<disk, pending, gap>>
    BY <1>1, <1>2, <1>5, NoPutOK, PutOnly
<1> QED
    BY <1>1, <1>2, <1>3, <1>4, <1>5, PutChangesFile

LEMMA PutWritesSettled ==
    ASSUME SettingsInv, NEW r \in PutRequest, PutWrites(r) PROVE SettingsInv'
<1> DEFINE p == [put[r] EXCEPT !.pc = "align"]
<1>1. /\ put[r].pc = "write"
      /\ \/ put' = [put EXCEPT ![r] = p] /\ UNCHANGED <<disk, pending, gap>>
         \/ /\ put' = [put EXCEPT ![r] = p]
            /\ \E t \in {put[r].text, Garbled} : disk' = [disk EXCEPT ![Main] = t]
            /\ pending' = (pending \/ Watched(Main)) /\ gap' = gap \cup Unseen(Main)
         \/ /\ put' = [put EXCEPT ![r] = NoPut] /\ UNCHANGED <<disk, pending, gap>>
      /\ UNCHANGED <<source, backup, cfg, watch, signals, exec, states, snapshot, kernel,
                     directives>>
    BY DEF PutWrites, PutEnds, PutAt, world
<1>2. DaemonUp /\ PutOK(put[r])
    BY <1>1, PutIsUp DEF SettingsInv, PutTyped
<1>3. put[r].text # None /\ source.kind = "file" /\ put[r].text \in OnMain
    BY <1>1, <1>2 DEF PutOK
<1>4. PutOK(p) /\ Garbled \in OnMain
    BY <1>2, <1>3, MovedOK DEF OnMain
<1> HIDE DEF p
<1>5. CASE put' = [put EXCEPT ![r] = NoPut] /\ UNCHANGED <<disk, pending, gap>>
    BY <1>1, <1>2, <1>5, NoPutOK, PutOnly
<1>6. CASE put' = [put EXCEPT ![r] = p] /\ UNCHANGED <<disk, pending, gap>>
    BY <1>1, <1>2, <1>4, <1>6, PutOnly
<1>7. CASE /\ put' = [put EXCEPT ![r] = p]
           /\ \E t \in {put[r].text, Garbled} : disk' = [disk EXCEPT ![Main] = t]
           /\ pending' = (pending \/ Watched(Main)) /\ gap' = gap \cup Unseen(Main)
    <2>1. PICK t \in {put[r].text, Garbled} : disk' = [disk EXCEPT ![Main] = t]
        BY <1>7
    <2>2. t \in OnMain
        BY <1>3, <1>4, <2>1
    <2> QED
        BY <1>1, <1>2, <1>3, <1>4, <1>7, <2>1, <2>2, PutChangesFile
<1> QED
    BY <1>1, <1>5, <1>6, <1>7

LEMMA PutPushesSettled ==
    ASSUME SettingsInv, NEW r \in PutRequest, PutPushes(r) PROVE SettingsInv'
<1> USE DEF SettingsInv
<1> DEFINE v == put[r].view
<1>1. /\ put[r].pc = "push" /\ put' = [put EXCEPT ![r] = NoPut]
      /\ \/ /\ kernel' = Taken(kernel, v)
            /\ gap' = IF v = KernelView(cfg) THEN gap ELSE gap \cup {"late push"}
         \/ UNCHANGED kernel /\ gap' = gap \cup {"failed push"}
      /\ UNCHANGED <<source, backup, disk, cfg, watch, pending, signals, exec, states,
                     snapshot, directives>>
    BY DEF PutPushes, PutEnds, world
<1>2. DaemonUp /\ DaemonUp' /\ gap \subseteq gap' /\ gap' \subseteq gap \cup {"late push", "failed push"}
    BY <1>1, PutIsUp DEF DaemonUp
<1>3. PutTyped'
    BY <1>1, PutMoves, NoPutOK
<1>4. KernelSideTyped'
    BY <1>1 DEF KernelSideTyped, Taken
<1>5. KernelOK'
    <2>1. CASE kernel' = Taken(kernel, KernelView(cfg))
        BY <1>1, <2>1, TakenTwice DEF KernelOK
    <2>2. CASE kernel' # Taken(kernel, KernelView(cfg))
        BY <1>1, <2>2 DEF KernelOK
    <2> QED
        BY <2>1, <2>2
<1>6. (FilesTyped /\ WatchTyped /\ ExecTyped /\ CfgTyped)'
    BY <1>1, <1>2, FilesStay, WatchStays, ExecStays, CfgStays
<1>7. (DownOK /\ PanelOK /\ FileOK /\ LoadedOK)'
    BY <1>1, <1>2, StillUp, PanelStays, FileStays, LoadedStays
<1> QED
    BY <1>3, <1>4, <1>5, <1>6, <1>7

LEMMA PutAlignsSettled ==
    ASSUME SettingsInv, NEW r \in PutRequest, PutAligns(r) PROVE SettingsInv'
<1> USE DEF SettingsInv
<1> DEFINE p == [put[r] EXCEPT !.pc = "push"]
<1>1. /\ put[r].pc = "align" /\ cfg' = [cfg EXCEPT !.web = put[r].web]
      /\ \/ /\ put[r].text = None /\ put' = [put EXCEPT ![r] = NoPut]
            /\ gap' = IF cfg' = cfg THEN gap ELSE gap \cup {"late alignment"}
         \/ /\ put[r].text # None /\ put' = [put EXCEPT ![r] = p]
            /\ gap' = IF disk[Main] = put[r].text THEN gap ELSE gap \cup {"late alignment"}
      /\ UNCHANGED <<source, backup, disk, watch, pending, signals, exec, states, snapshot,
                     kernel, directives>>
    BY DEF PutAligns, PutEnds, PutAt, world
<1>2. DaemonUp /\ DaemonUp' /\ PutOK(put[r])
    BY <1>1, PutIsUp DEF DaemonUp, PutTyped
<1>3. gap \subseteq gap' /\ gap' \subseteq gap \cup {"late alignment"}
    BY <1>1
<1>4. /\ cfg' = [banTime |-> cfg.banTime, rate |-> cfg.rate, web |-> put[r].web,
                 jails |-> cfg.jails, file |-> cfg.file]
      /\ cfg.jails = [j \in Jail |-> cfg.jails[j]]
      /\ \A j \in Jail : cfg.jails[j] # None => JailShape(cfg.jails[j])
    BY <1>1, <1>2 DEF CfgTyped, ConfShape
<1>5. cfg'.banTime = cfg.banTime /\ cfg'.rate = cfg.rate /\ cfg'.web = put[r].web
      /\ cfg'.jails = cfg.jails /\ cfg'.file = cfg.file
    BY <1>4
<1>6. PutTyped'
    <2>1. put[r].text # None => PutOK(p)
        BY <1>2, MovedOK
    <2> HIDE DEF p
    <2> QED
        BY <1>1, <2>1, NoPutOK, PutMoves
<1>7. CfgTyped'
    <2>1. ConfShape(cfg')
        <3> DEFINE d == cfg'
        <3> HIDE DEF d
        <3>1. /\ d = [banTime |-> d.banTime, rate |-> d.rate, web |-> d.web,
                      jails |-> d.jails, file |-> d.file]
              /\ d.jails = cfg.jails
            BY <1>4 DEF d
        <3> QED
            BY <1>4, <3>1 DEF ConfShape, d
    <2>2. ValidBut(cfg', Switched)
        BY <1>2, <1>5 DEF CfgTyped, ValidBut
    <2>3. Switched' = Switched /\ HomeNames' = HomeNames
        BY <1>1 DEF Switched, HomeNames
    <2>4. ConfShape(cfg)' /\ ValidBut(cfg, Switched)'
        BY <2>1, <2>2, <2>3
    <2> QED
        BY <1>2, <1>3, <1>5, <2>3, <2>4 DEF CfgTyped
<1>8. PanelOK' /\ DownOK'
    BY <1>1, <1>2, <1>5 DEF PanelOK, DownOK
<1>9. KernelOK'
    <2>1. KernelView(cfg') = KernelView(cfg)
        BY <1>5 DEF KernelView
    <2>2. KernelView(cfg)' = KernelView(cfg)
        BY <2>1
    <2> QED
        BY <1>1, <1>2, <1>3, <2>1, <2>2 DEF KernelOK, Taken
<1>10. FileOK'
    <2>1. OnDisk' = OnDisk /\ Fresh' = Fresh
        BY <1>1 DEF OnDisk, Fresh
    <2>2. CASE put[r].text = None
        BY <1>1, <1>2, <2>1, <2>2 DEF FileOK, Agrees
    <2>3. CASE put[r].text # None /\ disk[Main] = put[r].text
        <3>1. source.kind = "file" /\ disk[Main].web = put[r].web /\ put[r].web # None
            BY <1>2, <2>3, NoneApart DEF PutOK
        <3>2. OnDisk # None => OnDisk.web = put[r].web
            BY <3>1, OnDiskGives DEF Given
        <3> QED
            BY <1>1, <1>2, <1>3, <1>5, <2>1, <3>2 DEF FileOK, Agrees
    <2>4. CASE put[r].text # None /\ disk[Main] # put[r].text
        BY <1>1, <2>4 DEF FileOK
    <2> QED
        BY <2>2, <2>3, <2>4
<1>11. LoadedOK'
    BY <1>1, <1>3, LoadedStays
<1>12. (FilesTyped /\ WatchTyped /\ ExecTyped /\ KernelSideTyped)'
    BY <1>1, FilesStay, WatchStays, ExecStays, KernelSideStays
<1> QED
    BY <1>6, <1>7, <1>8, <1>9, <1>10, <1>11, <1>12

-----------------------------------------------------------------------------
(* The executor                                                            *)

(* What the steps make of the executor's place.                            *)
LEMMA ExecGets ==
    ASSUME NEW q, NEW z, NEW pc, NEW x, NEW y,
           q = [pc |-> q.pc, ready |-> q.ready, loaded |-> q.loaded, kind |-> q.kind]
    PROVE  /\ z = [q EXCEPT !.pc = pc] =>
                 z = [pc |-> pc, ready |-> q.ready, loaded |-> q.loaded, kind |-> q.kind]
           /\ z = [q EXCEPT !.pc = pc, !.ready = x] =>
                 z = [pc |-> pc, ready |-> x, loaded |-> q.loaded, kind |-> q.kind]
           /\ z = [q EXCEPT !.pc = pc, !.kind = x] =>
                 z = [pc |-> pc, ready |-> q.ready, loaded |-> q.loaded, kind |-> x]
           /\ z = [q EXCEPT !.pc = pc, !.kind = x, !.ready = y] =>
                 z = [pc |-> pc, ready |-> y, loaded |-> q.loaded, kind |-> x]
           /\ z = [q EXCEPT !.pc = pc, !.loaded = x] =>
                 z = [pc |-> pc, ready |-> q.ready, loaded |-> x, kind |-> q.kind]
OBVIOUS

(* A place at which nothing is loaded.                                     *)
LEMMA ExecMoves ==
    ASSUME NEW pc \in {"round", "signals", "load", "push"}, NEW ready,
           NEW k \in {"reload", "rollback"},
           exec' = [pc |-> pc, ready |-> ready, loaded |-> None, kind |-> k],
           signals' \in Seq({"reload", "rollback"})
    PROVE  ExecTyped' /\ exec'.pc = pc /\ exec'.kind = k /\ DaemonUp' /\ LoadedOK'
<1>1. exec'.pc = pc /\ exec'.kind = k /\ exec'.loaded = None /\ exec'.ready = ready
    OBVIOUS
<1>2. ExecTyped'
    BY <1>1 DEF ExecTyped
<1> QED
    BY <1>1, <1>2 DEF DaemonUp, LoadedOK

(* A Config that only differs in its jails and its ban time.               *)
LEMMA CfgAdjusted ==
    ASSUME CfgTyped, PanelOK, DaemonUp, DaemonUp', ConfShape(cfg'), ValidBut(cfg', Switched),
           cfg'.file = cfg.file, UNCHANGED <<source, states>>,
           snapshot' = IF cfg' = cfg THEN snapshot ELSE cfg'.jails,
           "rollback" \in gap => "rollback" \in gap'
    PROVE  CfgTyped' /\ PanelOK'
<1>1. HomeNames' = HomeNames /\ Switched' = Switched
    BY DEF HomeNames, Switched
<1>2. ConfShape(cfg)' /\ ValidBut(cfg, Switched)'
    BY <1>1
<1>3. CfgTyped'
    BY <1>1, <1>2 DEF CfgTyped
<1> QED
    BY <1>3 DEF PanelOK

(* One jail with another ban time, or switched.                            *)
LEMMA JailAdopts ==
    ASSUME NEW x, JailShape(x), NEW v, NEW z, z = [x EXCEPT !.banTime = v]
    PROVE  JailShape(z) /\ z.banTime = v /\ z.enabled = x.enabled /\ z.logs = x.logs
<1>1. z = [enabled |-> x.enabled, logs |-> x.logs, banTime |-> v,
           banSet |-> x.banSet, regex |-> x.regex, compiled |-> x.compiled]
    BY DEF JailShape
<1> QED
    BY <1>1 DEF JailShape

LEMMA JailSwitches ==
    ASSUME NEW x, JailShape(x), NEW v, NEW z, z = [x EXCEPT !.enabled = v]
    PROVE  JailShape(z)
<1>1. z = [enabled |-> v, logs |-> x.logs, banTime |-> x.banTime,
           banSet |-> x.banSet, regex |-> x.regex, compiled |-> x.compiled]
    BY DEF JailShape
<1> QED
    BY <1>1 DEF JailShape

LEMMA ConfIs ==
    ASSUME NEW c, NEW v, NEW f, NEW z, f = [j \in Jail |-> f[j]],
           \A j \in Jail : f[j] # None => JailShape(f[j]),
           z = [banTime |-> v, rate |-> c.rate, web |-> c.web, jails |-> f, file |-> c.file]
    PROVE  /\ ConfShape(z) /\ z.banTime = v /\ z.jails = f
           /\ z.rate = c.rate /\ z.web = c.web /\ z.file = c.file
<1>1. /\ z.banTime = v /\ z.jails = f /\ z.rate = c.rate /\ z.web = c.web /\ z.file = c.file
      /\ z = [banTime |-> z.banTime, rate |-> z.rate, web |-> z.web, jails |-> z.jails,
              file |-> z.file]
    OBVIOUS
<1> QED
    BY <1>1 DEF ConfShape

LEMMA ConfAdopts ==
    ASSUME NEW c, ConfShape(c), NEW v, NEW f, NEW z,
           z = [c EXCEPT !.banTime = v, !.jails = f]
    PROVE  z = [banTime |-> v, rate |-> c.rate, web |-> c.web, jails |-> f, file |-> c.file]
BY DEF ConfShape

LEMMA ConfSwitches ==
    ASSUME NEW c, ConfShape(c), NEW f, NEW z, z = [c EXCEPT !.jails = f]
    PROVE  z = [banTime |-> c.banTime, rate |-> c.rate, web |-> c.web, jails |-> f,
                file |-> c.file]
BY DEF ConfShape

LEMMA AdoptedKeeps ==
    ASSUME NEW c, ConfShape(c), NEW S, ValidBut(c, S), NEW v \in KernelBan
    PROVE  /\ ConfShape(Adopted(c, v)) /\ ValidBut(Adopted(c, v), S)
           /\ Adopted(c, v).banTime = v /\ Adopted(c, v).rate = c.rate
           /\ Adopted(c, v).web = c.web /\ Adopted(c, v).file = c.file
<1> DEFINE f == [j \in Jail |-> IF c.jails[j] = None \/ c.jails[j].banSet THEN c.jails[j]
                                ELSE [c.jails[j] EXCEPT !.banTime = v]]
           z == Adopted(c, v)
<1>1. CASE v = c.banTime
    BY <1>1 DEF Adopted
<1>2. CASE v # c.banTime
    <2>1. z = [c EXCEPT !.banTime = v, !.jails = f]
        BY <1>2 DEF Adopted
    <2>2. \A j \in Jail :
              f[j] = c.jails[j] \/ (c.jails[j] # None /\ f[j] = [c.jails[j] EXCEPT !.banTime = v])
        OBVIOUS
    <2>3. f = [j \in Jail |-> f[j]]
        OBVIOUS
    <2> HIDE DEF f, z
    <2>4. ASSUME NEW j \in Jail
          PROVE  /\ f[j] # None => JailShape(f[j])
                 /\ f[j] = c.jails[j]
                    \/ /\ c.jails[j] # None /\ f[j].banTime = v
                       /\ f[j].enabled = c.jails[j].enabled /\ f[j].logs = c.jails[j].logs
        <3>1. CASE f[j] = c.jails[j]
            BY <2>4, <3>1 DEF ConfShape
        <3>2. CASE c.jails[j] # None /\ f[j] = [c.jails[j] EXCEPT !.banTime = v]
            <4>1. JailShape(c.jails[j])
                BY <3>2 DEF ConfShape
            <4> QED
                BY <3>2, <4>1, JailAdopts
        <3> QED
            BY <2>2, <3>1, <3>2
    <2>5. /\ ConfShape(z) /\ z.banTime = v /\ z.jails = f
          /\ z.rate = c.rate /\ z.web = c.web /\ z.file = c.file
        <3>1. z = [banTime |-> v, rate |-> c.rate, web |-> c.web, jails |-> f,
                   file |-> c.file]
            BY <2>1, ConfAdopts
        <3> QED
            BY <2>3, <2>4, <3>1, ConfIs
    <2>6. v > 0
        BY NoneApart
    <2>7. ValidBut(z, S)
        BY <2>4, <2>5, <2>6 DEF ValidBut, JailOK
    <2> QED
        BY <2>5, <2>7 DEF z
<1> QED
    BY <1>1, <1>2

LEMMA SyncedKeeps ==
    ASSUME NEW c, ConfShape(c), ValidBut(c, Switched)
    PROVE  /\ ConfShape(Synced(c)) /\ ValidBut(Synced(c), Switched)
           /\ Synced(c).banTime = c.banTime /\ Synced(c).rate = c.rate
           /\ Synced(c).web = c.web /\ Synced(c).file = c.file
<1> DEFINE f == [j \in Jail |-> IF c.jails[j] = None \/ states[j] = None THEN c.jails[j]
                                ELSE [c.jails[j] EXCEPT !.enabled = states[j]]]
           z == Synced(c)
<1>1. z = [c EXCEPT !.jails = f]
    BY DEF Synced
<1>2. \A j \in Jail :
          /\ f[j] = c.jails[j]
             \/ (c.jails[j] # None /\ f[j] = [c.jails[j] EXCEPT !.enabled = states[j]])
          /\ states[j] = None => f[j] = c.jails[j]
    OBVIOUS
<1>3. f = [j \in Jail |-> f[j]]
    OBVIOUS
<1> HIDE DEF f, z
<1>4. ASSUME NEW j \in Jail, f[j] # None PROVE JailShape(f[j])
    <2>1. CASE f[j] = c.jails[j]
        BY <1>4, <2>1 DEF ConfShape
    <2>2. CASE c.jails[j] # None /\ f[j] = [c.jails[j] EXCEPT !.enabled = states[j]]
        <3>1. JailShape(c.jails[j])
            BY <2>2 DEF ConfShape
        <3> QED
            BY <2>2, <3>1, JailSwitches
    <2> QED
        BY <1>2, <2>1, <2>2
<1>5. /\ ConfShape(z) /\ z.banTime = c.banTime /\ z.jails = f
      /\ z.rate = c.rate /\ z.web = c.web /\ z.file = c.file
    BY <1>1, <1>3, <1>4, ConfSwitches, ConfIs
<1>6. ValidBut(z, Switched)
    BY <1>2, <1>5 DEF ValidBut, Switched
<1> QED
    BY <1>5, <1>6 DEF z

LEMMA DrainSettled == ASSUME SettingsInv, DrainDirective PROVE SettingsInv'
<1> USE DEF SettingsInv
<1> DEFINE v == Head(directives)
<1>1. /\ exec.pc = "round" /\ directives # <<>>
      /\ cfg' = IF v = None THEN cfg ELSE Adopted(cfg, v)
      /\ snapshot' = IF cfg' = cfg THEN snapshot ELSE cfg'.jails
      /\ directives' = Tail(directives)
      /\ gap' = IF NoneComes(directives') /\ v \notin {None, kernel.ban}
                THEN gap \cup {"late directive"} ELSE gap
      /\ UNCHANGED <<source, backup, disk, watch, pending, signals, exec, put, states, kernel>>
    BY DEF DrainDirective, Published, world
<1>2. DaemonUp /\ DaemonUp' /\ gap \subseteq gap' /\ gap' \subseteq gap \cup {"late directive"}
    BY <1>1 DEF DaemonUp
<1>3. v \in KernelBan \cup {None} /\ directives' \in Seq(KernelBan \cup {None})
    BY <1>1, HeadTailProperties DEF KernelSideTyped
<1>4. NoneComes(directives') /\ v = None => NoneComes(directives)
    <2> SUFFICES ASSUME NoneComes(directives'), v = None, NEW k \in DOMAIN directives
                 PROVE  directives[k] = None
        BY DEF NoneComes
    <2>1. k \in 1 .. Len(directives) /\ Len(directives) \in Nat
        BY DEF KernelSideTyped
    <2>2. CASE k = 1
        BY <2>2
    <2>3. CASE k # 1
        <3>1. k - 1 \in 1 .. Len(directives) - 1
            BY <2>1, <2>3
        <3>2. directives \in Seq(KernelBan \cup {None}) /\ directives # <<>>
            BY <1>1 DEF KernelSideTyped
        <3>4. /\ directives' \in Seq(KernelBan \cup {None})
              /\ Len(directives') = Len(directives) - 1
              /\ \A i \in 1 .. Len(directives') : directives'[i] = directives[i + 1]
            BY <1>1, <3>2, TailOf
        <3>3. DOMAIN directives' = 1 .. Len(directives) - 1 /\ directives'[k - 1] = directives[k]
            BY <2>1, <3>1, <3>4
        <3> QED
            BY <3>1, <3>3 DEF NoneComes
    <2> QED
        BY <2>2, <2>3
<1> HIDE DEF v
<1>5. ConfShape(cfg) /\ ValidBut(cfg, Switched)
    BY <1>2 DEF CfgTyped
<1>6. /\ ConfShape(cfg') /\ ValidBut(cfg', Switched) /\ (v # None => cfg'.banTime = v)
      /\ cfg'.rate = cfg.rate /\ cfg'.web = cfg.web /\ cfg'.file = cfg.file
    <2>1. ASSUME v # None
          PROVE  /\ ConfShape(Adopted(cfg, v)) /\ ValidBut(Adopted(cfg, v), Switched)
                 /\ Adopted(cfg, v).banTime = v /\ Adopted(cfg, v).rate = cfg.rate
                 /\ Adopted(cfg, v).web = cfg.web /\ Adopted(cfg, v).file = cfg.file
        BY <1>3, <1>5, <2>1, AdoptedKeeps
    <2> QED
        BY <1>1, <1>5, <2>1
<1>7. CfgTyped' /\ PanelOK'
    BY <1>1, <1>2, <1>6, CfgAdjusted
<1>8. KernelSideTyped'
    BY <1>1, <1>3 DEF KernelSideTyped
<1>9. KernelOK'
    <2>1. CASE v = None
        <3>1. cfg' = cfg /\ gap' = gap
            BY <1>1, <2>1
        <3> QED
            BY <1>1, <1>2, <1>4, <2>1, <3>1 DEF KernelOK
    <2>2. CASE v # None
        <3>1. v \in KernelBan /\ v > 0
            BY <1>3, <2>2, NoneApart
        <3>4. KernelBan \subseteq Nat
            BY NoneApart
        <3>2. cfg'.banTime = v /\ cfg'.rate = cfg.rate /\ v >= 0
            BY <1>6, <2>2, <3>1, <3>4
        <3>3. KernelView(cfg)'.rate = KernelView(cfg).rate /\ KernelView(cfg)'.ban = v
            BY <3>2 DEF KernelView
        <3> QED
            BY <1>1, <1>2, <2>2, <3>1, <3>3 DEF KernelOK, Taken
    <2> QED
        BY <2>1, <2>2
<1>10. FileOK'
    <2>1. OnDisk' = OnDisk /\ Fresh' = Fresh
        BY <1>1 DEF OnDisk, Fresh
    <2> QED
        BY <1>1, <1>2, <1>6, <2>1 DEF FileOK, Agrees
<1>11. (FilesTyped /\ WatchTyped /\ ExecTyped /\ PutTyped /\ DownOK /\ LoadedOK)'
    BY <1>1, <1>2, FilesStay, WatchStays, ExecStays, PutsStay, StillUp, LoadedStays
<1> QED
    BY <1>7, <1>8, <1>9, <1>10, <1>11

LEMMA RoundSettled ==
    ASSUME SettingsInv, NEW rescan \in BOOLEAN, Round(rescan)
    PROVE  SettingsInv'
<1> USE DEF SettingsInv
<1>1. /\ exec.pc = "round" /\ cfg' = Synced(cfg)
      /\ snapshot' = IF cfg' = cfg THEN snapshot ELSE cfg'.jails
      /\ Rewatch(cfg) \/ UNCHANGED <<watch, pending>>
      /\ exec' = [exec EXCEPT !.pc = "signals", !.ready = pending']
      /\ UNCHANGED <<source, backup, disk, signals, put, states, kernel, directives, gap>>
    BY DEF Round, Published, world
<1>2. DaemonUp
    BY <1>1 DEF DaemonUp
<1>3. /\ ConfShape(cfg) /\ ValidBut(cfg, Switched) /\ cfg.file \in HomeNames \cup {Backup}
      /\ cfg.file = Backup => "rollback" \in gap
    BY <1>2 DEF CfgTyped
<1>4. /\ ConfShape(cfg') /\ ValidBut(cfg', Switched) /\ cfg'.banTime = cfg.banTime
      /\ cfg'.rate = cfg.rate /\ cfg'.web = cfg.web /\ cfg'.file = cfg.file
    BY <1>1, <1>3, SyncedKeeps
<1>5. WatchTyped' /\ (cfg.file # Backup => pending' = pending)
    <2>1. CASE Rewatch(cfg)
        BY <1>1, <1>3, <2>1, RewatchGives DEF FilesTyped
    <2>2. CASE UNCHANGED <<watch, pending>>
        BY <1>1, <2>2, WatchStays
    <2> QED
        BY <1>1, <2>1, <2>2
<1>6. ExecTyped' /\ exec'.pc = "signals" /\ exec'.kind = exec.kind /\ DaemonUp' /\ LoadedOK'
    <2>1. exec.loaded = None /\ exec.kind \in {"reload", "rollback"}
          /\ signals' \in Seq({"reload", "rollback"})
        BY <1>1 DEF ExecTyped
    <2>2. exec' = [pc |-> "signals", ready |-> pending', loaded |-> exec.loaded,
                   kind |-> exec.kind]
        BY <1>1, ExecGets DEF ExecTyped
    <2> QED
        BY <2>1, <2>2, ExecMoves
<1>7. CfgTyped' /\ PanelOK'
    BY <1>1, <1>2, <1>4, <1>6, CfgAdjusted
<1>8. KernelOK'
    <2>1. KernelView(cfg)' = KernelView(cfg)
        BY <1>4 DEF KernelView
    <2> QED
        BY <1>1, <1>2, <2>1 DEF KernelOK, Taken
<1>9. FileOK'
    <2>1. OnDisk' = OnDisk
        BY <1>1 DEF OnDisk
    <2>2. gap \cap {"unseen", "rollback", "late alignment"} = {} => pending \/ Agrees
        BY <1>1, <1>2 DEF FileOK
    <2>3. Agrees' = Agrees
        BY <1>4, <2>1 DEF Agrees
    <2>4. gap' = gap
        BY <1>1
    <2>5. gap \cap {"unseen", "rollback", "late alignment"} = {} => pending' \/ Agrees'
        <3>1. ASSUME gap \cap {"unseen", "rollback", "late alignment"} = {}
              PROVE  pending' = pending
            BY <1>3, <1>5, <3>1
        <3> QED
            BY <2>2, <2>3, <3>1
    <2> QED
        BY <2>4, <2>5 DEF FileOK
<1>10. (FilesTyped /\ KernelSideTyped /\ PutTyped /\ DownOK)'
    BY <1>1, <1>6, FilesStay, KernelSideStays, PutsStay, StillUp
<1> QED
    BY <1>5, <1>6, <1>7, <1>8, <1>9, <1>10

LEMMA HandleSignalSettled ==
    ASSUME SettingsInv, HandleSignal PROVE SettingsInv'
<1> USE DEF SettingsInv
<1>1. /\ exec.pc = "signals" /\ signals # <<>> /\ signals' = Tail(signals)
      /\ exec' = [exec EXCEPT !.pc = "load", !.kind = Head(signals)]
      /\ UNCHANGED <<source, backup, disk, cfg, watch, pending, put, states, snapshot,
                     kernel, directives, gap>>
    BY DEF HandleSignal, world
<1>2. DaemonUp
    BY <1>1 DEF DaemonUp
<1>3. ExecTyped' /\ exec'.pc = "load" /\ DaemonUp' /\ LoadedOK'
    <2>1. exec.loaded = None /\ Head(signals) \in {"reload", "rollback"}
          /\ signals' \in Seq({"reload", "rollback"})
        BY <1>1, HeadTailProperties DEF ExecTyped
    <2>2. exec' = [pc |-> "load", ready |-> exec.ready, loaded |-> exec.loaded,
                   kind |-> Head(signals)]
        BY <1>1, ExecGets DEF ExecTyped
    <2> QED
        BY <2>1, <2>2, ExecMoves
<1>4. FileOK'
    <2>1. OnDisk' = OnDisk
        BY <1>1 DEF OnDisk
    <2> QED
        BY <1>1, <1>2, <1>3, <2>1 DEF FileOK, Agrees
<1>5. (FilesTyped /\ WatchTyped /\ KernelSideTyped /\ CfgTyped /\ DownOK /\ PanelOK)'
    BY <1>1, <1>2, <1>3, FilesStay, WatchStays, KernelSideStays, CfgStays, StillUp, PanelStays
<1>6. PutTyped' /\ KernelOK'
    BY <1>1, <1>2, <1>3, PutsStay, KernelStays
<1> QED
    BY <1>3, <1>4, <1>5, <1>6

LEMMA HandleInotifySettled ==
    ASSUME SettingsInv, HandleInotify PROVE SettingsInv'
<1> USE DEF SettingsInv
<1>1. /\ exec.pc = "signals"
      /\ \/ /\ exec' = [exec EXCEPT !.pc = "load", !.kind = "reload", !.ready = FALSE]
            /\ pending' = FALSE
         \/ exec' = Idle /\ UNCHANGED pending
      /\ UNCHANGED <<source, backup, disk, cfg, watch, signals, put, states, snapshot,
                     kernel, directives, gap>>
    BY DEF HandleInotify, world
<1>2. DaemonUp
    BY <1>1 DEF DaemonUp
<1>3. PICK pc \in {"round", "load"} :
          /\ exec' = [pc |-> pc, ready |-> FALSE, loaded |-> None, kind |-> "reload"]
          /\ pc = "round" => UNCHANGED pending
          /\ pc = "load" => pending' = FALSE
    <2>1. exec.loaded = None
        BY <1>1 DEF ExecTyped
    <2>2. CASE exec' = Idle /\ UNCHANGED pending
        BY <2>2 DEF Idle
    <2>3. CASE /\ exec' = [exec EXCEPT !.pc = "load", !.kind = "reload", !.ready = FALSE]
               /\ pending' = FALSE
        <3>1. exec' = [pc |-> "load", ready |-> FALSE, loaded |-> exec.loaded,
                       kind |-> "reload"]
            BY <2>3, ExecGets DEF ExecTyped
        <3> QED
            BY <2>1, <2>3, <3>1
    <2> QED
        BY <1>1, <2>2, <2>3
<1>4. ExecTyped' /\ exec'.pc = pc /\ exec'.kind = "reload" /\ DaemonUp' /\ LoadedOK'
    <2>1. signals' \in Seq({"reload", "rollback"})
        BY <1>1 DEF ExecTyped
    <2> QED
        BY <1>3, <2>1, ExecMoves
<1>5. WatchTyped'
    <2>1. CASE UNCHANGED pending
        BY <1>1, <2>1, WatchStays
    <2>2. CASE pending' = FALSE
        <3>1. UNCHANGED <<source, watch>>
            BY <1>1
        <3> QED
            BY <2>2, <3>1 DEF WatchTyped
    <2> QED
        BY <1>3, <2>1, <2>2
<1>6. FileOK'
    <2>1. OnDisk' = OnDisk
        BY <1>1 DEF OnDisk
    <2> QED
        <3>1. CASE pc = "load"
            BY <1>4, <3>1 DEF FileOK, Fresh
        <3>2. CASE pc = "round"
            <4>1. UNCHANGED <<source, backup, disk, cfg, pending, gap>>
                BY <1>1, <1>3, <3>2
            <4>2. Agrees' = Agrees
                BY <2>1, <4>1 DEF Agrees
            <4>3. gap \cap {"unseen", "rollback", "late alignment"} = {} => pending \/ Agrees
                BY <1>1, <1>2 DEF FileOK
            <4> QED
                BY <4>1, <4>2, <4>3 DEF FileOK
        <3> QED
            BY <3>1, <3>2
<1>7. (FilesTyped /\ KernelSideTyped /\ CfgTyped /\ DownOK /\ PanelOK)'
    BY <1>1, <1>2, <1>4, FilesStay, KernelSideStays, CfgStays, StillUp, PanelStays
<1>8. PutTyped' /\ KernelOK'
    BY <1>1, <1>2, <1>4, PutsStay, KernelStays
<1> QED
    BY <1>4, <1>5, <1>6, <1>7, <1>8

LEMMA LoadSettled == ASSUME SettingsInv, Load PROVE SettingsInv'
<1> USE DEF SettingsInv
<1> DEFINE l == IF exec.kind = "reload" THEN LoadedFrom(disk, source)
                ELSE RolledBack(disk, source)
<1>1. /\ exec.pc = "load" /\ exec' = [exec EXCEPT !.pc = "apply", !.loaded = l]
      /\ gap' = IF Fresh THEN gap \ {"unseen"} ELSE gap
      /\ UNCHANGED <<source, backup, disk, cfg, watch, pending, signals, put, states,
                     snapshot, kernel, directives>>
    BY DEF Load, Fresh, world
<1>2. /\ Fresh => l = OnDisk
      /\ l # None => /\ ConfShape(l) /\ ValidBut(l, {})
                     /\ l.file \in HomeNames \cup {Backup}
                     /\ Fresh => l.file \in HomeNames
    <2>1. exec.kind = "reload" => l = OnDisk
        BY DEF OnDisk
    <2>2. exec.kind # "reload" => l = RolledBack(disk, source)
        OBVIOUS
    <2> HIDE DEF l
    <2> QED
        BY <2>1, <2>2, OnDiskGives, RolledGives DEF Fresh
<1> HIDE DEF l
<1>3. DaemonUp
    BY <1>1 DEF DaemonUp
<1>4. exec' = [pc |-> "apply", ready |-> exec.ready, loaded |-> l, kind |-> exec.kind]
    BY <1>1, ExecGets DEF ExecTyped
<1>5. /\ exec'.pc = "apply" /\ exec'.kind = exec.kind /\ exec'.loaded = l
      /\ exec' = [pc |-> exec'.pc, ready |-> exec'.ready, loaded |-> exec'.loaded,
                  kind |-> exec'.kind]
    BY <1>4
<1>6. DaemonUp' /\ Fresh' = Fresh /\ OnDisk' = OnDisk /\ HomeNames' = HomeNames
    BY <1>1, <1>5 DEF DaemonUp, Fresh, OnDisk, HomeNames
<1>7. ExecTyped'
    <2>1. exec.kind \in {"reload", "rollback"} /\ signals' \in Seq({"reload", "rollback"})
        BY <1>1 DEF ExecTyped
    <2>2. exec'.loaded # None =>
              /\ ConfShape(exec.loaded)' /\ ValidBut(exec.loaded, {})'
              /\ exec'.loaded.file \in HomeNames' \cup {Backup}
              /\ Fresh' => exec'.loaded.file \in HomeNames'
        BY <1>2, <1>5, <1>6
    <2> QED
        BY <1>5, <2>1, <2>2 DEF ExecTyped
<1>8. LoadedOK'
    BY <1>2, <1>5, <1>6 DEF LoadedOK
<1>9. FileOK'
    <2>1. Agrees' = Agrees
        BY <1>1, <1>6 DEF Agrees
    <2> QED
        BY <1>1, <1>3, <1>5, <1>6, <2>1 DEF FileOK
<1>10. (FilesTyped /\ WatchTyped /\ KernelSideTyped /\ CfgTyped /\ DownOK /\ PanelOK)'
    <2>1. "rollback" \in gap => "rollback" \in gap'
        BY <1>1
    <2> QED
        BY <1>1, <1>3, <1>6, <2>1, FilesStay, WatchStays, KernelSideStays, CfgStays,
           StillUp, PanelStays
<1>11. PutTyped' /\ KernelOK'
    <2>1. gap \cap LateKernel \subseteq gap'
        BY <1>1 DEF LateKernel
    <2> QED
        BY <1>1, <1>3, <1>5, <2>1, PutsStay, KernelStays
<1> QED
    BY <1>7, <1>8, <1>9, <1>10, <1>11

(* Both ways of applying what was loaded, up to the watches.               *)
LEMMA AppliedOK ==
    ASSUME SettingsInv, NEW pc, exec.pc = "apply",
           pc = (IF exec.loaded = None THEN "signals" ELSE "push"),
           exec' = [exec EXCEPT !.pc = pc, !.loaded = None],
           cfg' = IF exec.loaded = None THEN cfg ELSE exec.loaded,
           snapshot' = cfg'.jails,
           exec.loaded = None => gap' = gap,
           exec.loaded # None =>
               /\ gap' \subseteq gap \cup {"rollback"}
               /\ "unseen" \in gap => "unseen" \in gap'
               /\ ~Fresh => "rollback" \in gap',
           Fresh /\ cfg'.file # Backup => pending' = pending,
           pending' = pending \/ exec.kind = "reload",
           UNCHANGED <<source, backup, disk, signals, put, states, kernel, directives>>
    PROVE  /\ ExecTyped' /\ DaemonUp' /\ exec'.pc = pc /\ LoadedOK' /\ CfgTyped' /\ PanelOK'
           /\ cfg'.file \in HomeNames \cup {Backup} /\ FileOK' /\ KernelOK'
<1> USE DEF SettingsInv
<1>1. DaemonUp /\ ExecTyped
    BY DEF DaemonUp
<1>2. /\ exec.loaded # None =>
             /\ ConfShape(exec.loaded) /\ ValidBut(exec.loaded, {})
             /\ exec.loaded.file \in HomeNames \cup {Backup}
             /\ Fresh => exec.loaded.file \in HomeNames
      /\ exec.kind \in {"reload", "rollback"} /\ signals' \in Seq({"reload", "rollback"})
    BY DEF ExecTyped
<1>3. ExecTyped' /\ exec'.pc = pc /\ exec'.kind = exec.kind /\ DaemonUp' /\ LoadedOK'
    <2>1. exec' = [pc |-> pc, ready |-> exec.ready, loaded |-> None, kind |-> exec.kind]
        BY ExecGets DEF ExecTyped
    <2> QED
        BY <1>2, <2>1, ExecMoves
<1>4. /\ Fresh' = Fresh /\ OnDisk' = OnDisk /\ HomeNames' = HomeNames
      /\ Switched' = Switched
    BY <1>3 DEF Fresh, OnDisk, HomeNames, Switched
<1>5. Backup \notin HomeNames
    BY NoneApart DEF HomeNames
<1>6. CASE exec.loaded = None
    <2>1. cfg' = cfg /\ gap' = gap /\ pc = "signals"
        BY <1>6
    <2>2. CfgTyped' /\ cfg.file \in HomeNames \cup {Backup}
          /\ (cfg.file = Backup => "rollback" \in gap)
        BY <1>1, <1>3, <2>1, CfgStays DEF CfgTyped
    <2>3. PanelOK' /\ KernelOK'
        BY <1>1, <1>3, <2>1, KernelStays DEF PanelOK
    <2>4. FileOK'
        <3>1. Agrees' = Agrees
            BY <1>4, <2>1 DEF Agrees
        <3>2. Fresh /\ "unseen" \notin gap => pending \/ Agrees
            BY <1>6 DEF LoadedOK, Agrees
        <3>3. ~Fresh => pending' = pending
            BY <1>2 DEF Fresh
        <3> QED
            BY <1>1, <1>3, <2>1, <2>2, <3>1, <3>2, <3>3 DEF FileOK
    <2> QED
        BY <1>3, <2>1, <2>2, <2>3, <2>4
<1>7. CASE exec.loaded # None
    <2>1. cfg' = exec.loaded /\ pc = "push"
        BY <1>7
    <2>2. cfg'.file = Backup => "rollback" \in gap'
        BY <1>2, <1>5, <1>7, <2>1
    <2>3. ConfShape(cfg)' /\ ValidBut(cfg, Switched)'
        <3>1. ConfShape(cfg') /\ ValidBut(cfg', {})
            BY <1>2, <1>7, <2>1
        <3>2. ValidBut(cfg', Switched)
            BY <3>1 DEF ValidBut
        <3> QED
            BY <1>4, <3>1, <3>2
    <2>4. CfgTyped' /\ PanelOK' /\ KernelOK'
        BY <1>2, <1>3, <1>4, <1>7, <2>1, <2>2, <2>3 DEF CfgTyped, PanelOK, KernelOK
    <2>5. FileOK'
        <3>1. CASE Fresh
            <4>1. pending' = pending
                <5>1. cfg'.file # Backup
                    BY <1>2, <1>5, <1>7, <2>1, <3>1
                <5> QED
                    BY <3>1, <5>1
            <4>2. "unseen" \notin gap' => pending \/ exec.loaded = OnDisk
                <5>1. "unseen" \notin gap' => "unseen" \notin gap
                    BY <1>7
                <5> QED
                    BY <3>1, <5>1 DEF LoadedOK
            <4> QED
                BY <1>4, <2>1, <4>1, <4>2 DEF FileOK, Agrees
        <3>2. CASE ~Fresh
            BY <1>7, <3>2 DEF FileOK
        <3> QED
            BY <3>1, <3>2
    <2> QED
        BY <1>2, <1>3, <1>7, <2>1, <2>4, <2>5
<1> QED
    BY <1>6, <1>7

LEMMA ReloadSettled == ASSUME SettingsInv, ReloadApplies PROVE SettingsInv'
<1> USE DEF SettingsInv
<1> DEFINE pc == IF exec.loaded = None THEN "signals" ELSE "push"
<1>1. /\ exec.pc = "apply" /\ exec.kind = "reload"
      /\ exec' = [exec EXCEPT !.pc = pc, !.loaded = None]
      /\ cfg' = IF exec.loaded = None THEN cfg ELSE exec.loaded
      /\ snapshot' = cfg'.jails /\ Rewatch(cfg')
      /\ gap' = IF exec.loaded = None THEN gap ELSE gap \ {"rollback", "late alignment"}
      /\ UNCHANGED <<source, backup, disk, signals, put, states, kernel, directives>>
    BY DEF ReloadApplies, Published, world
<1>2. DaemonUp /\ Fresh
    BY <1>1 DEF DaemonUp, Fresh
<1>3. cfg'.file \in HomeNames \cup {Backup}
    BY <1>1, <1>2 DEF CfgTyped, ExecTyped
<1>4. WatchTyped' /\ (cfg'.file # Backup => pending' = pending)
    BY <1>1, <1>3, RewatchGives DEF FilesTyped
<1>5. exec.loaded = None => gap' = gap
    BY <1>1
<1>6. exec.loaded # None =>
          gap' \subseteq gap \cup {"rollback"} /\ ("unseen" \in gap => "unseen" \in gap')
    BY <1>1
<1>7. ExecTyped' /\ DaemonUp' /\ LoadedOK' /\ CfgTyped' /\ PanelOK' /\ FileOK' /\ KernelOK'
    BY <1>1, <1>2, <1>4, <1>5, <1>6, AppliedOK
<1>8. (FilesTyped /\ KernelSideTyped /\ PutTyped /\ DownOK)'
    BY <1>1, <1>7, FilesStay, KernelSideStays, PutsStay, StillUp
<1> QED
    BY <1>4, <1>7, <1>8

LEMMA RollbackSettled == ASSUME SettingsInv, RollbackApplies PROVE SettingsInv'
<1> USE DEF SettingsInv
<1> DEFINE pc == IF exec.loaded = None THEN "signals" ELSE "push"
<1>1. /\ exec.pc = "apply" /\ exec.kind = "rollback"
      /\ exec' = [exec EXCEPT !.pc = pc, !.loaded = None]
      /\ cfg' = IF exec.loaded = None THEN cfg ELSE exec.loaded
      /\ snapshot' = IF exec.loaded = None THEN snapshot ELSE cfg'.jails
      /\ gap' = IF exec.loaded = None THEN gap
                ELSE IF backup = None THEN gap \ {"rollback", "late alignment"}
                ELSE (gap \ {"late alignment"}) \cup {"rollback"}
      /\ UNCHANGED <<source, backup, disk, watch, pending, signals, put, states, kernel,
                     directives>>
    BY DEF RollbackApplies, Published, world
<1>2. DaemonUp /\ (Fresh <=> backup = None)
    BY <1>1 DEF DaemonUp, Fresh
<1>3. snapshot' = cfg'.jails
    BY <1>1, <1>2 DEF PanelOK
<1>4. exec.loaded = None => gap' = gap
    BY <1>1
<1>5. exec.loaded # None =>
          /\ gap' \subseteq gap \cup {"rollback"}
          /\ "unseen" \in gap => "unseen" \in gap'
          /\ ~Fresh => "rollback" \in gap'
    BY <1>1, <1>2
<1>6. ExecTyped' /\ DaemonUp' /\ LoadedOK' /\ CfgTyped' /\ PanelOK' /\ FileOK' /\ KernelOK'
    BY <1>1, <1>3, <1>4, <1>5, AppliedOK
<1>7. (FilesTyped /\ WatchTyped /\ KernelSideTyped /\ PutTyped /\ DownOK)'
    BY <1>1, <1>6, FilesStay, WatchStays, KernelSideStays, PutsStay, StillUp
<1> QED
    BY <1>6, <1>7

LEMMA PushSettled == ASSUME SettingsInv, PushKernelConfig PROVE SettingsInv'
<1> USE DEF SettingsInv
<1>1. /\ exec.pc = "push" /\ exec' = [exec EXCEPT !.pc = "signals"]
      /\ \/ /\ kernel' = Taken(kernel, KernelView(cfg))
            /\ gap' = gap \ {"failed push", "late push", "late directive"}
         \/ UNCHANGED kernel /\ gap' = gap \cup {"failed push"}
      /\ UNCHANGED <<source, backup, disk, cfg, watch, pending, signals, put, states,
                     snapshot, directives>>
    BY DEF PushKernelConfig, world
<1>2. DaemonUp /\ gap \cap LateFile \subseteq gap'
    BY <1>1 DEF DaemonUp, LateFile
<1>3. ExecTyped' /\ exec'.pc = "signals" /\ exec'.kind = exec.kind /\ DaemonUp' /\ LoadedOK'
    <2>1. exec.loaded = None /\ exec.kind \in {"reload", "rollback"}
          /\ signals' \in Seq({"reload", "rollback"})
        BY <1>1 DEF ExecTyped
    <2>2. exec' = [pc |-> "signals", ready |-> exec.ready, loaded |-> exec.loaded,
                   kind |-> exec.kind]
        BY <1>1, ExecGets DEF ExecTyped
    <2> QED
        BY <2>1, <2>2, ExecMoves
<1>4. KernelSideTyped'
    BY <1>1 DEF KernelSideTyped, Taken
<1>5. KernelOK'
    BY <1>1, TakenTwice DEF KernelOK
<1>6. FileOK'
    <2>1. Agrees' = Agrees /\ Fresh' = Fresh
        BY <1>1, <1>3 DEF Agrees, OnDisk, Fresh
    <2> QED
        BY <1>1, <1>2, <1>3, <2>1 DEF FileOK, LateFile
<1>7. (FilesTyped /\ WatchTyped /\ CfgTyped /\ PutTyped /\ DownOK /\ PanelOK)'
    <2>1. "rollback" \in gap => "rollback" \in gap'
        BY <1>1
    <2> QED
        BY <1>1, <1>2, <1>3, <2>1, FilesStay, WatchStays, CfgStays, PutsStay, StillUp,
           PanelStays
<1> QED
    BY <1>3, <1>4, <1>5, <1>6, <1>7

-----------------------------------------------------------------------------
(* Every step                                                              *)

LEMMA ExecutorSettled == ASSUME SettingsInv, Executor PROVE SettingsInv'
BY DrainSettled, RoundSettled, HandleSignalSettled, HandleInotifySettled, LoadSettled,
   ReloadSettled, RollbackSettled, PushSettled DEF Executor

LEMMA PutSettled ==
    ASSUME SettingsInv, NEW r \in PutRequest, Put(r) PROVE SettingsInv'
BY PutStartsSettled, PutReadsSettled, PutOpensSettled, PutWritesSettled, PutAlignsSettled,
   PutPushesSettled DEF Put

LEMMA QuietSettled == ASSUME SettingsInv, UNCHANGED settingsVars PROVE SettingsInv'
<1> USE DEF SettingsInv
<1>1. /\ UNCHANGED <<source, backup, disk, cfg, watch, pending, signals, exec, put, states,
                     snapshot, kernel, directives, gap>>
      /\ DaemonUp' = DaemonUp
    BY DEF settingsVars, DaemonUp
<1>2. (FilesTyped /\ WatchTyped /\ ExecTyped /\ KernelSideTyped /\ CfgTyped /\ DownOK)'
    BY <1>1, FilesStay, WatchStays, ExecStays, KernelSideStays, CfgStays, DownStays
<1>3. (PanelOK /\ PutTyped /\ KernelOK /\ FileOK /\ LoadedOK)'
    BY <1>1, PanelStays, PutsStay, KernelStays, FileStays, LoadedStays
<1> QED
    BY <1>2, <1>3

LEMMA SettledStep ==
    ASSUME SettingsInv, [SettingsNext]_(settingsVars) PROVE SettingsInv'
<1>1. CASE Executor
    BY <1>1, ExecutorSettled
<1>2. ASSUME NEW r \in PutRequest, Put(r) PROVE SettingsInv'
    BY <1>2, PutSettled
<1>3. ASSUME NEW n \in Files, NEW t \in Texts4(n), SaveInPlace(n, t) \/ SaveByRename(n, t)
      PROVE  SettingsInv'
    BY <1>3, InPlaceSettled, RenameSettled
<1>4. ASSUME NEW s \in {"reload", "rollback"}, Signal(s) PROVE SettingsInv'
    BY <1>4, SignalSettled
<1>5. ASSUME NEW v \in KernelBan, WriteBanTime(v) PROVE SettingsInv'
    BY <1>5, BanTimeSettled
<1>6. ASSUME NEW k \in Jail, NEW b \in BOOLEAN, UpdateJail(k, b) PROVE SettingsInv'
    BY <1>6, ToggleSettled
<1>9. CASE RejectCommand
    BY <1>9, RejectionSettled
<1>7. CASE Start \/ Crash
    BY <1>7, StartSettled, CrashSettled
<1>8. CASE UNCHANGED settingsVars
    BY <1>8, QuietSettled
<1> QED
    BY <1>1, <1>2, <1>3, <1>4, <1>5, <1>6, <1>7, <1>8, <1>9 DEF SettingsNext

(* The configuration's module: what waits between the file, the Config and *)
(* the kernel whenever they differ, and that what is in force is valid.    *)
THEOREM SettingsHold == SettingsSpec => []SettingsInv
<1>1. SettingsInit => SettingsInv
    BY InitSettled
<1>2. SettingsInv /\ [SettingsNext]_(settingsVars) => SettingsInv'
    BY SettledStep
<1> QED
    BY <1>1, <1>2, PTL DEF SettingsSpec

(* jail.Validate: every jail that is enabled and was not switched by the   *)
(* API has logs and a ban time that can be sent.                           *)
THEOREM WhatRunsIsValid == SettingsSpec => []RunningIsValid
<1>1. SettingsInv => RunningIsValid
    BY DEF SettingsInv, CfgTyped, ValidBut, Switched, RunningIsValid
<1> QED
    BY <1>1, SettingsHold, PTL

(* reloadConfig: when all is quiet the Config holds what the file says, if *)
(* it loads at all; unless no watch saw the last save, there was a         *)
(* rollback, or a request aligned late.                                    *)
THEOREM ConfigFollowsFile == SettingsSpec => []SettledFollowsFile
<1>1. ASSUME SettingsInv PROVE SettledFollowsFile
    <2> SUFFICES ASSUME Quiet, OnDisk # None,
                        gap \cap {"unseen", "rollback", "late alignment"} = {}
                 PROVE  cfg.rate = OnDisk.rate /\ cfg.web = OnDisk.web
        BY DEF SettledFollowsFile, OnDisk
    <2>1. DaemonUp /\ exec.pc \notin {"load", "apply"} /\ ~pending
        BY DEF Quiet, DaemonUp
    <2> QED
        BY <1>1, <2>1 DEF SettingsInv, FileOK, Agrees
<1> QED
    BY <1>1, SettingsHold, PTL

LEMMA EmptyTellsNothing == NoneComes(<<>>)
<1>1. 1 .. 0 = {}
    OBVIOUS
<1>2. <<>> \in Seq({None}) /\ Len(<<>>) = 0
    BY EmptySeq
<1>3. DOMAIN <<>> = 1 .. Len(<<>>)
    BY <1>2, LenProperties
<1>4. DOMAIN <<>> = {}
    BY <1>1, <1>2, <1>3, Zenon
<1> QED
    BY <1>4, Zenon DEF NoneComes

(* pushKernelConfig: when all is quiet the kernel has what the Config      *)
(* says, unless a push failed or carried an older file, or a directive     *)
(* came late or not at all.                                                *)
THEOREM KernelFollowsConfig == SettingsSpec => []KernelSettled
<1>1. ASSUME SettingsInv PROVE KernelSettled
    <2> SUFFICES ASSUME Quiet, gap \cap {"late push", "failed push", "late directive"} = {}
                 PROVE  kernel = Taken(kernel, KernelView(cfg))
        BY DEF KernelSettled
    <2> DEFINE t == Taken(kernel, KernelView(cfg))
    <2>1. DaemonUp /\ exec.pc # "push" /\ directives = <<>>
        BY DEF Quiet, DaemonUp
    <2>5. NoneComes(directives)
        BY <2>1, EmptyTellsNothing
    <2>2. kernel.rate = t.rate /\ kernel.ban = t.ban
        BY <1>1, <2>1, <2>5 DEF SettingsInv, KernelOK
    <2>3. t = [rate |-> t.rate, ban |-> t.ban]
        BY DEF Taken
    <2> HIDE DEF t
    <2>4. kernel = t
        BY <1>1, <2>2, <2>3 DEF SettingsInv, KernelSideTyped
    <2> QED
        BY <2>4 DEF t
<1> QED
    BY <1>1, SettingsHold, PTL

(* persistWebui: what a request writes is never refused by a reload, also  *)
(* a strict one.                                                           *)
THEOREM RequestsAreLoadable == SettingsSpec => []AcceptedIsLoadable
<1>1. ASSUME SettingsInv PROVE AcceptedIsLoadable
    <2> SUFFICES ASSUME NEW r \in PutRequest, put[r].pc \in {"open", "write"}
                 PROVE  FileLoads[put[r].text][Main][source.strict] # None
        BY DEF AcceptedIsLoadable
    <2>1. source.strict \in BOOLEAN
        BY <1>1 DEF SettingsInv, FilesTyped
    <2>2. put[r].text \in OnMain /\ FileLoads[put[r].text][Main][TRUE] # None
        BY <1>1 DEF SettingsInv, PutTyped, PutOK
    <2>3. put[r].text \in Readable
        BY <2>2, OnMainWritten
    <2> QED
        BY <2>1, <2>2, <2>3, StrictIsStricter
<1> QED
    BY <1>1, SettingsHold, PTL

(* Only the round leaves its place for the signals.                        *)
LEMMA OnlyRound ==
    ASSUME [SettingsNext]_(settingsVars), exec.pc = "round", exec'.pc = "signals"
    PROVE  \E rescan \in BOOLEAN : Round(rescan)
<1>1. CASE UNCHANGED settingsVars
    BY <1>1 DEF settingsVars
<1>2. CASE Executor
    <2>1. ~(HandleSignal \/ HandleInotify \/ Load \/ ReloadApplies \/ RollbackApplies
              \/ PushKernelConfig)
        BY DEF HandleSignal, HandleInotify, Load, ReloadApplies, RollbackApplies,
               PushKernelConfig
    <2>2. ~DrainDirective
        BY DEF DrainDirective
    <2> QED
        BY <1>2, <2>1, <2>2 DEF Executor
<1>3. ASSUME NEW r \in PutRequest, Put(r) PROVE UNCHANGED exec
    BY <1>3 DEF Put, PutStarts, PutReads, PutOpens, PutWrites, PutAligns, PutPushes
<1>4. ASSUME NEW n \in Files, NEW t \in Texts4(n), SaveInPlace(n, t) \/ SaveByRename(n, t)
      PROVE  UNCHANGED exec
    BY <1>4 DEF SaveInPlace, SaveByRename
<1>5. ASSUME \/ \E s \in {"reload", "rollback"} : Signal(s)
             \/ RejectCommand \/ \E v \in KernelBan : WriteBanTime(v)
             \/ \E j \in Jail, b \in BOOLEAN : UpdateJail(j, b)
      PROVE  UNCHANGED exec
    BY <1>5 DEF Signal, RejectCommand, WriteBanTime, UpdateJail
<1>6. ~Start /\ ~Crash
    BY DEF Start, Crash, DaemonUp, Down, Idle
<1> QED
    BY <1>1, <1>2, <1>3, <1>4, <1>5, <1>6 DEF SettingsNext

(* publishJailSnapshot, syncJailEnabled: when the executor goes to wait,   *)
(* every wish of the API is in the Config, and the panel's list is the     *)
(* Config's.                                                               *)
THEOREM PanelFollowsWishes == SettingsSpec => WishesReachThePanel
<1> DEFINE Shown == exec.pc = "round" /\ exec'.pc = "signals" =>
                        \A j \in Jail :
                            cfg'.jails[j] # None =>
                                /\ states[j] # None => cfg'.jails[j].enabled = states[j]
                                /\ snapshot'[j] = cfg'.jails[j]
<1>1. SettingsInv /\ SettingsInv' /\ [SettingsNext]_(settingsVars) => [Shown]_(settingsVars)
    <2> SUFFICES ASSUME SettingsInv, SettingsInv', [SettingsNext]_(settingsVars),
                        exec.pc = "round", exec'.pc = "signals",
                        NEW k \in Jail, cfg'.jails[k] # None
                 PROVE  /\ states[k] # None => cfg'.jails[k].enabled = states[k]
                        /\ snapshot'[k] = cfg'.jails[k]
        OBVIOUS
    <2>1. DaemonUp /\ DaemonUp'
        BY DEF DaemonUp
    <2>2. snapshot' = cfg'.jails
        BY <2>1 DEF SettingsInv, PanelOK
    <2>3. ConfShape(cfg)
        BY <2>1 DEF SettingsInv, CfgTyped
    <2>4. cfg' = Synced(cfg)
        BY OnlyRound DEF Round
    <2>5. cfg'.jails[k] = IF cfg.jails[k] = None \/ states[k] = None THEN cfg.jails[k]
                          ELSE [cfg.jails[k] EXCEPT !.enabled = states[k]]
        BY <2>3, <2>4 DEF Synced, ConfShape
    <2>6. ASSUME states[k] # None PROVE cfg'.jails[k].enabled = states[k]
        <3>1. cfg.jails[k] # None
            BY <2>5
        <3>2. JailShape(cfg.jails[k])
            BY <2>3, <3>1 DEF ConfShape
        <3> QED
            BY <2>5, <2>6, <3>1, <3>2 DEF JailShape
    <2> QED
        BY <2>2, <2>6
<1> QED
    BY <1>1, SettingsHold, PTL DEF SettingsSpec, WishesReachThePanel
=============================================================================
