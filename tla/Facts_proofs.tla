---------------------------- MODULE Facts_proofs ----------------------------
(***************************************************************************)
(* Proofs about Facts: no penalty is lost on its way to the database, a    *)
(* process that ends in order has nothing left to write, and a repeat      *)
(* offender is never taken for less than it is.                            *)
(***************************************************************************)
EXTENDS Facts, TLAPS

(* The list of recent use holds every address with an entry once.          *)
Distinct(q) == \A i, j \in DOMAIN q : q[i] = q[j] => i = j
In(q, x) == \E i \in DOMAIN q : q[i] = x
Listed ==
    /\ Distinct(lru)
    /\ \A ip \in Ip : entry[ip] # None <=> In(lru, ip)

(* The flusher writes for entries that are still there, unless the one it  *)
(* holds was evicted meanwhile.                                            *)
Held ==
    /\ \A ip \in dirty : entry[ip] # None
    /\ writing # None /\ writing.detached = FALSE => entry[writing.ip] # None

(* The executor rests before the flusher is told to stop; the final flush  *)
(* covers what is still owed then.                                         *)
Rests == phase # "up" => epc = "judge" /\ out = <<>>
Covered ==
    /\ phase \in {"flushing", "closed"} =>
         \A ip \in Ip \ lossy : Pending(ip) > 0 => ip \in dirty
    /\ phase = "closed" => dirty = {} /\ writing = None

(* The executor works on the ban of eip; between the row of ban_history    *)
(* and NoteBan the cache is one ban behind, if the row is the one that the *)
(* cache reads.                                                            *)
Working == epc \in {"history", "penalty", "note", "send"} => eip \in Ip
Behind(ip) == IF epc \in {"penalty", "note"} /\ eip = ip THEN 1 ELSE 0
RowCounts == \A ip \in Ip : autos[ip] <= StoredBans(ip)
EntryCounts ==
    \A ip \in Ip :
        Key[ip] = ip /\ entry[ip] # None /\ entry[ip].bans # None /\ entry[ip].blind = FALSE
            => autos[ip] <= entry[ip].bans + Behind(ip)

IInv ==
    /\ TypeOK /\ Listed /\ Held /\ PenaltiesKept
    /\ Rests /\ Covered /\ Working /\ RowCounts /\ EntryCounts

-----------------------------------------------------------------------------
(* Sequences in which every element occurs once                            *)

LEMMA Pushed ==
    ASSUME NEW S, NEW q \in Seq(S), Distinct(q), NEW x \in S, ~In(q, x)
    PROVE  /\ <<x>> \o q \in Seq(S) /\ Len(<<x>> \o q) = Len(q) + 1
           /\ Distinct(<<x>> \o q)
           /\ \A y : In(<<x>> \o q, y) <=> y = x \/ In(q, y)
<1> DEFINE t == <<x>> \o q
<1>1. t \in Seq(S) /\ Len(t) = Len(q) + 1
    OBVIOUS
<1>2. t[1] = x /\ \A i \in 1 .. Len(q) : t[i + 1] = q[i]
    OBVIOUS
<1>3. DOMAIN t = 1 .. Len(q) + 1 /\ DOMAIN q = 1 .. Len(q) /\ Len(q) \in Nat
    BY <1>1
<1>4. \A j \in DOMAIN t : j = 1 \/ (j - 1 \in DOMAIN q /\ t[j] = q[j - 1])
    <2> TAKE j \in DOMAIN t
    <2>1. j = 1 \/ j - 1 \in 1 .. Len(q)
        BY <1>3
    <2>2. j - 1 \in 1 .. Len(q) => t[(j - 1) + 1] = q[j - 1]
        BY <1>2
    <2> HIDE DEF t
    <2>3. (j - 1) + 1 = j
        BY <1>3
    <2> QED BY <2>1, <2>2, <2>3, <1>3
<1>5. 1 \in DOMAIN t /\ \A i \in DOMAIN q : i + 1 \in DOMAIN t
    BY <1>3
<1> HIDE DEF t
<1>6. Distinct(t)
    BY <1>2, <1>3, <1>4 DEF Distinct, In
<1>7. \A y : In(t, y) <=> y = x \/ In(q, y)
    BY <1>2, <1>3, <1>4, <1>5 DEF In
<1> QED BY <1>1, <1>6, <1>7 DEF t

LEMMA Fronted ==
    ASSUME NEW S, NEW q \in Seq(S), Distinct(q), q # <<>>
    PROVE  /\ Front(q) \in Seq(S) /\ Len(Front(q)) = Len(q) - 1
           /\ Distinct(Front(q)) /\ Last(q) \in S /\ In(q, Last(q))
           /\ \A y : In(Front(q), y) <=> In(q, y) /\ y # Last(q)
<1> DEFINE t == SubSeq(q, 1, Len(q) - 1)
<1>1. Len(q) \in Nat /\ Len(q) >= 1 /\ DOMAIN q = 1 .. Len(q)
    OBVIOUS
<1>2. t \in Seq(S) /\ Len(t) = Len(q) - 1
    BY <1>1
<1>3. DOMAIN t = 1 .. Len(q) - 1 /\ \A i \in 1 .. Len(q) - 1 : t[i] = q[i]
    BY <1>1, <1>2
<1> HIDE DEF t
<1>4. Len(q) \in DOMAIN q /\ q[Len(q)] \in S
    BY <1>1
<1>5. Distinct(t)
    BY <1>1, <1>3 DEF Distinct
<1>6. ASSUME NEW y PROVE In(t, y) <=> In(q, y) /\ y # q[Len(q)]
    <2>1. \A i \in DOMAIN t : i \in DOMAIN q /\ i # Len(q) /\ t[i] = q[i]
        BY <1>1, <1>3
    <2>2. \A i \in DOMAIN q : i # Len(q) => i \in DOMAIN t
        BY <1>1, <1>3
    <2> QED BY <2>1, <2>2, <1>4 DEF In, Distinct
<1> QED BY <1>2, <1>4, <1>5, <1>6 DEF t, Front, Last, In

LEMMA Joined ==
    ASSUME NEW S, NEW a \in Seq(S), NEW b \in Seq(S)
    PROVE  /\ a \o b \in Seq(S) /\ Len(a \o b) = Len(a) + Len(b)
           /\ DOMAIN (a \o b) = 1 .. Len(a) + Len(b)
           /\ \A i \in 1 .. Len(a) + Len(b) :
                 (a \o b)[i] = IF i <= Len(a) THEN a[i] ELSE b[i - Len(a)]
<1>1. Len(a) \in Nat /\ Len(b) \in Nat
    OBVIOUS
<1>2. a \o b \in Seq(S) /\ Len(a \o b) = Len(a) + Len(b)
    OBVIOUS
<1>3. DOMAIN (a \o b) = 1 .. Len(a) + Len(b)
    BY <1>1, <1>2
<1>4. \A i \in 1 .. Len(a) + Len(b) :
          (a \o b)[i] = IF i <= Len(a) THEN a[i] ELSE b[i - Len(a)]
    BY <1>1
<1> QED BY <1>2, <1>3, <1>4

LEMMA Removed ==
    ASSUME NEW S, NEW q \in Seq(S), Distinct(q), NEW k \in DOMAIN q
    PROVE  /\ RemoveAt(q, k) \in Seq(S) /\ Len(RemoveAt(q, k)) = Len(q) - 1
           /\ Distinct(RemoveAt(q, k))
           /\ \A y : In(RemoveAt(q, k), y) <=> In(q, y) /\ y # q[k]
<1> DEFINE a == SubSeq(q, 1, k - 1)
           b == SubSeq(q, k + 1, Len(q))
           t == a \o b
<1>1. Len(q) \in Nat /\ k \in 1 .. Len(q) /\ DOMAIN q = 1 .. Len(q)
    OBVIOUS
<1>2. a \in Seq(S) /\ Len(a) = k - 1 /\ \A i \in 1 .. k - 1 : a[i] = q[i]
    BY <1>1
<1>3. b \in Seq(S) /\ Len(b) = Len(q) - k /\ \A i \in 1 .. Len(q) - k : b[i] = q[i + k]
    BY <1>1
<1> HIDE DEF a, b
<1>4. /\ t \in Seq(S) /\ Len(t) = Len(a) + Len(b) /\ DOMAIN t = 1 .. Len(a) + Len(b)
      /\ \A i \in 1 .. Len(a) + Len(b) : t[i] = IF i <= Len(a) THEN a[i] ELSE b[i - Len(a)]
    BY <1>2, <1>3, Joined
<1> HIDE DEF t
<1>4a. Len(t) = Len(q) - 1 /\ DOMAIN t = 1 .. Len(q) - 1
    BY <1>1, <1>2, <1>3, <1>4
<1>5. \A i \in DOMAIN t : t[i] = IF i < k THEN q[i] ELSE q[i + 1]
    <2> TAKE i \in DOMAIN t
    <2>1. CASE i < k  BY <2>1, <1>1, <1>2, <1>3, <1>4, <1>4a
    <2>2. CASE ~(i < k)
        <3>1. i - (k - 1) \in 1 .. Len(q) - k /\ (i - (k - 1)) + k = i + 1  BY <2>2, <1>1, <1>4a
        <3>2. t[i] = b[i - (k - 1)]  BY <2>2, <1>1, <1>2, <1>3, <1>4, <1>4a
        <3> QED BY <2>2, <3>1, <3>2, <1>3
    <2> QED BY <2>1, <2>2
<1>6. Distinct(t)
    BY <1>1, <1>4a, <1>5 DEF Distinct
<1>7. ASSUME NEW y PROVE In(t, y) <=> In(q, y) /\ y # q[k]
    <2>1. ASSUME NEW i \in DOMAIN t PROVE \E j \in DOMAIN q : j # k /\ t[i] = q[j]
        <3>1. CASE i < k  BY <3>1, <1>1, <1>4a, <1>5
        <3>2. CASE ~(i < k)
            <4>1. i + 1 \in DOMAIN q /\ i + 1 # k  BY <3>2, <1>1, <1>4a
            <4> QED BY <3>2, <4>1, <1>5
        <3> QED BY <3>1, <3>2
    <2>2. ASSUME NEW j \in DOMAIN q, j # k PROVE \E i \in DOMAIN t : t[i] = q[j]
        <3>1. CASE j < k
            <4>1. j \in DOMAIN t  BY <3>1, <1>1, <1>4a
            <4> QED BY <3>1, <4>1, <1>5
        <3>2. CASE ~(j < k)
            <4>1. j - 1 \in DOMAIN t /\ ~(j - 1 < k) /\ (j - 1) + 1 = j  BY <2>2, <3>2, <1>1, <1>4a
            <4>2. t[j - 1] = q[(j - 1) + 1]  BY <4>1, <1>5
            <4> QED BY <4>1, <4>2
        <3> QED BY <3>1, <3>2
    <2> QED BY <2>1, <2>2 DEF In, Distinct
<1> QED BY <1>4, <1>4a, <1>6, <1>7 DEF a, b, t, RemoveAt

-----------------------------------------------------------------------------
(* The cache                                                               *)

(* The address that is touched comes to the front, the least recently used *)
(* leaves a full cache.                                                    *)
LEMMA Touching ==
    ASSUME TypeOK, Listed, NEW ip \in Ip
    PROVE  /\ Touched(ip) \in Seq(Ip) /\ Len(Touched(ip)) <= Capacity /\ Distinct(Touched(ip))
           /\ Gone(ip) \subseteq Ip /\ ip \notin Gone(ip)
           /\ \A x \in Gone(ip) : entry[x] # None
           /\ \A x \in Ip : In(Touched(ip), x) <=> x = ip \/ (In(lru, x) /\ x \notin Gone(ip))
<1>0. /\ lru \in Seq(Ip) /\ Len(lru) \in Nat /\ Len(lru) <= Capacity /\ Distinct(lru)
      /\ Capacity \in Nat \ {0}
      /\ \A x \in Ip : entry[x] # None <=> In(lru, x)
    BY FactsAssumption DEF TypeOK, Listed
<1>1. CASE Evicts(ip)
    <2>1. entry[ip] = None /\ lru # <<>>
        BY <1>0, <1>1 DEF Evicts
    <2>2. /\ Front(lru) \in Seq(Ip) /\ Len(Front(lru)) = Len(lru) - 1
          /\ Distinct(Front(lru)) /\ Last(lru) \in Ip /\ In(lru, Last(lru))
          /\ \A y : In(Front(lru), y) <=> In(lru, y) /\ y # Last(lru)
        BY <1>0, <2>1, Fronted
    <2>3. ~In(Front(lru), ip)
        BY <1>0, <2>1, <2>2
    <2>4. /\ <<ip>> \o Front(lru) \in Seq(Ip) /\ Len(<<ip>> \o Front(lru)) = Len(Front(lru)) + 1
          /\ Distinct(<<ip>> \o Front(lru))
          /\ \A y : In(<<ip>> \o Front(lru), y) <=> y = ip \/ In(Front(lru), y)
        BY <2>2, <2>3, Pushed
    <2>5. Touched(ip) = <<ip>> \o Front(lru) /\ Gone(ip) = {Last(lru)}
        BY <1>1 DEF Touched, Gone
    <2> QED BY <1>0, <2>1, <2>2, <2>4, <2>5
<1>2. CASE ~Evicts(ip) /\ entry[ip] = None
    <2>1. ~In(lru, ip) /\ Len(lru) < Capacity
        BY <1>0, <1>2 DEF Evicts
    <2>2. /\ <<ip>> \o lru \in Seq(Ip) /\ Len(<<ip>> \o lru) = Len(lru) + 1
          /\ Distinct(<<ip>> \o lru)
          /\ \A y : In(<<ip>> \o lru, y) <=> y = ip \/ In(lru, y)
        BY <1>0, <2>1, Pushed
    <2>3. Touched(ip) = <<ip>> \o lru /\ Gone(ip) = {}
        BY <1>2 DEF Touched, Gone
    <2> QED BY <1>0, <2>1, <2>2, <2>3
<1>3. CASE entry[ip] # None
    <2> DEFINE k == CHOOSE i \in DOMAIN lru : lru[i] = ip
               q == RemoveAt(lru, k)
    <2>1. k \in DOMAIN lru /\ lru[k] = ip
        BY <1>0, <1>3 DEF In
    <2>2. Touched(ip) = <<ip>> \o q /\ Gone(ip) = {}
        BY <1>3 DEF Touched, Gone, Evicts
    <2> HIDE DEF k
    <2>3. /\ q \in Seq(Ip) /\ Len(q) = Len(lru) - 1 /\ Distinct(q)
          /\ \A y : In(q, y) <=> In(lru, y) /\ y # lru[k]
        BY <1>0, <2>1, Removed
    <2> HIDE DEF q
    <2>4. /\ <<ip>> \o q \in Seq(Ip) /\ Len(<<ip>> \o q) = Len(q) + 1 /\ Distinct(<<ip>> \o q)
          /\ \A y : In(<<ip>> \o q, y) <=> y = ip \/ In(q, y)
        BY <2>1, <2>3, Pushed
    <2> QED BY <1>0, <1>3, <2>1, <2>2, <2>3, <2>4
<1> QED BY <1>1, <1>2, <1>3

(* After a method of the cache: its entry is there, the evicted one is     *)
(* not, and the flusher knows.                                             *)
LEMMA Putting ==
    ASSUME TypeOK, Listed, Held, NEW ip \in Ip, NEW e \in FactsEntry, Put(ip, e)
    PROVE  /\ lru' \in Seq(Ip) /\ Len(lru') <= Capacity
           /\ entry' \in [Ip -> FactsEntry \cup {None}]
           /\ dirty' \subseteq Ip /\ writing' \in OneWrite \cup {None}
           /\ Listed' /\ Held'
           /\ \A x \in Ip : entry'[x] = IF x = ip THEN e ELSE IF x \in Gone(ip) THEN None ELSE entry[x]
           /\ \A x \in Ip : InFlight(x)' = InFlight(x)
           /\ dirty' = dirty \ Gone(ip)
           /\ writing' = None <=> writing = None
<1>1. /\ Touched(ip) \in Seq(Ip) /\ Len(Touched(ip)) <= Capacity /\ Distinct(Touched(ip))
      /\ Gone(ip) \subseteq Ip /\ ip \notin Gone(ip)
      /\ \A x \in Gone(ip) : entry[x] # None
      /\ \A x \in Ip : In(Touched(ip), x) <=> x = ip \/ (In(lru, x) /\ x \notin Gone(ip))
    BY Touching
<1>2. /\ lru' = Touched(ip) /\ dirty' = dirty \ Gone(ip)
      /\ entry' = [x \in Ip |-> IF x = ip THEN e ELSE IF x \in Gone(ip) THEN None ELSE entry[x]]
      /\ writing' = IF writing # None /\ writing.ip \in Gone(ip)
                    THEN [writing EXCEPT !.detached = TRUE] ELSE writing
    BY DEF Put
<1>3. /\ entry \in [Ip -> FactsEntry \cup {None}] /\ dirty \subseteq Ip
      /\ writing \in OneWrite \cup {None} /\ e # None /\ None \notin OneWrite
      /\ \A x \in Ip : entry[x] # None <=> In(lru, x)
    BY NoneAssumption DEF TypeOK, Listed
<1>4. /\ entry' \in [Ip -> FactsEntry \cup {None}]
      /\ \A x \in Ip : entry'[x] = IF x = ip THEN e ELSE IF x \in Gone(ip) THEN None ELSE entry[x]
    BY <1>2, <1>3
<1>5. Listed'
    BY <1>1, <1>2, <1>3, <1>4 DEF Listed
<1>6. CASE writing = None
    <2>1. writing' = None
        BY <1>2, <1>6
    <2>2. Held'
        BY <1>1, <1>2, <1>3, <1>4, <2>1 DEF Held
    <2> QED BY <1>1, <1>2, <1>3, <1>4, <1>5, <1>6, <2>1, <2>2 DEF InFlight
<1>7. CASE writing # None
    <2>1. writing \in OneWrite /\ writing.ip \in Ip
        BY <1>3, <1>7 DEF OneWrite
    <2>2. /\ writing' \in OneWrite /\ writing'.ip = writing.ip /\ writing'.n = writing.n
          /\ writing'.detached = FALSE => writing.detached = FALSE /\ writing.ip \notin Gone(ip)
        BY <1>2, <1>7, <2>1 DEF OneWrite
    <2>3. writing' # None
        BY <1>3, <2>2
    <2>4. Held'
        BY <1>1, <1>2, <1>3, <1>4, <1>7, <2>1, <2>2 DEF Held
    <2> QED BY <1>1, <1>2, <1>3, <1>4, <1>5, <1>7, <2>2, <2>3, <2>4 DEF InFlight
<1> QED BY <1>6, <1>7

LEMMA FloorIn ==
    ASSUME NEW n \in 0 .. FullReputation, NEW k \in Nat
    PROVE  Floor(n, k) \in 0 .. FullReputation
BY FactsAssumption DEF Floor

LEMMA PenalisedIn ==
    ASSUME NEW r \in ReputationRow \cup {None}, NEW n \in Nat, NEW hot \in BOOLEAN
    PROVE  Penalised(r, n, hot) \in ReputationRow
<1>1. 0 \in 0 .. RetentionDays /\ FullReputation \in 0 .. FullReputation
    BY FactsAssumption
<1>2. CASE r = None
    <2>1. Floor(FullReputation, n) \in 0 .. FullReputation
        BY <1>1, FloorIn
    <2> QED BY <1>1, <1>2, <2>1 DEF Penalised, ReputationRow
<1>3. CASE r # None
    <2>1. r \in ReputationRow
        BY <1>3
    <2>2. r.score \in 0 .. FullReputation /\ r.hot \in BOOLEAN
        BY <2>1 DEF ReputationRow
    <2>3. Floor(r.score, n) \in 0 .. FullReputation
        BY <2>2, FloorIn
    <2>4. (hot \/ (r # None /\ r.hot)) \in BOOLEAN
        OBVIOUS
    <2> QED BY <1>1, <1>3, <2>3, <2>4 DEF Penalised, ReputationRow
<1> QED BY <1>2, <1>3

(* What an entry owes more is owed, what the evicted one owed is written,  *)
(* or is known to be lost.                                                 *)
LEMMA Accounting ==
    ASSUME TypeOK, Listed, Held, PenaltiesKept, NEW ip \in Ip, NEW e \in FactsEntry,
           NEW more \in Nat, e.pending = Pending(ip) + more, Put(ip, e), WriteBack(ip, more)
    PROVE  /\ rep' \in [Ip -> ReputationRow \cup {None}]
           /\ owed' \in [Ip -> Int] /\ lossy' \subseteq Ip /\ lossy \subseteq lossy'
           /\ PenaltiesKept'
<1>0. /\ rep \in [Ip -> ReputationRow \cup {None}] /\ owed \in [Ip -> Int] /\ lossy \subseteq Ip
      /\ entry \in [Ip -> FactsEntry \cup {None}] /\ writing \in OneWrite \cup {None}
      /\ None \notin FactsEntry /\ None \notin OneWrite
    BY NoneAssumption DEF TypeOK
<1>1. /\ \A x \in Ip : entry'[x] = IF x = ip THEN e ELSE IF x \in Gone(ip) THEN None ELSE entry[x]
      /\ \A x \in Ip : InFlight(x)' = InFlight(x)
    BY Putting
<1>2. /\ Gone(ip) \subseteq Ip /\ ip \notin Gone(ip) /\ \A x \in Gone(ip) : entry[x] # None
    BY Touching
<1>3. \A x \in Ip : Pending(x) \in Nat /\ InFlight(x) \in Nat
    BY <1>0 DEF Pending, InFlight, FactsEntry, OneWrite
<1>4. \A x \in Ip : Pending(x)' = IF x = ip THEN Pending(ip) + more
                                  ELSE IF x \in Gone(ip) THEN 0 ELSE Pending(x)
    BY <1>0, <1>1, <1>2 DEF Pending
<1>5. /\ Debtors(ip) \subseteq Gone(ip)
      /\ \A x \in Gone(ip) : x \notin Debtors(ip) => Pending(x) = 0
      /\ \A x \in Debtors(ip) : entry[x].pending = Pending(x)
    <2>1. ASSUME NEW x \in Gone(ip) PROVE Pending(x) = entry[x].pending /\ Pending(x) \in Nat
        BY <1>2, <1>3 DEF Pending
    <2> QED BY <2>1 DEF Debtors
<1>6. \A x \in Ip \ lossy : owed[x] = Pending(x) + InFlight(x)
    BY DEF PenaltiesKept
<1>7. CASE /\ rep' = [x \in Ip |-> IF x \in Debtors(ip)
                                   THEN Penalised(rep[x], entry[x].pending, TRUE) ELSE rep[x]]
           /\ Owe(ip, more, Debtors(ip))
           /\ UNCHANGED lossy
    <2>1. ASSUME NEW x \in Ip, x \in Debtors(ip)
          PROVE  Penalised(rep[x], entry[x].pending, TRUE) \in ReputationRow
        <3>1. entry[x].pending \in Nat /\ rep[x] \in ReputationRow \cup {None}
            BY <1>0, <1>3, <1>5, <2>1
        <3> QED BY <3>1, PenalisedIn
    <2>2. rep' \in [Ip -> ReputationRow \cup {None}]
        BY <1>0, <1>7, <2>1
    <2>3. owed' = [x \in Ip |-> owed[x] + (IF x = ip THEN more ELSE 0)
                                        - (IF x \in Debtors(ip) THEN Pending(x) ELSE 0)]
        BY <1>5, <1>7 DEF Owe
    <2>4. owed' \in [Ip -> Int]
        BY <1>0, <1>3, <2>3
    <2>5. ASSUME NEW x \in Ip, x \notin lossy
          PROVE  owed'[x] = Pending(x)' + InFlight(x)'
        <3>1. owed'[x] = owed[x] + (IF x = ip THEN more ELSE 0)
                                 - (IF x \in Debtors(ip) THEN Pending(x) ELSE 0)
            BY <2>3
        <3>2. owed[x] = Pending(x) + InFlight(x) /\ owed[x] \in Int
            BY <1>0, <1>6, <2>5
        <3>3. InFlight(x)' = InFlight(x)
            BY <1>1
        <3>4. CASE x = ip
            <4>1. x \notin Debtors(ip) /\ Pending(x)' = Pending(x) + more
                BY <1>2, <1>4, <1>5, <3>4
            <4> QED BY <1>3, <3>1, <3>2, <3>3, <3>4, <4>1
        <3>5. CASE x # ip /\ x \in Gone(ip)
            <4>1. Pending(x)' = 0
                BY <1>4, <3>5
            <4>2. x \in Debtors(ip) \/ Pending(x) = 0
                BY <1>5, <3>5
            <4> QED BY <1>3, <3>1, <3>2, <3>3, <3>5, <4>1, <4>2
        <3>6. CASE x # ip /\ x \notin Gone(ip)
            <4>1. x \notin Debtors(ip) /\ Pending(x)' = Pending(x)
                BY <1>4, <1>5, <3>6
            <4> QED BY <1>3, <3>1, <3>2, <3>3, <3>6, <4>1
        <3> QED BY <3>4, <3>5, <3>6
    <2>6. lossy' = lossy
        BY <1>7
    <2>7. PenaltiesKept'
        BY <2>5, <2>6 DEF PenaltiesKept
    <2> QED BY <1>0, <2>2, <2>4, <2>6, <2>7
<1>8. CASE /\ Debtors(ip) # {}
           /\ lossy' = lossy \cup Debtors(ip)
           /\ Owe(ip, more, {})
           /\ UNCHANGED rep
    <2>1. owed' = [x \in Ip |-> owed[x] + (IF x = ip THEN more ELSE 0) - 0]
        BY <1>8 DEF Owe
    <2>2. owed' \in [Ip -> Int]
        BY <1>0, <2>1
    <2>3. ASSUME NEW x \in Ip, x \notin lossy'
          PROVE  owed'[x] = Pending(x)' + InFlight(x)'
        <3>1. x \notin lossy /\ x \notin Debtors(ip)
            BY <1>8, <2>3
        <3>2. owed[x] = Pending(x) + InFlight(x) /\ owed[x] \in Int
            BY <1>0, <1>6, <3>1
        <3>3. owed'[x] = owed[x] + (IF x = ip THEN more ELSE 0)
            BY <2>1, <3>2
        <3>4. InFlight(x)' = InFlight(x)
            BY <1>1
        <3>5. Pending(x)' = Pending(x) + (IF x = ip THEN more ELSE 0)
            BY <1>2, <1>3, <1>4, <1>5, <3>1
        <3> QED BY <1>3, <3>2, <3>3, <3>4, <3>5
    <2>4. PenaltiesKept'
        BY <2>3 DEF PenaltiesKept
    <2> QED BY <1>0, <1>2, <1>5, <1>8, <2>2, <2>4
<1> QED BY <1>7, <1>8 DEF WriteBack

LEMMA EntryIs ==
    ASSUME TypeOK, NEW ip \in Ip
    PROVE  /\ Entry(ip) \in FactsEntry /\ Entry(ip).pending = Pending(ip)
           /\ Pending(ip) \in Nat
           /\ entry[ip] = None => Entry(ip).bans = None
           /\ entry[ip] # None => Entry(ip) = entry[ip]
<1>1. entry[ip] \in FactsEntry \cup {None}
    BY DEF TypeOK
<1>2. Unknown \in FactsEntry /\ Unknown.pending = 0 /\ Unknown.bans = None
    BY DEF Unknown, FactsEntry
<1>3. CASE entry[ip] = None
    BY <1>2, <1>3 DEF Entry, Pending
<1>4. CASE entry[ip] # None
    <2>1. entry[ip] \in FactsEntry /\ entry[ip].pending \in Nat
        BY <1>1, <1>4 DEF FactsEntry
    <2> QED BY <1>4, <2>1 DEF Entry, Pending
<1> QED BY <1>3, <1>4

LEMMA ScoreLoaded ==
    ASSUME TypeOK, NEW ip \in Ip, NEW e \in FactsEntry, NEW f \in LoadScore(e, ip)
    PROVE  /\ f \in FactsEntry /\ f.score \in 0 .. FullReputation
           /\ f.bans = e.bans /\ f.pending = e.pending /\ f.blind = e.blind
<1>1. StoredScore(ip) \in 0 .. FullReputation /\ FullReputation \in 0 .. FullReputation
    <2>1. rep[ip] \in ReputationRow \cup {None}
        BY DEF TypeOK
    <2>2. FullReputation \in 0 .. FullReputation
        BY FactsAssumption
    <2> QED BY <2>1, <2>2 DEF StoredScore, ReputationRow
<1>2. CASE e.score # None
    BY <1>2 DEF LoadScore, FactsEntry
<1>3. CASE e.score = None
    <2>1. PICK s \in {StoredScore(ip), FullReputation} : f = [e EXCEPT !.score = s]
        BY <1>3 DEF LoadScore
    <2>2. s \in 0 .. FullReputation
        BY <1>1, <2>1
    <2> QED BY <2>1, <2>2 DEF FactsEntry
<1> QED BY <1>2, <1>3

LEMMA BansLoaded ==
    ASSUME TypeOK, NEW ip \in Ip, NEW e \in FactsEntry, NEW f \in LoadBans(e, ip)
    PROVE  /\ f \in FactsEntry /\ f.bans \in Nat
           /\ f.score = e.score /\ f.pending = e.pending
           /\ e.bans # None => f = e
           /\ e.bans = None /\ f.blind = FALSE => f.bans = StoredBans(ip)
<1>1. StoredBans(ip) \in Nat
    <2>1. hist[ip] \in HistoryRow \cup {None}
        BY DEF TypeOK
    <2> QED BY <2>1 DEF StoredBans, HistoryRow
<1>2. CASE e.bans # None
    BY <1>2 DEF LoadBans, FactsEntry
<1>3. CASE e.bans = None
    <2>1. CASE f = [e EXCEPT !.bans = StoredBans(ip)]
        BY <1>1, <1>3, <2>1 DEF FactsEntry
    <2>2. CASE f = [e EXCEPT !.bans = 0, !.blind = TRUE]
        BY <1>3, <2>2 DEF FactsEntry
    <2> QED BY <1>3, <2>1, <2>2 DEF LoadBans
<1> QED BY <1>2, <1>3

(* A count that was read, or is in the cache, is that of the history; the  *)
(* address whose ban is being noted is one behind.                         *)
LEMMA CountKnown ==
    ASSUME TypeOK, RowCounts, EntryCounts, NEW ip \in Ip, NEW e \in FactsEntry,
           e.bans = Entry(ip).bans, e.blind = Entry(ip).blind, NEW f \in LoadBans(e, ip),
           f.blind = FALSE, Key[ip] = ip
    PROVE  autos[ip] <= f.bans + Behind(ip)
<1>1. autos[ip] \in Nat /\ Behind(ip) \in Nat
    BY DEF TypeOK, Behind
<1>2. /\ f.bans \in Nat
      /\ e.bans # None => f = e
      /\ e.bans = None /\ f.blind = FALSE => f.bans = StoredBans(ip)
    BY BansLoaded
<1>3. CASE e.bans = None
    BY <1>1, <1>2, <1>3 DEF RowCounts
<1>4. CASE e.bans # None
    <2>1. entry[ip] # None /\ Entry(ip) = entry[ip]
        BY <1>4, EntryIs
    <2> QED BY <1>2, <1>4, <2>1 DEF EntryCounts
<1> QED BY <1>3, <1>4

-----------------------------------------------------------------------------
(* Every step keeps the invariant                                          *)

LEMMA InitOK == Init => IInv
<1> SUFFICES ASSUME Init PROVE IInv
    OBVIOUS
<1>1. TypeOK
    BY FactsAssumption DEF Init, TypeOK
<1>2. Listed /\ Held
    BY DEF Init, Listed, Held, Distinct, In
<1>3. PenaltiesKept
    BY DEF Init, PenaltiesKept, Pending, InFlight
<1>4. Rests /\ Covered /\ Working
    BY DEF Init, Rests, Covered, Working
<1>5. RowCounts /\ EntryCounts
    BY DEF Init, RowCounts, EntryCounts, StoredBans
<1> QED BY <1>1, <1>2, <1>3, <1>4, <1>5 DEF IInv

LEMMA JudgeLineOK ==
    ASSUME IInv, NEW ip \in Ip, JudgeLine(ip)
    PROVE  IInv' /\ (Len(out') > Len(out) =>
                       Last(out').level > autos[Key[Last(out').ip]] \/ entry'[Key[Last(out').ip]].blind)
<1> DEFINE k == Key[ip]
<1>0. TypeOK /\ Listed /\ Held /\ PenaltiesKept /\ RowCounts /\ EntryCounts
    BY DEF IInv
<1>k. k \in Ip /\ Key[k] = k
    BY FactsAssumption
<1>1. /\ phase = "up" /\ epc = "judge" /\ Spend /\ WriteBack(k, 1)
      /\ UNCHANGED <<hist, cut, epc, apc, eip, aip, level, mirror, phase, autos>>
    BY DEF JudgeLine
<1>2. PICK f \in Failed(k) : \/ Put(k, f) /\ UNCHANGED out
                             \/ \E e \in LoadBans(f, k) :
                                   Put(k, e) /\ out' = Append(out, [ip |-> ip, level |-> e.bans + 1])
    BY DEF JudgeLine
<1>m. Key[ip] = k
    OBVIOUS
<1> HIDE DEF k
<1> USE <1>k
<1>3. /\ f \in FactsEntry /\ f.pending = Pending(k) + 1
      /\ f.bans = Entry(k).bans /\ f.blind = Entry(k).blind
    <2>1. /\ Entry(k) \in FactsEntry /\ Entry(k).pending = Pending(k) /\ Pending(k) \in Nat
        BY <1>0, EntryIs
    <2>2. PICK g \in LoadScore(Entry(k), k) : f = [g EXCEPT !.score = Floor(@, 1), !.pending = @ + 1]
        BY <1>2 DEF Failed
    <2>3. /\ g \in FactsEntry /\ g.score \in 0 .. FullReputation /\ g.bans = Entry(k).bans
          /\ g.pending = Pending(k) /\ g.blind = Entry(k).blind
        BY <1>0, <2>1, <2>2, ScoreLoaded
    <2>4. Floor(g.score, 1) \in 0 .. FullReputation
        BY <2>3, FloorIn
    <2>5. f = [g EXCEPT !.score = Floor(g.score, 1), !.pending = g.pending + 1]
        BY <2>2
    <2>6. /\ f \in FactsEntry /\ f.pending = g.pending + 1
          /\ f.bans = g.bans /\ f.blind = g.blind
        <3>1. g.pending + 1 \in Nat
            BY <2>1, <2>3
        <3> DEFINE s == Floor(g.score, 1)
                   n == g.pending + 1
        <3>2. s \in 0 .. FullReputation /\ n \in Nat /\ f = [g EXCEPT !.score = s, !.pending = n]
            BY <2>4, <2>5, <3>1
        <3> HIDE DEF s, n
        <3>3. f \in FactsEntry /\ f.pending = n /\ f.bans = g.bans /\ f.blind = g.blind
            BY <2>3, <3>2 DEF FactsEntry
        <3> QED BY <3>3 DEF n
    <2> QED BY <2>3, <2>6
<1>4. PICK e \in FactsEntry :
         /\ Put(k, e) /\ e.pending = Pending(k) + 1
         /\ e.bans # None /\ e.blind = FALSE => autos[k] <= e.bans + Behind(k)
         /\ out' \in Seq(Intent)
         /\ Len(out') > Len(out) =>
              Last(out') = [ip |-> ip, level |-> e.bans + 1] /\ e.bans \in Nat
    <2>1. CASE Put(k, f) /\ UNCHANGED out
        <3>1. f.bans # None /\ f.blind = FALSE => autos[k] <= f.bans + Behind(k)
            <4>1. f.bans # None => entry[k] # None /\ Entry(k) = entry[k]
                BY <1>0, <1>3, EntryIs
            <4> QED BY <1>0, <1>3, <4>1 DEF EntryCounts
        <3>2. out' \in Seq(Intent) /\ ~(Len(out') > Len(out))
            BY <1>0, <2>1 DEF TypeOK
        <3> QED BY <1>3, <2>1, <3>1, <3>2
    <2>2. ASSUME NEW g \in LoadBans(f, k), Put(k, g),
                 out' = Append(out, [ip |-> ip, level |-> g.bans + 1])
          PROVE  /\ g \in FactsEntry /\ g.pending = Pending(k) + 1 /\ g.bans \in Nat
                 /\ g.blind = FALSE => autos[k] <= g.bans + Behind(k)
                 /\ out' \in Seq(Intent)
                 /\ Last(out') = [ip |-> ip, level |-> g.bans + 1]
        <3>1. g \in FactsEntry /\ g.bans \in Nat /\ g.pending = Pending(k) + 1
            BY <1>0, <1>3, BansLoaded
        <3>2. g.blind = FALSE => autos[k] <= g.bans + Behind(k)
            BY <1>0, <1>3, CountKnown
        <3>3. [ip |-> ip, level |-> g.bans + 1] \in Intent
            BY <3>1 DEF Intent
        <3>4. out \in Seq(Intent)
            BY <1>0 DEF TypeOK
        <3>5. out' \in Seq(Intent) /\ Last(out') = [ip |-> ip, level |-> g.bans + 1]
            BY <2>2, <3>3, <3>4 DEF Last
        <3> QED BY <3>1, <3>2, <3>5
    <2> QED BY <1>2, <2>1, <2>2
<1>5. /\ lru' \in Seq(Ip) /\ Len(lru') <= Capacity
      /\ entry' \in [Ip -> FactsEntry \cup {None}]
      /\ dirty' \subseteq Ip /\ writing' \in OneWrite \cup {None}
      /\ Listed' /\ Held'
      /\ \A x \in Ip : entry'[x] = IF x = k THEN e ELSE IF x \in Gone(k) THEN None ELSE entry[x]
    BY <1>0, <1>4, Putting
<1>6. /\ rep' \in [Ip -> ReputationRow \cup {None}]
      /\ owed' \in [Ip -> Int] /\ lossy' \subseteq Ip /\ PenaltiesKept'
    BY <1>0, <1>1, <1>4, Accounting
<1>7. TypeOK'
    <2>1. /\ hist' = hist /\ cut' = cut /\ epc' = epc /\ apc' = apc /\ eip' = eip /\ aip' = aip
          /\ level' = level /\ mirror' = mirror /\ phase' = phase /\ autos' = autos
        BY <1>1
    <2>2. ops' \in Nat
        BY <1>0, <1>1 DEF TypeOK, Spend
    <2> QED BY <1>0, <1>4, <1>5, <1>6, <2>1, <2>2 DEF TypeOK
<1>8. Rests' /\ Covered' /\ Working'
    BY <1>1 DEF Rests, Covered, Working
<1>9. RowCounts'
    BY <1>0, <1>1 DEF RowCounts, StoredBans
<1>10. EntryCounts'
    BY <1>0, <1>1, <1>4, <1>5 DEF EntryCounts, Behind
<1>11. Len(out') > Len(out) =>
           Last(out').level > autos[Key[Last(out').ip]] \/ entry'[Key[Last(out').ip]].blind
    <2> HAVE Len(out') > Len(out)
    <2>1. /\ Key[Last(out').ip] = k /\ Last(out').level = e.bans + 1 /\ e.bans \in Nat
        BY <1>4, <1>m
    <2>2. entry'[k] = e /\ e.blind \in BOOLEAN
        BY <1>5 DEF FactsEntry
    <2>3. CASE e.blind = FALSE
        <3>1. autos[k] <= e.bans + 0 /\ autos[k] \in Nat
            BY <1>0, <1>1, <1>4, <2>1, <2>3, NoneAssumption, FactsAssumption DEF Behind, TypeOK
        <3> QED BY <2>1, <3>1
    <2>4. CASE e.blind = TRUE
        BY <2>1, <2>2, <2>4
    <2> QED BY <2>2, <2>3, <2>4
<1> QED BY <1>5, <1>6, <1>7, <1>8, <1>9, <1>10, <1>11 DEF IInv

LEMMA NoteBanOK ==
    ASSUME IInv, NoteBan
    PROVE  IInv'
<1> DEFINE k == Key[eip]
<1>0. TypeOK /\ Listed /\ Held /\ PenaltiesKept /\ RowCounts /\ EntryCounts
    BY DEF IInv
<1>1. /\ epc = "note" /\ epc' = "send" /\ WriteBack(k, 0)
      /\ hist' = hist /\ cut' = cut /\ out' = out /\ apc' = apc /\ eip' = eip /\ aip' = aip
      /\ level' = level /\ mirror' = mirror /\ phase' = phase /\ autos' = autos /\ ops' = ops
    BY DEF NoteBan
<1>2. eip \in Ip /\ phase = "up"
    BY <1>1 DEF IInv, Working, Rests
<1>k. k \in Ip /\ Key[k] = k
    BY <1>2, FactsAssumption
<1>3. PICK f \in LoadScore(Entry(k), k) : \E g \in LoadBans(f, k) :
          Put(k, [g EXCEPT !.score = Floor(@, 1), !.bans = @ + 1])
    BY DEF NoteBan
<1>4. PICK g \in LoadBans(f, k) : Put(k, [g EXCEPT !.score = Floor(@, 1), !.bans = @ + 1])
    BY <1>3
<1>m. Key[eip] = k
    OBVIOUS
<1> HIDE DEF k
<1> USE <1>k
<1>5. /\ f \in FactsEntry /\ f.score \in 0 .. FullReputation /\ f.pending = Pending(k)
      /\ f.bans = Entry(k).bans /\ f.blind = Entry(k).blind /\ Pending(k) \in Nat
    BY <1>0, <1>2, <1>3, EntryIs, ScoreLoaded
<1>6. /\ g \in FactsEntry /\ g.score \in 0 .. FullReputation /\ g.bans \in Nat
      /\ g.pending = Pending(k)
      /\ g.blind = FALSE => autos[k] <= g.bans + Behind(k)
    BY <1>0, <1>2, <1>4, <1>5, BansLoaded, CountKnown
<1>7. PICK e \in FactsEntry :
          /\ Put(k, e) /\ e.pending = Pending(k) + 0
          /\ e.blind = FALSE => autos[k] <= e.bans
    <2> DEFINE s == Floor(g.score, 1)
               n == g.bans + 1
               e == [g EXCEPT !.score = s, !.bans = n]
    <2>1. s \in 0 .. FullReputation /\ n \in Nat /\ Put(k, e)
        BY <1>4, <1>6, FloorIn
    <2>2. g.blind = FALSE => autos[k] <= n
        <3>1. autos[k] \in Nat /\ Behind(k) \in {0, 1}
            BY <1>0 DEF TypeOK, Behind
        <3> QED BY <1>6, <3>1
    <2> HIDE DEF s, n
    <2>3. e \in FactsEntry /\ e.pending = g.pending /\ e.bans = n /\ e.blind = g.blind
        BY <1>6, <2>1 DEF FactsEntry
    <2>4. e.pending = Pending(k) + 0
        BY <1>5, <1>6, <2>3
    <2> HIDE DEF e
    <2> QED BY <2>1, <2>2, <2>3, <2>4
<1>8. /\ lru' \in Seq(Ip) /\ Len(lru') <= Capacity
      /\ entry' \in [Ip -> FactsEntry \cup {None}]
      /\ dirty' \subseteq Ip /\ writing' \in OneWrite \cup {None}
      /\ Listed' /\ Held'
      /\ \A x \in Ip : entry'[x] = IF x = k THEN e ELSE IF x \in Gone(k) THEN None ELSE entry[x]
    BY <1>0, <1>2, <1>7, Putting
<1>9. /\ rep' \in [Ip -> ReputationRow \cup {None}]
      /\ owed' \in [Ip -> Int] /\ lossy' \subseteq Ip /\ PenaltiesKept'
    BY <1>0, <1>1, <1>2, <1>7, Accounting
<1>10. TypeOK'
    BY <1>0, <1>1, <1>8, <1>9 DEF TypeOK
<1>11. Rests' /\ Covered' /\ Working'
    BY <1>1, <1>2 DEF Rests, Covered, Working
<1>12. RowCounts'
    BY <1>0, <1>1 DEF RowCounts, StoredBans
<1>13. EntryCounts'
    <2>1. ASSUME NEW x \in Ip, Key[x] = x,
                 entry'[x] # None, entry'[x].bans # None, entry'[x].blind = FALSE
          PROVE  autos'[x] <= entry'[x].bans + Behind(x)'
        <3>1. Behind(x)' = 0 /\ autos' = autos
            BY <1>1 DEF Behind
        <3>2. CASE x = k
            <4>1. entry'[x] = e /\ autos[x] <= e.bans /\ e.bans \in Nat
                BY <1>7, <1>8, <2>1, <3>2 DEF FactsEntry
            <4> QED BY <3>1, <4>1
        <3>3. CASE x # k
            <4>1. entry'[x] = entry[x] /\ Behind(x) = 0
                BY <1>8, <1>m, <2>1, <3>3 DEF Behind
            <4> QED BY <1>0, <2>1, <3>1, <4>1 DEF EntryCounts
        <3> QED BY <3>2, <3>3
    <2> QED BY <2>1 DEF EntryCounts
<1> QED BY <1>8, <1>9, <1>10, <1>11, <1>12, <1>13 DEF IInv

(* Steps that leave the cache and the flusher alone keep the accounts.     *)
LEMMA CacheAlone ==
    ASSUME IInv, UNCHANGED <<lru, entry, dirty, writing, owed, lossy>>
    PROVE  Listed' /\ Held' /\ PenaltiesKept'
<1>1. lru' = lru /\ entry' = entry /\ dirty' = dirty /\ writing' = writing /\ owed' = owed /\ lossy' = lossy
    OBVIOUS
<1> QED BY <1>1 DEF IInv, Listed, Held, PenaltiesKept, Pending, InFlight

LEMMA DispatchOK ==
    ASSUME IInv, ChunkEnds \/ Skip \/ TryInsert \/ Send \/ Dispatched
    PROVE  IInv' /\ ~(Len(out') > Len(out))
<1>0. TypeOK /\ Rests /\ Covered /\ Working /\ RowCounts /\ EntryCounts
    BY DEF IInv
<1>1. /\ hist' = hist /\ rep' = rep /\ cut' = cut /\ lru' = lru /\ entry' = entry /\ dirty' = dirty
      /\ writing' = writing /\ apc' = apc /\ aip' = aip /\ phase' = phase
      /\ owed' = owed /\ lossy' = lossy /\ autos' = autos /\ ops' = ops
    BY DEF ChunkEnds, Skip, TryInsert, Send, Dispatched, dbVars, cacheVars, flushVars, auxVars
<1>2. Listed' /\ Held' /\ PenaltiesKept'
    BY <1>1, CacheAlone
<1>3. out \in Seq(Intent) /\ Len(out) \in Nat
    BY <1>0 DEF TypeOK
<1>4. /\ out' \in Seq(Intent) /\ ~(Len(out') > Len(out)) /\ epc' \in {"dispatch", "history", "judge"}
      /\ eip' \in Ip \cup {None} /\ level' \in Nat /\ mirror' \subseteq Ip
      /\ epc \in {"judge", "dispatch", "send"}
      /\ epc' = "history" => eip' \in Ip
      /\ phase = "up"
    <2>1. CASE ChunkEnds
        BY <1>0, <1>3, <2>1 DEF ChunkEnds, TypeOK, Rests
    <2>2. CASE Skip \/ TryInsert
        <3>1. epc = "dispatch" /\ out # <<>> /\ out' = Tail(out)
            BY <2>2 DEF Skip, TryInsert
        <3>2. Head(out) \in Intent /\ Tail(out) \in Seq(Intent) /\ Len(Tail(out)) = Len(out) - 1
            BY <1>3, <3>1
        <3>3. Head(out).ip \in Ip /\ Head(out).level \in Nat
            BY <3>2 DEF Intent
        <3>4. phase = "up"
            BY <1>0, <3>1 DEF Rests
        <3>5. CASE Skip
            BY <1>0, <1>3, <3>1, <3>2, <3>4, <3>5 DEF Skip, TypeOK
        <3>6. CASE TryInsert
            BY <1>0, <1>3, <3>1, <3>2, <3>3, <3>4, <3>6 DEF TryInsert, TypeOK
        <3> QED BY <2>2, <3>5, <3>6
    <2>3. CASE Send
        BY <1>0, <1>3, <2>3 DEF Send, TypeOK, Rests
    <2>4. CASE Dispatched
        BY <1>0, <1>3, <2>4 DEF Dispatched, TypeOK, Rests
    <2> QED BY <2>1, <2>2, <2>3, <2>4
<1>5. TypeOK'
    BY <1>0, <1>1, <1>4 DEF TypeOK
<1>6. Rests' /\ Covered' /\ Working'
    BY <1>1, <1>4 DEF Rests, Covered, Working
<1>7. RowCounts' /\ EntryCounts'
    BY <1>0, <1>1, <1>4 DEF RowCounts, StoredBans, EntryCounts, Behind
<1> QED BY <1>2, <1>4, <1>5, <1>6, <1>7 DEF IInv

LEMMA CountedIn ==
    ASSUME NEW h \in HistoryRow \cup {None}
    PROVE  Counted(h) \in HistoryRow /\ Counted(h).count = (IF h = None THEN 1 ELSE h.count + 1)
<1>1. 0 \in 0 .. RetentionDays
    BY FactsAssumption
<1>2. CASE h = None
    BY <1>1, <1>2 DEF Counted, HistoryRow
<1>3. CASE h # None
    BY <1>1, <1>3 DEF Counted, HistoryRow
<1> QED BY <1>2, <1>3

(* One ban more in the history of an address.                              *)
LEMMA HistoryGrows ==
    ASSUME TypeOK, NEW ip \in Ip, hist' = [hist EXCEPT ![ip] = Counted(@)]
    PROVE  /\ hist' \in [Ip -> HistoryRow \cup {None}]
           /\ \A x \in Ip : StoredBans(x)' = IF x = ip THEN StoredBans(x) + 1 ELSE StoredBans(x)
<1>1. hist \in [Ip -> HistoryRow \cup {None}] /\ None \notin HistoryRow
    BY NoneAssumption DEF TypeOK
<1>2. /\ Counted(hist[ip]) \in HistoryRow
      /\ Counted(hist[ip]).count = (IF hist[ip] = None THEN 1 ELSE hist[ip].count + 1)
    BY <1>1, CountedIn
<1> HIDE DEF Counted
<1>3. /\ hist' \in [Ip -> HistoryRow \cup {None}]
      /\ \A x \in Ip : hist'[x] = IF x = ip THEN Counted(hist[ip]) ELSE hist[x]
    BY <1>1, <1>2
<1>4. StoredBans(ip)' = StoredBans(ip) + 1
    BY <1>1, <1>2, <1>3 DEF StoredBans
<1>5. \A x \in Ip : x # ip => StoredBans(x)' = StoredBans(x)
    BY <1>3 DEF StoredBans
<1> QED BY <1>3, <1>4, <1>5

LEMMA StoredIsNat ==
    ASSUME TypeOK, NEW ip \in Ip
    PROVE  StoredBans(ip) \in Nat
BY DEF TypeOK, StoredBans, HistoryRow

LEMMA RecordBanHistoryOK ==
    ASSUME IInv, RecordBanHistory
    PROVE  IInv' /\ out' = out
<1>0. TypeOK /\ Rests /\ Covered /\ Working /\ RowCounts /\ EntryCounts
    BY DEF IInv
<1>1. /\ epc = "history" /\ epc' = "penalty"
      /\ rep' = rep /\ cut' = cut /\ lru' = lru /\ entry' = entry /\ dirty' = dirty
      /\ writing' = writing /\ out' = out /\ apc' = apc /\ eip' = eip /\ aip' = aip
      /\ level' = level /\ mirror' = mirror /\ phase' = phase /\ owed' = owed /\ lossy' = lossy
    BY DEF RecordBanHistory, cacheVars, flushVars
<1>2. Listed' /\ Held' /\ PenaltiesKept'
    BY <1>1, CacheAlone
<1>3. eip \in Ip /\ phase = "up"
    BY <1>0, <1>1 DEF Working, Rests
<1>4. Rests' /\ Covered' /\ Working'
    BY <1>1, <1>3 DEF Rests, Covered, Working
<1>5. \A x \in Ip : Behind(x) = 0 /\ Behind(x)' = IF x = eip THEN 1 ELSE 0
    BY <1>1 DEF Behind
<1>6. autos \in [Ip -> Nat] /\ ops \in Nat
    BY <1>0 DEF TypeOK
<1>7. CASE /\ hist' = [hist EXCEPT ![eip] = Counted(@)]
           /\ autos' = [autos EXCEPT ![eip] = @ + 1]
           /\ UNCHANGED ops
    <2>1. /\ hist' \in [Ip -> HistoryRow \cup {None}]
          /\ \A x \in Ip : StoredBans(x)' = IF x = eip THEN StoredBans(x) + 1 ELSE StoredBans(x)
        BY <1>0, <1>3, <1>7, HistoryGrows
    <2>2. /\ autos' \in [Ip -> Nat] /\ ops' = ops
          /\ \A x \in Ip : autos'[x] = IF x = eip THEN autos[x] + 1 ELSE autos[x]
        <3>1. autos' = [autos EXCEPT ![eip] = autos[eip] + 1] /\ ops' = ops
            BY <1>7
        <3>2. autos[eip] + 1 \in Nat
            BY <1>3, <1>6
        <3> QED BY <1>3, <1>6, <3>1, <3>2
    <2>3. TypeOK'
        BY <1>0, <1>1, <2>1, <2>2 DEF TypeOK
    <2>4. RowCounts'
        BY <1>0, <1>6, <2>1, <2>2, StoredIsNat DEF RowCounts
    <2>5. EntryCounts'
        <3>1. ASSUME NEW x \in Ip, Key[x] = x,
               entry[x] # None, entry[x].bans # None, entry[x].blind = FALSE
              PROVE  autos'[x] <= entry[x].bans + Behind(x)'
            <4>1. entry[x].bans \in Nat
                BY <1>0, <3>1 DEF TypeOK, FactsEntry
            <4>2. autos[x] <= entry[x].bans + 0
                BY <1>0, <1>5, <3>1 DEF EntryCounts
            <4> QED BY <1>5, <1>6, <2>2, <4>1, <4>2
        <3> QED BY <1>1, <3>1 DEF EntryCounts
    <2> QED BY <1>1, <1>2, <1>4, <2>3, <2>4, <2>5 DEF IInv
<1>8. CASE Spend /\ UNCHANGED <<hist, autos>>
    <2>1. hist' = hist /\ autos' = autos /\ ops' \in Nat
        BY <1>6, <1>8 DEF Spend
    <2>2. TypeOK'
        BY <1>0, <1>1, <2>1 DEF TypeOK
    <2>3. RowCounts'
        BY <1>0, <2>1 DEF RowCounts, StoredBans
    <2>4. EntryCounts'
        <3>1. ASSUME NEW x \in Ip, Key[x] = x,
               entry[x] # None, entry[x].bans # None, entry[x].blind = FALSE
              PROVE  autos'[x] <= entry[x].bans + Behind(x)'
            <4>1. entry[x].bans \in Nat
                BY <1>0, <3>1 DEF TypeOK, FactsEntry
            <4>2. autos[x] <= entry[x].bans + 0
                BY <1>0, <1>5, <3>1 DEF EntryCounts
            <4> QED BY <1>5, <1>6, <2>1, <4>1, <4>2
        <3> QED BY <1>1, <3>1 DEF EntryCounts
    <2> QED BY <1>1, <1>2, <1>4, <2>2, <2>3, <2>4 DEF IInv
<1> QED BY <1>7, <1>8 DEF RecordBanHistory

LEMMA RecordBanOK ==
    ASSUME IInv, RecordBan
    PROVE  IInv' /\ out' = out
<1>0. TypeOK /\ Rests /\ Covered /\ Working /\ RowCounts /\ EntryCounts
    BY DEF IInv
<1>1. /\ epc = "penalty" /\ epc' = "note"
      /\ hist' = hist /\ cut' = cut /\ lru' = lru /\ entry' = entry /\ dirty' = dirty
      /\ writing' = writing /\ out' = out /\ apc' = apc /\ eip' = eip /\ aip' = aip
      /\ level' = level /\ mirror' = mirror /\ phase' = phase /\ owed' = owed /\ lossy' = lossy
      /\ autos' = autos
    BY DEF RecordBan, cacheVars, flushVars, auxVars
<1>2. Listed' /\ Held' /\ PenaltiesKept'
    BY <1>1, CacheAlone
<1>3. eip \in Ip /\ phase = "up"
    BY <1>0, <1>1 DEF Working, Rests
<1>4. Rests' /\ Covered' /\ Working'
    BY <1>1, <1>3 DEF Rests, Covered, Working
<1>5. RowCounts' /\ EntryCounts'
    BY <1>0, <1>1 DEF RowCounts, StoredBans, EntryCounts, Behind
<1>6. rep' \in [Ip -> ReputationRow \cup {None}] /\ ops' \in Nat
    <2>1. rep \in [Ip -> ReputationRow \cup {None}] /\ ops \in Nat
        BY <1>0 DEF TypeOK
    <2>2. Penalised(rep[eip], 1, FALSE) \in ReputationRow
        BY <1>3, <2>1, PenalisedIn
    <2> HIDE DEF Penalised
    <2>3. CASE rep' = [rep EXCEPT ![eip] = Penalised(@, 1, FALSE)] /\ UNCHANGED ops
        BY <1>3, <2>1, <2>2, <2>3
    <2>4. CASE Spend /\ UNCHANGED rep
        BY <2>1, <2>4 DEF Spend
    <2> QED BY <2>3, <2>4 DEF RecordBan
<1>7. TypeOK'
    BY <1>0, <1>1, <1>6 DEF TypeOK
<1> QED BY <1>1, <1>2, <1>4, <1>5, <1>7 DEF IInv

LEMMA ApiOK ==
    ASSUME IInv, Api
    PROVE  IInv' /\ out' = out
<1>0. TypeOK /\ Rests /\ Covered /\ Working /\ RowCounts /\ EntryCounts
    BY DEF IInv
<1>1. /\ rep' = rep /\ cut' = cut /\ lru' = lru /\ entry' = entry /\ dirty' = dirty
      /\ writing' = writing /\ out' = out /\ epc' = epc /\ eip' = eip
      /\ level' = level /\ phase' = phase /\ owed' = owed /\ lossy' = lossy /\ autos' = autos
    BY DEF Api, CreateBan, DeleteBan, CreateSent, CreateRecorded, apiOnly, cacheVars, flushVars, auxVars
<1>2. Listed' /\ Held' /\ PenaltiesKept'
    BY <1>1, CacheAlone
<1>3. Rests' /\ Covered' /\ Working'
    BY <1>0, <1>1 DEF Rests, Covered, Working, Pending
<1>4. /\ mirror \subseteq Ip /\ aip \in Ip \cup {None} /\ ops \in Nat
      /\ hist \in [Ip -> HistoryRow \cup {None}] /\ apc \in {"idle", "send", "history"}
    BY <1>0 DEF TypeOK
<1>5. /\ mirror' \subseteq Ip /\ aip' \in Ip \cup {None} /\ ops' \in Nat
      /\ apc' \in {"idle", "send", "history"}
    BY <1>4 DEF Api, CreateBan, DeleteBan, CreateSent, CreateRecorded, Spend
<1>6. /\ hist' \in [Ip -> HistoryRow \cup {None}]
      /\ \A x \in Ip : StoredBans(x)' >= StoredBans(x) /\ StoredBans(x)' \in Nat
    <2>1. CASE hist' = hist
        BY <1>0, <1>4, <2>1, StoredIsNat DEF StoredBans
    <2>2. CASE hist' = [hist EXCEPT ![aip] = Counted(@)]
        <3>1. CASE aip \in Ip
            <4>1. \A x \in Ip : StoredBans(x) \in Nat
                BY <1>0, StoredIsNat
            <4>2. /\ hist' \in [Ip -> HistoryRow \cup {None}]
                  /\ \A x \in Ip : StoredBans(x)' = IF x = aip THEN StoredBans(x) + 1 ELSE StoredBans(x)
                BY <1>0, <2>2, <3>1, HistoryGrows
            <4> QED BY <4>1, <4>2
        <3>2. CASE aip \notin Ip
            <4>1. hist' = hist
                BY <1>4, <2>2, <3>2
            <4> QED BY <1>0, <1>4, <4>1, StoredIsNat DEF StoredBans
        <3> QED BY <3>1, <3>2
    <2> QED BY <2>1, <2>2 DEF Api, CreateBan, DeleteBan, CreateSent, CreateRecorded, apiOnly
<1>7. TypeOK'
    BY <1>0, <1>1, <1>5, <1>6 DEF TypeOK
<1>8. RowCounts'
    <2>1. ASSUME NEW x \in Ip PROVE autos[x] <= StoredBans(x)'
        <3>1. autos[x] \in Nat /\ autos[x] <= StoredBans(x) /\ StoredBans(x) \in Nat
            BY <1>0, StoredIsNat DEF TypeOK, RowCounts
        <3> QED BY <1>6, <3>1
    <2> QED BY <1>1, <2>1 DEF RowCounts
<1>9. EntryCounts'
    BY <1>0, <1>1 DEF EntryCounts, Behind
<1> QED BY <1>1, <1>2, <1>3, <1>7, <1>8, <1>9 DEF IInv

(* What a step of the flusher leaves alone, and what follows from it.      *)
LEMMA FlusherAlone ==
    ASSUME IInv, UNCHANGED flushOnly, phase' \in {phase, "flushing"}, phase # "up" \/ phase' = phase,
           rep' \in [Ip -> ReputationRow \cup {None}], owed' \in [Ip -> Int],
           lossy' \subseteq Ip, ops' \in Nat, dirty' \subseteq Ip, writing' \in OneWrite \cup {None},
           entry' \in [Ip -> FactsEntry \cup {None}],
           \A x \in Ip : /\ entry'[x] = None <=> entry[x] = None
                         /\ entry[x] # None => entry'[x].bans = entry[x].bans
                                               /\ entry'[x].blind = entry[x].blind
    PROVE  /\ TypeOK' /\ Listed' /\ Rests' /\ Working' /\ RowCounts' /\ EntryCounts'
           /\ out' = out
<1>0. TypeOK /\ Listed /\ Rests /\ Working /\ RowCounts /\ EntryCounts
    BY DEF IInv
<1>1. /\ hist' = hist /\ cut' = cut /\ lru' = lru /\ out' = out /\ epc' = epc /\ apc' = apc
      /\ eip' = eip /\ aip' = aip /\ level' = level /\ mirror' = mirror /\ autos' = autos
    BY DEF flushOnly, banVars
<1>2. TypeOK'
    BY <1>0, <1>1 DEF TypeOK
<1>3. Listed'
    BY <1>0, <1>1 DEF Listed
<1>4. Rests' /\ Working'
    BY <1>0, <1>1 DEF Rests, Working
<1>5. RowCounts' /\ EntryCounts'
    BY <1>0, <1>1 DEF RowCounts, StoredBans, EntryCounts, Behind
<1> QED BY <1>1, <1>2, <1>3, <1>4, <1>5

LEMMA FlushStartsOK ==
    ASSUME IInv, FlushTick \/ FinalFlush
    PROVE  IInv' /\ out' = out
<1>0. TypeOK /\ Held /\ PenaltiesKept /\ Covered
    BY DEF IInv
<1>1. /\ UNCHANGED flushOnly /\ rep' = rep /\ entry' = entry /\ writing' = writing
      /\ owed' = owed /\ lossy' = lossy /\ ops' = ops
      /\ dirty' = TakeDirty /\ phase' \in {phase, "flushing"} /\ (phase # "up" \/ phase' = phase)
      /\ phase \in {"up", "stopping"} /\ writing = None
    BY DEF FlushTick, FinalFlush
<1>2. TakeDirty \subseteq Ip /\ \A x \in TakeDirty : entry[x] # None
    BY DEF TakeDirty
<1>3. /\ TypeOK' /\ Listed' /\ Rests' /\ Working' /\ RowCounts' /\ EntryCounts' /\ out' = out
    <2>1. /\ rep' \in [Ip -> ReputationRow \cup {None}] /\ owed' \in [Ip -> Int]
          /\ lossy' \subseteq Ip /\ ops' \in Nat /\ dirty' \subseteq Ip
          /\ writing' \in OneWrite \cup {None} /\ entry' \in [Ip -> FactsEntry \cup {None}]
        BY <1>0, <1>1, <1>2 DEF TypeOK
    <2> QED BY <1>1, <2>1, FlusherAlone
<1>4. Held'
    BY <1>0, <1>1, <1>2 DEF Held
<1>5. PenaltiesKept'
    BY <1>0, <1>1 DEF PenaltiesKept, Pending, InFlight
<1>6. Covered'
    <2>1. phase' # "closed"
        BY <1>1
    <2>2. ASSUME NEW x \in Ip, Pending(x)' > 0 PROVE x \in dirty'
        <3>1. Pending(x)' = IF entry[x] = None THEN 0 ELSE entry[x].pending
            BY <1>1 DEF Pending
        <3>2. entry[x] # None /\ entry[x].pending > 0
            BY <2>2, <3>1
        <3> QED BY <1>1, <3>2 DEF TakeDirty
    <2> QED BY <2>1, <2>2 DEF Covered
<1> QED BY <1>3, <1>4, <1>5, <1>6 DEF IInv

LEMMA FlushTakeOK ==
    ASSUME IInv, FlushTake
    PROVE  IInv' /\ out' = out
<1>0. TypeOK /\ Held /\ PenaltiesKept /\ Covered
    BY DEF IInv
<1>1. /\ UNCHANGED flushOnly /\ rep' = rep /\ phase' = phase
      /\ owed' = owed /\ lossy' = lossy /\ ops' = ops /\ writing = None
    BY DEF FlushTake
<1>2. PICK ip \in dirty :
          /\ writing' = IF entry[ip].pending = 0 THEN None
                        ELSE [ip |-> ip, n |-> entry[ip].pending, detached |-> FALSE]
          /\ entry' = [entry EXCEPT ![ip].pending = 0]
          /\ dirty' = dirty \ {ip}
    BY DEF FlushTake
<1>3. /\ ip \in Ip /\ entry \in [Ip -> FactsEntry \cup {None}] /\ dirty \subseteq Ip
      /\ entry[ip] \in FactsEntry /\ None \notin FactsEntry /\ None \notin OneWrite
    BY <1>0, NoneAssumption DEF TypeOK, Held
<1>4. /\ entry' \in [Ip -> FactsEntry \cup {None}]
      /\ \A x \in Ip : x # ip => entry'[x] = entry[x]
      /\ entry'[ip] \in FactsEntry /\ entry'[ip].pending = 0
      /\ entry'[ip].bans = entry[ip].bans /\ entry'[ip].blind = entry[ip].blind
    <2> DEFINE e == [entry[ip] EXCEPT !.pending = 0]
    <2>1. e \in FactsEntry /\ e.pending = 0 /\ e.bans = entry[ip].bans /\ e.blind = entry[ip].blind
        BY <1>3 DEF FactsEntry
    <2>2. entry' = [entry EXCEPT ![ip] = e]
        BY <1>2
    <2> HIDE DEF e
    <2> QED BY <1>3, <2>1, <2>2
<1>5. \A x \in Ip : /\ entry'[x] = None <=> entry[x] = None
                    /\ entry[x] # None => entry'[x].bans = entry[x].bans
                                          /\ entry'[x].blind = entry[x].blind
    BY <1>3, <1>4
<1>8. writing' \in OneWrite \cup {None}
    BY <1>2, <1>3 DEF OneWrite, FactsEntry
<1>9. /\ Pending(ip)' = 0 /\ InFlight(ip)' = Pending(ip) /\ InFlight(ip) = 0
      /\ \A x \in Ip : x # ip => Pending(x)' = Pending(x) /\ InFlight(x)' = 0 /\ InFlight(x) = 0
    <2>1. Pending(ip) = entry[ip].pending /\ Pending(ip)' = 0 /\ \A x \in Ip : InFlight(x) = 0
        BY <1>1, <1>3, <1>4 DEF Pending, InFlight
    <2>2. \A x \in Ip : x # ip => Pending(x)' = Pending(x)
        BY <1>4 DEF Pending
    <2>3. CASE entry[ip].pending = 0
        <3>1. writing' = None
            BY <1>2, <2>3
        <3> QED BY <1>3, <2>1, <2>2, <2>3, <3>1 DEF InFlight
    <2>4. CASE entry[ip].pending # 0
        <3>1. writing' = [ip |-> ip, n |-> entry[ip].pending, detached |-> FALSE]
            BY <1>2, <2>4
        <3>2. writing' \in OneWrite /\ writing'.ip = ip /\ writing'.n = entry[ip].pending
            BY <1>3, <3>1 DEF OneWrite, FactsEntry
        <3>3. writing' # None
            BY <1>3, <3>2
        <3>4. \A x \in Ip : InFlight(x)' = IF x = ip THEN entry[ip].pending ELSE 0
            BY <3>2, <3>3 DEF InFlight
        <3> QED BY <1>3, <2>1, <2>2, <3>4
    <2> QED BY <2>3, <2>4
<1>10. /\ TypeOK' /\ Listed' /\ Rests' /\ Working' /\ RowCounts' /\ EntryCounts' /\ out' = out
    <2>1. /\ rep' \in [Ip -> ReputationRow \cup {None}] /\ owed' \in [Ip -> Int]
          /\ lossy' \subseteq Ip /\ ops' \in Nat /\ dirty' \subseteq Ip
        BY <1>0, <1>1, <1>2 DEF TypeOK
    <2> QED BY <1>1, <1>4, <1>5, <1>8, <2>1, FlusherAlone
<1>11. Held'
    <2>1. \A x \in dirty' : entry'[x] # None
        BY <1>0, <1>2, <1>3, <1>5 DEF Held
    <2>2. writing' # None => writing'.ip = ip
        BY <1>2
    <2> QED BY <1>3, <1>4, <2>1, <2>2 DEF Held
<1>12. PenaltiesKept'
    <2>1. ASSUME NEW x \in Ip, x \notin lossy PROVE owed[x] = Pending(x)' + InFlight(x)'
        <3>1. owed[x] = Pending(x) + InFlight(x) /\ Pending(x) \in Nat
            BY <1>0, <2>1, EntryIs DEF PenaltiesKept
        <3> QED BY <1>9, <3>1
    <2> QED BY <1>1, <2>1 DEF PenaltiesKept
<1>13. Covered'
    <2>1. phase # "closed"
        BY <1>0, <1>2 DEF Covered
    <2>2. ASSUME phase = "flushing", NEW x \in Ip, x \notin lossy, Pending(x)' > 0 PROVE x \in dirty'
        <3>1. x # ip /\ Pending(x) > 0
            BY <1>9, <2>2
        <3> QED BY <1>0, <1>2, <2>2, <3>1 DEF Covered
    <2> QED BY <1>1, <2>1, <2>2 DEF Covered
<1> QED BY <1>10, <1>11, <1>12, <1>13 DEF IInv

LEMMA FlushWriteOK ==
    ASSUME IInv, FlushWrite
    PROVE  IInv' /\ out' = out
<1>0. TypeOK /\ Held /\ PenaltiesKept /\ Covered
    BY DEF IInv
<1>1. /\ UNCHANGED flushOnly /\ entry' = entry /\ dirty' = dirty /\ phase' = phase
      /\ lossy' = lossy /\ ops' = ops /\ writing # None /\ writing' = None
      /\ rep' = [rep EXCEPT ![writing.ip] = Penalised(@, writing.n, TRUE)]
      /\ owed' = [owed EXCEPT ![writing.ip] = @ - writing.n]
    BY DEF FlushWrite
<1>2. PICK ip \in Ip, n \in Nat : writing.ip = ip /\ writing.n = n
    BY <1>0, <1>1 DEF TypeOK, OneWrite
<1>3. rep \in [Ip -> ReputationRow \cup {None}] /\ owed \in [Ip -> Int]
    BY <1>0 DEF TypeOK
<1>4. rep' \in [Ip -> ReputationRow \cup {None}]
    <2>1. Penalised(rep[ip], n, TRUE) \in ReputationRow
        BY <1>3, PenalisedIn
    <2> HIDE DEF Penalised
    <2>2. rep' = [rep EXCEPT ![ip] = Penalised(rep[ip], n, TRUE)]
        BY <1>1, <1>2
    <2> QED BY <1>3, <2>1, <2>2
<1>5. /\ owed' \in [Ip -> Int]
      /\ \A x \in Ip : owed'[x] = IF x = ip THEN owed[x] - n ELSE owed[x]
    <2>1. owed' = [owed EXCEPT ![ip] = owed[ip] - n]
        BY <1>1, <1>2
    <2> QED BY <1>2, <1>3, <2>1
<1>6. \A x \in Ip : /\ Pending(x)' = Pending(x) /\ InFlight(x)' = 0
                    /\ InFlight(x) = IF x = ip THEN n ELSE 0
    BY <1>1, <1>2 DEF Pending, InFlight
<1>7. /\ TypeOK' /\ Listed' /\ Rests' /\ Working' /\ RowCounts' /\ EntryCounts' /\ out' = out
    <2>1. /\ entry' \in [Ip -> FactsEntry \cup {None}] /\ dirty' \subseteq Ip
          /\ writing' \in OneWrite \cup {None} /\ lossy' \subseteq Ip /\ ops' \in Nat
        BY <1>0, <1>1 DEF TypeOK
    <2> QED BY <1>1, <1>4, <1>5, <2>1, FlusherAlone
<1>8. Held'
    BY <1>0, <1>1 DEF Held
<1>9. PenaltiesKept'
    <2>1. ASSUME NEW x \in Ip, x \notin lossy PROVE owed'[x] = Pending(x)' + InFlight(x)'
        <3>1. owed[x] = Pending(x) + InFlight(x) /\ Pending(x) \in Nat
            BY <1>0, <2>1, EntryIs DEF PenaltiesKept
        <3> QED BY <1>2, <1>5, <1>6, <3>1
    <2> QED BY <1>1, <2>1 DEF PenaltiesKept
<1>10. Covered'
    BY <1>0, <1>1, <1>6 DEF Covered
<1> QED BY <1>7, <1>8, <1>9, <1>10 DEF IInv

LEMMA FlushFailsOK ==
    ASSUME IInv, FlushFails
    PROVE  IInv' /\ out' = out
<1>0. TypeOK /\ Held /\ PenaltiesKept /\ Covered
    BY DEF IInv
<1>1. /\ UNCHANGED flushOnly /\ rep' = rep /\ dirty' = dirty /\ phase' = phase /\ owed' = owed
      /\ writing # None /\ writing' = None /\ Spend
    BY DEF FlushFails
<1>2. PICK ip \in Ip, n \in Nat, detached \in BOOLEAN :
          writing.ip = ip /\ writing.n = n /\ writing.detached = detached
    BY <1>0, <1>1 DEF TypeOK, OneWrite
<1>3. /\ entry \in [Ip -> FactsEntry \cup {None}] /\ None \notin FactsEntry
      /\ dirty \subseteq Ip /\ lossy \subseteq Ip /\ phase # "closed"
      /\ \A x \in Ip : InFlight(x) = IF x = ip THEN n ELSE 0
      /\ \A x \in Ip : InFlight(x)' = 0
    BY <1>0, <1>1, <1>2, NoneAssumption DEF TypeOK, InFlight, Covered
<1>4. /\ lossy' \subseteq Ip /\ lossy \subseteq lossy'
      /\ detached = TRUE \/ phase = "flushing" => ip \in lossy'
    BY <1>2, <1>3 DEF FlushFails
<1>5. /\ entry' \in [Ip -> FactsEntry \cup {None}]
      /\ \A x \in Ip : /\ entry'[x] = None <=> entry[x] = None
                       /\ entry[x] # None => entry'[x].bans = entry[x].bans
                                             /\ entry'[x].blind = entry[x].blind
      /\ \A x \in Ip : Pending(x)' = Pending(x) + IF x = ip /\ detached = FALSE THEN n ELSE 0
    <2>0. \A x \in Ip : Pending(x) \in Nat
        BY <1>0, EntryIs
    <2>1. CASE detached = TRUE
        <3>1. entry' = entry
            BY <1>2, <2>1 DEF FlushFails
        <3> QED BY <1>3, <2>0, <2>1, <3>1 DEF Pending
    <2>2. CASE detached = FALSE
        <3>1. entry[ip] \in FactsEntry
            BY <1>0, <1>1, <1>2, <1>3, <2>2 DEF Held
        <3>2. entry' = [entry EXCEPT ![ip].pending = @ + n]
            BY <1>2, <2>2 DEF FlushFails
        <3> DEFINE k == entry[ip].pending + n
                   e == [entry[ip] EXCEPT !.pending = k]
        <3>3. k \in Nat /\ entry' = [entry EXCEPT ![ip] = e]
            BY <1>2, <3>1, <3>2 DEF FactsEntry
        <3>4. e \in FactsEntry /\ e.pending = k /\ e.bans = entry[ip].bans /\ e.blind = entry[ip].blind
            BY <3>1, <3>3 DEF FactsEntry
        <3>5. k = Pending(ip) + n
            BY <1>3, <3>1 DEF Pending
        <3> HIDE DEF e, k
        <3>6. /\ entry' \in [Ip -> FactsEntry \cup {None}]
              /\ entry'[ip] = e /\ \A x \in Ip : x # ip => entry'[x] = entry[x]
            BY <1>3, <3>3, <3>4
        <3>7. Pending(ip)' = k /\ \A x \in Ip : x # ip => Pending(x)' = Pending(x)
            BY <1>3, <3>4, <3>6 DEF Pending
        <3>8. \A x \in Ip : Pending(x)' = Pending(x) + IF x = ip /\ detached = FALSE THEN n ELSE 0
            BY <2>0, <2>2, <3>5, <3>7
        <3>9. \A x \in Ip : /\ entry'[x] = None <=> entry[x] = None
                            /\ entry[x] # None => entry'[x].bans = entry[x].bans
                                                  /\ entry'[x].blind = entry[x].blind
            BY <1>3, <3>1, <3>4, <3>6
        <3> QED BY <3>6, <3>8, <3>9
    <2> QED BY <1>2, <2>1, <2>2
<1>6. /\ TypeOK' /\ Listed' /\ Rests' /\ Working' /\ RowCounts' /\ EntryCounts' /\ out' = out
    <2>1. /\ rep' \in [Ip -> ReputationRow \cup {None}] /\ owed' \in [Ip -> Int] /\ ops' \in Nat
          /\ dirty' \subseteq Ip /\ writing' \in OneWrite \cup {None}
        BY <1>0, <1>1 DEF TypeOK, Spend
    <2> QED BY <1>1, <1>4, <1>5, <2>1, FlusherAlone
<1>7. Held'
    BY <1>0, <1>1, <1>3, <1>5 DEF Held
<1>8. PenaltiesKept'
    <2>1. ASSUME NEW x \in Ip, x \notin lossy' PROVE owed[x] = Pending(x)' + InFlight(x)'
        <3>1. owed[x] = Pending(x) + InFlight(x) /\ Pending(x) \in Nat
            BY <1>0, <1>4, <2>1, EntryIs DEF PenaltiesKept
        <3>2. x = ip => detached = FALSE
            BY <1>2, <1>4, <2>1
        <3> QED BY <1>2, <1>3, <1>5, <3>1, <3>2
    <2> QED BY <1>1, <2>1 DEF PenaltiesKept
<1>9. Covered'
    <2>1. ASSUME phase = "flushing", NEW x \in Ip, x \notin lossy', Pending(x)' > 0 PROVE x \in dirty
        <3>1. x # ip /\ x \notin lossy /\ Pending(x) \in Nat
            BY <1>0, <1>4, <2>1, EntryIs
        <3>2. Pending(x) > 0
            BY <1>5, <2>1, <3>1
        <3> QED BY <1>0, <2>1, <3>1, <3>2 DEF Covered
    <2> QED BY <1>1, <1>3, <2>1 DEF Covered
<1> QED BY <1>6, <1>7, <1>8, <1>9 DEF IInv

LEMMA OlderIn ==
    ASSUME TypeOK, NEW ip \in Ip
    PROVE  /\ Older(hist[ip]) \in HistoryRow \cup {None}
           /\ (Older(hist[ip]) = None <=> hist[ip] = None)
           /\ hist[ip] # None => Older(hist[ip]).count = hist[ip].count
           /\ rep[ip] # None => [Older(rep[ip]) EXCEPT !.hot = FALSE] \in ReputationRow
<1>1. /\ hist[ip] \in HistoryRow \cup {None} /\ rep[ip] \in ReputationRow \cup {None}
      /\ None \notin HistoryRow /\ None \notin ReputationRow /\ RetentionDays \in Nat
    BY NoneAssumption, FactsAssumption DEF TypeOK
<1>2. ASSUME NEW h \in HistoryRow
      PROVE  Older(h) \in HistoryRow /\ Older(h).count = h.count
    <2> DEFINE n == IF h.age < RetentionDays THEN h.age + 1 ELSE h.age
    <2>1. h # None /\ n \in 0 .. RetentionDays
        BY <1>1 DEF HistoryRow
    <2>2. Older(h) = [h EXCEPT !.age = n]
        BY <2>1 DEF Older
    <2> HIDE DEF n
    <2> QED BY <2>1, <2>2 DEF HistoryRow
<1>3. ASSUME NEW r \in ReputationRow
      PROVE  [Older(r) EXCEPT !.hot = FALSE] \in ReputationRow
    <2> DEFINE n == IF r.age < RetentionDays THEN r.age + 1 ELSE r.age
    <2>1. r # None /\ n \in 0 .. RetentionDays
        BY <1>1 DEF ReputationRow
    <2>2. Older(r) = [r EXCEPT !.age = n]
        BY <2>1 DEF Older
    <2> HIDE DEF n
    <2>3. Older(r) \in ReputationRow
        BY <2>1, <2>2 DEF ReputationRow
    <2> QED BY <2>3 DEF ReputationRow
<1>4. CASE hist[ip] = None
    BY <1>1, <1>3, <1>4 DEF Older
<1>5. CASE hist[ip] # None
    BY <1>1, <1>2, <1>3, <1>5
<1> QED BY <1>4, <1>5

LEMMA RecoveredIn ==
    ASSUME NEW r \in ReputationRow, Recovers(r)
    PROVE  [r EXCEPT !.score = @ + 1, !.age = 0] \in ReputationRow
<1> DEFINE s == r.score + 1
<1>1. s \in 0 .. FullReputation /\ 0 \in 0 .. RetentionDays
    BY FactsAssumption DEF Recovers, ReputationRow
<1>2. [r EXCEPT !.score = @ + 1, !.age = 0] = [r EXCEPT !.score = s, !.age = 0]
    OBVIOUS
<1> HIDE DEF s
<1>3. [r EXCEPT !.score = s, !.age = 0] \in ReputationRow
    BY <1>1 DEF ReputationRow
<1> QED BY <1>2, <1>3

(* A clean-up forgets the automatic bans together with the row.            *)
LEMMA TimersOK ==
    ASSUME IInv, Timers
    PROVE  IInv' /\ out' = out
<1>0. TypeOK /\ Rests /\ Covered /\ Working /\ RowCounts /\ EntryCounts
    BY DEF IInv
<1>1. /\ lru' = lru /\ entry' = entry /\ dirty' = dirty /\ writing' = writing /\ out' = out
      /\ apc' = apc /\ eip' = eip /\ aip' = aip /\ level' = level /\ mirror' = mirror
      /\ phase' = phase /\ owed' = owed /\ lossy' = lossy
    BY DEF Timers, CleanupStarts, PerformDataCleanup, CleanupReputation, CleanupHistory,
           RecoverReputation, DayPasses, timerOnly, cacheVars, flushVars
<1>2. Listed' /\ Held' /\ PenaltiesKept'
    BY <1>1, CacheAlone
<1>3. /\ hist \in [Ip -> HistoryRow \cup {None}] /\ rep \in [Ip -> ReputationRow \cup {None}]
      /\ cut \in CleanUp \cup {None} /\ ops \in Nat /\ autos \in [Ip -> Nat]
      /\ None \notin HistoryRow /\ None \notin ReputationRow
    BY <1>0, NoneAssumption DEF TypeOK
<1>4. /\ epc' = epc \/ (epc \in {"judge", "cleanup"} /\ epc' \in {"judge", "cleanup"})
      /\ phase # "up" => epc' = "judge"
      /\ epc' \in {"judge", "dispatch", "history", "penalty", "note", "send", "cleanup"}
    BY <1>0 DEF TypeOK, Rests, Timers, CleanupStarts, PerformDataCleanup, CleanupReputation,
                CleanupHistory, RecoverReputation, DayPasses, CleanupEnds, timerOnly
<1>5. cut' \in CleanUp \cup {None}
    <2>1. CASE CleanupStarts
        BY <2>1 DEF CleanupStarts, CleanUp
    <2>2. CASE PerformDataCleanup
        BY <2>2 DEF PerformDataCleanup, CleanUp
    <2>3. CASE CleanupReputation
        <3>1. CASE cut' = [cut EXCEPT !.at = "history"]
            <4>1. cut \in CleanUp
                BY <1>3, <2>3 DEF CleanupReputation
            <4> QED BY <3>1, <4>1 DEF CleanUp
        <3> QED BY <2>3, <3>1 DEF CleanupReputation, CleanupEnds
    <2>4. CASE CleanupHistory
        BY <2>4 DEF CleanupHistory, CleanupEnds
    <2>5. CASE RecoverReputation \/ DayPasses
        BY <1>3, <2>5 DEF RecoverReputation, DayPasses
    <2> QED BY <2>1, <2>2, <2>3, <2>4, <2>5 DEF Timers
<1>6. rep' \in [Ip -> ReputationRow \cup {None}]
    <2>1. CASE rep' = rep
        BY <1>3, <2>1
    <2>2. CASE rep' = [ip \in Ip |-> IF Expired(rep[ip]) THEN None ELSE rep[ip]]
        <3> HIDE DEF Expired
        <3> QED BY <1>3, <2>2
    <2>3. CASE RecoverReputation
        <3>1. rep' = [ip \in Ip |-> IF Recovers(rep[ip])
                                    THEN [rep[ip] EXCEPT !.score = @ + 1, !.age = 0] ELSE rep[ip]]
            BY <2>3 DEF RecoverReputation
        <3>2. ASSUME NEW ip \in Ip
              PROVE  (IF Recovers(rep[ip]) THEN [rep[ip] EXCEPT !.score = @ + 1, !.age = 0]
                      ELSE rep[ip]) \in ReputationRow \cup {None}
            <4>1. rep[ip] \in ReputationRow \cup {None}
                BY <1>3
            <4>2. CASE Recovers(rep[ip])
                <5>1. rep[ip] \in ReputationRow
                    BY <4>1, <4>2 DEF Recovers
                <5>2. [rep[ip] EXCEPT !.score = @ + 1, !.age = 0] \in ReputationRow
                    BY <4>2, <5>1, RecoveredIn
                <5> QED BY <4>2, <5>2
            <4> QED BY <4>1, <4>2
        <3> QED BY <3>1, <3>2
    <2>4. CASE DayPasses
        <3>1. rep' = [ip \in Ip |-> IF rep[ip] = None THEN None
                                    ELSE [Older(rep[ip]) EXCEPT !.hot = FALSE]]
            BY <2>4 DEF DayPasses
        <3>2. ASSUME NEW ip \in Ip, rep[ip] # None
              PROVE  [Older(rep[ip]) EXCEPT !.hot = FALSE] \in ReputationRow
            BY <1>0, <3>2, OlderIn
        <3> QED BY <3>1, <3>2
    <2> QED BY <2>1, <2>2, <2>3, <2>4 DEF Timers, CleanupStarts, PerformDataCleanup,
               CleanupReputation, CleanupHistory
<1>7. /\ hist' \in [Ip -> HistoryRow \cup {None}] /\ autos' \in [Ip -> Nat]
      /\ \A x \in Ip : autos'[x] <= autos[x]
      /\ RowCounts'
    <2>1. CASE hist' = hist /\ autos' = autos
        BY <1>0, <1>3, <2>1 DEF RowCounts, StoredBans
    <2>2. CASE CleanupHistory
        <3>1. /\ hist' = [ip \in Ip |-> IF Expired(hist[ip]) THEN None ELSE hist[ip]]
              /\ autos' = [ip \in Ip |-> IF Expired(hist[ip]) THEN 0 ELSE autos[ip]]
            BY <2>2 DEF CleanupHistory
        <3> HIDE DEF Expired
        <3>2. hist' \in [Ip -> HistoryRow \cup {None}] /\ autos' \in [Ip -> Nat]
            BY <1>3, <3>1
        <3>3. ASSUME NEW x \in Ip
              PROVE  autos'[x] <= autos[x] /\ autos'[x] <= StoredBans(x)'
            <4>1. CASE Expired(hist[x])
                BY <1>3, <3>1, <4>1 DEF StoredBans
            <4>2. CASE ~Expired(hist[x])
                <5>1. hist'[x] = hist[x] /\ autos'[x] = autos[x] /\ autos[x] \in Nat
                    BY <1>3, <3>1, <4>2
                <5> QED BY <1>0, <5>1 DEF RowCounts, StoredBans
            <4> QED BY <4>1, <4>2
        <3> QED BY <3>2, <3>3 DEF RowCounts
    <2>3. CASE DayPasses
        <3>1. hist' = [ip \in Ip |-> Older(hist[ip])] /\ autos' = autos
            BY <2>3 DEF DayPasses
        <3>2. \A x \in Ip : /\ Older(hist[x]) \in HistoryRow \cup {None}
                            /\ (Older(hist[x]) = None <=> hist[x] = None)
                            /\ hist[x] # None => Older(hist[x]).count = hist[x].count
            BY <1>0, OlderIn
        <3> HIDE DEF Older
        <3>3. hist' \in [Ip -> HistoryRow \cup {None}] /\ \A x \in Ip : hist'[x] = Older(hist[x])
            BY <3>1, <3>2
        <3>4. \A x \in Ip : StoredBans(x)' = StoredBans(x)
            BY <3>2, <3>3 DEF StoredBans
        <3> QED BY <1>0, <1>3, <3>1, <3>3, <3>4 DEF RowCounts
    <2> QED BY <2>1, <2>2, <2>3 DEF Timers, CleanupStarts, PerformDataCleanup,
               CleanupReputation, RecoverReputation, timerOnly
<1>8. ops' \in Nat
    <2>1. ops' = ops \/ Spend
        BY DEF Timers, CleanupStarts, PerformDataCleanup, CleanupReputation, CleanupHistory,
               RecoverReputation, DayPasses
    <2> QED BY <1>3, <2>1 DEF Spend
<1>9. TypeOK'
    BY <1>0, <1>1, <1>4, <1>5, <1>6, <1>7, <1>8 DEF TypeOK
<1>10. Rests' /\ Covered' /\ Working'
    BY <1>0, <1>1, <1>4 DEF Rests, Covered, Working, Pending
<1>11. EntryCounts'
    <2>1. ASSUME NEW x \in Ip, Key[x] = x,
               entry[x] # None, entry[x].bans # None, entry[x].blind = FALSE
          PROVE  autos'[x] <= entry[x].bans + Behind(x)'
        <3>1. Behind(x)' = Behind(x) /\ Behind(x) \in Nat
            BY <1>1, <1>4 DEF Behind
        <3>2. autos[x] <= entry[x].bans + Behind(x) /\ entry[x].bans \in Nat
            BY <1>0, <2>1 DEF EntryCounts, TypeOK, FactsEntry
        <3>3. autos'[x] <= autos[x] /\ autos'[x] \in Nat /\ autos[x] \in Nat
            BY <1>3, <1>7
        <3> QED BY <3>1, <3>2, <3>3
    <2> QED BY <1>1, <2>1 DEF EntryCounts
<1> QED BY <1>1, <1>2, <1>7, <1>9, <1>10, <1>11 DEF IInv

LEMMA StopOrCloseOK ==
    ASSUME IInv, Stop \/ Close
    PROVE  IInv' /\ out' = out
<1>0. TypeOK /\ Held /\ PenaltiesKept /\ Rests /\ Covered /\ Working /\ RowCounts /\ EntryCounts
    BY DEF IInv
<1>1. /\ hist' = hist /\ rep' = rep /\ cut' = cut /\ lru' = lru /\ entry' = entry /\ dirty' = dirty
      /\ writing' = writing /\ out' = out /\ epc' = epc /\ apc' = apc /\ eip' = eip /\ aip' = aip
      /\ level' = level /\ mirror' = mirror /\ owed' = owed /\ lossy' = lossy /\ autos' = autos
      /\ ops' = ops
    BY DEF Stop, Close, dbVars, cacheVars, flushVars, banVars, auxVars
<1>2. Listed' /\ Held' /\ PenaltiesKept'
    BY <1>1, CacheAlone
<1>3. \/ phase = "up" /\ epc = "judge" /\ out = <<>> /\ phase' = "stopping"
      \/ phase = "flushing" /\ dirty = {} /\ writing = None /\ phase' = "closed"
    BY DEF Stop, Close
<1>4. TypeOK'
    BY <1>0, <1>1, <1>3 DEF TypeOK
<1>5. Rests' /\ Working'
    BY <1>0, <1>1, <1>3 DEF Rests, Working
<1>6. Covered'
    BY <1>0, <1>1, <1>3 DEF Covered, Pending
<1>7. RowCounts' /\ EntryCounts'
    BY <1>0, <1>1 DEF RowCounts, StoredBans, EntryCounts, Behind
<1> QED BY <1>1, <1>2, <1>4, <1>5, <1>6, <1>7 DEF IInv

LEMMA RestartOK ==
    ASSUME IInv, Restart
    PROVE  IInv' /\ ~(Len(out') > Len(out))
<1>0. TypeOK /\ RowCounts
    BY DEF IInv
<1>1. /\ phase' = "up" /\ lru' = <<>> /\ entry' = [ip \in Ip |-> None]
      /\ dirty' = {} /\ writing' = None /\ cut' = None
      /\ out' = <<>> /\ epc' = "judge" /\ apc' = "idle" /\ eip' = None /\ aip' = None /\ level' = 0
      /\ owed' = [ip \in Ip |-> 0] /\ lossy' = {}
      /\ hist' = hist /\ rep' = rep /\ mirror' = mirror /\ autos' = autos
    BY DEF Restart
<1>2. ops' \in Nat
    BY <1>0 DEF Restart, TypeOK
<1>3. TypeOK'
    BY <1>0, <1>1, <1>2, FactsAssumption DEF TypeOK
<1>4. Listed' /\ Held' /\ PenaltiesKept'
    BY <1>1 DEF Listed, Distinct, In, Held, PenaltiesKept, Pending, InFlight
<1>5. Rests' /\ Covered' /\ Working'
    BY <1>1 DEF Rests, Covered, Working
<1>6. RowCounts' /\ EntryCounts'
    BY <1>0, <1>1 DEF RowCounts, StoredBans, EntryCounts
<1>7. ~(Len(out') > Len(out))
    BY <1>0, <1>1 DEF TypeOK
<1> QED BY <1>3, <1>4, <1>5, <1>6, <1>7 DEF IInv

(* An intent that is new has a level above the history it was judged by.   *)
Escalates ==
    Len(out') > Len(out) =>
        LET i == Last(out')
        IN  i.level > autos[Key[i.ip]] \/ entry'[Key[i.ip]].blind

LEMMA NextOK == IInv /\ [Next]_vars => IInv' /\ Escalates
<1> SUFFICES ASSUME IInv, [Next]_vars PROVE IInv' /\ Escalates
    OBVIOUS
<1>0. out \in Seq(Intent) /\ Len(out) \in Nat
    BY DEF IInv, TypeOK
<1>1. ASSUME ~(Len(out') > Len(out)) PROVE Escalates
    BY <1>1 DEF Escalates
<1>2. ASSUME out' = out PROVE Escalates
    BY <1>0, <1>1, <1>2
<1>3. CASE Executor
    <2>1. CASE \E ip \in Ip : JudgeLine(ip)
        BY <2>1, JudgeLineOK DEF Escalates
    <2>2. CASE ChunkEnds \/ Skip \/ TryInsert \/ Send \/ Dispatched
        BY <1>1, <2>2, DispatchOK
    <2>3. CASE RecordBanHistory
        BY <1>2, <2>3, RecordBanHistoryOK
    <2>4. CASE RecordBan
        BY <1>2, <2>4, RecordBanOK
    <2>5. CASE NoteBan
        <3>1. out' = out
            BY <2>5 DEF NoteBan
        <3> QED BY <1>2, <2>5, <3>1, NoteBanOK
    <2> QED BY <1>3, <2>1, <2>2, <2>3, <2>4, <2>5 DEF Executor
<1>4. CASE Api
    BY <1>2, <1>4, ApiOK
<1>5. CASE Flusher
    <2>1. CASE FlushTick \/ FinalFlush
        BY <1>2, <2>1, FlushStartsOK
    <2>2. CASE FlushTake
        BY <1>2, <2>2, FlushTakeOK
    <2>3. CASE FlushWrite
        BY <1>2, <2>3, FlushWriteOK
    <2>4. CASE FlushFails
        BY <1>2, <2>4, FlushFailsOK
    <2> QED BY <1>5, <2>1, <2>2, <2>3, <2>4 DEF Flusher
<1>6. CASE Timers
    BY <1>2, <1>6, TimersOK
<1>7. CASE Stop \/ Close
    BY <1>2, <1>7, StopOrCloseOK
<1>8. CASE Restart
    BY <1>1, <1>8, RestartOK
<1>9. CASE UNCHANGED vars
    <2>1. /\ UNCHANGED <<lru, entry, dirty, writing, owed, lossy>>
          /\ hist' = hist /\ rep' = rep /\ cut' = cut /\ out' = out /\ epc' = epc /\ apc' = apc
          /\ eip' = eip /\ aip' = aip /\ level' = level /\ mirror' = mirror /\ phase' = phase
          /\ autos' = autos /\ ops' = ops
        BY <1>9 DEF vars, dbVars, cacheVars, flushVars, banVars, auxVars
    <2>2. Listed' /\ Held' /\ PenaltiesKept'
        BY <2>1, CacheAlone
    <2>3. TypeOK'
        BY <2>1 DEF IInv, TypeOK
    <2>4. Rests' /\ Covered' /\ Working'
        BY <2>1 DEF IInv, Rests, Covered, Working, Pending
    <2>5. RowCounts' /\ EntryCounts'
        BY <2>1 DEF IInv, RowCounts, StoredBans, EntryCounts, Behind
    <2> QED BY <1>2, <2>1, <2>2, <2>3, <2>4, <2>5 DEF IInv
<1> QED BY <1>3, <1>4, <1>5, <1>6, <1>7, <1>8, <1>9 DEF Next

-----------------------------------------------------------------------------
(* The invariant holds in every behaviour.                                 *)
THEOREM Invariance == Spec => []IInv
<1>1. Init => IInv
    BY InitOK
<1>2. IInv /\ [Next]_vars => IInv'
    BY NextOK
<1> QED BY <1>1, <1>2, PTL DEF Spec

(* Rows, entries and what is under way keep their types; the cache never   *)
(* has more entries than its capacity, however lines, bans and the flusher *)
(* meet (touchLocked).                                                     *)
THEOREM TypeCorrect == Spec => []TypeOK
<1>1. IInv => TypeOK
    BY DEF IInv
<1> QED BY <1>1, Invariance, PTL

(* Every penalty is in the database, in the cache, or on its way, but for  *)
(* addresses with a write that failed after their entry was evicted, or in *)
(* the final flush (writeAll, writeBack).                                  *)
THEOREM NoPenaltyIsLost == Spec => []PenaltiesKept
<1>1. IInv => PenaltiesKept
    BY DEF IInv
<1> QED BY <1>1, Invariance, PTL

(* A process that ends in order owes the database nothing: the flusher is  *)
(* waited for before the database is closed (StartFlusher, main.go).       *)
THEOREM CleanStop == Spec => []CleanStopLandsAll
<1>1. IInv => CleanStopLandsAll
    <2> SUFFICES ASSUME IInv, phase = "closed", NEW ip \in Ip, ip \notin lossy PROVE owed[ip] = 0
        BY DEF CleanStopLandsAll
    <2>1. dirty = {} /\ writing = None
        BY DEF IInv, Covered
    <2>2. Pending(ip) \in Nat /\ ~(Pending(ip) > 0)
        BY <2>1, EntryIs DEF IInv, Covered
    <2>3. InFlight(ip) = 0
        BY <2>1 DEF InFlight
    <2>4. owed[ip] = Pending(ip) + InFlight(ip)
        BY DEF IInv, PenaltiesKept
    <2> QED BY <2>2, <2>3, <2>4
<1> QED BY <1>1, Invariance, PTL

(* A repeat offender is never taken for less than it is: whatever has been *)
(* evicted, restarted or cleaned up, the level of a ban is above the       *)
(* number of automatic bans that the history holds under the unmapped text *)
(* of the address, but for a history that could not be read                *)
(* (PriorBanCount, NoteBan, PlanBan).                                      *)
THEOREM RepeatOffenders == Spec => RepeatsEscalate
<1>1. IInv /\ [Next]_vars =>
        [Len(out') > Len(out) =>
            LET i == Last(out')
            IN  i.level > autos[Key[i.ip]] \/ entry'[Key[i.ip]].blind]_vars
    BY NextOK DEF Escalates
<1> QED BY <1>1, Invariance, PTL DEF Spec, RepeatsEscalate
=============================================================================
