------------------------- MODULE RateTable_proofs -------------------------
(***************************************************************************)
(* Proofs about RateTable, for every number of CPUs, sources, buckets,     *)
(* slots and entries.                                                      *)
(***************************************************************************)
EXTENDS RateTable, FiniteSetTheorems, TLAPS

Working(c) == pc[c] \in {"probe", "publish"}

(* A CPU that creates an entry holds the lock of the source's bucket; what *)
(* it found under the lock stays true until it links the entry.            *)
CreateOK ==
    \A c \in Cpu :
        /\ pc[c] \in {"miss", "probe", "publish"} => src[c] \in Addr
        /\ Working(c) => /\ cur[c] \in Node /\ addr[cur[c]] = src[c]
                         /\ bucketLock[BucketOf[src[c]]] = c
        /\ pc[c] = "probe" => /\ EntriesOf(src[c]) = {}
                              /\ cur[c] \notin batch \cup pre \cup doomed /\ cur[c] # dn
        /\ pc[c] = "publish" => cur[c] \in linked

(* An entry is in one place: in a bucket, with the reclamation, with the   *)
(* clearing, or with RCU.                                                  *)
PartsOK ==
    /\ \A n \in linked \cup batch \cup pre \cup doomed : addr[n] # None
    /\ dn # None => addr[dn] # None
    /\ linked \cap (batch \cup pre \cup doomed) = {}
    /\ batch \cap (pre \cup doomed) = {}
    /\ pre \cap doomed = {}
    /\ dn \notin linked \cup batch \cup pre \cup doomed

(* The slot of the entry that is being published.                          *)
PublishOK ==
    \A c \in Cpu :
        /\ pc[c] = "publish" <=> slotLock = c
        /\ pc[c] = "publish" => slot[0][idx[cur[c]]] = IF pub = 0 THEN None ELSE cur[c]

(* A callback clears a slot of an entry that is already unlinked; on CPU 0 *)
(* nobody can have taken this slot since the callback looked.              *)
CallbackOK ==
    \A c \in Cpu : ipi[c] # None =>
        /\ ipi[c] \in batch \/ ipi[c] = dn
        /\ c = 0 => slot[0][idx[ipi[c]]] = ipi[c]

IInv ==
    /\ TypeOK /\ CreateOK /\ PartsOK /\ PublishOK /\ CallbackOK
    /\ OneEntry /\ SlotOwned
Rest == CreateOK /\ PartsOK /\ PublishOK /\ CallbackOK /\ OneEntry /\ SlotOwned

-----------------------------------------------------------------------------
(* The initial state.                                                      *)
LEMMA InitHolds == Init => IInv
<1> SUFFICES ASSUME Init PROVE IInv
    OBVIOUS
<1> USE RateAssumption DEF Init
<1>1. TypeOK
    BY DEF TypeOK, Cpu, Slot
<1>2. CreateOK /\ PartsOK
    BY DEF CreateOK, PartsOK, Working
<1>3. PublishOK /\ CallbackOK
    BY DEF PublishOK, CallbackOK, Cpu
<1>4. OneEntry /\ SlotOwned
    BY DEF OneEntry, SlotOwned
<1> QED
    BY <1>1, <1>2, <1>3, <1>4 DEF IInv

LEMMA CreatorsEntry ==
    ASSUME CreateOK, NEW c \in Cpu, pc[c] \in {"probe", "publish"}
    PROVE  cur[c] \in Node
BY DEF CreateOK, Working

(* Every step keeps the types.                                             *)
LEMMA TypeStep == IInv /\ [Next]_vars => TypeOK'
<1> SUFFICES ASSUME IInv, [Next]_vars PROVE TypeOK'
    OBVIOUS
<1> USE RateAssumption DEF IInv, TypeOK, nodeVars, rollVars, lockVars, hotVars, reclaimVars, clearVars, rcuVars
<1>1. ASSUME NEW c \in Cpu, NEW a \in Addr, Observe(c, a) PROVE TypeOK'
    <2>1. CASE EntriesOf(a) = {}
        BY <1>1, <2>1 DEF Observe
    <2>2. ASSUME NEW n \in EntriesOf(a), cur' = [cur EXCEPT ![c] = n],
                 pc' = [pc EXCEPT ![c] = "slot"]
          PROVE TypeOK'
        BY <1>1, <2>2 DEF Observe, EntriesOf
    <2> QED
        BY <1>1, <2>1, <2>2 DEF Observe
<1>2. ASSUME NEW c \in Cpu, FoundAgain(c) PROVE TypeOK'
    BY <1>2 DEF FoundAgain, EntriesOf
<1>3. ASSUME NEW c \in Cpu, Spill(c) PROVE TypeOK'
    BY <1>3 DEF Spill, Leave
<1>4. ASSUME NEW c \in Cpu, CreateAlloc(c) PROVE TypeOK'
    BY <1>4 DEF CreateAlloc, Alloc, FreeNodes, CreateOK
<1>5. ASSUME NEW c \in Cpu, CreateFails(c) PROVE TypeOK'
    BY <1>5 DEF CreateFails, Leave, CreateOK, Working
<1>6. ASSUME NEW c \in Cpu, CreateLink(c) PROVE TypeOK'
    <2>1. PICK k \in Slot : Link(c, ProbeAt(src[c], k))
        BY <1>6 DEF CreateLink
    <2>2. ProbeAt(src[c], k) \in Slot
        <3>1. src[c] \in Addr
            BY <1>6 DEF CreateLink, CreateOK
        <3>2. SlotOf[src[c]] + k \in Nat /\ NSlot \in Nat \ {0}
            BY <3>1 DEF Slot
        <3> HIDE RateAssumption DEF IInv, TypeOK
        <3> QED
            BY <3>2, SMTT(20) DEF ProbeAt, Slot
    <2>3. 0 \in Cpu /\ cur[c] \in Node
        BY <1>6 DEF Cpu, CreateLink, CreateOK, Working
    <2> QED
        BY <2>1, <2>2, <2>3 DEF Link
<1>7. ASSUME NEW c \in Cpu, Publish(c) PROVE TypeOK'
    <2>1. pub' \in Cpu
        <3>1. pub \in 0 .. NCpu - 1 /\ NCpu \in Nat \ {0}
            BY DEF Cpu
        <3>2. CASE pub < NCpu - 1
            BY <1>7, <3>1, <3>2 DEF Publish, Cpu
        <3>3. CASE ~(pub < NCpu - 1)
            BY <1>7, <3>1, <3>3 DEF Publish, Cpu
        <3> QED
            BY <3>2, <3>3
    <2>2. cur[c] \in Node
        <3>1. pc[c] = "publish" /\ CreateOK
            BY <1>7 DEF Publish
        <3> HIDE RateAssumption DEF IInv, TypeOK
        <3> QED
            BY <3>1, CreatorsEntry
    <2>3. slot' \in [Cpu -> [Slot -> Node \cup {None}]]
        <3>1. slot' = [slot EXCEPT ![pub] = [slot[pub] EXCEPT ![idx[cur[c]]] = cur[c]]]
            BY <1>7 DEF Publish
        <3>2. [slot[pub] EXCEPT ![idx[cur[c]]] = cur[c]] \in [Slot -> Node \cup {None}]
            BY <2>2
        <3> QED
            BY <3>1, <3>2
    <2>4. UNCHANGED <<addr, idx, linked, count, src, cur, ipi, batch, pre, dn, doomed>>
        BY <1>7 DEF Publish
    <2>5. /\ slotLock' \in {slotLock, None}
          /\ bucketLock' \in {bucketLock, [bucketLock EXCEPT ![BucketOf[src[c]]] = None]}
          /\ pc' \in {pc, [pc EXCEPT ![c] = "slot"]}
        BY <1>7 DEF Publish
    <2> QED
        BY <2>1, <2>3, <2>4, <2>5
<1>8. ASSUME NEW c \in Cpu, SlotLost(c) PROVE TypeOK'
    BY <1>8 DEF SlotLost, Leave
<1>9. ASSUME NEW c \in Cpu, Count(c) PROVE TypeOK'
    BY <1>9 DEF Count
<1>10. ASSUME NEW c \in Cpu, Elect(c) PROVE TypeOK'
    BY <1>10 DEF Elect
<1>11. ASSUME NEW c \in Cpu, Roll(c) PROVE TypeOK'
    BY <1>11 DEF Roll
<1>12. ASSUME NEW c \in Cpu, Judge(c) PROVE TypeOK'
    BY <1>12 DEF Judge, Leave
<1>13. ASSUME NEW c \in Cpu, CallbackClears(c) PROVE TypeOK'
    BY <1>13 DEF CallbackClears
<1>14. ASSUME ReclaimStart PROVE TypeOK'
    BY <1>14 DEF ReclaimStart
<1>15. ASSUME ReclaimBucket PROVE TypeOK'
    BY <1>15 DEF ReclaimBucket
<1>16. ASSUME ReclaimFlush PROVE TypeOK'
    BY <1>16, FS_Subset, FS_CardinalityType DEF ReclaimFlush, Doom
<1>17. ASSUME NEW c \in Cpu, NEW n \in Node, ReclaimLooks(c, n) PROVE TypeOK'
    BY <1>17 DEF ReclaimLooks, Looks
<1>18. ASSUME ClearBegin PROVE TypeOK'
    BY <1>18 DEF ClearBegin
<1>19. ASSUME DrainBucket PROVE TypeOK'
    BY <1>19 DEF DrainBucket, InBucket
<1>20. ASSUME DrainPick PROVE TypeOK'
    BY <1>20 DEF DrainPick
<1>21. ASSUME DrainDoom PROVE TypeOK'
    BY <1>21 DEF DrainDoom, Doom
<1>22. ASSUME ClearSync PROVE TypeOK'
    BY <1>22 DEF ClearSync
<1>23. ASSUME ClearEnd PROVE TypeOK'
    BY <1>23 DEF ClearEnd
<1>24. ASSUME NEW c \in Cpu, DrainLooks(c) PROVE TypeOK'
    BY <1>24 DEF DrainLooks, Looks
<1>25. ASSUME NEW n \in Node, WindowEnds(n) PROVE TypeOK'
    BY <1>25 DEF WindowEnds
<1>26. ASSUME NEW n \in Node, GrowsOld(n) PROVE TypeOK'
    BY <1>26 DEF GrowsOld
<1>27. ASSUME NEW n \in Node, Free(n) PROVE TypeOK'
    BY <1>27 DEF Free, Slot
<1>28. ASSUME UNCHANGED vars PROVE TypeOK'
    BY <1>28 DEF vars
<1> QED
    BY <1>1, <1>2, <1>3, <1>4, <1>5, <1>6, <1>7, <1>8, <1>9, <1>10, <1>11, <1>12, <1>13, <1>14, <1>15, <1>16, <1>17, <1>18, <1>19, <1>20, <1>21, <1>22, <1>23, <1>24, <1>25, <1>26, <1>27, <1>28 DEF Next, Packet, Reclaim, Clear

-----------------------------------------------------------------------------
(* Steps that leave alone what the invariant is about.                     *)
LEMMA Quiet ==
    ASSUME IInv,
           UNCHANGED <<addr, idx, linked, slot, lockVars, ipi, batch, pre, dn, doomed>>,
           \A d \in Cpu : \/ pc'[d] = pc[d] /\ src'[d] = src[d] /\ cur'[d] = cur[d]
                          \/ /\ ~Working(d)
                             /\ \/ pc'[d] \notin {"miss", "probe", "publish"}
                                \/ pc'[d] = "miss" /\ src'[d] \in Addr
    PROVE  Rest'
<1> USE DEF IInv, Rest, lockVars
<1>1. CreateOK'
    BY DEF CreateOK, Working, EntriesOf
<1>2. PartsOK'
    BY DEF PartsOK
<1>3. PublishOK'
    BY DEF PublishOK, Working
<1>4. CallbackOK'
    BY DEF CallbackOK
<1>5. OneEntry'
    BY DEF OneEntry
<1>6. SlotOwned'
    BY DEF SlotOwned, Publishing, Working
<1> QED
    BY <1>1, <1>2, <1>3, <1>4, <1>5, <1>6

(* Two CPUs that create entries hold two bucket locks.                     *)
LEMMA OneCreator ==
    ASSUME IInv, NEW c \in Cpu, NEW d \in Cpu, Working(c), Working(d),
           src[c] = src[d] \/ cur[c] = cur[d] \/ BucketOf[src[c]] = BucketOf[src[d]]
    PROVE  c = d
BY DEF IInv, CreateOK, Working

LEMMA FreeKeeps ==
    ASSUME IInv, NEW n \in Node, Free(n)
    PROVE  Rest'
<1> USE DEF IInv, Rest, lockVars, hotVars, reclaimVars, clearVars, Free, TypeOK
<1>1. n \notin linked \cup batch \cup pre /\ n # dn
    BY DEF PartsOK
<1>2. \A d \in Cpu : Working(d) => cur[d] # n
    BY <1>1 DEF CreateOK, Working
<1>3. \A a \in Addr : EntriesOf(a)' = EntriesOf(a)
    BY <1>1 DEF EntriesOf
<1>4. CreateOK'
    BY <1>2, <1>3 DEF CreateOK, Working
<1>5. PartsOK'
    BY <1>1 DEF PartsOK
<1>6. PublishOK'
    BY <1>2 DEF PublishOK, Working
<1>7. CallbackOK'
    BY <1>1 DEF CallbackOK
<1>8. OneEntry'
    BY <1>1 DEF OneEntry
<1>9. SlotOwned'
    BY <1>1 DEF SlotOwned, Publishing
<1> QED
    BY <1>4, <1>5, <1>6, <1>7, <1>8, <1>9

LEMMA CreateAllocKeeps ==
    ASSUME IInv, NEW c \in Cpu, CreateAlloc(c)
    PROVE  Rest'
<1> USE RateAssumption DEF IInv, Rest, reclaimVars, clearVars, rcuVars, rollVars, CreateAlloc, TypeOK
<1>1. PICK n \in FreeNodes : addr' = [addr EXCEPT ![n] = src[c]] /\ cur' = [cur EXCEPT ![c] = n]
    BY DEF Alloc
<1>2. n \in Node /\ addr[n] = None /\ src[c] \in Addr /\ src[c] # None
    BY DEF FreeNodes, CreateOK
<1>3. n \notin linked \cup batch \cup pre \cup doomed /\ n # dn
    BY <1>2 DEF PartsOK
<1>4. \A d \in Cpu : Working(d) => cur[d] # n /\ d # c /\ BucketOf[src[d]] # BucketOf[src[c]]
    <2>1. None \notin Cpu
        BY DEF Cpu
    <2> QED
        BY <1>2, <2>1 DEF CreateOK, Working
<1>5. \A a \in Addr : EntriesOf(a)' = EntriesOf(a)
    BY <1>1, <1>3 DEF EntriesOf, Alloc
<1>6. CreateOK'
    <2> SUFFICES ASSUME NEW d \in Cpu
                 PROVE /\ pc'[d] \in {"miss", "probe", "publish"} => src'[d] \in Addr
                       /\ Working(d)' => /\ cur'[d] \in Node /\ addr'[cur'[d]] = src'[d]
                                         /\ bucketLock'[BucketOf[src'[d]]] = d
                       /\ pc'[d] = "probe" => /\ EntriesOf(src[d])' = {}
                                              /\ cur'[d] \notin (batch \cup pre \cup doomed)' /\ cur'[d] # dn'
                       /\ pc'[d] = "publish" => cur'[d] \in linked'
        BY DEF CreateOK
    <2>1. CASE d = c
        BY <1>1, <1>2, <1>3, <1>5, <2>1 DEF Working, Alloc
    <2>2. CASE d # c
        <3>1. pc'[d] = pc[d] /\ src'[d] = src[d] /\ cur'[d] = cur[d]
            BY <1>1, <2>2 DEF Alloc
        <3>2. Working(d) => bucketLock'[BucketOf[src[d]]] = bucketLock[BucketOf[src[d]]]
                            /\ addr'[cur[d]] = addr[cur[d]]
            BY <1>1, <1>2, <1>4 DEF Alloc, CreateOK, Working
        <3> QED
            BY <1>5, <3>1, <3>2 DEF Alloc, CreateOK, Working
    <2> QED
        BY <2>1, <2>2
<1>7. PartsOK'
    BY <1>1, <1>2, <1>3 DEF PartsOK, Alloc
<1>8. PublishOK'
    BY <1>1 DEF PublishOK, Alloc
<1>9. CallbackOK'
    BY DEF CallbackOK, Alloc
<1>10. OneEntry'
    BY <1>1, <1>3 DEF OneEntry, Alloc
<1>11. SlotOwned'
    BY <1>1 DEF SlotOwned, Publishing, Alloc
<1> QED
    BY <1>6, <1>7, <1>8, <1>9, <1>10, <1>11

LEMMA CreateFailsKeeps ==
    ASSUME IInv, NEW c \in Cpu, CreateFails(c)
    PROVE  Rest'
<1> USE RateAssumption DEF IInv, Rest, reclaimVars, rollVars, CreateFails, Leave, TypeOK
<1>1. /\ src[c] \in Addr /\ cur[c] \in Node /\ addr[cur[c]] = src[c] /\ Working(c)
      /\ cur[c] \notin linked \cup batch \cup pre \cup doomed /\ cur[c] # dn
    BY DEF CreateOK, Working, EntriesOf
<1>2. \A d \in Cpu \ {c} : Working(d) => cur[d] # cur[c] /\ BucketOf[src[d]] # BucketOf[src[c]]
    <2> HIDE RateAssumption DEF Rest, reclaimVars, rollVars, CreateFails, Leave, TypeOK, IInv
    <2> QED
        BY <1>1, OneCreator
<1>3. \A a \in Addr : EntriesOf(a)' = EntriesOf(a)
    BY <1>1 DEF EntriesOf
<1>4. CreateOK'
    <2> SUFFICES ASSUME NEW d \in Cpu, d # c
                 PROVE /\ pc[d] \in {"miss", "probe", "publish"} => src[d] \in Addr
                       /\ Working(d) => /\ cur[d] \in Node /\ addr'[cur[d]] = src[d]
                                         /\ bucketLock'[BucketOf[src[d]]] = d
                       /\ pc[d] = "probe" => /\ EntriesOf(src[d])' = {}
                                              /\ cur[d] \notin (batch \cup pre \cup doomed)' /\ cur[d] # dn'
                       /\ pc[d] = "publish" => cur[d] \in linked'
        BY DEF CreateOK, Working
    <2> QED
        BY <1>1, <1>2, <1>3 DEF CreateOK, Working
<1>5. PartsOK'
    BY <1>1 DEF PartsOK
<1>6. PublishOK'
    BY DEF PublishOK
<1>7. CallbackOK'
    BY DEF CallbackOK
<1>8. OneEntry'
    BY <1>1 DEF OneEntry
<1>9. SlotOwned'
    BY DEF SlotOwned, Publishing
<1> QED
    BY <1>4, <1>5, <1>6, <1>7, <1>8, <1>9

LEMMA CreateLinkKeeps ==
    ASSUME IInv, NEW c \in Cpu, CreateLink(c)
    PROVE  Rest'
<1> USE RateAssumption DEF IInv, Rest, reclaimVars, clearVars, rcuVars, rollVars, TypeOK
<1>1. PICK k \in Slot : FreeAt(src[c], k) /\ Link(c, ProbeAt(src[c], k))
    BY DEF CreateLink
<1> DEFINE i == ProbeAt(src[c], k)
<1>2. slot[0][i] = None /\ pc[c] = "probe" /\ slotLock = None
    BY <1>1 DEF FreeAt, Link
<1>3. /\ src[c] \in Addr /\ cur[c] \in Node /\ addr[cur[c]] = src[c] /\ Working(c)
      /\ EntriesOf(src[c]) = {}
      /\ cur[c] \notin linked \cup batch \cup pre \cup doomed /\ cur[c] # dn
    BY <1>2 DEF CreateOK, Working, EntriesOf
<1>4. \A d \in Cpu \ {c} : Working(d) => cur[d] # cur[c] /\ src[d] # src[c]
    <2> HIDE RateAssumption DEF Rest, reclaimVars, clearVars, rcuVars, rollVars, TypeOK, IInv
    <2> QED
        BY <1>3, OneCreator
<1>5. \A d \in Cpu : pc[d] # "publish"
    <2>1. None \notin Cpu
        BY DEF Cpu
    <2> QED
        BY <1>2, <2>1 DEF PublishOK
<1>6. UNCHANGED <<addr, slot, bucketLock, src, cur, ipi, batch, pre, dn, doomed>>
      /\ linked' = linked \cup {cur[c]} /\ idx' = [idx EXCEPT ![cur[c]] = i]
      /\ pc' = [pc EXCEPT ![c] = "publish"] /\ slotLock' = c /\ pub' = 0
    BY <1>1 DEF Link
<1> HIDE DEF i
<1>7. CreateOK'
    <2> SUFFICES ASSUME NEW d \in Cpu
                 PROVE /\ pc'[d] \in {"miss", "probe", "publish"} => src[d] \in Addr
                       /\ Working(d)' => /\ cur[d] \in Node /\ addr[cur[d]] = src[d]
                                         /\ bucketLock[BucketOf[src[d]]] = d
                       /\ pc'[d] = "probe" => /\ EntriesOf(src[d])' = {}
                                              /\ cur[d] \notin batch \cup pre \cup doomed /\ cur[d] # dn
                       /\ pc'[d] = "publish" => cur[d] \in linked'
        BY <1>6 DEF CreateOK
    <2>1. CASE d = c
        BY <1>2, <1>3, <1>6, <2>1 DEF Working, CreateOK
    <2>2. CASE d # c
        <3>1. pc'[d] = pc[d]
            BY <1>6, <2>2
        <3>2. pc[d] = "probe" => EntriesOf(src[d])' = EntriesOf(src[d])
            BY <1>3, <1>4, <1>6, <2>2 DEF EntriesOf, Working
        <3> QED
            BY <1>6, <3>1, <3>2 DEF CreateOK, Working
    <2> QED
        BY <2>1, <2>2
<1>8. PartsOK'
    BY <1>3, <1>6 DEF PartsOK
<1>9. PublishOK'
    <2>1. idx'[cur[c]] = i
        BY <1>3, <1>6
    <2> QED
        BY <1>2, <1>5, <1>6, <2>1 DEF PublishOK
<1>10. CallbackOK'
    BY <1>3, <1>6 DEF CallbackOK
<1>11. OneEntry'
    BY <1>3, <1>6 DEF OneEntry, EntriesOf
<1>12. SlotOwned'
    <2>1. Publishing(cur[c])'
        BY <1>6 DEF Publishing
    <2>2. \A n \in linked : slot[0][idx[n]] = n /\ idx'[n] = idx[n]
        BY <1>3, <1>5, <1>6 DEF SlotOwned, Publishing
    <2> QED
        BY <1>6, <2>1, <2>2 DEF SlotOwned
<1> QED
    BY <1>7, <1>8, <1>9, <1>10, <1>11, <1>12

LEMMA PublishKeeps ==
    ASSUME IInv, NEW c \in Cpu, Publish(c)
    PROVE  Rest'
<1> USE RateAssumption DEF IInv, Rest, reclaimVars, clearVars, rcuVars, rollVars, nodeVars, TypeOK
<1> DEFINE n == cur[c]
<1>1. /\ pc[c] = "publish" /\ slotLock = c /\ Working(c) /\ src[c] \in Addr
      /\ n \in Node /\ n \in linked /\ bucketLock[BucketOf[src[c]]] = c
      /\ slot[0][idx[n]] = IF pub = 0 THEN None ELSE n
    BY DEF Publish, CreateOK, Working, PublishOK
<1>2. \A d \in Cpu \ {c} : pc[d] # "publish"
    BY <1>1 DEF PublishOK
<1>3. \A d \in Cpu \ {c} : Working(d) => BucketOf[src[d]] # BucketOf[src[c]]
    <2> HIDE RateAssumption DEF Rest, reclaimVars, clearVars, rcuVars, rollVars, nodeVars, TypeOK, IInv
    <2> QED
        BY <1>1, OneCreator
<1>4. 0 \in Cpu /\ idx[n] \in Slot /\ None \notin Node /\ None \notin Cpu
    BY <1>1 DEF Cpu
<1>5. /\ slot' = [slot EXCEPT ![pub][idx[n]] = n]
      /\ UNCHANGED <<addr, idx, linked, src, cur, ipi, batch, pre, dn, doomed>>
    BY DEF Publish
<1>6. \/ /\ pub < NCpu - 1 /\ pub' = pub + 1
         /\ UNCHANGED <<slotLock, bucketLock, pc>>
      \/ /\ pub' = 0 /\ slotLock' = None
         /\ bucketLock' = [bucketLock EXCEPT ![BucketOf[src[c]]] = None]
         /\ pc' = [pc EXCEPT ![c] = "slot"]
    BY DEF Publish
<1>7. slot'[0][idx[n]] = n
    BY <1>1, <1>4, <1>5
<1>8. \A m \in Node : slot[0][idx[m]] = m => slot'[0][idx[m]] = m
    BY <1>1, <1>4, <1>5
<1>9. CreateOK'
    <2> SUFFICES ASSUME NEW d \in Cpu
                 PROVE /\ pc'[d] \in {"miss", "probe", "publish"} => src[d] \in Addr
                       /\ Working(d)' => /\ cur[d] \in Node /\ addr[cur[d]] = src[d]
                                         /\ bucketLock'[BucketOf[src[d]]] = d
                       /\ pc'[d] = "probe" => /\ EntriesOf(src[d]) = {}
                                              /\ cur[d] \notin batch \cup pre \cup doomed /\ cur[d] # dn
                       /\ pc'[d] = "publish" => cur[d] \in linked
        BY <1>5 DEF CreateOK, EntriesOf
    <2>1. CASE d = c
        BY <1>1, <1>6, <2>1 DEF Working, CreateOK
    <2>2. CASE d # c
        <3>1. pc'[d] = pc[d]
            BY <1>6, <2>2
        <3>2. Working(d) => bucketLock'[BucketOf[src[d]]] = bucketLock[BucketOf[src[d]]]
            <4>1. bucketLock \in [Bucket -> Cpu \cup {None}]
                OBVIOUS
            <4> HIDE RateAssumption DEF IInv, Rest, reclaimVars, clearVars, rcuVars, rollVars, nodeVars, TypeOK
            <4> SUFFICES ASSUME Working(d) PROVE bucketLock'[BucketOf[src[d]]] = bucketLock[BucketOf[src[d]]]
                OBVIOUS
            <4>2. BucketOf[src[d]] # BucketOf[src[c]]
                BY <1>3, <2>2
            <4>3. BucketOf[src[d]] \in Bucket
                BY RateAssumption DEF CreateOK, Working, IInv
            <4> QED
                BY <1>6, <4>1, <4>2, <4>3
        <3> HIDE RateAssumption DEF Rest, reclaimVars, clearVars, rcuVars, rollVars, nodeVars, TypeOK
        <3> QED
            BY <3>1, <3>2 DEF CreateOK, Working
    <2> QED
        BY <2>1, <2>2
<1>10. PartsOK'
    BY <1>5 DEF PartsOK
<1>11. PublishOK'
    <2>1. CASE pub < NCpu - 1 /\ pub' = pub + 1 /\ UNCHANGED <<slotLock, bucketLock, pc>>
        <3>1. pub' # 0
            BY <2>1 DEF Cpu
        <3> QED
            BY <1>1, <1>2, <1>5, <1>7, <2>1, <3>1 DEF PublishOK
    <2>2. CASE slotLock' = None /\ pc' = [pc EXCEPT ![c] = "slot"]
        BY <1>2, <1>4, <2>2 DEF PublishOK
    <2> QED
        BY <1>6, <2>1, <2>2
<1>12. CallbackOK'
    BY <1>5, <1>8 DEF CallbackOK
<1>13. OneEntry'
    BY <1>5 DEF OneEntry
<1>14. SlotOwned'
    <2>1. \A m \in linked : m # n => slot[0][idx[m]] = m
        BY <1>2 DEF SlotOwned, Publishing
    <2> QED
        BY <1>5, <1>7, <1>8, <2>1 DEF SlotOwned
<1> QED
    BY <1>9, <1>10, <1>11, <1>12, <1>13, <1>14

LEMMA CallbackKeeps ==
    ASSUME IInv, NEW c \in Cpu, CallbackClears(c)
    PROVE  Rest'
<1> USE RateAssumption DEF IInv, Rest, nodeVars, lockVars, hotVars, reclaimVars, clearVars, rcuVars, CallbackClears, TypeOK
<1> DEFINE m == ipi[c]
<1>1. m \in Node /\ m \notin linked /\ (c = 0 => slot[0][idx[m]] = m)
    BY DEF CallbackOK, PartsOK
<1>2. 0 \in Cpu /\ None \notin Node
    BY DEF Cpu
<1>3. \A n \in linked : slot[0][idx[n]] = n => slot'[0][idx[n]] = n
    BY <1>1, <1>2
<1>4. CreateOK'
    BY DEF CreateOK, Working, EntriesOf
<1>5. PartsOK'
    BY DEF PartsOK
<1>6. PublishOK'
    <2>1. \A i \in Slot : slot[0][i] = None => slot'[0][i] = None
        BY <1>2
    <2>2. \A d \in Cpu : pc[d] = "publish" => cur[d] \in linked /\ idx[cur[d]] \in Slot
        BY DEF CreateOK
    <2> QED
        BY <1>3, <2>1, <2>2 DEF PublishOK
<1>7. CallbackOK'
    BY <1>2 DEF CallbackOK
<1>8. OneEntry'
    BY DEF OneEntry
<1>9. SlotOwned'
    BY <1>3 DEF SlotOwned, Publishing
<1> QED
    BY <1>4, <1>5, <1>6, <1>7, <1>8, <1>9

(* Entries leave the buckets, for the reclamation or for the clearing; the *)
(* bucket is locked by nobody.                                             *)
LEMMA UnlinkKeeps ==
    ASSUME IInv, NEW b, bucketLock[b] = None, NEW S \in SUBSET InBucket(b),
           linked' = linked \ S,
           \/ batch' = batch \cup S /\ pre' = pre
           \/ batch' = batch /\ pre' = pre \cup S,
           UNCHANGED <<addr, idx, slot, lockVars, hotVars, ipi, dn, doomed>>
    PROVE  Rest'
<1> USE RateAssumption DEF IInv, Rest, lockVars, hotVars
<1>1. S \subseteq linked
    BY DEF InBucket
<1>2. \A c \in Cpu : pc[c] = "publish" => cur[c] \notin S
    <2>1. None \notin Cpu
        BY DEF Cpu
    <2> QED
        BY <2>1 DEF CreateOK, Working, InBucket
<1>3. CreateOK'
    <2>1. \A c \in Cpu : EntriesOf(src[c]) = {} => EntriesOf(src[c])' = {}
        BY DEF EntriesOf
    <2>2. \A c \in Cpu : pc[c] = "probe" => cur[c] \notin linked
        BY DEF CreateOK, Working, EntriesOf
    <2> QED
        BY <1>1, <1>2, <2>1, <2>2 DEF CreateOK, Working
<1>4. PartsOK'
    BY <1>1 DEF PartsOK
<1>5. PublishOK'
    BY DEF PublishOK
<1>6. CallbackOK'
    BY DEF CallbackOK
<1>7. OneEntry'
    BY DEF OneEntry
<1>8. SlotOwned'
    BY DEF SlotOwned, Publishing
<1> QED
    BY <1>3, <1>4, <1>5, <1>6, <1>7, <1>8

(* A CPU looks at the slot of an entry, which has left the table.          *)
LEMMA LooksKeeps ==
    ASSUME IInv, NEW c \in Cpu, NEW n, n \in batch \/ (n = dn /\ dn # None), Looks(c, n),
           UNCHANGED <<addr, idx, linked, slot, lockVars, hotVars, batch, pre, dn, doomed>>
    PROVE  Rest'
<1> USE DEF IInv, Rest, lockVars, hotVars
<1>1. CreateOK'
    BY DEF CreateOK, Working, EntriesOf
<1>2. PartsOK'
    BY DEF PartsOK
<1>3. PublishOK'
    BY DEF PublishOK
<1>4. CallbackOK'
    <2>1. ipi' = [ipi EXCEPT ![c] = IF slot[c][idx[n]] = n THEN n ELSE None]
        BY DEF Looks
    <2>2. ipi \in [Cpu -> Node \cup {None}]
        BY DEF TypeOK
    <2> QED
        BY <2>1, <2>2 DEF CallbackOK
<1>5. OneEntry'
    BY DEF OneEntry
<1>6. SlotOwned'
    BY DEF SlotOwned, Publishing
<1> QED
    BY <1>1, <1>2, <1>3, <1>4, <1>5, <1>6

(* Entries that have left the table move on: from the clearing's list to   *)
(* the entry it works on, or, when no CPU is about to clear a slot of      *)
(* theirs, to RCU.                                                         *)
LEMMA MovesKeep ==
    ASSUME IInv, UNCHANGED <<addr, idx, linked, slot, lockVars, hotVars, ipi>>,
           batch' \subseteq batch, pre' \subseteq pre, doomed \subseteq doomed',
           dn' \in {dn, None} \/ (dn = None /\ dn' \in pre \ pre'),
           doomed' \subseteq doomed \cup (batch \ batch') \cup ({dn} \ {dn', None}),
           \A c \in Cpu : ipi[c] # None => ipi[c] \in batch' \/ ipi[c] = dn'
    PROVE  Rest'
<1> USE RateAssumption DEF IInv, Rest, lockVars, hotVars
<1>1. CreateOK'
    BY DEF CreateOK, Working, EntriesOf, TypeOK
<1>2. PartsOK'
    BY DEF PartsOK, TypeOK
<1>3. PublishOK'
    BY DEF PublishOK
<1>4. CallbackOK'
    BY DEF CallbackOK
<1>5. OneEntry'
    BY DEF OneEntry
<1>6. SlotOwned'
    BY DEF SlotOwned, Publishing
<1> QED
    BY <1>1, <1>2, <1>3, <1>4, <1>5, <1>6

-----------------------------------------------------------------------------
(* Every step keeps the invariant.                                         *)
LEMMA Step == IInv /\ [Next]_vars => IInv'
<1> SUFFICES ASSUME IInv, [Next]_vars PROVE IInv'
    OBVIOUS
<1>0. TypeOK'
    BY TypeStep
<1> SUFFICES Rest'
    BY <1>0 DEF IInv, Rest
<1> USE DEF nodeVars, rollVars, lockVars, hotVars, reclaimVars, clearVars, rcuVars
<1>t. /\ pc \in [Cpu -> {"idle", "miss", "probe", "publish", "slot", "elect", "roll", "judge"}]
      /\ src \in [Cpu -> Addr \cup {None}] /\ cur \in [Cpu -> Node \cup {None}]
      /\ ipi \in [Cpu -> Node \cup {None}]
    BY DEF IInv, TypeOK
<1>1. ASSUME NEW c \in Cpu, Packet(c) PROVE Rest'
    <2>1. ASSUME NEW a \in Addr, Observe(c, a) PROVE Rest'
        <3>1. CASE EntriesOf(a) = {}
            BY <1>t, <2>1, <3>1, Quiet DEF Observe, Working
        <3>2. ASSUME NEW n, cur' = [cur EXCEPT ![c] = n], pc' = [pc EXCEPT ![c] = "slot"]
              PROVE Rest'
            BY <1>t, <2>1, <3>2, Quiet DEF Observe, Working
        <3> QED
            BY <2>1, <3>1, <3>2 DEF Observe
    <2>2. ASSUME FoundAgain(c) PROVE Rest'
        BY <1>t, <2>2, Quiet DEF FoundAgain, Working
    <2>3. ASSUME Spill(c) PROVE Rest'
        BY <1>t, <2>3, Quiet DEF Spill, Leave, Working
    <2>4. ASSUME SlotLost(c) PROVE Rest'
        BY <1>t, <2>4, Quiet DEF SlotLost, Leave, Working
    <2>5. ASSUME Count(c) PROVE Rest'
        BY <1>t, <2>5, Quiet DEF Count, Working
    <2>6. ASSUME Elect(c) PROVE Rest'
        BY <1>t, <2>6, Quiet DEF Elect, Working
    <2>7. ASSUME Roll(c) PROVE Rest'
        BY <1>t, <2>7, Quiet DEF Roll, Working
    <2>8. ASSUME Judge(c) PROVE Rest'
        BY <1>t, <2>8, Quiet DEF Judge, Leave, Working
    <2> QED
        BY <1>1, <2>1, <2>2, <2>3, <2>4, <2>5, <2>6, <2>7, <2>8, CreateAllocKeeps,
           CreateFailsKeeps, CreateLinkKeeps, PublishKeeps DEF Packet
<1>2. ASSUME Reclaim PROVE Rest'
    <2>1. ASSUME ReclaimStart PROVE Rest'
        BY <2>1, Quiet DEF ReclaimStart
    <2>2. ASSUME ReclaimBucket PROVE Rest'
        <3>1. PICK S \in SUBSET linked :
                 Taken(S) /\ linked' = linked \ S /\ batch' = batch \cup S
            BY <2>2 DEF ReclaimBucket
        <3>2. S \in SUBSET InBucket(rb)
            BY <3>1 DEF Taken
        <3>3. bucketLock[rb] = None
            BY <2>2 DEF ReclaimBucket
        <3>4. UNCHANGED <<addr, idx, slot, lockVars, hotVars, ipi, pre, dn, doomed>>
            BY <2>2 DEF ReclaimBucket
        <3> HIDE DEF nodeVars, rollVars, lockVars, hotVars, reclaimVars, clearVars, rcuVars
        <3> QED
            BY <3>1, <3>2, <3>3, <3>4, UnlinkKeeps
    <2>3. ASSUME ReclaimFlush PROVE Rest'
        <3>1. \A c \in Cpu : ipi[c] # None => ipi[c] = dn
            BY <2>3 DEF ReclaimFlush, Called, IInv, CallbackOK
        <3>2. /\ batch' = {} /\ doomed' = doomed \cup batch
              /\ UNCHANGED <<addr, idx, linked, slot, lockVars, hotVars, ipi, pre, dn>>
            BY <2>3 DEF ReclaimFlush, Doom
        <3> HIDE DEF nodeVars, rollVars, lockVars, hotVars, reclaimVars, clearVars, rcuVars
        <3> QED
            BY <3>1, <3>2, MovesKeep
    <2>4. ASSUME NEW c \in Cpu, NEW n \in Node, ReclaimLooks(c, n) PROVE Rest'
        BY <2>4, LooksKeeps DEF ReclaimLooks
    <2> QED
        BY <1>2, <2>1, <2>2, <2>3, <2>4 DEF Reclaim
<1>3. ASSUME Clear PROVE Rest'
    <2>1. ASSUME ClearBegin PROVE Rest'
        BY <2>1, Quiet DEF ClearBegin
    <2>2. ASSUME DrainBucket PROVE Rest'
        <3>1. /\ linked' = linked \ InBucket(db) /\ pre' = pre \cup InBucket(db)
              /\ bucketLock[db] = None
              /\ UNCHANGED <<addr, idx, slot, lockVars, hotVars, ipi, batch, dn, doomed>>
            BY <2>2 DEF DrainBucket
        <3> HIDE DEF nodeVars, rollVars, lockVars, hotVars, reclaimVars, clearVars, rcuVars
        <3> QED
            BY <3>1, UnlinkKeeps
    <2>3. ASSUME DrainPick PROVE Rest'
        BY <2>3, MovesKeep DEF DrainPick, IInv, CallbackOK
    <2>4. ASSUME DrainDoom PROVE Rest'
        <3>1. \A c \in Cpu : ipi[c] # None => ipi[c] \in batch
            BY <2>4 DEF DrainDoom, Called, IInv, CallbackOK
        <3>2. /\ dn # None /\ dn' = None /\ doomed' = doomed \cup {dn}
              /\ UNCHANGED <<addr, idx, linked, slot, lockVars, hotVars, ipi, batch, pre>>
            BY <2>4 DEF DrainDoom, Doom
        <3> HIDE DEF nodeVars, rollVars, lockVars, hotVars, reclaimVars, clearVars, rcuVars
        <3> QED
            BY <3>1, <3>2, MovesKeep
    <2>5. ASSUME ClearSync PROVE Rest'
        BY <2>5, Quiet DEF ClearSync
    <2>6. ASSUME ClearEnd PROVE Rest'
        BY <2>6, Quiet DEF ClearEnd
    <2>7. ASSUME NEW c \in Cpu, DrainLooks(c) PROVE Rest'
        BY <2>7, LooksKeeps DEF DrainLooks
    <2> QED
        BY <1>3, <2>1, <2>2, <2>3, <2>4, <2>5, <2>6, <2>7 DEF Clear
<1>4. ASSUME NEW n \in Node, WindowEnds(n) \/ GrowsOld(n) PROVE Rest'
    BY <1>4, Quiet DEF WindowEnds, GrowsOld
<1>5. ASSUME UNCHANGED vars PROVE Rest'
    BY <1>5, Quiet DEF vars
<1> QED
    BY <1>1, <1>2, <1>3, <1>4, <1>5, CallbackKeeps, FreeKeeps DEF Next

(* The variables of the rate table have their types (fw_rate.c).           *)
THEOREM TypeCorrect == Spec => []TypeOK
<1>1. IInv => TypeOK
    BY DEF IInv
<1> QED
    BY <1>1, InitHolds, Step, PTL DEF Spec

(* No source ever has two entries: the look-up that fw_rate_observe repeats *)
(* under the bucket lock is enough, although the entry is linked before its *)
(* slots are published.                                                    *)
THEOREM EntryUnique == Spec => []OneEntry
<1>1. IInv => OneEntry
    BY DEF IInv
<1> QED
    BY <1>1, InitHolds, Step, PTL DEF Spec

(* An entry that a packet can find never loses the slot it was given on    *)
(* CPU 0, whatever a reclamation or a clearing that began earlier still    *)
(* clears: the memory of an entry is given back only after every CPU has   *)
(* run its callback (fw_rate_publish_slots, fw_rate_reclaim_flush).        *)
THEOREM SlotKept == Spec => []SlotOwned
<1>1. IInv => SlotOwned
    BY DEF IInv
<1> QED
    BY <1>1, InitHolds, Step, PTL DEF Spec

-----------------------------------------------------------------------------
(* What a slot holds is an entry that has not been given back, in the slot *)
(* it was given; once a callback has looked at a slot of an entry that     *)
(* leaves the table, the entry is not in it, or about to be cleared.       *)
SlotsOK ==
    /\ \A c \in Cpu, i \in Slot : slot[c][i] # None =>
        /\ idx[slot[c][i]] = i
        /\ slot[c][i] \in linked \cup batch \cup pre \cup {dn}
    /\ \A c \in Cpu, n \in Node : <<c, n>> \in rdone =>
        n \in batch /\ (slot[c][idx[n]] = n => ipi[c] = n)
    /\ \A c \in Cpu, n \in Node : <<c, n>> \in ddone =>
        n = dn /\ (slot[c][idx[n]] = n => ipi[c] = n)

(* What a packet has in its hands is an entry: its own, while it creates   *)
(* it, or one whose grace period waits for it.                             *)
HandsOK ==
    /\ waits \in [Node -> SUBSET Cpu]
    /\ \A c \in Cpu : cur[c] # None =>
        /\ pc[c] # "idle" /\ addr[cur[c]] # None
        /\ cur[c] \in doomed => c \in waits[cur[c]]
        /\ \A d \in Cpu : pc[d] = "probe" /\ cur[d] = cur[c] => d = c
MemoryOK == SlotsOK /\ HandsOK

LEMMA MemoryInit == Init => MemoryOK
BY RateAssumption DEF Init, MemoryOK, SlotsOK, HandsOK

(* Steps that touch no slot and no list.                                   *)
LEMMA SlotsQuiet ==
    ASSUME SlotsOK, UNCHANGED <<idx, linked, slot, ipi, batch, pre, dn, rdone, ddone>>
    PROVE  SlotsOK'
BY DEF SlotsOK

LEMMA LinkKeepsSlots ==
    ASSUME IInv, SlotsOK, NEW c \in Cpu, CreateLink(c)
    PROVE  SlotsOK'
<1>1. /\ cur[c] \in Node
      /\ cur[c] \notin linked \cup batch \cup pre \cup doomed /\ cur[c] # dn
    BY RateAssumption DEF IInv, CreateLink, CreateOK, Working, EntriesOf
<1>2. PICK i : Link(c, i)
    BY DEF CreateLink
<1>3. \A n \in Node : n # cur[c] => idx'[n] = idx[n]
    BY <1>2 DEF Link, IInv, TypeOK
<1>4. /\ linked' = linked \cup {cur[c]}
      /\ UNCHANGED <<slot, ipi, batch, pre, dn, rdone, ddone>>
    BY <1>2 DEF Link, reclaimVars, clearVars
<1>5. \A d \in Cpu, j \in Slot : slot[d][j] # None => slot[d][j] \in Node
    BY DEF IInv, TypeOK
<1> QED
    BY <1>1, <1>3, <1>4, <1>5 DEF SlotsOK

LEMMA PublishKeepsSlots ==
    ASSUME IInv, SlotsOK, NEW c \in Cpu, Publish(c)
    PROVE  SlotsOK'
<1>1. cur[c] \in Node /\ cur[c] \in linked
    BY DEF IInv, Publish, CreateOK, Working
<1>2. cur[c] \notin batch /\ cur[c] # dn
    BY <1>1 DEF IInv, PartsOK
<1>3. /\ slot' = [slot EXCEPT ![pub][idx[cur[c]]] = cur[c]]
      /\ UNCHANGED <<idx, linked, ipi, batch, pre, dn, rdone, ddone>>
    BY DEF Publish, nodeVars, reclaimVars, clearVars
<1>4. /\ slot \in [Cpu -> [Slot -> Node \cup {None}]] /\ pub \in Cpu /\ idx \in [Node -> Slot]
    BY DEF IInv, TypeOK
<1>5. \A d \in Cpu, i \in Slot :
         slot'[d][i] = slot[d][i] \/ (i = idx[cur[c]] /\ slot'[d][i] = cur[c])
    BY <1>1, <1>3, <1>4
<1>6. \A d \in Cpu, n \in Node : n # cur[c] /\ slot'[d][idx[n]] = n => slot[d][idx[n]] = n
    BY <1>4, <1>5
<1> QED
    BY <1>1, <1>2, <1>3, <1>5, <1>6 DEF SlotsOK

LEMMA ClearKeepsSlots ==
    ASSUME IInv, SlotsOK, NEW c \in Cpu, CallbackClears(c)
    PROVE  SlotsOK'
<1> DEFINE m == ipi[c]
<1>1. m \in Node /\ m # None
    BY DEF IInv, TypeOK, CallbackClears
<1>2. /\ slot' = [slot EXCEPT ![c][idx[m]] = None] /\ ipi' = [ipi EXCEPT ![c] = None]
      /\ UNCHANGED <<idx, linked, batch, pre, dn, rdone, ddone>>
    BY DEF CallbackClears, nodeVars, reclaimVars, clearVars
<1>3. /\ slot \in [Cpu -> [Slot -> Node \cup {None}]] /\ idx \in [Node -> Slot]
      /\ ipi \in [Cpu -> Node \cup {None}] /\ None \notin Node
    BY RateAssumption DEF IInv, TypeOK
<1>4. \A d \in Cpu, i \in Slot : slot'[d][i] = slot[d][i] \/ slot'[d][i] = None
    BY <1>1, <1>2, <1>3
<1>5. slot'[c][idx[m]] = None
    BY <1>1, <1>2, <1>3
<1>6. \A d \in Cpu : d # c => ipi'[d] = ipi[d]
    BY <1>2, <1>3
<1> HIDE DEF m
<1>7. \A d \in Cpu, n \in Node :
        (slot[d][idx[n]] = n => ipi[d] = n) => (slot'[d][idx[n]] = n => ipi'[d] = n)
    <2> SUFFICES ASSUME NEW d \in Cpu, NEW n \in Node, slot[d][idx[n]] = n => ipi[d] = n,
                        slot'[d][idx[n]] = n
                 PROVE  ipi'[d] = n
        OBVIOUS
    <2>1. slot[d][idx[n]] = n /\ ipi[d] = n
        BY <1>3, <1>4
    <2>2. d # c
        BY <1>3, <1>5, <2>1 DEF m
    <2> QED
        BY <1>6, <2>1, <2>2
<1> QED
    BY <1>2, <1>3, <1>4, <1>7 DEF SlotsOK

(* Entries leave the buckets.                                              *)
LEMMA UnlinkKeepsSlots ==
    ASSUME IInv, SlotsOK, NEW S \in SUBSET linked, linked' = linked \ S,
           \/ batch' = batch \cup S /\ pre' = pre
           \/ batch' = batch /\ pre' = pre \cup S,
           UNCHANGED <<idx, slot, ipi, dn, rdone, ddone>>
    PROVE  SlotsOK'
BY DEF SlotsOK

LEMMA LooksKeepsSlots ==
    ASSUME IInv, SlotsOK, NEW c \in Cpu, NEW n \in Node, Looks(c, n),
           \/ n \in batch /\ rdone' = rdone \cup {<<c, n>>} /\ ddone' = ddone
           \/ n = dn /\ ddone' = ddone \cup {<<c, n>>} /\ rdone' = rdone,
           UNCHANGED <<idx, linked, slot, batch, pre, dn>>
    PROVE  SlotsOK'
<1>1. /\ ipi[c] = None
      /\ ipi' = [ipi EXCEPT ![c] = IF slot[c][idx[n]] = n THEN n ELSE None]
    BY DEF Looks
<1>2. ipi \in [Cpu -> Node \cup {None}] /\ None \notin Node
    BY RateAssumption DEF IInv, TypeOK
<1>3. \A d \in Cpu, m \in Node :
        (slot[d][idx[m]] = m => ipi[d] = m) => (slot[d][idx[m]] = m => ipi'[d] = m)
    BY <1>1, <1>2
<1>4. slot[c][idx[n]] = n => ipi'[c] = n
    BY <1>1, <1>2
<1> QED
    BY <1>3, <1>4 DEF SlotsOK

(* When every CPU has run the callback for the entries of S, they are in   *)
(* no slot.                                                                *)
LEMMA CalledAll ==
    ASSUME IInv, SlotsOK, NEW S \in SUBSET Node,
           \/ S \subseteq batch /\ Called(S, rdone)
           \/ Called(S, ddone)
    PROVE  \A c \in Cpu, i \in Slot : slot[c][i] # None => slot[c][i] \notin S
<1> SUFFICES ASSUME NEW c \in Cpu, NEW i \in Slot, slot[c][i] # None, slot[c][i] \in S
             PROVE  FALSE
    OBVIOUS
<1> DEFINE n == slot[c][i]
<1>1. idx[n] = i /\ n \in Node
    BY DEF SlotsOK
<1>2. ipi[c] # n /\ (<<c, n>> \in rdone \/ <<c, n>> \in ddone)
    BY DEF Called
<1> QED
    BY <1>1, <1>2 DEF SlotsOK

(* ... and may be given to RCU.                                            *)
LEMMA DoomKeepsSlots ==
    ASSUME IInv, SlotsOK, ReclaimFlush \/ DrainDoom
    PROVE  SlotsOK'
<1> USE DEF nodeVars, lockVars, hotVars, reclaimVars, clearVars, rcuVars
<1>1. dn \in Node \cup {None} /\ batch \in SUBSET Node
    BY DEF IInv, TypeOK
<1>2. CASE ReclaimFlush
    <2>1. \A c \in Cpu, i \in Slot : slot[c][i] # None => slot[c][i] \notin batch
        BY <1>1, <1>2, CalledAll DEF ReclaimFlush
    <2> QED
        BY <1>2, <2>1 DEF SlotsOK, ReclaimFlush
<1>3. CASE DrainDoom
    <2>1. \A c \in Cpu, i \in Slot : slot[c][i] # None => slot[c][i] \notin {dn}
        BY <1>1, <1>3, CalledAll DEF DrainDoom
    <2> QED
        BY <1>3, <2>1 DEF SlotsOK, DrainDoom
<1> QED
    BY <1>2, <1>3

LEMMA PickKeepsSlots ==
    ASSUME IInv, SlotsOK, DrainPick
    PROVE  SlotsOK'
<1>1. ASSUME NEW c \in Cpu, NEW n \in Node PROVE <<c, n>> \notin ddone
    <2>1. dn = None /\ n # None
        BY RateAssumption DEF DrainPick
    <2>2. <<c, n>> \in ddone => n = dn
        BY DEF SlotsOK
    <2> QED
        BY <2>1, <2>2
<1>2. PICK n \in pre : dn' = n /\ pre' = pre \ {n}
    BY DEF DrainPick
<1>3. dn = None /\ UNCHANGED <<idx, linked, slot, ipi, batch, rdone, ddone>>
    BY DEF DrainPick, nodeVars, reclaimVars
<1> QED
    BY <1>1, <1>2, <1>3 DEF SlotsOK

LEMMA FreeKeepsSlots ==
    ASSUME IInv, SlotsOK, NEW n \in Node, Free(n)
    PROVE  SlotsOK'
<1>1. n \notin linked \cup batch \cup pre /\ n # dn
    BY DEF IInv, PartsOK, Free
<1>2. \A m \in Node : m # n => idx'[m] = idx[m]
    BY DEF Free, IInv, TypeOK
<1>3. UNCHANGED <<linked, slot, ipi, batch, pre, dn, rdone, ddone>>
    BY DEF Free, reclaimVars, clearVars
<1>4. \A d \in Cpu, j \in Slot : slot[d][j] # None => slot[d][j] \in Node
    BY DEF IInv, TypeOK
<1> QED
    BY <1>1, <1>2, <1>3, <1>4 DEF SlotsOK

LEMMA SlotsStep == IInv /\ SlotsOK /\ [Next]_vars => SlotsOK'
<1> SUFFICES ASSUME IInv, SlotsOK, [Next]_vars PROVE SlotsOK'
    OBVIOUS
<1> USE DEF nodeVars, rollVars, lockVars, hotVars, reclaimVars, clearVars, rcuVars
<1>1. ASSUME NEW c \in Cpu, Packet(c) PROVE SlotsOK'
    <2>1. ASSUME NEW a \in Addr, Observe(c, a) PROVE SlotsOK'
        BY <2>1, SlotsQuiet DEF Observe
    <2>2. ASSUME FoundAgain(c) \/ Spill(c) \/ SlotLost(c) \/ Count(c) \/ Elect(c) \/ Roll(c) \/ Judge(c)
          PROVE SlotsOK'
        BY <2>2, SlotsQuiet DEF FoundAgain, Spill, SlotLost, Count, Elect, Roll, Judge, Leave
    <2>3. ASSUME CreateAlloc(c) \/ CreateFails(c) PROVE SlotsOK'
        BY <2>3, SlotsQuiet DEF CreateAlloc, Alloc, CreateFails, Leave
    <2> QED
        BY <1>1, <2>1, <2>2, <2>3, LinkKeepsSlots, PublishKeepsSlots DEF Packet
<1>2. ASSUME Reclaim PROVE SlotsOK'
    <2>1. ASSUME ReclaimStart PROVE SlotsOK'
        BY <2>1, SlotsQuiet DEF ReclaimStart
    <2>2. ASSUME ReclaimBucket PROVE SlotsOK'
        BY <2>2, UnlinkKeepsSlots DEF ReclaimBucket
    <2>3. ASSUME NEW c \in Cpu, NEW n \in Node, ReclaimLooks(c, n) PROVE SlotsOK'
        BY <2>3, LooksKeepsSlots DEF ReclaimLooks
    <2> QED
        BY <1>2, <2>1, <2>2, <2>3, DoomKeepsSlots DEF Reclaim
<1>3. ASSUME Clear PROVE SlotsOK'
    <2>1. ASSUME ClearBegin \/ ClearSync \/ ClearEnd PROVE SlotsOK'
        BY <2>1, SlotsQuiet DEF ClearBegin, ClearSync, ClearEnd
    <2>2. ASSUME DrainBucket PROVE SlotsOK'
        <3>1. InBucket(db) \in SUBSET linked
            BY DEF InBucket
        <3> QED
            BY <2>2, <3>1, UnlinkKeepsSlots DEF DrainBucket
    <2>3. ASSUME NEW c \in Cpu, DrainLooks(c) PROVE SlotsOK'
        <3>1. dn \in Node
            BY <2>3 DEF DrainLooks, IInv, TypeOK
        <3> QED
            BY <2>3, <3>1, LooksKeepsSlots DEF DrainLooks
    <2> QED
        BY <1>3, <2>1, <2>2, <2>3, PickKeepsSlots, DoomKeepsSlots DEF Clear
<1>4. ASSUME NEW n \in Node, WindowEnds(n) \/ GrowsOld(n) PROVE SlotsOK'
    BY <1>4, SlotsQuiet DEF WindowEnds, GrowsOld
<1>5. ASSUME UNCHANGED vars PROVE SlotsOK'
    BY <1>5, SlotsQuiet DEF vars
<1> QED
    BY <1>1, <1>2, <1>3, <1>4, <1>5, ClearKeepsSlots, FreeKeepsSlots DEF Next

-----------------------------------------------------------------------------
(* Steps in which a packet keeps its entry, lets go of it, or takes one    *)
(* from the table.                                                         *)
LEMMA HandsQuiet ==
    ASSUME IInv, HandsOK, NEW c \in Cpu, UNCHANGED <<addr, doomed>>,
           \A d \in Cpu : d # c => pc'[d] = pc[d] /\ cur'[d] = cur[d],
           pc'[c] # "probe",
           \/ waits' = waits /\ pc'[c] # "idle" /\ (cur'[c] = cur[c] \/ cur'[c] \in linked)
           \/ waits' = [n \in Node |-> waits[n] \ {c}] /\ cur'[c] = None
    PROVE  HandsOK'
<1>1. \A n \in linked : /\ addr[n] # None /\ n \notin doomed
                        /\ \A d \in Cpu : pc[d] = "probe" => cur[d] # n
    BY DEF IInv, PartsOK, CreateOK, EntriesOf, Working
<1>2. cur \in [Cpu -> Node \cup {None}]
    BY DEF IInv, TypeOK
<1>3. waits' \in [Node -> SUBSET Cpu]
    BY DEF HandsOK
<1>4. \A d \in Cpu, n \in Node : d # c /\ d \in waits[n] => d \in waits'[n]
    BY DEF HandsOK
<1>5. \A d \in Cpu : cur'[d] # None =>
        /\ pc'[d] # "idle" /\ addr[cur'[d]] # None
        /\ cur'[d] \in doomed => d \in waits'[cur'[d]]
    BY <1>1, <1>2, <1>4 DEF HandsOK
<1>6. \A d, e \in Cpu : cur'[d] # None /\ pc'[e] = "probe" /\ cur'[e] = cur'[d] => e = d
    BY <1>1 DEF HandsOK
<1> QED
    BY <1>3, <1>5, <1>6 DEF HandsOK

LEMMA AllocKeepsHands ==
    ASSUME IInv, HandsOK, NEW c \in Cpu, CreateAlloc(c)
    PROVE  HandsOK'
<1>1. PICK n \in FreeNodes : addr' = [addr EXCEPT ![n] = src[c]] /\ cur' = [cur EXCEPT ![c] = n]
    BY DEF CreateAlloc, Alloc
<1>2. n \in Node /\ addr[n] = None /\ src[c] \in Addr /\ src[c] # None
    BY RateAssumption DEF FreeNodes, CreateAlloc, IInv, CreateOK
<1>3. n \notin doomed
    BY <1>2 DEF IInv, PartsOK
<1>4. \A d \in Cpu : cur[d] # n
    BY <1>2, RateAssumption DEF HandsOK
<1>5. pc' = [pc EXCEPT ![c] = "probe"] /\ UNCHANGED <<doomed, waits>>
    BY DEF CreateAlloc, Alloc, rcuVars
<1>6. addr \in [Node -> Addr \cup {None}] /\ cur \in [Cpu -> Node \cup {None}]
      /\ pc \in [Cpu -> {"idle", "miss", "probe", "publish", "slot", "elect", "roll", "judge"}]
    BY DEF IInv, TypeOK
<1> SUFFICES ASSUME NEW d \in Cpu, cur'[d] # None
             PROVE  /\ pc'[d] # "idle" /\ addr'[cur'[d]] # None
                    /\ cur'[d] \in doomed' => d \in waits'[cur'[d]]
                    /\ \A e \in Cpu : pc'[e] = "probe" /\ cur'[e] = cur'[d] => e = d
    BY <1>5 DEF HandsOK
<1>7. CASE d = c
    BY <1>1, <1>2, <1>3, <1>4, <1>5, <1>6, <1>7
<1>8. CASE d # c
    <2>1. cur'[d] = cur[d] /\ pc'[d] = pc[d] /\ cur[d] # n
        BY <1>1, <1>4, <1>5, <1>6, <1>8
    <2> QED
        BY <1>1, <1>2, <1>5, <1>6, <1>8, <2>1 DEF HandsOK
<1> QED
    BY <1>7, <1>8

LEMMA FailsKeepsHands ==
    ASSUME IInv, HandsOK, NEW c \in Cpu, CreateFails(c)
    PROVE  HandsOK'
<1>1. /\ pc[c] = "probe" /\ cur[c] \in Node
      /\ addr' = [addr EXCEPT ![cur[c]] = None]
      /\ pc' = [pc EXCEPT ![c] = "idle"] /\ cur' = [cur EXCEPT ![c] = None]
      /\ waits' = [n \in Node |-> waits[n] \ {c}]
      /\ doomed' = doomed
    BY DEF CreateFails, Leave, IInv, CreateOK, Working
<1>2. addr \in [Node -> Addr \cup {None}] /\ cur \in [Cpu -> Node \cup {None}]
      /\ pc \in [Cpu -> {"idle", "miss", "probe", "publish", "slot", "elect", "roll", "judge"}]
    BY DEF IInv, TypeOK
<1>3. \A d \in Cpu : cur'[d] # None => d # c /\ cur'[d] = cur[d] /\ pc'[d] = pc[d]
    BY <1>1, <1>2
<1>4. \A d \in Cpu : cur[d] # None /\ d # c => cur[d] # cur[c]
    BY <1>1 DEF HandsOK
<1>5. waits' \in [Node -> SUBSET Cpu]
    BY <1>1 DEF HandsOK
<1>6. \A d \in Cpu : cur'[d] # None =>
        /\ pc'[d] # "idle" /\ addr'[cur'[d]] # None
        /\ cur'[d] \in doomed => d \in waits'[cur'[d]]
    BY <1>1, <1>2, <1>3, <1>4 DEF HandsOK
<1>7. \A d, e \in Cpu : cur'[d] # None /\ pc'[e] = "probe" /\ cur'[e] = cur'[d] => e = d
    BY <1>1, <1>2, <1>3 DEF HandsOK
<1> QED
    BY <1>1, <1>5, <1>6, <1>7 DEF HandsOK

(* Only entries that no packet has in its hands any more are given back.   *)
LEMMA FreeKeepsHands ==
    ASSUME IInv, HandsOK, NEW n \in Node, Free(n)
    PROVE  HandsOK'
<1>1. \A d \in Cpu : cur[d] # n
    BY RateAssumption DEF Free, HandsOK
<1>2. \A m \in Node : m # n => addr'[m] = addr[m]
    BY DEF Free, IInv, TypeOK
<1>3. doomed' = doomed \ {n} /\ UNCHANGED <<pc, cur, waits>>
    BY DEF Free, hotVars
<1>4. cur \in [Cpu -> Node \cup {None}]
    BY DEF IInv, TypeOK
<1> QED
    BY <1>1, <1>2, <1>3, <1>4 DEF HandsOK

(* call_rcu waits for every packet that may have found the entry.          *)
LEMMA DoomKeepsHands ==
    ASSUME IInv, HandsOK, NEW S \in SUBSET Node, Doom(S), UNCHANGED <<addr, pc, cur>>
    PROVE  HandsOK'
<1>1. waits' \in [Node -> SUBSET Cpu]
    BY DEF Doom, HandsOK, Readers
<1>2. \A d \in Cpu : cur[d] # None /\ cur[d] \in doomed' => d \in waits'[cur[d]]
    <2> SUFFICES ASSUME NEW d \in Cpu, cur[d] # None, cur[d] \in doomed'
                 PROVE  d \in waits'[cur[d]]
        OBVIOUS
    <2>1. cur[d] \in Node /\ d \in Readers
        BY DEF IInv, TypeOK, HandsOK, Readers
    <2> QED
        BY <2>1 DEF Doom, HandsOK
<1> QED
    BY <1>1, <1>2 DEF HandsOK

LEMMA HandsStep == IInv /\ HandsOK /\ [Next]_vars => HandsOK'
<1> SUFFICES ASSUME IInv, HandsOK, [Next]_vars PROVE HandsOK'
    OBVIOUS
<1> USE DEF nodeVars, rollVars, lockVars, hotVars, reclaimVars, clearVars, rcuVars
<1>t. /\ pc \in [Cpu -> {"idle", "miss", "probe", "publish", "slot", "elect", "roll", "judge"}]
      /\ cur \in [Cpu -> Node \cup {None}] /\ batch \in SUBSET Node /\ dn \in Node \cup {None}
    BY DEF IInv, TypeOK
<1>0. ASSUME UNCHANGED <<addr, pc, cur, doomed, waits>> PROVE HandsOK'
    BY <1>0 DEF HandsOK
<1>1. ASSUME NEW c \in Cpu, Packet(c) PROVE HandsOK'
    <2>1. ASSUME NEW a \in Addr, Observe(c, a) PROVE HandsOK'
        <3>1. CASE EntriesOf(a) = {}
            BY <1>t, <2>1, <3>1, HandsQuiet DEF Observe
        <3>2. ASSUME NEW n \in EntriesOf(a), cur' = [cur EXCEPT ![c] = n],
                     pc' = [pc EXCEPT ![c] = "slot"]
              PROVE HandsOK'
            BY <1>t, <2>1, <3>2, HandsQuiet DEF Observe, EntriesOf
        <3> QED
            BY <2>1, <3>1, <3>2 DEF Observe
    <2>2. ASSUME FoundAgain(c) PROVE HandsOK'
        BY <1>t, <2>2, HandsQuiet DEF FoundAgain, EntriesOf
    <2>3. ASSUME Spill(c) \/ SlotLost(c) \/ Judge(c) PROVE HandsOK'
        BY <1>t, <2>3, HandsQuiet DEF Spill, SlotLost, Judge, Leave
    <2>4. ASSUME Count(c) \/ Elect(c) \/ Roll(c) PROVE HandsOK'
        BY <1>t, <2>4, HandsQuiet DEF Count, Elect, Roll
    <2>5. ASSUME CreateLink(c) PROVE HandsOK'
        <3>1. PICK i : Link(c, i)
            BY <2>5 DEF CreateLink
        <3> QED
            BY <1>t, <3>1, HandsQuiet DEF Link
    <2>6. ASSUME Publish(c) PROVE HandsOK'
        BY <1>t, <2>6, HandsQuiet DEF Publish
    <2> QED
        BY <1>1, <2>1, <2>2, <2>3, <2>4, <2>5, <2>6, AllocKeepsHands, FailsKeepsHands DEF Packet
<1>2. ASSUME Reclaim PROVE HandsOK'
    <2>1. ASSUME ReclaimStart \/ ReclaimBucket PROVE HandsOK'
        BY <1>0, <2>1 DEF ReclaimStart, ReclaimBucket
    <2>2. ASSUME NEW c \in Cpu, NEW n \in Node, ReclaimLooks(c, n) PROVE HandsOK'
        BY <1>0, <2>2 DEF ReclaimLooks
    <2>3. ASSUME ReclaimFlush PROVE HandsOK'
        BY <1>t, <2>3, DoomKeepsHands DEF ReclaimFlush
    <2> QED
        BY <1>2, <2>1, <2>2, <2>3 DEF Reclaim
<1>3. ASSUME Clear PROVE HandsOK'
    <2>1. ASSUME ClearBegin \/ DrainBucket \/ DrainPick \/ ClearSync \/ ClearEnd PROVE HandsOK'
        BY <1>0, <2>1 DEF ClearBegin, DrainBucket, DrainPick, ClearSync, ClearEnd
    <2>2. ASSUME NEW c \in Cpu, DrainLooks(c) PROVE HandsOK'
        BY <1>0, <2>2 DEF DrainLooks
    <2>3. ASSUME DrainDoom PROVE HandsOK'
        BY <1>t, <2>3, DoomKeepsHands DEF DrainDoom
    <2> QED
        BY <1>3, <2>1, <2>2, <2>3 DEF Clear
<1>4. ASSUME NEW c \in Cpu, CallbackClears(c) PROVE HandsOK'
    BY <1>0, <1>4 DEF CallbackClears
<1>5. ASSUME NEW n \in Node, WindowEnds(n) \/ GrowsOld(n) PROVE HandsOK'
    BY <1>0, <1>5 DEF WindowEnds, GrowsOld
<1>6. ASSUME UNCHANGED vars PROVE HandsOK'
    BY <1>0, <1>6 DEF vars
<1> QED
    BY <1>1, <1>2, <1>3, <1>4, <1>5, <1>6, FreeKeepsHands DEF Next

(* No slot of any CPU and no packet holds memory that was given back: the  *)
(* callbacks on every CPU and the grace period together are enough         *)
(* (fw_rate_reclaim_flush, fw_rate_drain_tables).                          *)
THEOREM MemoryAlive == Spec => []NoDangling
<1>1. Init => IInv /\ MemoryOK
    BY InitHolds, MemoryInit
<1>2. IInv /\ MemoryOK /\ [Next]_vars => (IInv /\ MemoryOK)'
    BY Step, SlotsStep, HandsStep DEF MemoryOK
<1>3. IInv /\ MemoryOK => NoDangling
    BY DEF IInv, PartsOK, MemoryOK, SlotsOK, HandsOK, NoDangling
<1> QED
    BY <1>1, <1>2, <1>3, PTL DEF Spec

-----------------------------------------------------------------------------
(* What rate_count says.                                                   *)
LEMMA Finite ==
    ASSUME IInv, NEW S, S \subseteq Node
    PROVE  IsFiniteSet(S) /\ Cardinality(S) \in Nat
BY RateAssumption, FS_Subset, FS_CardinalityType

(* A step that moves entries from the buckets into the batch.              *)
LEMMA MovedKeepsSum ==
    ASSUME IInv, NEW S \in SUBSET linked
    PROVE  Cardinality(linked \ S) + Cardinality(batch \cup S)
             = Cardinality(linked) + Cardinality(batch)
<1>1. linked \subseteq Node /\ batch \subseteq Node /\ S \subseteq Node
    BY DEF IInv, TypeOK
<1>2. linked \cap S = S /\ batch \cap S = {}
    BY DEF IInv, PartsOK
<1>3. IsFiniteSet(linked) /\ IsFiniteSet(batch) /\ IsFiniteSet(S)
    BY <1>1, Finite
<1>4. Cardinality(linked \ S) = Cardinality(linked) - Cardinality(S)
    BY <1>2, <1>3, FS_Difference
<1>5. Cardinality(batch \cup S) = Cardinality(batch) + Cardinality(S)
    <2>1. Cardinality(batch \cup S) = Cardinality(batch) + Cardinality(S) - Cardinality(batch \cap S)
        BY <1>3, FS_Union
    <2>2. Cardinality(batch \cap S) = 0
        BY <1>2, FS_EmptySet
    <2> QED
        BY <1>3, <2>1, <2>2, FS_CardinalityType
<1> QED
    BY <1>3, <1>4, <1>5, FS_CardinalityType

LEMMA CountStep == IInv /\ CountNeverAbove /\ [Next]_vars => CountNeverAbove'
<1> SUFFICES ASSUME IInv, CountNeverAbove, [Next]_vars PROVE CountNeverAbove'
    OBVIOUS
<1> USE DEF nodeVars, rollVars, lockVars, hotVars, reclaimVars, clearVars, rcuVars
<1>0. ASSUME UNCHANGED <<linked, count, batch, dstate>> PROVE CountNeverAbove'
    BY <1>0 DEF CountNeverAbove
<1>1. ASSUME dstate' # "idle" PROVE CountNeverAbove'
    BY <1>1 DEF CountNeverAbove
<1>t. /\ linked \subseteq Node /\ batch \subseteq Node /\ count \in Int
      /\ IsFiniteSet(linked) /\ IsFiniteSet(batch)
      /\ Cardinality(linked) \in Nat /\ Cardinality(batch) \in Nat
    BY Finite DEF IInv, TypeOK
<1>2. ASSUME NEW c \in Cpu, CreateLink(c) PROVE CountNeverAbove'
    <2>1. linked' = linked \cup {cur[c]} /\ count' = count + 1 /\ UNCHANGED <<batch, dstate>>
        BY <1>2 DEF CreateLink, Link
    <2>2. cur[c] \notin linked
        BY <1>2 DEF CreateLink, IInv, CreateOK, EntriesOf, Working
    <2>3. Cardinality(linked') = Cardinality(linked) + 1
        BY <1>t, <2>1, <2>2, FS_AddElement
    <2> QED
        BY <1>t, <2>1, <2>3 DEF CountNeverAbove
<1>3. ASSUME ReclaimBucket PROVE CountNeverAbove'
    <2>1. PICK S \in SUBSET linked : linked' = linked \ S /\ batch' = batch \cup S
        BY <1>3 DEF ReclaimBucket
    <2>2. UNCHANGED <<count, dstate>>
        BY <1>3 DEF ReclaimBucket
    <2> QED
        BY <2>1, <2>2, MovedKeepsSum DEF CountNeverAbove
<1>4. ASSUME ReclaimFlush PROVE CountNeverAbove'
    <2>1. /\ count' = count - Cardinality(batch) /\ batch' = {}
          /\ UNCHANGED <<linked, dstate>>
        BY <1>4 DEF ReclaimFlush
    <2>2. Cardinality(batch') = 0
        BY <2>1, FS_EmptySet
    <2> QED
        BY <1>t, <2>1, <2>2 DEF CountNeverAbove
<1>5. ASSUME ClearEnd PROVE CountNeverAbove'
    BY <1>t, <1>5 DEF ClearEnd, CountNeverAbove
<1>6. ASSUME ClearBegin \/ DrainBucket \/ DrainPick \/ ClearSync PROVE CountNeverAbove'
    BY <1>1, <1>6 DEF ClearBegin, DrainBucket, DrainPick, ClearSync
<1>7. ASSUME NEW c \in Cpu, Packet(c), ~CreateLink(c) PROVE CountNeverAbove'
    BY <1>0, <1>7 DEF Packet, Observe, FoundAgain, Spill, CreateAlloc, Alloc, CreateFails, Publish,
       SlotLost, Count, Elect, Roll, Judge, Leave
<1>8. ASSUME NEW c \in Cpu, CallbackClears(c) \/ DrainLooks(c) \/ DrainDoom \/ ReclaimStart
      PROVE CountNeverAbove'
    BY <1>0, <1>8 DEF CallbackClears, DrainLooks, DrainDoom, ReclaimStart
<1>9. ASSUME NEW c \in Cpu, NEW n \in Node, ReclaimLooks(c, n) PROVE CountNeverAbove'
    BY <1>0, <1>9 DEF ReclaimLooks
<1>10. ASSUME NEW n \in Node, WindowEnds(n) \/ GrowsOld(n) \/ Free(n) PROVE CountNeverAbove'
    BY <1>0, <1>10 DEF WindowEnds, GrowsOld, Free
<1>11. ASSUME UNCHANGED vars PROVE CountNeverAbove'
    BY <1>0, <1>11 DEF vars
<1>12. 0 \in Cpu
    BY RateAssumption DEF Cpu
<1> QED
    BY <1>2, <1>3, <1>4, <1>5, <1>6, <1>7, <1>8, <1>9, <1>10, <1>11, <1>12
       DEF Next, Reclaim, Clear

(* The counter that keeps new sources out when the table is full never     *)
(* counts an entry that is not there, although creations, reclamations and *)
(* clearings change it under different locks (fw_rate_create,              *)
(* fw_rate_reclaim_flush, fw_rate_clear_all).                              *)
THEOREM CountSound == Spec => []CountNeverAbove
<1>1. Init => CountNeverAbove
    BY FS_EmptySet DEF Init, CountNeverAbove
<1> QED
    BY <1>1, InitHolds, Step, CountStep, PTL DEF Spec
=============================================================================
