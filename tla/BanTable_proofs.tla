-------------------------- MODULE BanTable_proofs --------------------------
(***************************************************************************)
(* Proofs about BanTable, for every number of threads, slots, keys and     *)
(* layers.                                                                 *)
(***************************************************************************)
EXTENDS BanTable, FiniteSetTheorems, TLAPS

(* A thread inside an insert or a delete works on a node of its own.       *)
WorkOK ==
    \A t \in Thread :
        /\ pc[t] \in {"link", "mark", "arm", "notify", "release"} =>
              mine[t] \in Node /\ req[t] \in Key
        /\ pc[t] = "link" => /\ mem[mine[t]] = "private" /\ key[mine[t]] = req[t]
                              /\ temp[t] = ~perm[mine[t]]
        /\ pc[t] = "release" => mem[mine[t]] = "unlinked" /\ cb[mine[t]] # "release"

(* A slot in use has a key; a callback that is about to count its node out *)
(* has unlinked it.                                                        *)
NodeOK ==
    \A n \in Node :
        /\ mem[n] # "free" => key[n] \in Key
        /\ cb[n] = "release" => mem[n] = "unlinked"

(* No two threads link, or count out, the same node.                       *)
OwnerOK ==
    \A t, u \in Thread :
        (/\ pc[t] \in {"link", "release"} /\ pc[u] \in {"link", "release"}
         /\ mine[t] = mine[u]) => t = u

Ownership == WorkOK /\ NodeOK /\ OwnerOK

(* The bucket locks, and what the duplicate check found under them.        *)
LockOK ==
    /\ \A t, u \in Thread :
        (/\ pc[t] = "link" /\ pc[u] = "link"
         /\ BucketOf[req[t]] = BucketOf[req[u]]) => t = u
    /\ \A t \in Thread : pc[t] = "link" => Entries(req[t]) = {}

AtLink == {t \in Thread : pc[t] = "link"}

(* Every thread that passed the capacity check counts as if its node were  *)
(* linked already.                                                         *)
RoomOK == banCount + Cardinality(AtLink) <= MaxBan + Slack

CountOK == BanCountExact /\ RoomOK

IInv ==
    /\ TypeOK /\ Ownership /\ LockOK /\ UniqueKey
    /\ CountOK
    /\ BitmapMatchesCount /\ TemporaryWillEnd

-----------------------------------------------------------------------------
(* The sets that the counters count are finite.                            *)
LEMMA MatchingFinite ==
    ASSUME NEW t \in Thread
    PROVE  /\ IsFiniteSet(Linked) /\ IsFiniteSet(Matching(t))
           /\ Matching(t) \subseteq Linked
           /\ Cardinality(Matching(t)) \in Nat
    BY NodeAssumption, FS_Subset, FS_CardinalityType DEF Linked, Matching

(* A scan stays within the buckets.                                        *)
LEMMA ScanOnType ==
    ASSUME TypeOK, NEW t \in Thread, ScanOn(t)
    PROVE  /\ pc' \in [Thread -> ThreadPc]
           /\ at' \in [Thread -> Bucket]
           /\ cover' \in [Thread -> Cover \cup {{}}]
<1>1. pc' \in [Thread -> ThreadPc]
    BY DEF TypeOK, ScanOn, Goto, ThreadPc
<1>2. at' \in [Thread -> Bucket]
    BY LayoutAssumption DEF TypeOK, ScanOn, Bucket
<1>3. cover' \in [Thread -> Cover \cup {{}}]
    BY DEF TypeOK, ScanOn
<1> QED
    BY <1>1, <1>2, <1>3

(* Every step keeps the types.                                             *)
LEMMA TypeStep == IInv /\ [Next]_vars => TypeOK'
<1> SUFFICES ASSUME IInv, [Next]_vars PROVE TypeOK'
    OBVIOUS
<1> USE LayoutAssumption, KeyAssumption DEF IInv, TypeOK, Ownership, WorkOK, NodeOK, Mem, CbPc, ThreadPc, nodeVars, threadVars, tableVars, Fault, Goto, Return
<1>1. ASSUME NEW t \in Thread, NEW k \in Key, InsertRefused(t, k) PROVE TypeOK'
    BY <1>1 DEF InsertRefused, vars
<1>2. ASSUME NEW t \in Thread, NEW k \in Key, NEW p \in BOOLEAN, InsertRenew(t, k, p)
      PROVE TypeOK'
    BY <1>2 DEF InsertRenew, Entries, Linked
<1>3. ASSUME NEW t \in Thread, NEW k \in Key, NEW p \in BOOLEAN, InsertCheck(t, k, p)
      PROVE TypeOK'
    BY <1>3 DEF InsertCheck, Admit
<1>4. ASSUME NEW t \in Thread, InsertLink(t) PROVE TypeOK'
    BY <1>4 DEF InsertLink
<1>5. ASSUME NEW t \in Thread, InsertMark(t) PROVE TypeOK'
    BY <1>5 DEF InsertMark, LayerMark, KeyLayer, Bucket
<1>6. ASSUME NEW t \in Thread, InsertArm(t) PROVE TypeOK'
    BY <1>6 DEF InsertArm
<1>7. ASSUME NEW t \in Thread, InsertNotify(t) PROVE TypeOK'
    BY <1>7 DEF InsertNotify
<1>8. ASSUME NEW t \in Thread, InsertUsesFreed(t) PROVE TypeOK'
    BY <1>8 DEF InsertUsesFreed
<1>9. ASSUME NEW t \in Thread, NEW k \in Key, DelUnlink(t, k) PROVE TypeOK'
    BY <1>9 DEF DelUnlink, Entries, Linked
<1>10. ASSUME NEW t \in Thread, DelRelease(t) PROVE TypeOK'
    BY <1>10 DEF DelRelease, LayerRelease, KeyLayer, Bucket
<1>11. ASSUME NEW t \in Thread, NEW C \in Cover, ScanStart(t, C) PROVE TypeOK'
    BY <1>11 DEF ScanStart
<1>12. ASSUME NEW t \in Thread, ScanSkip(t) PROVE TypeOK'
    BY <1>12, ScanOnType DEF ScanSkip
<1>13. ASSUME NEW t \in Thread, ScanUnlink(t) PROVE TypeOK'
    BY <1>13, MatchingFinite DEF ScanUnlink
<1>14. ASSUME NEW t \in Thread, ScanRelease(t) PROVE TypeOK'
    BY <1>14, ScanOnType DEF ScanRelease, LayerRelease
<1>15. ASSUME NEW n \in Node, Tick(n) PROVE TypeOK'
    BY <1>15 DEF Tick
<1>16. ASSUME NEW n \in Node, TimerFire(n) PROVE TypeOK'
    BY <1>16 DEF TimerFire
<1>17. ASSUME NEW n \in Node, ExpireRearm(n) PROVE TypeOK'
    BY <1>17 DEF ExpireRearm
<1>18. ASSUME NEW n \in Node, ExpireUnlink(n) PROVE TypeOK'
    BY <1>18 DEF ExpireUnlink
<1>19. ASSUME NEW n \in Node, ExpireUnlinkAgain(n) PROVE TypeOK'
    BY <1>19 DEF ExpireUnlinkAgain
<1>20. ASSUME NEW n \in Node, ExpireRelease(n) PROVE TypeOK'
    BY <1>20 DEF ExpireRelease, LayerRelease, KeyLayer, Bucket
<1>21. ASSUME NEW n \in Node, TimerUsesFreed(n) PROVE TypeOK'
    BY <1>21 DEF TimerUsesFreed
<1>22. ASSUME NEW n \in Node, Reclaim(n) PROVE TypeOK'
    BY <1>22 DEF Reclaim
<1>23. CASE UNCHANGED vars
    BY <1>23 DEF vars, nodeVars, threadVars, tableVars
<1> QED
    BY <1>1, <1>2, <1>3, <1>4, <1>5, <1>6, <1>7, <1>8, <1>9, <1>10, <1>11,
       <1>12, <1>13, <1>14, <1>15, <1>16, <1>17, <1>18, <1>19, <1>20, <1>21,
       <1>22, <1>23
    DEF Next, Step, Call, Expire, Time
(* Threads keep to their own nodes.                                        *)
LEMMA OwnershipStep == IInv /\ [Next]_vars => Ownership'
<1> SUFFICES ASSUME IInv, [Next]_vars PROVE Ownership'
    OBVIOUS
<1> USE LayoutAssumption, KeyAssumption, NodeAssumption DEF IInv, TypeOK, Ownership, WorkOK, NodeOK, OwnerOK,
       Mem, CbPc, ThreadPc, nodeVars, threadVars, tableVars, Fault, Goto, Return
<1>1. ASSUME NEW t \in Thread, NEW k \in Key, InsertRefused(t, k)
      PROVE Ownership'
    BY <1>1 DEF InsertRefused, vars
<1>2. ASSUME NEW t \in Thread, NEW k \in Key, NEW p \in BOOLEAN, InsertRenew(t, k, p)
      PROVE Ownership'
    BY <1>2 DEF InsertRenew, Entries, Linked
<1>3. ASSUME NEW t \in Thread, NEW k \in Key, NEW p \in BOOLEAN, InsertCheck(t, k, p)
      PROVE Ownership'
    BY <1>3 DEF InsertCheck, Admit, Allocatable
<1>4. ASSUME NEW t \in Thread, InsertLink(t) PROVE Ownership'
    BY <1>4 DEF InsertLink
<1>5. ASSUME NEW t \in Thread, InsertMark(t) PROVE Ownership'
    BY <1>5 DEF InsertMark, LayerMark
<1>6. ASSUME NEW t \in Thread, InsertArm(t) PROVE Ownership'
    BY <1>6 DEF InsertArm
<1>7. ASSUME NEW t \in Thread, InsertNotify(t) PROVE Ownership'
    BY <1>7 DEF InsertNotify
<1>8. ASSUME NEW t \in Thread, InsertUsesFreed(t) PROVE Ownership'
    BY <1>8 DEF InsertUsesFreed
<1>9. ASSUME NEW t \in Thread, NEW k \in Key, DelUnlink(t, k) PROVE Ownership'
    BY <1>9 DEF DelUnlink, Entries, Linked
<1>10. ASSUME NEW t \in Thread, DelRelease(t) PROVE Ownership'
    BY <1>10 DEF DelRelease, LayerRelease
<1>11. ASSUME NEW t \in Thread, NEW C \in Cover, ScanStart(t, C)
      PROVE Ownership'
    BY <1>11 DEF ScanStart
<1>12. ASSUME NEW t \in Thread, ScanSkip(t) PROVE Ownership'
    BY <1>12 DEF ScanSkip, ScanOn
<1>13. ASSUME NEW t \in Thread, ScanUnlink(t) PROVE Ownership'
    BY <1>13 DEF ScanUnlink, Matching, Linked
<1>14. ASSUME NEW t \in Thread, ScanRelease(t) PROVE Ownership'
    <2>1. \E w \in {"scan", "idle"} : pc' = [pc EXCEPT ![t] = w]
        BY <1>14 DEF ScanRelease, ScanOn
    <2>2. UNCHANGED <<mem, key, cb, req, mine>>
        BY <1>14 DEF ScanRelease
    <2> QED
        BY <2>1, <2>2, <1>14 DEF ScanRelease
<1>15. ASSUME NEW n \in Node, Tick(n) PROVE Ownership'
    BY <1>15 DEF Tick
<1>16. ASSUME NEW n \in Node, TimerFire(n) PROVE Ownership'
    BY <1>16 DEF TimerFire
<1>17. ASSUME NEW n \in Node, ExpireRearm(n) PROVE Ownership'
    BY <1>17 DEF ExpireRearm
<1>18. ASSUME NEW n \in Node, ExpireUnlink(n) PROVE Ownership'
    BY <1>18 DEF ExpireUnlink
<1>19. ASSUME NEW n \in Node, ExpireUnlinkAgain(n) PROVE Ownership'
    BY <1>19 DEF ExpireUnlinkAgain
<1>20. ASSUME NEW n \in Node, ExpireRelease(n) PROVE Ownership'
    BY <1>20 DEF ExpireRelease, LayerRelease
<1>21. ASSUME NEW n \in Node, TimerUsesFreed(n) PROVE Ownership'
    BY <1>21 DEF TimerUsesFreed
<1>22. ASSUME NEW n \in Node, Reclaim(n) PROVE Ownership'
    BY <1>22 DEF Reclaim
<1>23. CASE UNCHANGED vars
    BY <1>23 DEF vars, nodeVars, threadVars, tableVars
<1> QED
    BY <1>1, <1>2, <1>3, <1>4, <1>5, <1>6, <1>7, <1>8, <1>9, <1>10, <1>11,
       <1>12, <1>13, <1>14, <1>15, <1>16, <1>17, <1>18, <1>19, <1>20, <1>21,
       <1>22, <1>23
    DEF Next, Step, Call, Expire, Time

(* The bucket locks keep the duplicate check valid until the link.         *)
LEMMA LockStep == IInv /\ [Next]_vars => (LockOK /\ UniqueKey)'
<1> SUFFICES ASSUME IInv, [Next]_vars PROVE (LockOK /\ UniqueKey)'
    OBVIOUS
<1> USE LayoutAssumption, KeyAssumption, NodeAssumption DEF IInv, TypeOK, Ownership, WorkOK, NodeOK, OwnerOK,
       LockOK, UniqueKey, Linked, Entries, BucketFree,
       Mem, CbPc, ThreadPc, nodeVars, threadVars, tableVars, Fault, Goto, Return
<1>1. ASSUME NEW t \in Thread, NEW k \in Key, InsertRefused(t, k)
      PROVE (LockOK /\ UniqueKey)'
    BY <1>1 DEF InsertRefused, vars
<1>2. ASSUME NEW t \in Thread, NEW k \in Key, NEW p \in BOOLEAN, InsertRenew(t, k, p)
      PROVE (LockOK /\ UniqueKey)'
    BY <1>2 DEF InsertRenew, Entries, Linked
<1>3. ASSUME NEW t \in Thread, NEW k \in Key, NEW p \in BOOLEAN, InsertCheck(t, k, p)
      PROVE (LockOK /\ UniqueKey)'
    BY <1>3 DEF InsertCheck, Admit, Allocatable
<1>4. ASSUME NEW t \in Thread, InsertLink(t) PROVE (LockOK /\ UniqueKey)'
    BY <1>4 DEF InsertLink
<1>5. ASSUME NEW t \in Thread, InsertMark(t) PROVE (LockOK /\ UniqueKey)'
    BY <1>5 DEF InsertMark, LayerMark
<1>6. ASSUME NEW t \in Thread, InsertArm(t) PROVE (LockOK /\ UniqueKey)'
    BY <1>6 DEF InsertArm
<1>7. ASSUME NEW t \in Thread, InsertNotify(t) PROVE (LockOK /\ UniqueKey)'
    BY <1>7 DEF InsertNotify
<1>8. ASSUME NEW t \in Thread, InsertUsesFreed(t) PROVE (LockOK /\ UniqueKey)'
    BY <1>8 DEF InsertUsesFreed
<1>9. ASSUME NEW t \in Thread, NEW k \in Key, DelUnlink(t, k)
      PROVE (LockOK /\ UniqueKey)'
    BY <1>9 DEF DelUnlink, Entries, Linked
<1>10. ASSUME NEW t \in Thread, DelRelease(t) PROVE (LockOK /\ UniqueKey)'
    BY <1>10 DEF DelRelease, LayerRelease
<1>11. ASSUME NEW t \in Thread, NEW C \in Cover, ScanStart(t, C)
      PROVE (LockOK /\ UniqueKey)'
    BY <1>11 DEF ScanStart
<1>12. ASSUME NEW t \in Thread, ScanSkip(t) PROVE (LockOK /\ UniqueKey)'
    <2>1. \E w \in {"scan", "idle"} : pc' = [pc EXCEPT ![t] = w]
        BY <1>12 DEF ScanSkip, ScanOn
    <2>2. UNCHANGED <<mem, key, cb, req, mine>>
        BY <1>12 DEF ScanSkip
    <2> QED
        BY <2>1, <2>2, <1>12 DEF ScanSkip
<1>13. ASSUME NEW t \in Thread, ScanUnlink(t) PROVE (LockOK /\ UniqueKey)'
    BY <1>13 DEF ScanUnlink, Matching, Linked
<1>14. ASSUME NEW t \in Thread, ScanRelease(t) PROVE (LockOK /\ UniqueKey)'
    <2>1. \E w \in {"scan", "idle"} : pc' = [pc EXCEPT ![t] = w]
        BY <1>14 DEF ScanRelease, ScanOn
    <2>2. UNCHANGED <<mem, key, cb, req, mine>>
        BY <1>14 DEF ScanRelease
    <2> QED
        BY <2>1, <2>2, <1>14 DEF ScanRelease
<1>15. ASSUME NEW n \in Node, Tick(n) PROVE (LockOK /\ UniqueKey)'
    BY <1>15 DEF Tick
<1>16. ASSUME NEW n \in Node, TimerFire(n) PROVE (LockOK /\ UniqueKey)'
    BY <1>16 DEF TimerFire
<1>17. ASSUME NEW n \in Node, ExpireRearm(n) PROVE (LockOK /\ UniqueKey)'
    BY <1>17 DEF ExpireRearm
<1>18. ASSUME NEW n \in Node, ExpireUnlink(n) PROVE (LockOK /\ UniqueKey)'
    BY <1>18 DEF ExpireUnlink
<1>19. ASSUME NEW n \in Node, ExpireUnlinkAgain(n) PROVE (LockOK /\ UniqueKey)'
    BY <1>19 DEF ExpireUnlinkAgain
<1>20. ASSUME NEW n \in Node, ExpireRelease(n) PROVE (LockOK /\ UniqueKey)'
    BY <1>20 DEF ExpireRelease, LayerRelease
<1>21. ASSUME NEW n \in Node, TimerUsesFreed(n) PROVE (LockOK /\ UniqueKey)'
    BY <1>21 DEF TimerUsesFreed
<1>22. ASSUME NEW n \in Node, Reclaim(n) PROVE (LockOK /\ UniqueKey)'
    BY <1>22 DEF Reclaim
<1>23. CASE UNCHANGED vars
    BY <1>23 DEF vars, nodeVars, threadVars, tableVars
<1> QED
    BY <1>1, <1>2, <1>3, <1>4, <1>5, <1>6, <1>7, <1>8, <1>9, <1>10, <1>11,
       <1>12, <1>13, <1>14, <1>15, <1>16, <1>17, <1>18, <1>19, <1>20, <1>21,
       <1>22, <1>23
    DEF Next, Step, Call, Expire, Time

(* The bit follows the counter.                                            *)
LEMMA BitmapStep == IInv /\ [Next]_vars => BitmapMatchesCount'
<1> SUFFICES ASSUME IInv, [Next]_vars PROVE BitmapMatchesCount'
    OBVIOUS
<1> USE LayoutAssumption, KeyAssumption DEF IInv, TypeOK, Ownership, WorkOK, NodeOK, BitmapMatchesCount,
       nodeVars, threadVars, tableVars, Fault, Goto, Return
<1>1. ASSUME NEW t \in Thread, NEW k \in Key, InsertRefused(t, k)
      PROVE BitmapMatchesCount'
    BY <1>1 DEF InsertRefused, vars
<1>2. ASSUME NEW t \in Thread, NEW k \in Key, NEW p \in BOOLEAN, InsertRenew(t, k, p)
      PROVE BitmapMatchesCount'
    BY <1>2 DEF InsertRenew
<1>3. ASSUME NEW t \in Thread, NEW k \in Key, NEW p \in BOOLEAN, InsertCheck(t, k, p)
      PROVE BitmapMatchesCount'
    BY <1>3 DEF InsertCheck, Admit
<1>4. ASSUME NEW t \in Thread, InsertLink(t) PROVE BitmapMatchesCount'
    BY <1>4 DEF InsertLink
<1>5. ASSUME NEW t \in Thread, InsertMark(t) PROVE BitmapMatchesCount'
    BY <1>5 DEF InsertMark, LayerMark, KeyLayer
<1>6. ASSUME NEW t \in Thread, InsertArm(t) PROVE BitmapMatchesCount'
    BY <1>6 DEF InsertArm
<1>7. ASSUME NEW t \in Thread, InsertNotify(t) PROVE BitmapMatchesCount'
    BY <1>7 DEF InsertNotify
<1>8. ASSUME NEW t \in Thread, InsertUsesFreed(t) PROVE BitmapMatchesCount'
    BY <1>8 DEF InsertUsesFreed
<1>9. ASSUME NEW t \in Thread, NEW k \in Key, DelUnlink(t, k)
      PROVE BitmapMatchesCount'
    BY <1>9 DEF DelUnlink
<1>10. ASSUME NEW t \in Thread, DelRelease(t) PROVE BitmapMatchesCount'
    BY <1>10 DEF DelRelease, LayerRelease, KeyLayer
<1>11. ASSUME NEW t \in Thread, NEW C \in Cover, ScanStart(t, C)
      PROVE BitmapMatchesCount'
    BY <1>11 DEF ScanStart
<1>12. ASSUME NEW t \in Thread, ScanSkip(t) PROVE BitmapMatchesCount'
    BY <1>12 DEF ScanSkip
<1>13. ASSUME NEW t \in Thread, ScanUnlink(t) PROVE BitmapMatchesCount'
    BY <1>13 DEF ScanUnlink
<1>14. ASSUME NEW t \in Thread, ScanRelease(t) PROVE BitmapMatchesCount'
    BY <1>14 DEF ScanRelease, LayerRelease, Bucket
<1>15. ASSUME NEW n \in Node, Tick(n) PROVE BitmapMatchesCount'
    BY <1>15 DEF Tick
<1>16. ASSUME NEW n \in Node, TimerFire(n) PROVE BitmapMatchesCount'
    BY <1>16 DEF TimerFire
<1>17. ASSUME NEW n \in Node, ExpireRearm(n) PROVE BitmapMatchesCount'
    BY <1>17 DEF ExpireRearm
<1>18. ASSUME NEW n \in Node, ExpireUnlink(n) PROVE BitmapMatchesCount'
    BY <1>18 DEF ExpireUnlink
<1>19. ASSUME NEW n \in Node, ExpireUnlinkAgain(n) PROVE BitmapMatchesCount'
    BY <1>19 DEF ExpireUnlinkAgain
<1>20. ASSUME NEW n \in Node, ExpireRelease(n) PROVE BitmapMatchesCount'
    BY <1>20 DEF ExpireRelease, LayerRelease, KeyLayer
<1>21. ASSUME NEW n \in Node, TimerUsesFreed(n) PROVE BitmapMatchesCount'
    BY <1>21 DEF TimerUsesFreed
<1>22. ASSUME NEW n \in Node, Reclaim(n) PROVE BitmapMatchesCount'
    BY <1>22 DEF Reclaim
<1>23. CASE UNCHANGED vars
    BY <1>23 DEF vars, nodeVars, threadVars, tableVars
<1> QED
    BY <1>1, <1>2, <1>3, <1>4, <1>5, <1>6, <1>7, <1>8, <1>9, <1>10, <1>11,
       <1>12, <1>13, <1>14, <1>15, <1>16, <1>17, <1>18, <1>19, <1>20, <1>21,
       <1>22, <1>23
    DEF Next, Step, Call, Expire, Time

(* A temporary entry never loses its timer.                                *)
LEMMA TimerStep == IInv /\ [Next]_vars => TemporaryWillEnd'
<1> SUFFICES ASSUME IInv, [Next]_vars PROVE TemporaryWillEnd'
    OBVIOUS
<1> USE NodeAssumption DEF IInv, TypeOK, Ownership, WorkOK, NodeOK, TemporaryWillEnd, Linked,
       Mem, CbPc, ThreadPc, nodeVars, threadVars, tableVars, Fault, Goto, Return
<1>1. ASSUME NEW t \in Thread, NEW k \in Key, InsertRefused(t, k)
      PROVE TemporaryWillEnd'
    BY <1>1 DEF InsertRefused, vars
<1>2. ASSUME NEW t \in Thread, NEW k \in Key, NEW p \in BOOLEAN, InsertRenew(t, k, p)
      PROVE TemporaryWillEnd'
    BY <1>2 DEF InsertRenew, Entries, Expired
<1>3. ASSUME NEW t \in Thread, NEW k \in Key, NEW p \in BOOLEAN, InsertCheck(t, k, p)
      PROVE TemporaryWillEnd'
    BY <1>3 DEF InsertCheck, Admit, Allocatable
<1>4. ASSUME NEW t \in Thread, InsertLink(t) PROVE TemporaryWillEnd'
    BY <1>4 DEF InsertLink
<1>5. ASSUME NEW t \in Thread, InsertMark(t) PROVE TemporaryWillEnd'
    BY <1>5 DEF InsertMark
<1>6. ASSUME NEW t \in Thread, InsertArm(t) PROVE TemporaryWillEnd'
    BY <1>6 DEF InsertArm
<1>7. ASSUME NEW t \in Thread, InsertNotify(t) PROVE TemporaryWillEnd'
    BY <1>7 DEF InsertNotify
<1>8. ASSUME NEW t \in Thread, InsertUsesFreed(t) PROVE TemporaryWillEnd'
    BY <1>8 DEF InsertUsesFreed
<1>9. ASSUME NEW t \in Thread, NEW k \in Key, DelUnlink(t, k)
      PROVE TemporaryWillEnd'
    BY <1>9 DEF DelUnlink, Entries
<1>10. ASSUME NEW t \in Thread, DelRelease(t) PROVE TemporaryWillEnd'
    BY <1>10 DEF DelRelease
<1>11. ASSUME NEW t \in Thread, NEW C \in Cover, ScanStart(t, C)
      PROVE TemporaryWillEnd'
    BY <1>11 DEF ScanStart
<1>12. ASSUME NEW t \in Thread, ScanSkip(t) PROVE TemporaryWillEnd'
    <2>1. \E w \in {"scan", "idle"} : pc' = [pc EXCEPT ![t] = w]
        BY <1>12 DEF ScanSkip, ScanOn
    <2>2. UNCHANGED <<mem, perm, armed, cb, mine, temp>>
        BY <1>12 DEF ScanSkip
    <2> QED
        BY <2>1, <2>2, <1>12 DEF ScanSkip
<1>13. ASSUME NEW t \in Thread, ScanUnlink(t) PROVE TemporaryWillEnd'
    BY <1>13 DEF ScanUnlink, Matching
<1>14. ASSUME NEW t \in Thread, ScanRelease(t) PROVE TemporaryWillEnd'
    <2>1. \E w \in {"scan", "idle"} : pc' = [pc EXCEPT ![t] = w]
        BY <1>14 DEF ScanRelease, ScanOn
    <2>2. UNCHANGED <<mem, perm, armed, cb, mine, temp>>
        BY <1>14 DEF ScanRelease
    <2> QED
        BY <2>1, <2>2, <1>14 DEF ScanRelease
<1>15. ASSUME NEW n \in Node, Tick(n) PROVE TemporaryWillEnd'
    BY <1>15 DEF Tick
<1>16. ASSUME NEW n \in Node, TimerFire(n) PROVE TemporaryWillEnd'
    BY <1>16 DEF TimerFire
<1>17. ASSUME NEW n \in Node, ExpireRearm(n) PROVE TemporaryWillEnd'
    BY <1>17 DEF ExpireRearm
<1>18. ASSUME NEW n \in Node, ExpireUnlink(n) PROVE TemporaryWillEnd'
    BY <1>18 DEF ExpireUnlink
<1>19. ASSUME NEW n \in Node, ExpireUnlinkAgain(n) PROVE TemporaryWillEnd'
    BY <1>19 DEF ExpireUnlinkAgain
<1>20. ASSUME NEW n \in Node, ExpireRelease(n) PROVE TemporaryWillEnd'
    BY <1>20 DEF ExpireRelease
<1>21. ASSUME NEW n \in Node, TimerUsesFreed(n) PROVE TemporaryWillEnd'
    BY <1>21 DEF TimerUsesFreed
<1>22. ASSUME NEW n \in Node, Reclaim(n) PROVE TemporaryWillEnd'
    BY <1>22 DEF Reclaim
<1>23. CASE UNCHANGED vars
    BY <1>23 DEF vars, nodeVars, threadVars, tableVars
<1> QED
    BY <1>1, <1>2, <1>3, <1>4, <1>5, <1>6, <1>7, <1>8, <1>9, <1>10, <1>11,
       <1>12, <1>13, <1>14, <1>15, <1>16, <1>17, <1>18, <1>19, <1>20, <1>21,
       <1>22, <1>23
    DEF Next, Step, Call, Expire, Time

(* The sets that the two counters count.                                   *)
LEMMA CountSame ==
    ASSUME IInv, banCount' = banCount, Linked' = Linked, AtLink' = AtLink
    PROVE  CountOK'
    BY DEF IInv, CountOK, BanCountExact, RoomOK, Slack

LEMMA CountFinite ==
    /\ IsFiniteSet(Linked) /\ IsFiniteSet(AtLink)
    /\ Cardinality(Linked) \in Nat /\ Cardinality(AtLink) \in Nat
    /\ Cardinality(Thread) \in Nat
    BY NodeAssumption, ThreadAssumption, FS_Subset, FS_CardinalityType
    DEF Linked, AtLink

(* A node leaves: the count and the number of linked nodes drop by one.    *)
LEMMA CountLeave ==
    ASSUME IInv, NEW n \in Linked, banCount' = banCount - 1,
           Linked' = Linked \ {n}, AtLink' = AtLink
    PROVE  CountOK'
<1>1. Cardinality(Linked') = Cardinality(Linked) - 1
    BY CountFinite, FS_RemoveElement
<1> QED
    BY <1>1, CountFinite, MaxBanAssumption
    DEF IInv, CountOK, BanCountExact, RoomOK, Slack, TypeOK

(* The table's counter stays exact, and the room for overshoot bounded.    *)
LEMMA CountStep == IInv /\ [Next]_vars => CountOK'
<1> SUFFICES ASSUME IInv, [Next]_vars PROVE CountOK'
    OBVIOUS
<1> USE NodeAssumption DEF nodeVars, threadVars, tableVars, Fault, Goto, Return
<1>1. ASSUME NEW t \in Thread, NEW k \in Key, InsertRefused(t, k)
      PROVE CountOK'
    BY <1>1, CountSame
    DEF InsertRefused, Linked, AtLink, IInv, TypeOK, Ownership, WorkOK, NodeOK,
        vars
<1>2. ASSUME NEW t \in Thread, NEW k \in Key, NEW p \in BOOLEAN, InsertRenew(t, k, p)
      PROVE CountOK'
    BY <1>2, CountSame
    DEF InsertRenew, Linked, AtLink, IInv, TypeOK, Ownership, WorkOK, NodeOK
<1>3. ASSUME NEW t \in Thread, NEW k \in Key, NEW p \in BOOLEAN, InsertCheck(t, k, p)
      PROVE CountOK'
    <2>1. Linked' = Linked /\ banCount' = banCount /\ banCount < MaxBan
        BY <1>3 DEF InsertCheck, Admit, Allocatable, Linked, IInv, TypeOK
    <2>2. AtLink' \subseteq Thread
        BY DEF AtLink
    <2>3. Cardinality(AtLink') \in Nat /\ Cardinality(AtLink') <= Cardinality(Thread)
        BY <2>2, ThreadAssumption, FS_Subset, FS_CardinalityType
    <2> QED
        BY <2>1, <2>3, CountFinite, MaxBanAssumption
        DEF CountOK, BanCountExact, RoomOK, Slack, IInv, TypeOK
<1>4. ASSUME NEW t \in Thread, InsertLink(t) PROVE CountOK'
    <2>1. /\ Linked' = Linked \cup {mine[t]} /\ mine[t] \notin Linked
          /\ AtLink' = AtLink \ {t} /\ t \in AtLink /\ banCount' = banCount + 1
        BY <1>4 DEF InsertLink, Linked, AtLink, IInv, TypeOK, Ownership, WorkOK
    <2>2. Cardinality(Linked') = Cardinality(Linked) + 1
        BY <2>1, CountFinite, FS_AddElement
    <2>3. Cardinality(AtLink') = Cardinality(AtLink) - 1
        BY <2>1, CountFinite, FS_RemoveElement
    <2> QED
        BY <2>1, <2>2, <2>3, CountFinite, MaxBanAssumption
        DEF CountOK, BanCountExact, RoomOK, Slack, IInv, TypeOK
<1>5. ASSUME NEW t \in Thread, InsertMark(t) PROVE CountOK'
    BY <1>5, CountSame
    DEF InsertMark, Linked, AtLink, IInv, TypeOK, Ownership, WorkOK, NodeOK,
        LayerMark
<1>6. ASSUME NEW t \in Thread, InsertArm(t) PROVE CountOK'
    BY <1>6, CountSame
    DEF InsertArm, Linked, AtLink, IInv, TypeOK, Ownership, WorkOK, NodeOK
<1>7. ASSUME NEW t \in Thread, InsertNotify(t) PROVE CountOK'
    BY <1>7, CountSame
    DEF InsertNotify, Linked, AtLink, IInv, TypeOK, Ownership, WorkOK, NodeOK
<1>8. ASSUME NEW t \in Thread, InsertUsesFreed(t) PROVE CountOK'
    BY <1>8, CountSame
    DEF InsertUsesFreed, Linked, AtLink, IInv, TypeOK, Ownership, WorkOK,
        NodeOK
<1>9. ASSUME NEW t \in Thread, NEW k \in Key, DelUnlink(t, k) PROVE CountOK'
    <2>1. PICK n \in Linked : Linked' = Linked \ {n}
        BY <1>9 DEF DelUnlink, Entries, Linked, IInv, TypeOK
    <2>2. banCount' = banCount - 1 /\ AtLink' = AtLink
        BY <1>9 DEF DelUnlink, AtLink, IInv, TypeOK
    <2> QED
        BY <2>1, <2>2, CountLeave
<1>10. ASSUME NEW t \in Thread, DelRelease(t) PROVE CountOK'
    BY <1>10, CountSame
    DEF DelRelease, Linked, AtLink, IInv, TypeOK, Ownership, WorkOK, NodeOK,
        LayerRelease
<1>11. ASSUME NEW t \in Thread, NEW C \in Cover, ScanStart(t, C) PROVE CountOK'
    BY <1>11, CountSame
    DEF ScanStart, Linked, AtLink, IInv, TypeOK, Ownership, WorkOK, NodeOK
<1>12. ASSUME NEW t \in Thread, ScanSkip(t) PROVE CountOK'
    BY <1>12, CountSame
    DEF ScanSkip, Linked, AtLink, IInv, TypeOK, Ownership, WorkOK, NodeOK,
        ScanOn
<1>13. ASSUME NEW t \in Thread, ScanUnlink(t) PROVE CountOK'
    <2>1. Linked' = Linked \ Matching(t)
        BY <1>13 DEF ScanUnlink, Linked, IInv, TypeOK
    <2>2. AtLink' = AtLink /\ banCount' = banCount - Cardinality(Matching(t))
        BY <1>13 DEF ScanUnlink, AtLink, IInv, TypeOK
    <2>3. Cardinality(Linked') = Cardinality(Linked) - Cardinality(Matching(t))
        BY <2>1, MatchingFinite, FS_Difference, FS_Subset, CountFinite,
           Linked \cap Matching(t) = Matching(t)
    <2> QED
        BY <2>2, <2>3, CountFinite, MatchingFinite, MaxBanAssumption
        DEF CountOK, BanCountExact, RoomOK, Slack, IInv, TypeOK
<1>14. ASSUME NEW t \in Thread, ScanRelease(t) PROVE CountOK'
    BY <1>14, CountSame
    DEF ScanRelease, Linked, AtLink, IInv, TypeOK, Ownership, WorkOK, NodeOK,
        LayerRelease, ScanOn
<1>15. ASSUME NEW n \in Node, Tick(n) PROVE CountOK'
    BY <1>15, CountSame
    DEF Tick, Linked, AtLink, IInv, TypeOK, Ownership, WorkOK, NodeOK
<1>16. ASSUME NEW n \in Node, TimerFire(n) PROVE CountOK'
    BY <1>16, CountSame
    DEF TimerFire, Linked, AtLink, IInv, TypeOK, Ownership, WorkOK, NodeOK
<1>17. ASSUME NEW n \in Node, ExpireRearm(n) PROVE CountOK'
    BY <1>17, CountSame
    DEF ExpireRearm, Linked, AtLink, IInv, TypeOK, Ownership, WorkOK, NodeOK
<1>18. ASSUME NEW n \in Node, ExpireUnlink(n) PROVE CountOK'
    <2>1. n \in Linked /\ Linked' = Linked \ {n}
        BY <1>18 DEF ExpireUnlink, Linked, IInv, TypeOK
    <2>2. banCount' = banCount - 1 /\ AtLink' = AtLink
        BY <1>18 DEF ExpireUnlink, AtLink
    <2> QED
        BY <2>1, <2>2, CountLeave
<1>19. ASSUME NEW n \in Node, ExpireUnlinkAgain(n) PROVE CountOK'
    BY <1>19, CountSame
    DEF ExpireUnlinkAgain, Linked, AtLink, IInv, TypeOK, Ownership, WorkOK,
        NodeOK
<1>20. ASSUME NEW n \in Node, ExpireRelease(n) PROVE CountOK'
    BY <1>20, CountSame
    DEF ExpireRelease, Linked, AtLink, IInv, TypeOK, Ownership, WorkOK, NodeOK,
        LayerRelease
<1>21. ASSUME NEW n \in Node, TimerUsesFreed(n) PROVE CountOK'
    BY <1>21, CountSame
    DEF TimerUsesFreed, Linked, AtLink, IInv, TypeOK, Ownership, WorkOK, NodeOK
<1>22. ASSUME NEW n \in Node, Reclaim(n) PROVE CountOK'
    BY <1>22, CountSame
    DEF Reclaim, Linked, AtLink, IInv, TypeOK, Ownership, WorkOK, NodeOK
<1>23. CASE UNCHANGED vars
    BY <1>23, CountSame DEF vars, Linked, AtLink
<1> QED
    BY <1>1, <1>2, <1>3, <1>4, <1>5, <1>6, <1>7, <1>8, <1>9, <1>10, <1>11,
       <1>12, <1>13, <1>14, <1>15, <1>16, <1>17, <1>18, <1>19, <1>20, <1>21,
       <1>22, <1>23
    DEF Next, Step, Call, Expire, Time

-----------------------------------------------------------------------------
(* Nothing is linked, counted or armed at first.                           *)
LEMMA InitInv == Init => IInv
<1> SUFFICES ASSUME Init PROVE IInv
    OBVIOUS
<1>1. TypeOK
    BY LayoutAssumption DEF Init, TypeOK, Mem, CbPc, ThreadPc, Bucket
<1>2. Linked = {} /\ AtLink = {}
    BY DEF Init, Linked, AtLink
<1>3. Ownership
    BY DEF Init, Ownership, WorkOK, NodeOK, OwnerOK
<1>4. LockOK /\ UniqueKey /\ TemporaryWillEnd
    BY <1>2 DEF Init, LockOK, UniqueKey, TemporaryWillEnd
<1>5. CountOK
    <2>1. banCount = 0 /\ Cardinality(Linked) = 0 /\ Cardinality(AtLink) = 0
        BY <1>2, FS_EmptySet DEF Init
    <2>2. MaxBan + Slack >= 0
        BY CountFinite, MaxBanAssumption DEF Slack
    <2> QED
        BY <2>1, <2>2 DEF CountOK, BanCountExact, RoomOK
<1>6. BitmapMatchesCount
    BY DEF Init, BitmapMatchesCount
<1> QED
    BY <1>1, <1>3, <1>4, <1>5, <1>6 DEF IInv

LEMMA StepInv == IInv /\ [Next]_vars => IInv'
    BY TypeStep, OwnershipStep, LockStep, BitmapStep, TimerStep, CountStep
    DEF IInv

(* The inductive invariant holds in every reachable state.                 *)
THEOREM Invariance == Spec => []IInv
    BY InitInv, StepInv, PTL DEF Spec

(* Every variable keeps its type, whatever the calls race with.            *)
THEOREM TypeCorrect == Spec => []TypeOK
<1>1. IInv => TypeOK
    BY DEF IInv
<1> QED
    BY <1>1, Invariance, PTL

(* A layer's bit is set exactly when its counter is positive               *)
(* (fw_ban_layer_mark and fw_ban_layer_release).                           *)
THEOREM BitmapCorrect == Spec => []BitmapMatchesCount
<1>1. IInv => BitmapMatchesCount
    BY DEF IInv
<1> QED
    BY <1>1, Invariance, PTL

(* No prefix has two entries.                                              *)
THEOREM UniqueKeyCorrect == Spec => []UniqueKey
<1>1. IInv => UniqueKey
    BY DEF IInv
<1> QED
    BY <1>1, Invariance, PTL

(* ban_count is the number of linked entries in every state.               *)
THEOREM BanCountCorrect == Spec => []BanCountExact
<1>1. IInv => BanCountExact
    BY DEF IInv, CountOK
<1> QED
    BY <1>1, Invariance, PTL

(* The table outgrows max_ban_entries by at most one entry for each thread *)
(* but one.                                                                *)
THEOREM OvershootBounded == Spec => []CapacityOvershoot
<1>1. IInv => CapacityOvershoot
    BY CountFinite, MaxBanAssumption
    DEF IInv, CountOK, RoomOK, CapacityOvershoot, TypeOK, Slack
<1> QED
    BY <1>1, Invariance, PTL

(* A temporary entry always has a timer, a callback or an insert that will *)
(* end it.                                                                 *)
THEOREM TimerCorrect == Spec => []TemporaryWillEnd
<1>1. IInv => TemporaryWillEnd
    BY DEF IInv
<1> QED
    BY <1>1, Invariance, PTL

-----------------------------------------------------------------------------
(* Refinement of BanSet.                                                   *)

(* Every banned key has a linked node of its own to count.                 *)
LEMMA BannedCount ==
    IsFiniteSet(Banned) /\ Cardinality(Banned) \in Nat
    /\ Cardinality(Banned) <= Cardinality(Linked)
<1> DEFINE f == [n \in Linked |-> key[n]]
<1>1. f \in Surjection(Linked, Banned)
    BY DEF Surjection, Banned
<1> QED
    BY <1>1, CountFinite, FS_Surjection, FS_CardinalityType

(* A node that leaves takes its key with it, since no other node has it.   *)
LEMMA RemoveMaps ==
    ASSUME IInv, NEW n \in Linked, Linked' = Linked \ {n}, key' = key
    PROVE  Abstract!Next
<1>1. key[n] \in Key /\ key[n] \in Banned
    BY DEF IInv, Ownership, NodeOK, Linked, Banned
<1>2. Banned' = Banned \ {key[n]}
    BY DEF IInv, UniqueKey, Linked, Banned
<1> QED
    BY <1>1, <1>2 DEF Abstract!Next, Abstract!Remove

(* A step that links and unlinks nothing stutters.                         *)
LEMMA SameMaps ==
    ASSUME Linked' = Linked, \A n \in Linked : key'[n] = key[n]
    PROVE  Banned' = Banned
    BY DEF Banned

(* Every step is a step of the ban set or a stutter.                       *)
LEMMA AbstractStep == IInv /\ [Next]_vars => (Abstract!Next \/ Banned' = Banned)
<1> SUFFICES ASSUME IInv, [Next]_vars PROVE (Abstract!Next \/ Banned' = Banned)
    OBVIOUS
<1> USE DEF nodeVars, threadVars, tableVars, Fault
<1>1. ASSUME NEW t \in Thread, NEW k \in Key, InsertRefused(t, k)
      PROVE (Abstract!Next \/ Banned' = Banned)
    BY <1>1, SameMaps DEF InsertRefused, vars, Linked
<1>2. ASSUME NEW t \in Thread, NEW k \in Key, NEW p \in BOOLEAN, InsertRenew(t, k, p)
      PROVE (Abstract!Next \/ Banned' = Banned)
    BY <1>2, SameMaps DEF InsertRenew, Linked
<1>3. ASSUME NEW t \in Thread, NEW k \in Key, NEW p \in BOOLEAN, InsertCheck(t, k, p)
      PROVE (Abstract!Next \/ Banned' = Banned)
    BY <1>3, SameMaps DEF InsertCheck, Admit, Allocatable, Linked, IInv, TypeOK
<1>4. ASSUME NEW t \in Thread, InsertLink(t)
      PROVE (Abstract!Next \/ Banned' = Banned)
    <2>1. /\ Linked' = Linked \cup {mine[t]} /\ key' = key /\ mine[t] \notin Linked
          /\ key[mine[t]] = req[t] /\ req[t] \in Key /\ t \in AtLink
        BY <1>4 DEF InsertLink, Linked, AtLink, IInv, TypeOK, Ownership, WorkOK
    <2>2. Banned' = Banned \cup {req[t]}
        BY <2>1 DEF Banned
    <2>3. req[t] \notin Banned
        BY <2>1 DEF IInv, LockOK, Entries, Banned, AtLink
    <2>4. Cardinality(AtLink) # 0
        BY <2>1, CountFinite, FS_EmptySet
    <2>5. Cardinality(Banned) < MaxBan + Slack
        BY <2>4, BannedCount, CountFinite, MaxBanAssumption
        DEF IInv, CountOK, BanCountExact, RoomOK, Slack
    <2>6. Abstract!Cardinality(Banned) = Cardinality(Banned)
        BY DEF Abstract!Cardinality, Cardinality
    <2> QED
        BY <2>1, <2>2, <2>3, <2>5, <2>6 DEF Abstract!Next, Abstract!Add
<1>5. ASSUME NEW t \in Thread, InsertMark(t)
      PROVE (Abstract!Next \/ Banned' = Banned)
    BY <1>5, SameMaps DEF InsertMark, Linked
<1>6. ASSUME NEW t \in Thread, InsertArm(t)
      PROVE (Abstract!Next \/ Banned' = Banned)
    BY <1>6, SameMaps DEF InsertArm, Linked
<1>7. ASSUME NEW t \in Thread, InsertNotify(t)
      PROVE (Abstract!Next \/ Banned' = Banned)
    BY <1>7, SameMaps DEF InsertNotify, Linked
<1>8. ASSUME NEW t \in Thread, InsertUsesFreed(t)
      PROVE (Abstract!Next \/ Banned' = Banned)
    BY <1>8, SameMaps DEF InsertUsesFreed, Linked
<1>9. ASSUME NEW t \in Thread, NEW k \in Key, DelUnlink(t, k)
      PROVE (Abstract!Next \/ Banned' = Banned)
    <2>1. PICK n \in Linked : Linked' = Linked \ {n} /\ key' = key
        BY <1>9 DEF DelUnlink, Entries, Linked, IInv, TypeOK
    <2> QED
        BY <2>1, RemoveMaps
<1>10. ASSUME NEW t \in Thread, DelRelease(t)
      PROVE (Abstract!Next \/ Banned' = Banned)
    BY <1>10, SameMaps
    DEF DelRelease, Linked, IInv, TypeOK, Ownership, WorkOK, NodeOK
<1>11. ASSUME NEW t \in Thread, NEW C \in Cover, ScanStart(t, C)
      PROVE (Abstract!Next \/ Banned' = Banned)
    BY <1>11, SameMaps DEF ScanStart, Linked
<1>12. ASSUME NEW t \in Thread, ScanSkip(t)
      PROVE (Abstract!Next \/ Banned' = Banned)
    BY <1>12, SameMaps DEF ScanSkip, Linked
<1>13. ASSUME NEW t \in Thread, ScanUnlink(t)
      PROVE (Abstract!Next \/ Banned' = Banned)
    <2> DEFINE S == {key[n] : n \in Matching(t)}
    <2>1. Linked' = Linked \ Matching(t) /\ key' = key /\ Matching(t) # {}
        BY <1>13 DEF ScanUnlink, Linked
    <2>2. S \in SUBSET cover[t] /\ cover[t] \in Cover
        <3>1. S \subseteq cover[t] /\ cover[t] # {}
            BY <2>1 DEF Matching
        <3> QED
            BY <3>1 DEF IInv, TypeOK
    <2>3. Banned' = Banned \ S
        BY <2>1 DEF Banned, Matching
    <2> QED
        BY <2>2, <2>3 DEF Abstract!Next, Abstract!RemoveSome
<1>14. ASSUME NEW t \in Thread, ScanRelease(t)
      PROVE (Abstract!Next \/ Banned' = Banned)
    BY <1>14, SameMaps DEF ScanRelease, Linked
<1>15. ASSUME NEW n \in Node, Tick(n) PROVE (Abstract!Next \/ Banned' = Banned)
    BY <1>15, SameMaps DEF Tick, Linked
<1>16. ASSUME NEW n \in Node, TimerFire(n)
      PROVE (Abstract!Next \/ Banned' = Banned)
    BY <1>16, SameMaps DEF TimerFire, Linked
<1>17. ASSUME NEW n \in Node, ExpireRearm(n)
      PROVE (Abstract!Next \/ Banned' = Banned)
    BY <1>17, SameMaps DEF ExpireRearm, Linked
<1>18. ASSUME NEW n \in Node, ExpireUnlink(n)
      PROVE (Abstract!Next \/ Banned' = Banned)
    <2>1. n \in Linked /\ Linked' = Linked \ {n} /\ key' = key
        BY <1>18 DEF ExpireUnlink, Linked, IInv, TypeOK
    <2> QED
        BY <2>1, RemoveMaps
<1>19. ASSUME NEW n \in Node, ExpireUnlinkAgain(n)
      PROVE (Abstract!Next \/ Banned' = Banned)
    BY <1>19, SameMaps DEF ExpireUnlinkAgain, Linked
<1>20. ASSUME NEW n \in Node, ExpireRelease(n)
      PROVE (Abstract!Next \/ Banned' = Banned)
    BY <1>20, SameMaps
    DEF ExpireRelease, Linked, IInv, TypeOK, Ownership, WorkOK, NodeOK
<1>21. ASSUME NEW n \in Node, TimerUsesFreed(n)
      PROVE (Abstract!Next \/ Banned' = Banned)
    BY <1>21, SameMaps DEF TimerUsesFreed, Linked
<1>22. ASSUME NEW n \in Node, Reclaim(n)
      PROVE (Abstract!Next \/ Banned' = Banned)
    BY <1>22, SameMaps DEF Reclaim, Linked, IInv, TypeOK
<1>23. CASE UNCHANGED vars
    BY <1>23, SameMaps DEF vars, Linked
<1> QED
    BY <1>1, <1>2, <1>3, <1>4, <1>5, <1>6, <1>7, <1>8, <1>9, <1>10, <1>11,
       <1>12, <1>13, <1>14, <1>15, <1>16, <1>17, <1>18, <1>19, <1>20, <1>21,
       <1>22, <1>23
    DEF Next, Step, Call, Expire, Time

(* The ban table implements a set of prefixes with room for max_ban_entries *)
(* and one more per further thread: linking adds one key at once, and      *)
(* unlinking removes one, or some of those a whitelist prefix covers.      *)
THEOREM Refinement == Spec => ImplementsBanSet
<1>1. Init => Abstract!Init
    BY DEF Init, Abstract!Init, Banned, Linked
<1>2. IInv /\ [Next]_vars => [Abstract!Next]_Banned
    BY AbstractStep
<1> QED
    BY <1>1, <1>2, Invariance, PTL DEF Spec, ImplementsBanSet, Abstract!Spec

(* Of all steps only a delete, and the callback of an entry whose time is   *)
(* over, take a linked entry away.                                         *)
LEMMA OnlyDeletes ==
    ASSUME IInv, [Next]_vars, NEW n \in Linked, ~perm[n], ~due[n], mem'[n] # "linked"
    PROVE  \E t \in Thread : pc'[t] \in {"release", "scanrel"} /\ pc[t] # pc'[t]
<1>0. n \in Node /\ mem[n] = "linked" /\ mem \in [Node -> Mem] /\ pc \in [Thread -> ThreadPc]
    BY DEF Linked, IInv, TypeOK
<1>1. CASE \E t \in Thread, k \in Key : DelUnlink(t, k)
    BY <1>0, <1>1 DEF DelUnlink, Goto
<1>2. CASE \E t \in Thread : ScanUnlink(t)
    BY <1>0, <1>2 DEF ScanUnlink, Goto
<1>3. ASSUME NEW t \in Thread, NEW k \in Key, NEW p \in BOOLEAN, InsertCheck(t, k, p)
      PROVE  FALSE
    BY <1>0, <1>3 DEF InsertCheck, Admit, Allocatable
<1>4. ASSUME NEW t \in Thread, DelRelease(t) PROVE FALSE
    <2>1. mem[mine[t]] = "unlinked" /\ mem' = [mem EXCEPT ![mine[t]] = "dying"]
        BY <1>4 DEF DelRelease, IInv, Ownership, WorkOK
    <2> QED
        BY <1>0, <2>1
<1>5. ASSUME NEW t \in Thread, InsertLink(t) PROVE FALSE
    BY <1>0, <1>5 DEF InsertLink
<1>6. ASSUME NEW m \in Node, ExpireUnlink(m) PROVE FALSE
    BY <1>0, <1>6 DEF ExpireUnlink
<1>7. ASSUME NEW m \in Node, ExpireRelease(m) PROVE FALSE
    <2>1. mem[m] = "unlinked" /\ mem' = [mem EXCEPT ![m] = "dying"]
        BY <1>7 DEF ExpireRelease, IInv, Ownership, NodeOK
    <2> QED
        BY <1>0, <2>1
<1>8. ASSUME NEW m \in Node, Reclaim(m) PROVE FALSE
    BY <1>0, <1>8 DEF Reclaim
<1>9. mem' # mem
    BY <1>0
<1>10. ASSUME NEW t \in Thread,
              \/ InsertMark(t) \/ InsertArm(t) \/ InsertNotify(t) \/ InsertUsesFreed(t)
              \/ ScanSkip(t) \/ ScanRelease(t)
       PROVE  FALSE
    BY <1>9, <1>10 DEF InsertMark, InsertArm, InsertNotify, InsertUsesFreed, ScanSkip, ScanRelease,
                       Fault, nodeVars
<1>11. ASSUME NEW t \in Thread, NEW k \in Key, NEW p \in BOOLEAN,
              InsertRefused(t, k) \/ InsertRenew(t, k, p)
       PROVE  FALSE
    BY <1>9, <1>11 DEF InsertRefused, InsertRenew, vars, nodeVars
<1>12. ASSUME NEW t \in Thread, NEW C \in Cover, ScanStart(t, C) PROVE FALSE
    BY <1>9, <1>12 DEF ScanStart, nodeVars
<1>13. ASSUME NEW m \in Node,
              Tick(m) \/ TimerFire(m) \/ TimerUsesFreed(m) \/ ExpireRearm(m) \/ ExpireUnlinkAgain(m)
       PROVE  FALSE
    BY <1>9, <1>13 DEF Tick, TimerFire, TimerUsesFreed, ExpireRearm, ExpireUnlinkAgain, Fault, nodeVars
<1>14. CASE UNCHANGED vars
    BY <1>9, <1>14 DEF vars, nodeVars
<1> QED
    BY <1>1, <1>2, <1>3, <1>4, <1>5, <1>6, <1>7, <1>8, <1>10, <1>11, <1>12, <1>13, <1>14
    DEF Next, Step, Call, Expire, Time

(* A temporary ban with time left leaves the table by a delete only        *)
(* (fw_ban.c:303-310, the callback spares what was renewed).               *)
THEOREM LiveBansStay == Spec => LiveBanOnlyDeleted
<1>1. IInv /\ [Next]_vars =>
         [\A n \in Linked :
             (~perm[n] /\ ~due[n] /\ mem'[n] # "linked") =>
                 \E t \in Thread : pc'[t] \in {"release", "scanrel"} /\ pc[t] # pc'[t]]_vars
    BY OnlyDeletes
<1> QED
    BY <1>1, Invariance, PTL DEF Spec, LiveBanOnlyDeleted
=============================================================================
