-------------------------- MODULE ModuleLife_proofs --------------------------
(***************************************************************************)
(* For any prefixes, any page size and any number of operations: a packet  *)
(* in the hook finds the tables, a load that fails leaves nothing, a whole *)
(* state file that has reached the disk is never lost, what is restored    *)
(* from one is whole, and the pages of a save miss no steady ban within    *)
(* the limit.                                                              *)
(*                                                                         *)
(* The first two follow the order of the steps: what is set up is given by *)
(* the position of the load or of the error path (UpOK), tables are taken  *)
(* away only where neither a hook nor a packet is left (PacketOK), and     *)
(* whoever could add an entry or queue the work is gone before what it     *)
(* works on (LeftoverOK).  The others follow the temporary file from page  *)
(* to page (SaveOK, SteadyOK) and what a power cut may leave (FilesOK).    *)
(***************************************************************************)
EXTENDS ModuleLife, FiniteSetTheorems, TLAPS

Items == {InitOrder[i] : i \in DOMAIN InitOrder} \ {"restore"}
HookTables == {"stats", "local", "ports", "wl", "ban", "rate", "rebuild"}

PhaseOK ==
    /\ phase \in {"absent", "init", "undo", "live", "exit"}
    /\ phase \in {"absent", "live"} => step = 0
    /\ phase = "init" => step \in DOMAIN InitOrder
    /\ phase = "undo" => step \in DOMAIN UndoOrder
    /\ phase = "exit" => step \in DOMAIN ExitOrder

FlagsOK ==
    /\ shutting \in BOOLEAN /\ packet \in BOOLEAN /\ event \in BOOLEAN /\ work \in BOOLEAN
    /\ phase = "exit" /\ step > 1 => shutting

TablesOK == bans \subseteq Key /\ due \subseteq bans /\ wl \subseteq Wl

PortOK == portid \in Process \cup {None}

(* What is set up follows the position of the load, of the error path, of  *)
(* the unload.  Nothing but "local" takes the table of addresses away.     *)
UpOK ==
    /\ up \subseteq Items
    /\ phase = "absent" => up = {}
    /\ phase = "init" => up = {InitOrder[i] : i \in 1 .. step - 1} \ {"restore"}
    /\ phase = "undo" => /\ up \cap {UndoOrder[i] : i \in 1 .. step - 1} = {}
                         /\ "hook6" \notin up
                         /\ step > 10 => "rebuild" \notin up
    /\ phase = "exit" => /\ up \cap {ExitOrder[i] : i \in 1 .. step - 1} = {}
                         /\ step > 14 => "rebuild" \notin up

(* A packet needs the tables, and so does a hook that can let one in; the  *)
(* steps that take tables away have waited for both.                       *)
PacketOK ==
    /\ packet \/ up \cap Hooks # {} => HookTables \subseteq up
    /\ phase = "undo" /\ step > 6 => ~packet
    /\ phase = "exit" /\ step > 5 => ~packet

(* Nobody is left who could add an entry or queue the work.                *)
LeftoverOK ==
    /\ event => "netdev" \in up
    /\ phase = "init" /\ step <= 10 => ~work
    /\ phase = "init" /\ step <= 7 => bans = {}
    /\ phase = "undo" /\ step > 4 => ~work
    /\ phase = "undo" /\ step > 7 => bans = {}
    /\ phase = "absent" /\ ~shutting => bans = {} /\ ~work

SaveOK ==
    /\ save \in SaveRecord \cup {None}
    /\ save # None => Saving /\ tmp # None
    /\ tmp \in FileRecord \cup {None}
    /\ save # None /\ save.at \in {"crc", "fsync", "replace"} => tmp.whole
    /\ save # None /\ save.at \in {"fsync", "replace"} => tmp.crc
    /\ save # None /\ save.at = "replace" => tmp.synced

FilesOK ==
    /\ file \in FileRecord \cup {None} /\ disk \in FileRecord \cup {None}
    /\ file # None => file.synced /\ (file.crc => file.whole)
    /\ disk # None => disk.synced /\ (disk.crc => disk.whole)
    /\ IsWhole(disk) => IsWhole(file)

(* A steady ban whose row is before the offset has been written; what is   *)
(* added can only move rows towards the end.  When the pass over the bans  *)
(* is over, a steady ban has been written or was beyond the limit.         *)
SteadyOK ==
    save # None /\ ~save.shrunk =>
        /\ save.steady \subseteq bans \ due
        /\ save.at = "bans" =>
              \A i \in DOMAIN KeyOrder :
                  /\ KeyOrder[i] \in save.steady
                  /\ RowNumber(KeyOrder, bans, i) <= save.offset
                  => KeyOrder[i] \in tmp.rows
        /\ save.at # "bans" => save.steady \subseteq tmp.rows \cup save.cut

IInv == /\ PhaseOK /\ FlagsOK /\ TablesOK /\ PortOK /\ UpOK /\ PacketOK /\ LeftoverOK
        /\ SaveOK /\ FilesOK /\ SteadyOK

-----------------------------------------------------------------------------
(* The orders, item by item.                                               *)

LEMMA InitOrderIs ==
    /\ Len(InitOrder) = 13 /\ DOMAIN InitOrder = 1 .. 13
    /\ InitOrder[1] = "stats" /\ InitOrder[2] = "local" /\ InitOrder[3] = "ports"
    /\ InitOrder[4] = "wl" /\ InitOrder[5] = "ban" /\ InitOrder[6] = "rate"
    /\ InitOrder[7] = "netlink" /\ InitOrder[8] = "restore" /\ InitOrder[9] = "rebuild"
    /\ InitOrder[10] = "netdev" /\ InitOrder[11] = "procfs"
    /\ InitOrder[12] = "hook4" /\ InitOrder[13] = "hook6"
BY DEF InitOrder

LEMMA UndoOrderIs ==
    /\ Len(UndoOrder) = 11 /\ DOMAIN UndoOrder = 1 .. 11
    /\ UndoOrder[1] = "hook4" /\ UndoOrder[2] = "procfs" /\ UndoOrder[3] = "netdev"
    /\ UndoOrder[4] = "cancel" /\ UndoOrder[5] = "netlink" /\ UndoOrder[6] = "rate"
    /\ UndoOrder[7] = "ban" /\ UndoOrder[8] = "wl" /\ UndoOrder[9] = "ports"
    /\ UndoOrder[10] = "local" /\ UndoOrder[11] = "stats"
BY DEF UndoOrder

LEMMA ExitOrderIs ==
    /\ Len(ExitOrder) = 16 /\ DOMAIN ExitOrder = 1 .. 16
    /\ ExitOrder[1] = "shutting" /\ ExitOrder[2] = "cancel" /\ ExitOrder[3] = "hook4"
    /\ ExitOrder[4] = "hook6" /\ ExitOrder[5] = "grace" /\ ExitOrder[6] = "netdev"
    /\ ExitOrder[7] = "procfs" /\ ExitOrder[8] = "grace" /\ ExitOrder[9] = "save"
    /\ ExitOrder[10] = "ban" /\ ExitOrder[11] = "wl" /\ ExitOrder[12] = "rate"
    /\ ExitOrder[13] = "stats" /\ ExitOrder[14] = "local" /\ ExitOrder[15] = "ports"
    /\ ExitOrder[16] = "netlink"
BY DEF ExitOrder

LEMMA ItemsAre ==
    Items = {"stats", "local", "ports", "wl", "ban", "rate", "netlink", "rebuild",
             "netdev", "procfs", "hook4", "hook6"}
<1>1. ASSUME NEW x PROVE x \in Items <=> x \in {"stats", "local", "ports", "wl", "ban", "rate",
             "netlink", "rebuild", "netdev", "procfs", "hook4", "hook6"}
    <2>1. ASSUME x \in Items
          PROVE  x \in {"stats", "local", "ports", "wl", "ban", "rate", "netlink", "rebuild",
                        "netdev", "procfs", "hook4", "hook6"}
        <3>1. PICK i \in 1 .. 13 : x = InitOrder[i] /\ x # "restore"
            BY <2>1, InitOrderIs DEF Items
        <3>2. i \in {1, 2, 3, 4, 5, 6, 7, 8, 9, 10, 11, 12, 13}
            OBVIOUS
        <3> QED BY <3>1, <3>2, InitOrderIs
    <2>2. ASSUME x \in {"stats", "local", "ports", "wl", "ban", "rate", "netlink", "rebuild",
                        "netdev", "procfs", "hook4", "hook6"}
          PROVE  x \in Items
        BY <2>2, InitOrderIs DEF Items
    <2> QED BY <2>1, <2>2
<1> QED BY <1>1

LEMMA LabelIsStep == \A i \in 1 .. 11 : Position(UndoOrder, UndoOrder[i]) = i
<1>1. TAKE i \in 1 .. 11
<1>2. i \in {1, 2, 3, 4, 5, 6, 7, 8, 9, 10, 11}
    OBVIOUS
<1>3. ASSUME NEW j \in 1 .. 11, UndoOrder[j] = UndoOrder[i] PROVE j = i
    <2>1. j \in {1, 2, 3, 4, 5, 6, 7, 8, 9, 10, 11}
        OBVIOUS
    <2> QED BY <1>2, <1>3, <2>1, UndoOrderIs
<1> QED BY <1>3, UndoOrderIs DEF Position

-----------------------------------------------------------------------------
(* The rows of a listing.                                                  *)

LEMMA RowsGrow ==
    ASSUME NEW S, NEW T, S \subseteq T, NEW order, NEW i \in Nat
    PROVE  /\ RowNumber(order, S, i) \in Nat
           /\ RowNumber(order, T, i) \in Nat
           /\ RowNumber(order, S, i) <= RowNumber(order, T, i)
<1> DEFINE A == {j \in 1 .. i : order[j] \in S}
           B == {j \in 1 .. i : order[j] \in T}
<1>1. IsFiniteSet(1 .. i)
    BY FS_Interval
<1>2. IsFiniteSet(B) /\ Cardinality(B) \in Nat
    <2>1. B \subseteq 1 .. i
        OBVIOUS
    <2> QED BY <1>1, <2>1, FS_Subset, FS_CardinalityType
<1>3. IsFiniteSet(A) /\ Cardinality(A) \in Nat /\ Cardinality(A) <= Cardinality(B)
    <2>1. A \subseteq B
        OBVIOUS
    <2>2. /\ IsFiniteSet(A)
          /\ Cardinality(A) <= Cardinality(B)
        BY <1>2, <2>1, FS_Subset
    <2> QED BY <2>2, FS_CardinalityType
<1> QED BY <1>2, <1>3 DEF RowNumber

LEMMA RowIsWithin ==
    ASSUME NEW S \in SUBSET Key, NEW i \in DOMAIN KeyOrder
    PROVE  /\ Cardinality(S) \in Nat
           /\ RowNumber(KeyOrder, S, i) <= Cardinality(S)
<1> DEFINE A == {j \in 1 .. i : KeyOrder[j] \in S}
           f == [j \in A |-> KeyOrder[j]]
           g == [j \in DOMAIN KeyOrder |-> KeyOrder[j]]
<1>1. /\ DOMAIN KeyOrder = 1 .. Len(KeyOrder) /\ Len(KeyOrder) \in Nat
      /\ A \subseteq DOMAIN KeyOrder
    BY LifeAssumption
<1>2. IsFiniteSet(Key)
    <2>1. g \in Surjection(DOMAIN KeyOrder, Key)
        BY DEF Surjection, Key
    <2>2. IsFiniteSet(DOMAIN KeyOrder)
        BY <1>1, FS_Interval
    <2> QED BY <2>1, <2>2, FS_Surjection
<1>3. IsFiniteSet(S) /\ Cardinality(S) \in Nat
    BY <1>2, FS_Subset, FS_CardinalityType
<1>4. f \in Injection(A, S)
    <2>1. f \in [A -> S]
        OBVIOUS
    <2>2. \A a, b \in DOMAIN KeyOrder : KeyOrder[a] = KeyOrder[b] => a = b
        BY LifeAssumption
    <2>3. ASSUME NEW a \in A, NEW b \in A, f[a] = f[b] PROVE a = b
        <3>1. f[a] = KeyOrder[a] /\ f[b] = KeyOrder[b]
            OBVIOUS
        <3>2. a \in DOMAIN KeyOrder /\ b \in DOMAIN KeyOrder
            BY <1>1
        <3> QED BY <2>2, <2>3, <3>1, <3>2
    <2> HIDE DEF f, A
    <2>4. DOMAIN f = A
        BY <2>1
    <2> QED BY <2>1, <2>3, <2>4 DEF Injection, IsInjective
<1>5. Cardinality(A) <= Cardinality(S)
    BY <1>3, <1>4, FS_Injection
<1> QED BY <1>3, <1>5 DEF RowNumber

-----------------------------------------------------------------------------
(* What a step leaves alone.                                               *)

LEMMA PlaceKept ==
    ASSUME IInv, UNCHANGED lifeVars
    PROVE  PhaseOK' /\ UpOK' /\ (Saving' <=> Saving)
<1>1. PhaseOK' = PhaseOK
    BY DEF lifeVars, PhaseOK
<1>2. UpOK' = UpOK
    BY DEF lifeVars, UpOK
<1>3. Saving' = Saving
    BY DEF lifeVars, Saving
<1> QED BY <1>1, <1>2, <1>3 DEF IInv

LEMMA FilesKept ==
    ASSUME IInv, UNCHANGED fileVars, save = None \/ (Saving' <=> Saving)
    PROVE  SaveOK' /\ FilesOK'
<1>1. FilesOK' = FilesOK
    BY DEF fileVars, FilesOK, IsWhole
<1>2. SaveOK'
    BY DEF fileVars, IInv, SaveOK
<1> QED BY <1>1, <1>2 DEF IInv

LEMMA SteadyKept ==
    ASSUME IInv, UNCHANGED fileVars, save = None \/ UNCHANGED <<bans, due>>
    PROVE  SteadyOK'
<1>1. CASE save = None
    BY <1>1 DEF fileVars, SteadyOK
<1>2. CASE UNCHANGED <<bans, due>>
    <2>1. SteadyOK' = SteadyOK
        BY <1>2 DEF fileVars, SteadyOK, RowNumber
    <2> QED BY <2>1 DEF IInv
<1> QED BY <1>1, <1>2

LEMMA TablesKept ==
    ASSUME IInv, UNCHANGED tableVars
    PROVE  TablesOK'
BY DEF IInv, TablesOK, tableVars

(* No save is under way but at its step of fw_exit.                        *)
LEMMA NoSave ==
    ASSUME IInv, ~Saving
    PROVE  save = None
BY DEF IInv, SaveOK

LEMMA NoHooksNoPacket ==
    ASSUME IInv, phase = "absent"
    PROVE  ~packet /\ ~event /\ save = None
BY NoSave DEF IInv, UpOK, PacketOK, LeftoverOK, HookTables, Saving

(* Steps of the daemon and of its lease that send no command.              *)
LEMMA LeaseIsApart ==
    ASSUME IInv, UNCHANGED <<lifeVars, flowVars, tableVars, fileVars>>, portid' \in Process \cup {None}
    PROVE  IInv'
<1>1. PhaseOK' /\ UpOK' /\ (Saving' <=> Saving)
    BY PlaceKept
<1>2. SaveOK' /\ FilesOK'
    BY <1>1, FilesKept
<1>3. SteadyOK'
    BY SteadyKept DEF tableVars
<1>4. TablesOK'
    BY TablesKept
<1>5. FlagsOK' /\ PacketOK' /\ LeftoverOK'
    BY DEF IInv, FlagsOK, PacketOK, LeftoverOK, lifeVars, flowVars, tableVars
<1> QED BY <1>1, <1>2, <1>3, <1>4, <1>5 DEF IInv, PortOK

(* Packets, netdev events and the address work.                            *)
LEMMA FlowKeeps ==
    ASSUME IInv, UNCHANGED <<lifeVars, tableVars, fileVars, leaseVars>>,
           FlagsOK', PacketOK', LeftoverOK'
    PROVE  IInv'
<1>1. PhaseOK' /\ UpOK' /\ (Saving' <=> Saving)
    BY PlaceKept
<1>2. SaveOK' /\ FilesOK'
    BY <1>1, FilesKept
<1>3. SteadyOK'
    BY SteadyKept DEF tableVars
<1>4. TablesOK'
    BY TablesKept
<1>5. PortOK'
    BY DEF IInv, PortOK, leaseVars
<1> QED BY <1>1, <1>2, <1>3, <1>4, <1>5 DEF IInv

LEMMA PacketEntersKeeps ==
    ASSUME IInv, PacketEnters
    PROVE  IInv'
<1>1. FlagsOK'
    BY DEF IInv, FlagsOK, PacketEnters, lifeVars
<1>2. PacketOK'
    <2>1. phase # "undo" \/ ~(step > 6)
        BY UndoOrderIs DEF IInv, PhaseOK, UpOK, PacketEnters, Hooks
    <2>2. phase # "exit" \/ ~(step > 5)
        BY ExitOrderIs DEF IInv, PhaseOK, UpOK, PacketEnters, Hooks
    <2> QED BY <2>1, <2>2 DEF IInv, PacketOK, PacketEnters, lifeVars
<1>3. LeftoverOK'
    BY DEF IInv, LeftoverOK, PacketEnters, lifeVars, tableVars
<1> QED BY <1>1, <1>2, <1>3, FlowKeeps DEF PacketEnters

LEMMA FlowStepKeeps ==
    ASSUME IInv, PacketLeaves \/ NetdevEvent \/ NetdevSchedule \/ SyncWork
    PROVE  IInv'
<1>1. CASE PacketLeaves
    <2>1. FlagsOK' /\ PacketOK' /\ LeftoverOK'
        BY <1>1 DEF IInv, FlagsOK, PacketOK, LeftoverOK, PacketLeaves, lifeVars, tableVars
    <2> QED BY <1>1, <2>1, FlowKeeps DEF PacketLeaves
<1>2. CASE NetdevEvent
    <2>1. FlagsOK' /\ PacketOK' /\ LeftoverOK'
        BY <1>2 DEF IInv, FlagsOK, PacketOK, LeftoverOK, NetdevEvent, lifeVars, tableVars
    <2> QED BY <1>2, <2>1, FlowKeeps DEF NetdevEvent
<1>3. CASE NetdevSchedule
    <2>1. "netdev" \in up
        BY <1>3 DEF IInv, LeftoverOK, NetdevSchedule
    <2>2. ~(phase = "init" /\ step <= 10)
        <3>1. SUFFICES ASSUME phase = "init", step <= 10 PROVE FALSE
            OBVIOUS
        <3>2. PICK i \in 1 .. step - 1 : InitOrder[i] = "netdev"
            BY <2>1, <3>1 DEF IInv, UpOK
        <3>3. i \in {1, 2, 3, 4, 5, 6, 7, 8, 9}
            BY <3>1, InitOrderIs DEF IInv, PhaseOK
        <3> QED BY <3>2, <3>3, InitOrderIs
    <2>3. ~(phase = "undo" /\ step > 4)
        BY <2>1, UndoOrderIs DEF IInv, UpOK, PhaseOK
    <2>4. phase # "absent"
        BY <2>1 DEF IInv, UpOK
    <2>5. FlagsOK' /\ PacketOK' /\ LeftoverOK'
        BY <1>3, <2>2, <2>3, <2>4
        DEF IInv, FlagsOK, PacketOK, LeftoverOK, NetdevSchedule, lifeVars, tableVars
    <2> QED BY <1>3, <2>5, FlowKeeps DEF NetdevSchedule
<1>4. CASE SyncWork
    <2>1. FlagsOK' /\ PacketOK' /\ LeftoverOK'
        BY <1>4 DEF IInv, FlagsOK, PacketOK, LeftoverOK, SyncWork, lifeVars, tableVars
    <2> QED BY <1>4, <2>1, FlowKeeps DEF SyncWork
<1> QED BY <1>1, <1>2, <1>3, <1>4

-----------------------------------------------------------------------------
(* Steps that change the tables.                                           *)

(* Who adds entries is gone when the tables have to stay empty.            *)
LEMMA AdderIsUp ==
    ASSUME IInv, packet \/ "netlink" \in up \/ "procfs" \in up
    PROVE  /\ ~(phase = "init" /\ step <= 7)
           /\ ~(phase = "undo" /\ step > 7)
           /\ phase # "absent"
<1>1. phase # "absent"
    BY NoHooksNoPacket DEF IInv, UpOK
<1>2. ~(phase = "undo" /\ step > 7)
    BY UndoOrderIs DEF IInv, UpOK, PhaseOK, PacketOK
<1>3. ~(phase = "init" /\ step <= 7)
    <2>1. SUFFICES ASSUME phase = "init", step <= 7 PROVE FALSE
        OBVIOUS
    <2>2. packet => "rebuild" \in up
        BY DEF IInv, PacketOK, HookTables
    <2>3. PICK i \in 1 .. step - 1 : InitOrder[i] \in {"rebuild", "netlink", "procfs"}
        BY <2>1, <2>2 DEF IInv, UpOK
    <2>4. i \in {1, 2, 3, 4, 5, 6}
        BY <2>1, InitOrderIs DEF IInv, PhaseOK
    <2> QED BY <2>3, <2>4, InitOrderIs
<1> QED BY <1>1, <1>2, <1>3

LEMMA AddBanKeeps ==
    ASSUME IInv, NEW k \in Key, AddBan(k),
           UNCHANGED <<lifeVars, flowVars, fileVars>>, portid' \in Process \cup {None},
           packet \/ "netlink" \in up \/ "procfs" \in up
    PROVE  IInv'
<1>1. PhaseOK' /\ UpOK' /\ (Saving' <=> Saving)
    BY PlaceKept
<1>2. SaveOK' /\ FilesOK'
    BY <1>1, FilesKept
<1>3. bans \subseteq bans' /\ due' \subseteq due /\ (k \in bans' => k \notin due' \/ UNCHANGED <<bans, due>>)
    BY DEF AddBan
<1>4. TablesOK'
    BY DEF IInv, TablesOK, AddBan
<1>5. SteadyOK'
    <2>1. SUFFICES ASSUME save # None, ~save.shrunk
                   PROVE  /\ save.steady \subseteq bans' \ due'
                          /\ save.at = "bans" =>
                               \A i \in DOMAIN KeyOrder :
                                 /\ KeyOrder[i] \in save.steady
                                 /\ RowNumber(KeyOrder, bans', i) <= save.offset
                                 => KeyOrder[i] \in tmp.rows
                          /\ save.at # "bans" => save.steady \subseteq tmp.rows \cup save.cut
        <3>1. SteadyOK' = (save # None /\ ~save.shrunk =>
                          /\ save.steady \subseteq bans' \ due'
                          /\ save.at = "bans" =>
                               \A i \in DOMAIN KeyOrder :
                                 /\ KeyOrder[i] \in save.steady
                                 /\ RowNumber(KeyOrder, bans', i) <= save.offset
                                 => KeyOrder[i] \in tmp.rows
                          /\ save.at # "bans" => save.steady \subseteq tmp.rows \cup save.cut)
            BY DEF SteadyOK, fileVars, RowNumber
        <3> QED BY <3>1
    <2>2. SteadyOK
        BY DEF IInv
    <2>3. save.steady \subseteq bans' \ due'
        BY <1>3, <2>1, <2>2 DEF SteadyOK
    <2>4. ASSUME save.at = "bans", NEW i \in DOMAIN KeyOrder, KeyOrder[i] \in save.steady,
                 RowNumber(KeyOrder, bans', i) <= save.offset
          PROVE  KeyOrder[i] \in tmp.rows
        <3>1. i \in Nat
            BY LifeAssumption
        <3>2. /\ RowNumber(KeyOrder, bans, i) \in Nat
              /\ RowNumber(KeyOrder, bans', i) \in Nat
              /\ RowNumber(KeyOrder, bans, i) <= RowNumber(KeyOrder, bans', i)
            BY <1>3, <3>1, RowsGrow
        <3>3. save.offset \in Nat
            BY <2>1 DEF IInv, SaveOK, SaveRecord
        <3>4. RowNumber(KeyOrder, bans, i) <= save.offset
            BY <2>4, <3>2, <3>3
        <3> QED BY <2>1, <2>2, <2>4, <3>4 DEF SteadyOK
    <2>5. save.at # "bans" => save.steady \subseteq tmp.rows \cup save.cut
        BY <2>1, <2>2 DEF SteadyOK
    <2> QED BY <2>3, <2>4, <2>5
<1>6. FlagsOK' /\ PacketOK'
    BY DEF IInv, FlagsOK, PacketOK, lifeVars, flowVars
<1>7. LeftoverOK'
    BY AdderIsUp DEF IInv, LeftoverOK, lifeVars, flowVars
<1> QED BY <1>1, <1>2, <1>4, <1>5, <1>6, <1>7 DEF IInv, PortOK

(* A removal, or a change of the whitelist alone.                          *)
LEMMA RemovalKeeps ==
    ASSUME IInv,
           UNCHANGED <<lifeVars, flowVars, file, tmp, disk>>, portid' \in Process \cup {None},
           bans' \subseteq bans, due' = due \cap bans', wl' \subseteq Wl,
           \/ bans' = bans /\ save' = save
           \/ save' = IF save = None THEN None ELSE [save EXCEPT !.shrunk = TRUE]
    PROVE  IInv'
<1>1. PhaseOK' /\ UpOK' /\ (Saving' <=> Saving)
    BY PlaceKept DEF lifeVars
<1>2. FilesOK'
    <2>1. FilesOK' = FilesOK
        BY DEF FilesOK, IsWhole
    <2> QED BY <2>1 DEF IInv
<1>3. SaveOK' /\ SteadyOK'
    <2>1. CASE save' = save /\ bans' = bans
        <3>1. UNCHANGED <<bans, due>>
            BY <2>1 DEF IInv, TablesOK
        <3> QED BY <1>1, <2>1, <3>1, FilesKept, SteadyKept DEF fileVars
    <2>2. CASE save = None /\ save' = None
        BY <2>2 DEF IInv, SaveOK, SteadyOK
    <2>3. CASE save # None /\ save' = [save EXCEPT !.shrunk = TRUE]
        <3>1. save \in SaveRecord
            BY <2>3 DEF IInv, SaveOK
        <3>2. save' \in SaveRecord /\ save'.shrunk /\ save'.at = save.at
            BY <2>3, <3>1 DEF SaveRecord
        <3>3. SaveOK'
            BY <1>1, <2>3, <3>2 DEF IInv, SaveOK
        <3>4. SteadyOK'
            BY <3>2 DEF SteadyOK
        <3> QED BY <3>3, <3>4
    <2> QED BY <2>1, <2>2, <2>3
<1>4. FlagsOK' /\ PacketOK' /\ LeftoverOK'
    BY DEF IInv, FlagsOK, PacketOK, LeftoverOK, lifeVars, flowVars
<1>5. TablesOK'
    BY DEF IInv, TablesOK
<1> QED BY <1>1, <1>2, <1>3, <1>4, <1>5 DEF IInv, PortOK

LEMMA DelBanKeeps ==
    ASSUME IInv, NEW k \in Key, DelBan(k), NoteRemoval(k \in bans),
           UNCHANGED <<lifeVars, flowVars, file, tmp, disk>>, portid' \in Process \cup {None}
    PROVE  IInv'
<1>1. /\ bans' \subseteq bans /\ due' = due \cap bans' /\ wl' \subseteq Wl
    BY DEF IInv, TablesOK, DelBan
<1>2. \/ bans' = bans /\ save' = save
      \/ save' = IF save = None THEN None ELSE [save EXCEPT !.shrunk = TRUE]
    BY DEF DelBan, NoteRemoval
<1> QED BY <1>1, <1>2, RemovalKeeps

LEMMA ExpireKeeps ==
    ASSUME IInv, NEW k \in Key, Expire(k)
    PROVE  IInv'
<1>1. /\ bans' \subseteq bans /\ due' = due \cap bans' /\ wl' \subseteq Wl
    BY DEF IInv, TablesOK, Expire, DelBan
<1>2. portid' \in Process \cup {None}
    BY DEF IInv, PortOK, Expire, leaseVars
<1> QED BY <1>1, <1>2, RemovalKeeps DEF Expire

LEMMA BanDueKeeps ==
    ASSUME IInv, NEW k \in Key, BanDue(k)
    PROVE  IInv'
<1>1. PhaseOK' /\ UpOK' /\ (Saving' <=> Saving)
    BY PlaceKept DEF BanDue
<1>2. FilesOK'
    <2>1. FilesOK' = FilesOK
        BY DEF FilesOK, IsWhole, BanDue
    <2> QED BY <2>1 DEF IInv
<1>3. SaveOK' /\ SteadyOK'
    <2>1. CASE save = None
        BY <2>1 DEF IInv, SaveOK, SteadyOK, BanDue
    <2>2. CASE save # None
        <3>1. save \in SaveRecord
            BY <2>2 DEF IInv, SaveOK
        <3>2. /\ save' \in SaveRecord /\ save'.shrunk = save.shrunk /\ save'.at = save.at
              /\ save'.offset = save.offset /\ save'.steady = save.steady \ {k}
              /\ save'.cut = save.cut
            BY <2>2, <3>1 DEF SaveRecord, BanDue
        <3>3. SaveOK'
            BY <1>1, <2>2, <3>2 DEF IInv, SaveOK, BanDue
        <3>4. SteadyOK'
            <4>1. SteadyOK /\ UNCHANGED <<bans, tmp>> /\ due' = due \cup {k}
                BY DEF IInv, BanDue
            <4>2. \A i : RowNumber(KeyOrder, bans, i)' = RowNumber(KeyOrder, bans, i)
                BY <4>1 DEF RowNumber
            <4> QED BY <2>2, <3>2, <4>1, <4>2 DEF SteadyOK, RowNumber
        <3> QED BY <3>3, <3>4
    <2> QED BY <2>1, <2>2
<1>4. FlagsOK' /\ PacketOK' /\ LeftoverOK'
    BY DEF IInv, FlagsOK, PacketOK, LeftoverOK, lifeVars, flowVars, BanDue
<1>5. TablesOK' /\ PortOK'
    BY DEF IInv, TablesOK, PortOK, leaseVars, BanDue
<1> QED BY <1>1, <1>2, <1>3, <1>4, <1>5 DEF IInv

LEMMA TablesKeep ==
    ASSUME IInv, Tables
    PROVE  IInv'
<1>1. ASSUME NEW k \in Key, PacketBans(k) PROVE IInv'
    BY <1>1, AddBanKeeps DEF PacketBans, leaseVars, IInv, PortOK
<1>2. ASSUME NEW k \in Key, ProcfsBan(k) PROVE IInv'
    <2>1. portid' \in Process \cup {None}
        BY <1>2 DEF ProcfsBan, leaseVars, IInv, PortOK
    <2>2. CASE AddBan(k) /\ UNCHANGED save
        BY <1>2, <2>1, <2>2, AddBanKeeps DEF ProcfsBan, fileVars
    <2>3. CASE DelBan(k) /\ NoteRemoval(k \in bans)
        BY <1>2, <2>1, <2>3, DelBanKeeps DEF ProcfsBan
    <2> QED BY <1>2, <2>2, <2>3 DEF ProcfsBan
<1>3. ASSUME NEW w \in Wl, ProcfsWl(w) PROVE IInv'
    <2>1. portid' \in Process \cup {None}
        BY <1>3 DEF ProcfsWl, leaseVars, IInv, PortOK
    <2>2. CASE wl' = wl \cup {w} /\ UNCHANGED <<bans, due, save>>
        <3>1. bans' \subseteq bans /\ due' = due \cap bans' /\ wl' \subseteq Wl
            BY <2>2 DEF IInv, TablesOK
        <3> QED BY <1>3, <2>1, <2>2, <3>1, RemovalKeeps DEF ProcfsWl
    <2>3. CASE /\ wl' = wl \ {w} /\ bans' = bans \ Covers[w] /\ due' = due \ Covers[w]
               /\ NoteRemoval(TRUE)
        <3>1. bans' \subseteq bans /\ due' = due \cap bans' /\ wl' \subseteq Wl
            BY <2>3 DEF IInv, TablesOK
        <3>2. save' = IF save = None THEN None ELSE [save EXCEPT !.shrunk = TRUE]
            BY <2>3 DEF NoteRemoval
        <3> QED BY <1>3, <2>1, <3>1, <3>2, RemovalKeeps DEF ProcfsWl
    <2> QED BY <1>3, <2>2, <2>3 DEF ProcfsWl
<1> QED BY <1>1, <1>2, <1>3, BanDueKeeps, ExpireKeeps DEF Tables

LEMMA LeaseKeeps ==
    ASSUME IInv, NEW p \in Process, Lease(p)
    PROVE  IInv'
<1>1. portid \in Process \cup {None}
    BY DEF IInv, PortOK
<1>2. CASE Start(p) \/ RegisterAsk(p) \/ NoLink(p) \/ Die(p) \/ PortidReused(p)
    BY <1>1, <1>2, LeaseIsApart DEF Start, RegisterAsk, NoLink, Die, PortidReused
<1>3. CASE RegisterEnds(p)
    <2>1. portid' \in Process \cup {None}
        BY <1>1, <1>3 DEF RegisterEnds, Granted, Refused
    <2> QED BY <1>3, <2>1, LeaseIsApart DEF RegisterEnds
<1>4. ASSUME NEW k \in Key, Command(p, k) PROVE IInv'
    <2>1. portid' \in Process \cup {None} /\ "netlink" \in up
        BY <1>4 DEF Command, Listening
    <2>2. CASE AddBan(k) /\ UNCHANGED save
        BY <1>4, <2>1, <2>2, AddBanKeeps DEF Command, fileVars
    <2>3. CASE DelBan(k) /\ NoteRemoval(k \in bans)
        BY <1>4, <2>1, <2>3, DelBanKeeps DEF Command
    <2> QED BY <1>4, <2>2, <2>3 DEF Command
<1> QED BY <1>2, <1>3, <1>4 DEF Lease

LEMMA SilenceKeeps ==
    ASSUME IInv, Silence
    PROVE  IInv'
BY LeaseIsApart DEF Silence, IInv, PortOK

-----------------------------------------------------------------------------
(* Loading.                                                                *)

(* Where a step starts or ends that is not part of a save.                 *)
LEMMA OutsideSave ==
    ASSUME IInv, save = None, UNCHANGED fileVars
    PROVE  SaveOK' /\ FilesOK' /\ SteadyOK'
BY FilesKept, SteadyKept

LEMMA LoadKeeps ==
    ASSUME IInv, Load
    PROVE  IInv'
<1>1. save = None /\ ~packet /\ ~event /\ up = {}
    BY NoHooksNoPacket DEF Load, IInv, UpOK
<1>2. SaveOK' /\ FilesOK' /\ SteadyOK'
    BY <1>1, OutsideSave DEF Load
<1>3. PhaseOK' /\ TablesOK' /\ PortOK'
    BY InitOrderIs DEF Load, PhaseOK, TablesOK, PortOK
<1>4. FlagsOK' /\ PacketOK' /\ LeftoverOK'
    BY <1>1 DEF IInv, Load, FlagsOK, PacketOK, LeftoverOK, Hooks
<1>5. UpOK'
    BY <1>1 DEF Load, UpOK
<1> QED BY <1>2, <1>3, <1>4, <1>5 DEF IInv

LEMMA InitStepKeeps ==
    ASSUME IInv, InitStep
    PROVE  IInv'
<1> USE InitOrderIs
<1>1. step \in 1 .. 13 /\ phase = "init" /\ phase' \in {"init", "live"}
    BY DEF IInv, PhaseOK, InitStep
<1>2. SaveOK' /\ FilesOK' /\ SteadyOK'
    <2>1. save = None
        BY <1>1, NoSave DEF Saving
    <2> QED BY <2>1, OutsideSave DEF InitStep
<1>3. PhaseOK'
    BY <1>1 DEF InitStep, PhaseOK
<1>4. TablesOK'
    <2>1. CASE InitOrder[step] = "restore"
        <3>1. RestoredWl \subseteq Wl /\ RestoredBans \subseteq Key
            BY DEF RestoredWl, RestoredBans
        <3>2. CASE RestoreRows
            BY <3>1, <3>2 DEF IInv, RestoreRows, TablesOK
        <3>3. CASE UNCHANGED tableVars
            BY <3>3 DEF IInv, tableVars, TablesOK
        <3> QED BY <2>1, <3>2, <3>3 DEF InitStep, Restore
    <2>2. CASE InitOrder[step] # "restore"
        BY <2>2 DEF IInv, InitStep, TablesOK, tableVars
    <2> QED BY <2>1, <2>2
<1>5. PortOK' /\ FlagsOK'
    BY <1>1 DEF IInv, PortOK, FlagsOK, InitStep, leaseVars, flowVars
<1>6. UpOK'
    <2>1. InitOrder[step] \in Items \cup {"restore"} /\ up' \subseteq Items
        BY <1>1 DEF IInv, UpOK, InitStep, Items
    <2>2. phase' = "init" => up' = {InitOrder[i] : i \in 1 .. step' - 1} \ {"restore"}
        <3>1. SUFFICES ASSUME phase' = "init"
                       PROVE  up' = {InitOrder[i] : i \in 1 .. step' - 1} \ {"restore"}
            OBVIOUS
        <3>2. step' = step + 1
            BY <1>1, <3>1 DEF InitStep
        <3>3. 1 .. step' - 1 = (1 .. step - 1) \cup {step}
            BY <1>1, <3>2
        <3> QED BY <1>1, <3>3 DEF IInv, UpOK, InitStep
    <2> QED BY <1>1, <2>1, <2>2 DEF UpOK
<1>7. PacketOK'
    <2>1. up \subseteq up' /\ packet' = packet
        BY DEF InitStep, flowVars
    <2>2. CASE step >= 12
        <3>1. HookTables \subseteq {InitOrder[i] : i \in 1 .. step - 1} \ {"restore"}
            BY <1>1, <2>2 DEF HookTables
        <3> QED BY <1>1, <2>1, <3>1 DEF IInv, UpOK, PacketOK
    <2>3. CASE step < 12
        <3>1. up' \cap Hooks = {}
            <4>1. SUFFICES ASSUME NEW x \in up' \cap Hooks PROVE FALSE
                OBVIOUS
            <4>2. PICK i \in 1 .. 11 : x = InitOrder[i]
                BY <1>1, <2>3 DEF IInv, UpOK, InitStep
            <4>3. i \in {1, 2, 3, 4, 5, 6, 7, 8, 9, 10, 11}
                OBVIOUS
            <4> QED BY <4>2, <4>3 DEF Hooks
        <3> QED BY <1>1, <2>1, <3>1 DEF IInv, PacketOK
    <2> QED BY <1>1, <2>2, <2>3
<1>8. LeftoverOK'
    <2>1. /\ up \subseteq up' /\ event' = event /\ work' = work
          /\ phase' = "init" => step' = step + 1
        BY <1>1 DEF InitStep, flowVars
    <2>2. phase' = "init" /\ step' <= 7 => bans' = {}
        BY <1>1, <2>1 DEF IInv, LeftoverOK, InitStep, tableVars
    <2>3. phase' = "init" /\ step' <= 10 => ~work'
        BY <1>1, <2>1 DEF IInv, LeftoverOK
    <2> QED BY <1>1, <2>1, <2>2, <2>3 DEF IInv, LeftoverOK
<1> QED BY <1>2, <1>3, <1>4, <1>5, <1>6, <1>7, <1>8 DEF IInv

LEMMA UnloadKeeps ==
    ASSUME IInv, Unload
    PROVE  IInv'
<1>1. SaveOK' /\ FilesOK' /\ SteadyOK'
    BY NoSave, OutsideSave DEF Unload, Saving
<1>2. PhaseOK' /\ FlagsOK' /\ TablesOK' /\ PortOK'
    BY ExitOrderIs DEF IInv, Unload, PhaseOK, FlagsOK, TablesOK, PortOK, flowVars, tableVars, leaseVars
<1>3. UpOK' /\ PacketOK' /\ LeftoverOK'
    BY DEF IInv, Unload, UpOK, PacketOK, LeftoverOK, flowVars, tableVars
<1> QED BY <1>1, <1>2, <1>3 DEF IInv

(* From where a load fails to the place where it is undone.                *)
LEMMA FailsTo ==
    ASSUME IInv, InitFails
    PROVE  \/ step = 1 /\ phase' = "absent" /\ step' = 0
           \/ /\ phase' = "undo"
              /\ \/ step \in {6, 7} /\ step' = 6
                 \/ step \in {9, 10} /\ step' = 4
                 \/ step = 11 /\ step' = 3
                 \/ step = 12 /\ step' = 2
                 \/ step = 13 /\ step' = 1
<1> USE InitOrderIs, UndoOrderIs
<1>1. step \in {1, 2, 3, 4, 5, 6, 7, 8, 9, 10, 11, 12, 13}
    BY DEF IInv, PhaseOK, InitFails
<1>2. step \in {1, 6, 7, 9, 10, 11, 12, 13}
    <2>1. DOMAIN UndoLabel =
            {"stats", "rate", "netlink", "rebuild", "netdev", "procfs", "hook4", "hook6"}
        BY DEF UndoLabel
    <2>2. InitOrder[step] \in DOMAIN UndoLabel
        BY DEF InitFails
    <2> QED BY <1>1, <2>1, <2>2
<1>3. /\ UndoLabel["stats"] = None
      /\ UndoLabel["rate"] = UndoOrder[6] /\ UndoLabel["netlink"] = UndoOrder[6]
      /\ UndoLabel["rebuild"] = UndoOrder[4] /\ UndoLabel["netdev"] = UndoOrder[4]
      /\ UndoLabel["procfs"] = UndoOrder[3] /\ UndoLabel["hook4"] = UndoOrder[2]
      /\ UndoLabel["hook6"] = UndoOrder[1]
    BY DEF UndoLabel
<1>4. ASSUME NEW i \in 1 .. 11, UndoLabel[InitOrder[step]] = UndoOrder[i]
      PROVE  phase' = "undo" /\ step' = i
    <2>1. UndoOrder[i] # None
        BY LabelAssumption
    <2>2. Position(UndoOrder, UndoOrder[i]) = i
        BY LabelIsStep
    <2> QED BY <1>4, <2>1, <2>2 DEF InitFails
<1>5. CASE step = 1
    BY <1>3, <1>5 DEF InitFails
<1>6. CASE step \in {6, 7}
    <2>1. UndoLabel[InitOrder[step]] = UndoOrder[6]
        BY <1>3, <1>6
    <2> QED BY <1>4, <1>6, <2>1
<1>7. CASE step \in {9, 10}
    <2>1. UndoLabel[InitOrder[step]] = UndoOrder[4]
        BY <1>3, <1>7
    <2> QED BY <1>4, <1>7, <2>1
<1>8. CASE step = 11
    <2>1. UndoLabel[InitOrder[step]] = UndoOrder[3]
        BY <1>3, <1>8
    <2> QED BY <1>4, <1>8, <2>1
<1>9. CASE step = 12
    <2>1. UndoLabel[InitOrder[step]] = UndoOrder[2]
        BY <1>3, <1>9
    <2> QED BY <1>4, <1>9, <2>1
<1>10. CASE step = 13
    <2>1. UndoLabel[InitOrder[step]] = UndoOrder[1]
        BY <1>3, <1>10
    <2> QED BY <1>4, <1>10, <2>1
<1> QED BY <1>2, <1>5, <1>6, <1>7, <1>8, <1>9, <1>10

(* While loading, the items from the position on are not set up.           *)
LEMMA NotYetUp ==
    ASSUME IInv, phase = "init", NEW j \in DOMAIN InitOrder, j >= step
    PROVE  InitOrder[j] \notin up
<1> USE InitOrderIs
<1>1. step \in 1 .. 13
    BY DEF IInv, PhaseOK
<1>2. SUFFICES ASSUME NEW i \in 1 .. step - 1, InitOrder[i] = InitOrder[j] PROVE FALSE
    BY DEF IInv, UpOK
<1>3. /\ i \in {1, 2, 3, 4, 5, 6, 7, 8, 9, 10, 11, 12, 13}
      /\ j \in {1, 2, 3, 4, 5, 6, 7, 8, 9, 10, 11, 12, 13}
      /\ i < j
    BY <1>1
<1> QED BY <1>2, <1>3

LEMMA InitFailsKeeps ==
    ASSUME IInv, InitFails
    PROVE  IInv'
<1> USE InitOrderIs, UndoOrderIs
<1>1. /\ phase = "init" /\ step \in 1 .. 13
      /\ UNCHANGED <<up, shutting, flowVars, tableVars, fileVars, leaseVars>>
    BY DEF IInv, PhaseOK, InitFails
<1>2. SaveOK' /\ FilesOK' /\ SteadyOK'
    BY <1>1, NoSave, OutsideSave DEF Saving
<1>3. PhaseOK' /\ phase' \in {"absent", "undo"}
    BY FailsTo DEF PhaseOK
<1>4. TablesOK' /\ PortOK' /\ FlagsOK'
    BY <1>1, <1>3
    DEF IInv, TablesOK, PortOK, FlagsOK, tableVars, leaseVars, flowVars
<1>5. UpOK'
    <2>1. CASE phase' = "absent"
        <3>1. step = 1
            BY <2>1, FailsTo
        <3>2. 1 .. step - 1 = {}
            BY <3>1
        <3>3. up = {}
            BY <1>1, <3>2 DEF IInv, UpOK
        <3> QED BY <1>1, <2>1, <3>3 DEF UpOK
    <2>2. CASE phase' = "undo"
        <3>1. "hook6" \notin up
            BY <1>1, NotYetUp
        <3>2. step' \in 1 .. 6
            BY <2>2, FailsTo
        <3>3. ASSUME NEW i \in 1 .. step' - 1 PROVE UndoOrder[i] \notin up
            <4>1. i \in {1, 2, 3, 4, 5} /\ i < step'
                <5>1. step' \in {1, 2, 3, 4, 5, 6}
                    BY <3>2
                <5>2. \A n \in {1, 2, 3, 4, 5, 6} : \A j \in 1 .. n - 1 : j \in {1, 2, 3, 4, 5} /\ j < n
                    OBVIOUS
                <5> QED BY <3>3, <5>1, <5>2
            <4>2. UndoOrder[4] \notin up
                <5>1. "cancel" \notin Items
                    BY ItemsAre
                <5> QED BY <5>1 DEF IInv, UpOK
            <4>3. i >= 1 => step <= 12
                BY <2>2, <4>1, FailsTo
            <4>4. i >= 2 => step <= 11
                BY <2>2, <4>1, FailsTo
            <4>5. i >= 3 => step <= 10
                BY <2>2, <4>1, FailsTo
            <4>6. i >= 5 => step <= 7
                BY <2>2, <4>1, FailsTo
            <4>7. step <= 12 => "hook4" \notin up
                BY <1>1, NotYetUp
            <4>8. step <= 11 => "procfs" \notin up
                BY <1>1, NotYetUp
            <4>9. step <= 10 => "netdev" \notin up
                BY <1>1, NotYetUp
            <4>10. step <= 7 => "netlink" \notin up
                BY <1>1, NotYetUp
            <4> QED BY <4>1, <4>2, <4>3, <4>4, <4>5, <4>6, <4>7, <4>8, <4>9, <4>10
        <3>4. up' \subseteq Items /\ up' = up
            BY <1>1 DEF IInv, UpOK
        <3>5. up \cap {UndoOrder[i] : i \in 1 .. step' - 1} = {}
            BY <3>3
        <3>6. ~(step' > 10)
            BY <3>2
        <3> QED BY <2>2, <3>1, <3>4, <3>5, <3>6 DEF UpOK
    <2> QED BY <1>3, <2>1, <2>2
<1>6. PacketOK'
    BY <1>1, <1>3, FailsTo DEF IInv, PacketOK, flowVars
<1>7. LeftoverOK'
    BY <1>1, <1>3, FailsTo DEF IInv, LeftoverOK, flowVars, tableVars
<1> QED BY <1>2, <1>3, <1>4, <1>5, <1>6, <1>7 DEF IInv

-----------------------------------------------------------------------------
(* Tearing down.                                                           *)

LEMMA TearDownTables ==
    ASSUME IInv, NEW s, TearDown(s), save = None
    PROVE  TablesOK' /\ PortOK' /\ SaveOK' /\ FilesOK' /\ SteadyOK' /\ up' \subseteq up
<1>1. TablesOK' /\ PortOK'
    BY DEF IInv, TearDown, TablesOK, PortOK
<1> QED BY <1>1, OutsideSave DEF TearDown

LEMMA UndoKeeps ==
    ASSUME IInv, Undo
    PROVE  IInv'
<1> USE UndoOrderIs
<1> DEFINE s == UndoOrder[step]
<1>1. /\ phase = "undo" /\ step \in 1 .. 11 /\ save = None /\ phase' \in {"undo", "absent"}
      /\ TearDown(s)
      /\ phase' = "undo" => step' = step + 1 /\ step < 11
      /\ phase' = "absent" => step = 11 /\ step' = 0
    BY NoSave DEF IInv, PhaseOK, Undo, Saving
<1>2. TablesOK' /\ PortOK' /\ SaveOK' /\ FilesOK' /\ SteadyOK' /\ up' \subseteq up
    BY <1>1, TearDownTables
<1>3. PhaseOK'
    BY <1>1 DEF PhaseOK
<1>4. FlagsOK'
    BY <1>1 DEF IInv, FlagsOK, TearDown
<1>5. /\ up \cap {UndoOrder[i] : i \in 1 .. step - 1} = {} /\ "hook6" \notin up
      /\ step > 10 => "rebuild" \notin up
      /\ up \subseteq Items
    BY <1>1 DEF IInv, UpOK
<1>6. ASSUME NEW i \in 1 .. step PROVE UndoOrder[i] \notin up'
    <2>1. CASE i = step
        BY <1>1, <2>1 DEF TearDown
    <2>2. CASE i # step
        <3>1. i \in 1 .. step - 1
            BY <1>1, <1>6, <2>2
        <3> QED BY <1>2, <1>5, <3>1
    <2> QED BY <2>1, <2>2
<1>7. step >= 10 => "rebuild" \notin up'
    BY <1>1, <1>2, <1>5 DEF TearDown
<1>8. UpOK'
    <2>1. CASE phase' = "undo"
        <3>1. 1 .. step' - 1 = 1 .. step
            BY <1>1, <2>1
        <3>2. up' \cap {UndoOrder[i] : i \in 1 .. step' - 1} = {}
            BY <1>6, <3>1
        <3>3. step' > 10 => step >= 10
            BY <1>1, <2>1
        <3> QED BY <1>2, <1>5, <1>7, <2>1, <3>2, <3>3 DEF UpOK
    <2>2. CASE phase' = "absent"
        <3>1. \A i \in {1, 2, 3, 4, 5, 6, 7, 8, 9, 10, 11} : UndoOrder[i] \notin up'
            BY <1>1, <1>6, <2>2
        <3>2. "rebuild" \notin up'
            BY <1>1, <1>7, <2>2
        <3>3. up' = {}
            BY <1>2, <1>5, <3>1, <3>2, ItemsAre
        <3> QED BY <2>2, <3>3 DEF UpOK
    <2> QED BY <1>1, <2>1, <2>2
<1>9. PacketOK'
    <2>1. step \in {1, 2, 3, 4, 5, 6, 7, 8, 9, 10, 11}
        BY <1>1
    <2>2. CASE step \in {1, 2, 3, 4, 5}
        <3>1. up \cap HookTables \subseteq up'
            BY <1>1, <2>2 DEF TearDown, HookTables
        <3>2. packet' = packet
            BY <1>1 DEF TearDown
        <3>3. packet' \/ up' \cap Hooks # {} => HookTables \subseteq up'
            BY <1>2, <3>1, <3>2 DEF IInv, PacketOK
        <3> QED BY <1>1, <2>2, <3>3 DEF PacketOK
    <2>3. CASE step \in {6, 7, 8, 9, 10, 11}
        <3>1. up' \cap Hooks = {}
            <4>1. UndoOrder[1] \in {UndoOrder[i] : i \in 1 .. step - 1}
                BY <2>3
            <4> QED BY <1>2, <1>5, <4>1 DEF Hooks
        <3>2. ~packet
            BY <1>1, <2>3 DEF IInv, PacketOK, TearDown, Waits
        <3> QED BY <1>1, <3>1, <3>2 DEF PacketOK, TearDown
    <2> QED BY <2>1, <2>2, <2>3
<1>10. LeftoverOK'
    <2>1. event' => "netdev" \in up'
        BY <1>1 DEF IInv, LeftoverOK, TearDown, Waits
    <2>2. step >= 4 => ~work'
        <3>1. work' => work /\ s # "cancel"
            BY <1>1 DEF TearDown
        <3>2. step > 4 => ~work
            BY <1>1 DEF IInv, LeftoverOK
        <3>3. step = 4 => s = "cancel"
            OBVIOUS
        <3> HIDE DEF s
        <3> QED BY <1>1, <3>1, <3>2, <3>3
    <2>3. step >= 7 => bans' = {}
        BY <1>1 DEF IInv, LeftoverOK, TearDown
    <2> QED BY <1>1, <2>1, <2>2, <2>3 DEF LeftoverOK
<1> QED BY <1>2, <1>3, <1>4, <1>8, <1>9, <1>10 DEF IInv

LEMMA ExitStepKeeps ==
    ASSUME IInv, ExitStep
    PROVE  IInv'
<1> USE ExitOrderIs
<1> DEFINE s == ExitOrder[step]
<1>1. /\ phase = "exit" /\ step \in 1 .. 16 /\ save = None /\ phase' \in {"exit", "absent"}
      /\ TearDown(s)
      /\ phase' = "exit" => step' = step + 1 /\ step < 16
      /\ phase' = "absent" => step = 16 /\ step' = 0
    BY NoSave DEF IInv, PhaseOK, ExitStep, Saving
<1>2. TablesOK' /\ PortOK' /\ SaveOK' /\ FilesOK' /\ SteadyOK' /\ up' \subseteq up
    BY <1>1, TearDownTables
<1>3. PhaseOK'
    BY <1>1 DEF PhaseOK
<1>4. FlagsOK' /\ shutting'
    <2>1. shutting'
        <3>1. step > 1 => shutting
            BY <1>1 DEF IInv, FlagsOK
        <3>2. step = 1 => s = "shutting"
            OBVIOUS
        <3>3. shutting \/ s = "shutting" => shutting'
            BY <1>1 DEF TearDown
        <3> HIDE DEF s
        <3> QED BY <1>1, <3>1, <3>2, <3>3
    <2>2. /\ shutting' \in BOOLEAN /\ work' \in BOOLEAN
          /\ UNCHANGED <<packet, event>>
        BY <1>1 DEF IInv, FlagsOK, TearDown
    <2> QED BY <2>1, <2>2 DEF IInv, FlagsOK
<1>5. /\ up \cap {ExitOrder[i] : i \in 1 .. step - 1} = {}
      /\ step > 14 => "rebuild" \notin up
      /\ up \subseteq Items
    BY <1>1 DEF IInv, UpOK
<1>6. ASSUME NEW i \in 1 .. step PROVE ExitOrder[i] \notin up'
    <2>1. CASE i = step
        BY <1>1, <2>1 DEF TearDown
    <2>2. CASE i # step
        <3>1. i \in 1 .. step - 1
            BY <1>1, <1>6, <2>2
        <3> QED BY <1>2, <1>5, <3>1
    <2> QED BY <2>1, <2>2
<1>7. step >= 14 => "rebuild" \notin up'
    BY <1>1, <1>2, <1>5 DEF TearDown
<1>8. UpOK'
    <2>1. CASE phase' = "exit"
        <3>1. 1 .. step' - 1 = 1 .. step
            BY <1>1, <2>1
        <3>2. up' \cap {ExitOrder[i] : i \in 1 .. step' - 1} = {}
            BY <1>6, <3>1
        <3>3. step' > 14 => step >= 14
            BY <1>1, <2>1
        <3> QED BY <1>2, <1>5, <1>7, <2>1, <3>2, <3>3 DEF UpOK
    <2>2. CASE phase' = "absent"
        <3>1. \A i \in {3, 4, 6, 7, 10, 11, 12, 13, 14, 15, 16} : ExitOrder[i] \notin up'
            BY <1>1, <1>6, <2>2
        <3>2. "rebuild" \notin up'
            BY <1>1, <1>7, <2>2
        <3>3. up' = {}
            BY <1>2, <1>5, <3>1, <3>2, ItemsAre
        <3> QED BY <2>2, <3>3 DEF UpOK
    <2> QED BY <1>1, <2>1, <2>2
<1>9. PacketOK'
    <2>1. step \in {1, 2, 3, 4, 5, 6, 7, 8, 9, 10, 11, 12, 13, 14, 15, 16}
        BY <1>1
    <2>2. CASE step \in {1, 2, 3, 4}
        <3>1. up \cap HookTables \subseteq up'
            BY <1>1, <2>2 DEF TearDown, HookTables
        <3>2. packet' = packet
            BY <1>1 DEF TearDown
        <3>3. packet' \/ up' \cap Hooks # {} => HookTables \subseteq up'
            BY <1>2, <3>1, <3>2 DEF IInv, PacketOK
        <3> QED BY <1>1, <2>2, <3>3 DEF PacketOK
    <2>3. CASE step \in {5, 6, 7, 8, 9, 10, 11, 12, 13, 14, 15, 16}
        <3>1. up' \cap Hooks = {}
            <4>1. /\ ExitOrder[3] \in {ExitOrder[i] : i \in 1 .. step - 1}
                  /\ ExitOrder[4] \in {ExitOrder[i] : i \in 1 .. step - 1}
                BY <2>3
            <4> QED BY <1>2, <1>5, <4>1 DEF Hooks
        <3>2. ~packet
            BY <1>1, <2>3 DEF IInv, PacketOK, TearDown, Waits
        <3> QED BY <1>1, <3>1, <3>2 DEF PacketOK, TearDown
    <2> QED BY <2>1, <2>2, <2>3
<1>10. LeftoverOK'
    <2>1. event' => "netdev" \in up'
        BY <1>1 DEF IInv, LeftoverOK, TearDown, Waits
    <2> QED BY <1>1, <1>4, <2>1 DEF LeftoverOK
<1> QED BY <1>2, <1>3, <1>4, <1>8, <1>9, <1>10 DEF IInv

-----------------------------------------------------------------------------
(* The save, and what a power cut leaves.                                  *)

LEMMA SaveControl ==
    ASSUME IInv, Saving, UnchangedBySave, step' \in {step, step + 1}
    PROVE  /\ PhaseOK' /\ FlagsOK' /\ TablesOK' /\ PortOK' /\ UpOK' /\ PacketOK' /\ LeftoverOK'
           /\ phase' = "exit" /\ (step' = step => Saving')
<1> USE ExitOrderIs
<1>1. phase = "exit" /\ phase' = "exit" /\ step = 9 /\ step' \in {9, 10}
    <2>1. step \in {1, 2, 3, 4, 5, 6, 7, 8, 9, 10, 11, 12, 13, 14, 15, 16}
        BY DEF IInv, PhaseOK, Saving
    <2> QED BY <2>1 DEF Saving, UnchangedBySave
<1>2. PhaseOK' /\ (step' = step => Saving')
    BY <1>1 DEF PhaseOK, Saving
<1>3. FlagsOK' /\ TablesOK' /\ PortOK' /\ PacketOK' /\ LeftoverOK'
    BY <1>1
    DEF IInv, FlagsOK, TablesOK, PortOK, PacketOK, LeftoverOK, UnchangedBySave, flowVars,
        tableVars, leaseVars
<1>4. UpOK'
    <2>1. up' = up /\ up \subseteq Items
        BY DEF IInv, UpOK, UnchangedBySave
    <2>2. ASSUME NEW i \in 1 .. step' - 1 PROVE ExitOrder[i] \notin up
        <3>1. i \in 1 .. step - 1 \/ i = 9
            <4>1. step - 1 = 8 /\ step' - 1 \in {8, 9}
                BY <1>1
            <4>2. i \in 1 .. 9
                BY <2>2, <4>1
            <4> QED BY <4>1, <4>2
        <3>2. "save" \notin Items
            BY ItemsAre
        <3>3. ASSUME i \in 1 .. step - 1 PROVE ExitOrder[i] \notin up
            BY <1>1, <3>3 DEF IInv, UpOK
        <3> QED BY <2>1, <3>1, <3>2, <3>3
    <2>3. up' \cap {ExitOrder[i] : i \in 1 .. step' - 1} = {}
        BY <2>1, <2>2
    <2>4. ~(step' > 14)
        BY <1>1
    <2> QED BY <1>1, <2>1, <2>3, <2>4 DEF UpOK
<1> QED BY <1>1, <1>2, <1>3, <1>4

(* The save ends, and the module goes on to the next step.                 *)
LEMMA SaveLeft ==
    ASSUME IInv, Saving, UnchangedBySave, step' = step + 1, save' = None, tmp' = None, FilesOK'
    PROVE  IInv'
<1>1. SaveOK' /\ SteadyOK'
    BY DEF SaveOK, SteadyOK
<1> QED BY <1>1, SaveControl DEF IInv

LEMMA RowIsPositive ==
    ASSUME NEW S, NEW i \in DOMAIN KeyOrder, KeyOrder[i] \in S
    PROVE  RowNumber(KeyOrder, S, i) \in Nat \ {0}
<1> DEFINE A == {j \in 1 .. i : KeyOrder[j] \in S}
<1>1. i \in Nat \ {0}
    BY LifeAssumption
<1>2. i \in A
    BY <1>1
<1>3. IsFiniteSet(A)
    <2>1. IsFiniteSet(1 .. i) /\ A \subseteq 1 .. i
        BY <1>1, FS_Interval
    <2> QED BY <2>1, FS_Subset
<1>4. Cardinality(A) \in Nat /\ Cardinality(A) # 0
    BY <1>2, <1>3, FS_EmptySet, FS_CardinalityType
<1> QED BY <1>4 DEF RowNumber

LEMMA SaveOpenKeeps ==
    ASSUME IInv, SaveOpen
    PROVE  IInv'
<1>1. FilesOK'
    <2>1. FilesOK' = FilesOK
        BY DEF FilesOK, IsWhole, SaveOpen
    <2> QED BY <2>1 DEF IInv
<1>2. /\ save' = [at |-> "bans", offset |-> 0, shrunk |-> FALSE, steady |-> bans \ due,
                   cut |-> {}]
      /\ tmp' = [rows |-> {}, crc |-> FALSE, synced |-> FALSE, whole |-> FALSE]
      /\ save' \in SaveRecord /\ tmp' \in FileRecord
    BY DEF SaveOpen, SaveRecord, FileRecord, IInv, TablesOK
<1>3. save' # None /\ tmp' # None
    BY <1>2, LifeAssumption
<1>4. /\ PhaseOK' /\ FlagsOK' /\ TablesOK' /\ PortOK' /\ UpOK' /\ PacketOK' /\ LeftoverOK'
      /\ Saving'
    BY SaveControl DEF SaveOpen
<1>5. SaveOK'
    BY <1>2, <1>3, <1>4 DEF SaveOK
<1>6. SteadyOK'
    <2>1. bans' = bans /\ due' = due
        BY DEF SaveOpen, UnchangedBySave, tableVars
    <2>2. ASSUME NEW i \in DOMAIN KeyOrder, KeyOrder[i] \in bans
          PROVE  ~(RowNumber(KeyOrder, bans, i) <= 0)
        BY <2>2, RowIsPositive
    <2> QED BY <1>2, <2>1, <2>2 DEF SteadyOK, RowNumber
<1> QED BY <1>1, <1>4, <1>5, <1>6 DEF IInv

LEMMA PageIsListed ==
    ASSUME NEW S, NEW order
    PROVE  PageOf(order, S) \subseteq S
BY DEF PageOf

LEMMA CutIsListed ==
    ASSUME NEW S, NEW order, NEW limit
    PROVE  CutOff(order, S, limit) \subseteq S
BY DEF CutOff

Stopped(order, S, limit) == PageOf(order, S) \cap CutOff(order, S, limit) # {}

(* What a page does to the two records.                                    *)
LEMMA PageRecords ==
    ASSUME SaveOK, NEW at \in {"bans", "wl"}, NEW next \in {"wl", "crc"}, NEW order, NEW S \in SUBSET (Key \cup Wl),
           save # None, save.at = at, NEW limit \in Limits,
           PageWithin(limit, at, order, S, next)
    PROVE  /\ save \in SaveRecord /\ tmp \in FileRecord /\ save # None
           /\ tmp' \in FileRecord /\ tmp' # None /\ save' # None
           /\ tmp'.rows = tmp.rows \cup (PageOf(order, S) \ (due \cup CutOff(order, S, limit)))
           /\ at = "wl" /\ (Short(S) \/ Stopped(order, S, limit)) => tmp'.whole
           /\ save' \in SaveRecord /\ save'.shrunk = save.shrunk /\ save'.steady = save.steady
           /\ Short(S) \/ Stopped(order, S, limit) => save'.at = next
           /\ ~(Short(S) \/ Stopped(order, S, limit)) =>
                 save'.at = at /\ save'.offset = save.offset + Page
           /\ Stopped(order, S, limit) => save'.cut = save.cut \cup CutOff(order, S, limit)
           /\ ~Stopped(order, S, limit) => save'.cut = save.cut
<1> DEFINE beyond == CutOff(order, S, limit)
           stopped == Stopped(order, S, limit)
           last == Short(S) \/ stopped
           fresh_at == IF last THEN next ELSE at
           fresh_offset == IF last THEN 0 ELSE save.offset + Page
           fresh_cut == IF stopped THEN save.cut \cup beyond ELSE save.cut
           fresh_rows == tmp.rows \cup (PageOf(order, S) \ (due \cup beyond))
<1>1. save \in SaveRecord /\ tmp \in FileRecord /\ save.at = at /\ save # None
    BY DEF SaveOK
<1>2. tmp' = [tmp EXCEPT !.rows = fresh_rows, !.whole = (at = "wl" /\ last)]
    BY DEF PageWithin, Stopped
<1>3. save' = [save EXCEPT !.at = fresh_at, !.offset = fresh_offset, !.cut = fresh_cut]
    BY DEF PageWithin, Stopped
<1>4. /\ fresh_rows \subseteq Key \cup Wl
      /\ fresh_cut \subseteq Key \cup Wl
    BY <1>1, PageIsListed, CutIsListed DEF FileRecord, SaveRecord
<1>5. fresh_offset \in Nat /\ fresh_at \in {"bans", "wl", "crc", "fsync", "replace"}
    BY <1>1, LifeAssumption DEF SaveRecord
<1>6. (at = "wl" /\ last) \in BOOLEAN
    OBVIOUS
<1> HIDE DEF fresh_rows, fresh_cut, fresh_offset, fresh_at, last
<1>7. /\ tmp' \in FileRecord /\ tmp'.rows = fresh_rows /\ tmp'.whole = (at = "wl" /\ last)
    BY <1>1, <1>2, <1>4, <1>6 DEF FileRecord
<1>8. /\ save' \in SaveRecord /\ save'.shrunk = save.shrunk /\ save'.steady = save.steady
      /\ save'.at = fresh_at /\ save'.offset = fresh_offset /\ save'.cut = fresh_cut
    BY <1>1, <1>3, <1>4, <1>5 DEF SaveRecord
<1>9. tmp' # None /\ save' # None
    BY <1>7, <1>8, LifeAssumption
<1> QED BY <1>1, <1>7, <1>8, <1>9 DEF fresh_rows, fresh_cut, fresh_offset, fresh_at, last

(* The page with which a pass ends, and one that the limit cuts short.     *)
LEMMA LastPage ==
    ASSUME SaveOK, NEW at \in {"bans", "wl"}, NEW next \in {"wl", "crc"}, NEW order,
           NEW S \in SUBSET (Key \cup Wl), save # None, save.at = at, NEW limit \in Limits,
           PageWithin(limit, at, order, S, next), Short(S) \/ Stopped(order, S, limit)
    PROVE  save'.at = next /\ (at = "wl" => tmp'.whole)
BY DEF SaveOK, SaveRecord, FileRecord, PageWithin, Stopped

LEMMA StoppedPage ==
    ASSUME SaveOK, NEW at \in {"bans", "wl"}, NEW next \in {"wl", "crc"}, NEW order,
           NEW S \in SUBSET (Key \cup Wl), save # None, save.at = at, NEW limit \in Limits,
           PageWithin(limit, at, order, S, next), Stopped(order, S, limit)
    PROVE  save'.cut = save.cut \cup CutOff(order, S, limit)
BY DEF SaveOK, SaveRecord, PageWithin, Stopped

LEMMA SavePageKeeps ==
    ASSUME IInv, NEW at, NEW next \in {"wl", "crc"}, NEW order, NEW S \in SUBSET (Key \cup Wl),
           SavePage(at, order, S, next), SteadyOK', at \in {"bans", "wl"},
           at = "bans" <=> next = "wl"
    PROVE  IInv'
<1>1. FilesOK'
    <2>1. FilesOK' = FilesOK
        BY DEF FilesOK, IsWhole, SavePage
    <2> QED BY <2>1 DEF IInv
<1>2. /\ PhaseOK' /\ FlagsOK' /\ TablesOK' /\ PortOK' /\ UpOK' /\ PacketOK' /\ LeftoverOK'
      /\ Saving'
    BY SaveControl DEF SavePage
<1>3. SaveOK'
    <2>1. /\ save # None /\ save.at = at
          /\ \E limit \in Limits : PageWithin(limit, at, order, S, next)
        BY DEF SavePage
    <2> PICK limit \in Limits : PageWithin(limit, at, order, S, next)
        BY <2>1
    <2> DEFINE last == Short(S) \/ Stopped(order, S, limit)
    <2>2. SaveOK
        BY DEF IInv
    <2>3. tmp' \in FileRecord /\ tmp' # None /\ save' \in SaveRecord
        BY <2>1, <2>2, PageRecords, Zenon
    <2>4. ASSUME last PROVE save'.at = next
        BY <2>1, <2>2, <2>4, LastPage, Zenon
    <2>5. ~last => save'.at = at
        BY <2>1, <2>2, PageRecords, Zenon
    <2>6. at = "wl" /\ last => tmp'.whole
        BY <2>1, <2>2, PageRecords, Zenon
    <2> HIDE DEF last
    <2>7. save'.at \in {"bans", "wl", "crc"} /\ (save'.at = "crc" => tmp'.whole)
        BY <2>4, <2>5, <2>6
    <2> QED BY <1>2, <2>3, <2>7 DEF SaveOK
<1> QED BY <1>1, <1>2, <1>3 DEF IInv

LEMMA SaveBansKeeps ==
    ASSUME IInv, SaveBans
    PROVE  IInv'
<1>1. bans \in SUBSET (Key \cup Wl)
    BY DEF IInv, TablesOK
<1>2. SteadyOK'
    <2> DEFINE Row(i) == RowNumber(KeyOrder, bans, i)
    <2>1. PICK limit \in Limits : /\ save # None /\ save.at = "bans"
                                  /\ PageWithin(limit, "bans", KeyOrder, bans, "wl")
        BY DEF SaveBans, SavePage
    <2> DEFINE beyond == CutOff(KeyOrder, bans, limit)
               stopped == Stopped(KeyOrder, bans, limit)
    <2>2. /\ save \in SaveRecord /\ save # None /\ save.at = "bans" /\ UNCHANGED <<bans, due>>
          /\ SteadyOK
          /\ tmp'.rows = tmp.rows \cup (PageOf(KeyOrder, bans) \ (due \cup beyond))
          /\ save'.shrunk = save.shrunk /\ save'.steady = save.steady
          /\ Short(bans) \/ stopped => save'.at = "wl"
          /\ ~(Short(bans) \/ stopped) => save'.at = "bans" /\ save'.offset = save.offset + Page
          /\ stopped => save'.cut = save.cut \cup beyond
          /\ ~stopped => save'.cut = save.cut
        <3>1. SaveOK /\ "bans" \in {"bans", "wl"} /\ "wl" \in {"wl", "crc"}
            BY DEF IInv
        <3>2. UNCHANGED <<bans, due>> /\ SteadyOK
            BY DEF SaveBans, SavePage, UnchangedBySave, tableVars, IInv
        <3>3. /\ save \in SaveRecord
              /\ tmp'.rows = tmp.rows \cup (PageOf(KeyOrder, bans) \ (due \cup beyond))
              /\ save'.shrunk = save.shrunk /\ save'.steady = save.steady
              /\ Short(bans) \/ stopped => save'.at = "wl"
              /\ ~(Short(bans) \/ stopped) =>
                    save'.at = "bans" /\ save'.offset = save.offset + Page
              /\ stopped => save'.cut = save.cut \cup beyond
              /\ ~stopped => save'.cut = save.cut
            BY <1>1, <2>1, <3>1, PageRecords, Zenon
        <3> QED BY <2>1, <3>2, <3>3
    <2>3. SUFFICES ASSUME ~save.shrunk PROVE SteadyOK'
        BY <2>2 DEF SteadyOK
    <2>4. save.steady \subseteq bans \ due
        BY <2>2, <2>3 DEF SteadyOK
    <2>5. save.offset \in Nat /\ Page \in Nat \ {0} /\ limit \in Nat
        BY <2>2, LifeAssumption DEF SaveRecord
    <2>6. ASSUME NEW i \in DOMAIN KeyOrder, KeyOrder[i] \in save.steady
          PROVE  Row(i) \in Nat /\ KeyOrder[i] \in bans /\ KeyOrder[i] \notin due
        <3>1. KeyOrder[i] \in bans /\ KeyOrder[i] \notin due
            BY <2>4, <2>6
        <3> QED BY <3>1, RowIsPositive
    <2>7. ASSUME NEW i \in DOMAIN KeyOrder, KeyOrder[i] \in save.steady, Row(i) <= save.offset
          PROVE  KeyOrder[i] \in tmp'.rows
        BY <2>2, <2>3, <2>7 DEF SteadyOK
    <2>8. ASSUME NEW i \in DOMAIN KeyOrder, KeyOrder[i] \in save.steady,
                 ~(Row(i) <= save.offset), Row(i) > limit
          PROVE  KeyOrder[i] \in beyond
        <3> DEFINE B == {n \in DOMAIN KeyOrder : /\ KeyOrder[n] \in bans
                                                 /\ Row(n) > limit /\ Row(n) > save.offset}
        <3>1. i \in B
            BY <2>5, <2>6, <2>8
        <3>2. beyond = {KeyOrder[n] : n \in B}
            BY DEF CutOff
        <3> HIDE DEF B
        <3> QED BY <3>1, <3>2
    <2>9. ASSUME NEW i \in DOMAIN KeyOrder, KeyOrder[i] \in save.steady,
                 ~(Row(i) <= save.offset), Row(i) <= save.offset + Page
          PROVE  KeyOrder[i] \in PageOf(KeyOrder, bans)
        <3> DEFINE P == {n \in DOMAIN KeyOrder : /\ KeyOrder[n] \in bans
                              /\ Row(n) \in save.offset + 1 .. save.offset + Page}
        <3>1. i \in P
            BY <2>5, <2>6, <2>9
        <3>2. PageOf(KeyOrder, bans) = {KeyOrder[n] : n \in P}
            BY DEF PageOf
        <3> HIDE DEF P
        <3> QED BY <3>1, <3>2
    <2>10. ASSUME NEW i \in DOMAIN KeyOrder, KeyOrder[i] \in save.steady,
                  Row(i) <= save.offset + Page
           PROVE  KeyOrder[i] \in tmp'.rows \cup beyond
        BY <2>2, <2>6, <2>7, <2>9, <2>10
    <2>11. CASE stopped
        <3>1. limit < save.offset + Page
            <4>1. PICK x : x \in PageOf(KeyOrder, bans) /\ x \in beyond
                BY <2>11 DEF Stopped
            <4>2. PICK i \in DOMAIN KeyOrder :
                        x = KeyOrder[i] /\ Row(i) \in save.offset + 1 .. save.offset + Page
                BY <4>1 DEF PageOf
            <4>3. PICK j \in DOMAIN KeyOrder : x = KeyOrder[j] /\ Row(j) > limit
                BY <4>1 DEF CutOff
            <4>4. i = j
                BY <4>2, <4>3, LifeAssumption
            <4> QED BY <2>5, <4>2, <4>3, <4>4
        <3>2. ASSUME NEW x \in save.steady PROVE x \in tmp'.rows \cup save'.cut
            <4>1. PICK i \in DOMAIN KeyOrder : x = KeyOrder[i]
                BY <2>4 DEF IInv, TablesOK, Key
            <4>2. Row(i) \in Nat
                BY <2>6, <4>1
            <4>3. CASE Row(i) <= limit
                <5>1. Row(i) <= save.offset + Page
                    BY <2>5, <3>1, <4>2, <4>3
                <5> QED BY <2>2, <2>10, <2>11, <4>1, <5>1
            <4>4. CASE ~(Row(i) <= limit)
                <5>1. Row(i) > limit
                    BY <2>5, <4>2, <4>4
                <5> QED BY <2>2, <2>7, <2>8, <2>11, <4>1, <5>1
            <4> QED BY <4>3, <4>4
        <3> QED BY <2>2, <2>4, <2>11, <3>2 DEF SteadyOK
    <2>12. ASSUME ~stopped, NEW i \in DOMAIN KeyOrder, KeyOrder[i] \in save.steady,
                  Row(i) <= save.offset + Page
           PROVE  KeyOrder[i] \in tmp'.rows
        <3>1. CASE Row(i) <= save.offset
            BY <2>7, <2>12, <3>1
        <3>2. CASE ~(Row(i) <= save.offset)
            <4>1. KeyOrder[i] \in PageOf(KeyOrder, bans)
                BY <2>9, <2>12, <3>2
            <4>2. KeyOrder[i] \notin beyond
                BY <2>12, <4>1 DEF Stopped
            <4> QED BY <2>2, <2>6, <2>12, <4>1, <4>2
        <3> QED BY <3>1, <3>2
    <2>13. CASE Short(bans) /\ ~stopped
        <3>1. ASSUME NEW x \in save.steady PROVE x \in tmp'.rows
            <4>1. PICK i \in DOMAIN KeyOrder : x = KeyOrder[i]
                BY <2>4 DEF IInv, TablesOK, Key
            <4>2. /\ Cardinality(bans) \in Nat
                  /\ Row(i) <= Cardinality(bans)
                BY RowIsWithin DEF IInv, TablesOK
            <4>3. Row(i) <= save.offset + Page
                BY <2>5, <2>6, <2>13, <4>1, <4>2 DEF Short
            <4> QED BY <2>12, <2>13, <4>1, <4>3
        <3> QED BY <2>2, <2>4, <2>13, <3>1 DEF SteadyOK
    <2>14. CASE ~Short(bans) /\ ~stopped
        <3>1. \A i : RowNumber(KeyOrder, bans, i)' = RowNumber(KeyOrder, bans, i)
            BY <2>2 DEF RowNumber
        <3>2. save'.at = "bans" /\ save'.steady = save.steady /\ save'.offset = save.offset + Page
            BY <2>2, <2>14
        <3> QED BY <2>2, <2>4, <2>12, <2>14, <3>1, <3>2 DEF SteadyOK, RowNumber
    <2> QED BY <2>11, <2>13, <2>14
<1> QED BY <1>1, <1>2, SavePageKeeps DEF SaveBans

LEMMA SaveWlKeeps ==
    ASSUME IInv, SaveWl
    PROVE  IInv'
<1>1. wl \in SUBSET (Key \cup Wl)
    BY DEF IInv, TablesOK
<1>2. /\ save # None /\ tmp.rows \subseteq tmp'.rows /\ save.cut \subseteq save'.cut
      /\ save'.steady = save.steady /\ save'.shrunk = save.shrunk
      /\ save'.at \in {"wl", "crc"}
    <2>1. PICK limit \in Limits : /\ save # None /\ save.at = "wl"
                                  /\ PageWithin(limit, "wl", WlOrder, wl, "crc")
        BY DEF SaveWl, SavePage
    <2>2. SaveOK /\ "wl" \in {"bans", "wl"} /\ "crc" \in {"wl", "crc"}
        BY DEF IInv
    <2> DEFINE beyond == CutOff(WlOrder, wl, limit)
               stopped == Stopped(WlOrder, wl, limit)
    <2>3. /\ tmp'.rows = tmp.rows \cup (PageOf(WlOrder, wl) \ (due \cup beyond))
          /\ save'.shrunk = save.shrunk /\ save'.steady = save.steady
        BY <1>1, <2>1, <2>2, PageRecords, Zenon
    <2>4. /\ Short(wl) \/ stopped => save'.at = "crc"
          /\ ~(Short(wl) \/ stopped) => save'.at = "wl"
        BY <1>1, <2>1, <2>2, PageRecords, Zenon
    <2>5. ASSUME stopped PROVE save'.cut = save.cut \cup beyond
        BY <1>1, <2>1, <2>2, <2>5, StoppedPage, Zenon
    <2>6. ~stopped => save'.cut = save.cut
        BY <1>1, <2>1, <2>2, PageRecords, Zenon
    <2> QED BY <2>1, <2>3, <2>4, <2>5, <2>6
<1>3. save.at = "wl" /\ UNCHANGED <<bans, due>> /\ SteadyOK
    BY DEF SaveWl, SavePage, UnchangedBySave, tableVars, IInv
<1>4. SteadyOK'
    BY <1>2, <1>3 DEF SteadyOK
<1> QED BY <1>1, <1>4, SavePageKeeps DEF SaveWl

LEMMA SaveLastStepsKeep ==
    ASSUME IInv, SaveCrc \/ SaveFsync
    PROVE  IInv'
<1>1. /\ save \in SaveRecord /\ tmp \in FileRecord /\ save # None /\ tmp # None
      /\ Saving /\ UnchangedBySave /\ UNCHANGED <<step, file, disk>>
      /\ save.at \in {"crc", "fsync", "replace"} /\ tmp.whole
    BY DEF IInv, SaveOK, SaveCrc, SaveFsync
<1>2. /\ PhaseOK' /\ FlagsOK' /\ TablesOK' /\ PortOK' /\ UpOK' /\ PacketOK' /\ LeftoverOK'
      /\ Saving'
    BY <1>1, SaveControl
<1>3. FilesOK'
    <2>1. FilesOK' = FilesOK
        BY <1>1 DEF FilesOK, IsWhole
    <2> QED BY <2>1 DEF IInv
<1>4. CASE SaveCrc
    <2>1. tmp' \in FileRecord /\ tmp'.whole = tmp.whole /\ tmp'.rows = tmp.rows /\ tmp'.crc
        BY <1>1, <1>4 DEF SaveCrc, FileRecord
    <2>2. /\ save' \in SaveRecord /\ save'.at = "fsync"
          /\ save'.shrunk = save.shrunk /\ save'.steady = save.steady /\ save'.cut = save.cut
        BY <1>1, <1>4 DEF SaveCrc, SaveRecord
    <2>3. save' # None /\ tmp' # None
        BY <2>1, <2>2, LifeAssumption
    <2>4. SaveOK'
        BY <1>1, <1>2, <2>1, <2>2, <2>3 DEF SaveOK
    <2>5. SteadyOK'
        BY <1>1, <1>4, <2>1, <2>2 DEF IInv, SteadyOK, SaveCrc, UnchangedBySave, tableVars
    <2> QED BY <1>2, <1>3, <2>4, <2>5 DEF IInv
<1>5. CASE SaveFsync
    <2>1. /\ tmp' \in FileRecord /\ tmp'.whole = tmp.whole /\ tmp'.rows = tmp.rows
          /\ tmp'.crc = tmp.crc /\ tmp'.synced
        BY <1>1, <1>5 DEF SaveFsync, FileRecord
    <2>2. /\ save' \in SaveRecord /\ save'.at = "replace"
          /\ save'.shrunk = save.shrunk /\ save'.steady = save.steady /\ save'.cut = save.cut
        BY <1>1, <1>5 DEF SaveFsync, SaveRecord
    <2>3. save' # None /\ tmp' # None
        BY <2>1, <2>2, LifeAssumption
    <2>4. tmp.crc
        BY <1>1, <1>5 DEF IInv, SaveOK, SaveFsync
    <2>5. SaveOK'
        BY <1>1, <1>2, <2>1, <2>2, <2>3, <2>4 DEF SaveOK
    <2>6. SteadyOK'
        BY <1>1, <1>5, <2>1, <2>2 DEF IInv, SteadyOK, SaveFsync, UnchangedBySave, tableVars
    <2> QED BY <1>2, <1>3, <2>5, <2>6 DEF IInv
<1> QED BY <1>4, <1>5

LEMMA SaveEndKeeps ==
    ASSUME IInv, SaveReplace \/ SaveFails
    PROVE  IInv'
<1>1. CASE SaveReplace
    <2>1. /\ tmp \in FileRecord /\ tmp # None /\ tmp.synced /\ tmp.crc /\ tmp.whole
        BY <1>1 DEF IInv, SaveOK, SaveReplace
    <2>2. FilesOK'
        BY <1>1, <2>1 DEF IInv, FilesOK, IsWhole, SaveReplace
    <2> QED BY <1>1, <2>2, SaveLeft DEF SaveReplace
<1>2. CASE SaveFails
    <2>1. FilesOK' = FilesOK
        BY <1>2 DEF FilesOK, IsWhole, SaveFails
    <2> QED BY <1>2, <2>1, SaveLeft DEF SaveFails, IInv
<1> QED BY <1>1, <1>2

LEMMA NameDurableKeeps ==
    ASSUME IInv, NameDurable
    PROVE  IInv'
<1>1. PhaseOK' /\ UpOK' /\ (Saving' <=> Saving)
    BY PlaceKept DEF NameDurable
<1>2. FilesOK'
    BY DEF IInv, FilesOK, IsWhole, NameDurable
<1>3. SaveOK'
    BY <1>1 DEF IInv, SaveOK, NameDurable
<1>4. SteadyOK'
    BY DEF IInv, SteadyOK, NameDurable, tableVars, RowNumber
<1>5. FlagsOK' /\ PacketOK' /\ LeftoverOK' /\ TablesOK' /\ PortOK'
    BY DEF IInv, FlagsOK, PacketOK, LeftoverOK, TablesOK, PortOK, NameDurable, lifeVars,
           flowVars, tableVars, leaseVars
<1> QED BY <1>1, <1>2, <1>3, <1>4, <1>5 DEF IInv

(* What has been synced is there after a power cut.                        *)
LEMMA SyncedRemains ==
    ASSUME IInv
    PROVE  Remains(file) = {file} /\ Remains(disk) = {disk}
BY DEF IInv, FilesOK, Remains

LEMMA PowerCutKeeps ==
    ASSUME IInv, PowerCut
    PROVE  IInv'
<1>1. file' \in {file, disk} /\ disk' = file'
    BY SyncedRemains DEF PowerCut
<1>2. FilesOK'
    BY <1>1 DEF IInv, FilesOK, IsWhole
<1>3. PhaseOK' /\ FlagsOK' /\ TablesOK' /\ PortOK' /\ UpOK' /\ PacketOK' /\ LeftoverOK'
    BY DEF PowerCut, PhaseOK, FlagsOK, TablesOK, PortOK, UpOK, PacketOK, LeftoverOK
<1>4. SaveOK' /\ SteadyOK'
    BY DEF PowerCut, SaveOK, SteadyOK
<1> QED BY <1>2, <1>3, <1>4 DEF IInv

-----------------------------------------------------------------------------
LEMMA InitIsInductive == Init => IInv
<1> SUFFICES ASSUME Init PROVE IInv
    OBVIOUS
<1>1. /\ Whole(Key) \in FileRecord /\ Whole(Key).synced /\ Whole(Key).whole
    BY DEF Whole, FileRecord
<1> DEFINE old == [Whole(Key \cup Wl) EXCEPT !.crc = FALSE, !.whole = FALSE]
<1>2. old \in FileRecord /\ old.synced /\ ~old.crc
    BY DEF Whole, FileRecord
<1>3. FilesOK
    <2>1. file \in {None, Whole(Key), old} /\ disk = file
        BY DEF Init
    <2> HIDE DEF old
    <2> QED BY <1>1, <1>2, <2>1 DEF FilesOK
<1>4. PhaseOK /\ FlagsOK /\ TablesOK /\ PortOK /\ UpOK /\ PacketOK /\ LeftoverOK
    BY DEF Init, PhaseOK, FlagsOK, TablesOK, PortOK, UpOK, PacketOK, LeftoverOK
<1>5. SaveOK /\ SteadyOK
    BY DEF Init, SaveOK, SteadyOK
<1> QED BY <1>3, <1>4, <1>5 DEF IInv

LEMMA StepKeeps == IInv /\ [Next]_vars => IInv'
<1> SUFFICES ASSUME IInv, [Next]_vars PROVE IInv'
    OBVIOUS
<1>1. CASE Load \/ InitFails \/ Unload
    BY <1>1, LoadKeeps, InitFailsKeeps, UnloadKeeps
<1>2. CASE ModuleSteps
    BY <1>2, InitStepKeeps, UndoKeeps, ExitStepKeeps, SaveOpenKeeps, SaveBansKeeps, SaveWlKeeps,
       SaveLastStepsKeep, SaveEndKeeps DEF ModuleSteps, Save
<1>3. CASE NameDurable \/ PowerCut
    BY <1>3, NameDurableKeeps, PowerCutKeeps
<1>4. CASE PacketEnters \/ PacketLeaves \/ NetdevEvent \/ NetdevSchedule \/ SyncWork
    BY <1>4, PacketEntersKeeps, FlowStepKeeps
<1>5. CASE Silence
    BY <1>5, SilenceKeeps
<1>6. CASE Tables
    BY <1>6, TablesKeep
<1>7. CASE \E p \in Process : Lease(p)
    BY <1>7, LeaseKeeps
<1>8. CASE UNCHANGED vars
    BY <1>8, LeaseIsApart DEF vars, leaseVars, IInv, PortOK
<1> QED BY <1>1, <1>2, <1>3, <1>4, <1>5, <1>6, <1>7, <1>8 DEF Next

(* In every state that the module can reach the invariant holds, for any   *)
(* prefixes, page size and number of operations.                           *)
THEOREM Invariance == Spec => []IInv
BY InitIsInductive, StepKeeps, PTL DEF Spec

(* The phases, the positions of their steps, the tables and the registered *)
(* portid keep their types (fw_init, fw_exit, fw_nl_recv_msg).             *)
THEOREM TypeCorrect == Spec => []TypeOK
<1>1. IInv => TypeOK
    <2> SUFFICES ASSUME IInv PROVE TypeOK
        OBVIOUS
    <2>1. phase \in {"absent", "init", "undo", "live", "exit"} /\ step \in 0 .. Len(ExitOrder)
        BY InitOrderIs, UndoOrderIs, ExitOrderIs DEF IInv, PhaseOK
    <2>2. up \subseteq {InitOrder[i] : i \in DOMAIN InitOrder}
        BY DEF IInv, UpOK, Items
    <2>3. bans \subseteq Key /\ due \subseteq bans /\ wl \subseteq Wl /\ portid \in Process \cup {None}
        BY DEF IInv, TablesOK, PortOK
    <2> QED BY <2>1, <2>2, <2>3 DEF TypeOK
<1> QED BY <1>1, Invariance, PTL

(* A packet inside the hook finds every table set up, while the module     *)
(* loads, fails to load or unloads around it (fw_main.c: the order of      *)
(* fw_init, of the error labels and of fw_exit with synchronize_rcu).      *)
THEOREM PacketsFindTables == Spec => []HookSeesTables
<1>1. IInv => HookSeesTables
    BY DEF IInv, PacketOK, HookTables, HookSeesTables
<1> QED BY <1>1, Invariance, PTL

(* A load that fails at whatever step leaves nothing set up, no entry with *)
(* a timer and no work queued (fw_main.c: the error labels).               *)
THEOREM FailedLoadIsUndone == Spec => []FailedLoadLeavesNothing
<1>1. IInv => FailedLoadLeavesNothing
    BY DEF IInv, UpOK, LeftoverOK, FailedLoadLeavesNothing
<1> QED BY <1>1, Invariance, PTL

(* Whatever is added meanwhile, the pages of a save in which nothing is    *)
(* removed contain every ban that is in force throughout, but for the rows *)
(* beyond the limit as the save read it (fw_state.c: fw_state_write_bans). *)
THEOREM PagesMissNoBan == Spec => []SteadyBansSaved
<1>1. IInv => SteadyBansSaved
    BY DEF IInv, SteadyOK, SteadyBansSaved
<1> QED BY <1>1, Invariance, PTL

(* What a load takes from the state file is all that one save set out to   *)
(* write, to its end (fw_state_verify_crc).                                *)
THEOREM RestoreIsWhole == Spec => []RestoredIsWhole
<1>1. IInv => RestoredIsWhole
    BY DEF IInv, FilesOK, RestoredIsWhole, RestoredWl, RestoredBans, Verified, IsWhole
<1> QED BY <1>1, Invariance, PTL

(* Once a whole state file is on the disk, every later step leaves one     *)
(* there, a power cut in the middle of a save included (fw_state_save:     *)
(* vfs_fsync before the rename).                                           *)
THEOREM StateIsNeverLost == Spec => StateFileKept
<1>1. IInv /\ IInv' /\ [Next]_vars => [IsWhole(disk) => IsWhole(file') /\ IsWhole(disk')]_vars
    <2> SUFFICES ASSUME IInv, IInv', Next, IsWhole(disk)
                 PROVE  IsWhole(file') /\ IsWhole(disk')
        OBVIOUS
    <2>1. IsWhole(file) /\ (IsWhole(disk') => IsWhole(file'))
        BY DEF IInv, FilesOK, IsWhole
    <2>2. IsWhole(disk')
        <3>1. CASE PowerCut
            <4>1. disk' \in {file, disk}
                BY <3>1, SyncedRemains DEF PowerCut
            <4> QED BY <2>1, <4>1
        <3>2. CASE NameDurable
            BY <2>1, <3>2 DEF NameDurable
        <3>3. CASE UNCHANGED disk
            BY <3>3
        <3>4. ASSUME NEW p \in Process, Lease(p) PROVE UNCHANGED disk
            BY <3>4 DEF Lease, Start, RegisterAsk, RegisterEnds, NoLink, Die, PortidReused, Command,
                        fileVars
        <3>5. ASSUME Tables PROVE UNCHANGED disk
            BY <3>5 DEF Tables, BanDue, Expire, PacketBans, ProcfsBan, ProcfsWl, fileVars
        <3>6. ASSUME Save PROVE UNCHANGED disk
            BY <3>6 DEF Save, SaveOpen, SaveBans, SaveWl, SavePage, SaveCrc, SaveFsync, SaveReplace,
                        SaveFails
        <3>7. ASSUME InitStep \/ Undo \/ ExitStep PROVE UNCHANGED disk
            BY <3>7 DEF InitStep, Undo, ExitStep, TearDown, fileVars
        <3>8. ASSUME Load \/ InitFails \/ Unload \/ PacketEnters \/ PacketLeaves \/ NetdevEvent
                     \/ NetdevSchedule \/ SyncWork \/ Silence
              PROVE  UNCHANGED disk
            BY <3>8 DEF Load, InitFails, Unload, PacketEnters, PacketLeaves, NetdevEvent,
                        NetdevSchedule, SyncWork, Silence, fileVars
        <3> QED BY <3>1, <3>2, <3>3, <3>4, <3>5, <3>6, <3>7, <3>8 DEF Next, ModuleSteps
    <2> QED BY <2>1, <2>2
<1> QED BY <1>1, Invariance, PTL DEF Spec, StateFileKept
=============================================================================
