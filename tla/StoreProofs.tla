----------------------------- MODULE StoreProofs -----------------------------
(***************************************************************************)
(* With one client thread the cache is invisible to its caller, when there *)
(* is no flusher or when every block of the device fits in the pool: the   *)
(* engine implements BlockStore.  Without a flusher the argument is that a *)
(* block that is removed from the table is on the device (AloneInv); with  *)
(* one it is that nothing is ever removed (RoomyInv), so what the flusher  *)
(* writes to the device is hidden behind the table.                        *)
(***************************************************************************)
EXTENDS TableProofs

-----------------------------------------------------------------------------
(* A miss, and the block of a request.                                     *)

\* MissHolds and StoreLocals for the one client.
MissOne(c) == pc[c] \in MissPCs => req[c].lba \notin DOMAIN table

LocalsOne(c) ==
    /\ pc[c] \in {"copy_out", "upd_copy", "upd_copying", "mark"} =>
         req[c].lba \in DOMAIN table /\ table[req[c].lba].pool_index = slot[c]
    /\ pc[c] = "insert" =>
         mem[slot[c]] = IF req[c].op = "read" THEN disk[req[c].lba] ELSE Payload(c)

\* With one client both speak about that client only.
LEMMA LocalsInvOne == ASSUME SingleClient, NEW c \in Clients
                      PROVE  (MissHolds <=> MissOne(c)) /\ (StoreLocals <=> LocalsOne(c))
BY Zenon DEF SingleClient, MissHolds, MissOne, StoreLocals, LocalsOne, Backs, Cached

\* What is not cached when it is looked up is not cached when it is inserted; that
\* rests on no other client inserting it meanwhile.
LEMMA MissClient ==
    ASSUME TypeInv, NEW c \in Clients, MissOne(c), Request(c) \/ ClientStep(c)
    PROVE  MissOne(c)'
<1>0. pc \in [Clients -> PCs] /\ req \in [Clients -> Requests]
    BY DEF TypeInv, TypeOK, EngineTypeOK
<1>1. CASE Request(c)
  <2>1. CASE Reject(c)
    <3>1. pc'[c] = "idle"
        BY <1>0, <2>1 DEF Reject, Return
    <3> QED BY <3>1 DEF MissOne, MissPCs
  <2>2. CASE ReadLookup(c) \/ WriteLookup(c)
    <3>1. UNCHANGED table
        BY <2>2 DEF ReadLookup, WriteLookup, get_and_touch, tableVars
    <3>2. \/ pc'[c] \in {"copy_out", "upd_copy"}
          \/ pc'[c] = "alloc" /\ req'[c].lba \notin DOMAIN table
        BY <1>0, <2>2 DEF ReadLookup, WriteLookup, Begin, Goto, Cached
    <3> QED BY <3>1, <3>2 DEF MissOne, MissPCs
  <2> QED BY <1>1, <2>1, <2>2 DEF Request
<1>2. CASE ClientStep(c)
  <2>1. UNCHANGED req
      BY <1>2 DEF ClientStep, Allocate, Select, SelectRest, EvictWrite, EvictWake, EvictRemove,
          EvictFree, EvictFreeRest, Realloc, ReadFill, CopyIn, Insert, CopyOut, MarkDirty,
          Stats, WakeFlusher
  <2>2. CASE Insert(c) \/ CopyOut(c) \/ MarkDirty(c) \/ Stats(c) \/ WakeFlusher(c)
    <3>1. pc'[c] \in {"copy_out", "stats", "idle", "wake"}
        BY <1>0, <2>2 DEF Insert, CopyOut, MarkDirty, Stats, WakeFlusher, Return, Goto
    <3> QED BY <3>1 DEF MissOne, MissPCs
  <2>3. CASE EvictRemove(c)
    <3>1. DOMAIN table' \subseteq DOMAIN table /\ pc[c] = "evict_remove"
        BY <2>3 DEF EvictRemove, remove
    <3> QED BY <2>1, <3>1 DEF MissOne, MissPCs
  <2>4. CASE CopyIn(c)
    <3>1. UNCHANGED table
        BY <2>4 DEF CopyIn, tableVars
    <3>2. \/ pc[c] \in {"new_copy", "new_copying"}
          \/ pc'[c] \in {"upd_copying", "mark"}
        BY <1>0, <2>4 DEF CopyIn, Goto
    <3> QED BY <2>1, <3>1, <3>2 DEF MissOne, MissPCs
  <2>5. CASE Allocate(c) \/ Select(c) \/ EvictWrite(c) \/ EvictWake(c) \/ EvictFree(c)
             \/ Realloc(c) \/ ReadFill(c)
    <3>1. UNCHANGED table
        BY <2>5 DEF Allocate, Select, SelectRest, EvictWrite, EvictWake, EvictFree,
            EvictFreeRest, Realloc, ReadFill, tableVars
    <3>2. pc[c] \in {"alloc", "select", "evict_write", "evict_wake", "evict_free", "realloc",
                     "fill"}
        BY <2>5 DEF Allocate, Select, EvictWrite, EvictWake, EvictFree, EvictFreeRest,
            Realloc, ReadFill
    <3> QED BY <2>1, <3>1, <3>2 DEF MissOne, MissPCs
  <2> QED BY <1>2, <2>2, <2>3, <2>4, <2>5 DEF ClientStep
<1> QED BY <1>1, <1>2

\* Every step keeps MissHolds when there is one client, whatever fails.
LEMMA MissStep ==
    ASSUME SingleClient
    PROVE  TypeInv /\ MissHolds /\ [Next]_vars => MissHolds'
<1> SUFFICES ASSUME TypeInv, MissHolds, [Next]_vars PROVE MissHolds'
    OBVIOUS
<1>1. ASSUME NEW c \in Clients, Request(c) \/ ClientStep(c) PROVE MissHolds'
  <2>1. MissOne(c)
      BY LocalsInvOne
  <2>2. MissOne(c)'
      BY <1>1, <2>1, MissClient
  <2>3. MissHolds' <=> MissOne(c)'
      BY LocalsInvOne, PTL
  <2> QED BY <2>2, <2>3
<1>2. ASSUME Start \/ Stop \/ Drop \/ Shutdown \/ FlusherThread \/ UNCHANGED vars
      PROVE  MissHolds'
  <2>1. pc' = pc /\ req' = req /\ DOMAIN table' = DOMAIN table
      BY <1>2, OthersQuiet
  <2> QED BY <2>1 DEF MissHolds, Cached
<1> QED BY <1>1, <1>2 DEF Next

\* What a request knows of its block after a step of its own.
LEMMA LocalsClient ==
    ASSUME TypeInv, RequestShape, NEW c \in Clients, LocalsOne(c),
           Request(c) \/ ClientStep(c)
    PROVE  LocalsOne(c)'
<1>0. /\ pc \in [Clients -> PCs]
      /\ req \in [Clients -> Requests]
      /\ slot \in [Clients -> Slots \cup {NoSlot}]
      /\ mem \in [Slots -> Contents]
    BY DEF TypeInv, TypeOK, EngineTypeOK, PoolTypeOK
<1>1. ASSUME pc'[c] \notin {"copy_out", "upd_copy", "upd_copying", "mark", "insert"}
      PROVE  LocalsOne(c)'
    BY <1>1 DEF LocalsOne
<1>2. CASE Reject(c)
  <2>1. pc'[c] = "idle"
      BY <1>0, <1>2 DEF Reject, Return
  <2> QED BY <1>1, <2>1
<1>3. CASE ReadLookup(c)
  <2>1. UNCHANGED table
      BY <1>3 DEF ReadLookup, get_and_touch, tableVars
  <2>2. \/ pc'[c] = "alloc"
        \/ /\ pc'[c] = "copy_out"
           /\ req'[c].lba \in DOMAIN table
           /\ table[req'[c].lba].pool_index = slot'[c]
      BY <1>0, <1>3 DEF ReadLookup, Begin, Goto, get_and_touch, Cached
  <2> QED BY <2>1, <2>2 DEF LocalsOne
<1>4. CASE WriteLookup(c)
  <2>1. UNCHANGED table
      BY <1>4 DEF WriteLookup, tableVars
  <2>2. \/ pc'[c] = "alloc"
        \/ /\ pc'[c] = "upd_copy"
           /\ req'[c].lba \in DOMAIN table
           /\ table[req'[c].lba].pool_index = slot'[c]
      BY <1>0, <1>4 DEF WriteLookup, Begin, Goto, Cached
  <2> QED BY <2>1, <2>2 DEF LocalsOne
<1>5. CASE Allocate(c) \/ Select(c) \/ EvictWrite(c) \/ EvictWake(c) \/ EvictRemove(c)
           \/ EvictFree(c) \/ Realloc(c) \/ CopyOut(c) \/ MarkDirty(c) \/ Stats(c)
           \/ WakeFlusher(c)
  <2>1. pc'[c] \in {"select", "fill", "new_copy", "idle", "evict_write", "evict_wake",
                    "evict_remove", "evict_free", "realloc", "stats", "wake"}
      BY <1>0, <1>5 DEF Allocate, TakeSlot, Select, Choose, EvictWrite, EvictWake, EvictRemove,
          EvictFree, EvictFreeRest, Realloc, CopyOut, MarkDirty, Stats, WakeFlusher,
          Return, Goto
  <2> QED BY <1>1, <2>1
<1>6. CASE ReadFill(c)
  <2>1. pc[c] = "fill" /\ UNCHANGED <<req, disk>>
      BY <1>6 DEF ReadFill, deviceVars
  <2>2. slot[c] \in Slots /\ req[c].op = "read"
      BY <2>1 DEF TypeInv, ClientLocals, SlotPCs, RequestShape, ReadPCs
  <2>3. CASE Fill(slot[c], disk[req[c].lba]) /\ Goto(c, "insert") /\ UNCHANGED slot
    <3>1. pc'[c] = "insert" /\ slot'[c] = slot[c] /\ mem'[slot[c]] = disk[req[c].lba]
        BY <1>0, <2>2, <2>3 DEF Fill, Goto
    <3> QED BY <2>1, <2>2, <3>1 DEF LocalsOne
  <2>4. CASE Return(c, "Io", Zero)
    <3>1. pc'[c] = "idle"
        BY <1>0, <2>4 DEF Return
    <3> QED BY <1>1, <3>1
  <2> QED BY <1>6, <2>3, <2>4 DEF ReadFill
<1>7. CASE CopyIn(c)
  <2>1. UNCHANGED <<req, slot, table>> /\ Payload(c)' = Payload(c)
      BY <1>7 DEF CopyIn, tableVars, Payload
  <2>2. slot[c] \in Slots /\ req[c].op = "write"
      BY <1>7 DEF CopyIn, TypeInv, ClientLocals, SlotPCs, RequestShape, WritePCs
  <2>3. \/ pc[c] = "new_copy" /\ pc'[c] = "new_copying"
        \/ pc[c] = "new_copying" /\ pc'[c] = "insert" /\ mem'[slot[c]] = Payload(c)
        \/ pc[c] \in {"upd_copy", "upd_copying"} /\ pc'[c] \in {"upd_copying", "mark"}
      BY <1>0, <1>7, <2>2 DEF CopyIn, Goto, Fill
  <2> QED BY <2>1, <2>2, <2>3 DEF LocalsOne
<1>8. CASE Insert(c)
  <2>1. pc'[c] \in {"copy_out", "stats"} /\ UNCHANGED <<req, slot>>
      BY <1>0, <1>8 DEF Insert, Goto
  <2>2. req[c].lba \in DOMAIN table' /\ table'[req[c].lba].pool_index = slot[c]
      BY <1>8 DEF Insert, insert, NewEntry
  <2> QED BY <2>1, <2>2 DEF LocalsOne
<1> QED BY <1>2, <1>3, <1>4, <1>5, <1>6, <1>7, <1>8 DEF Request, ClientStep

\* The owner moves no data; the flusher only writes blocks of its snapshot.
LEMMA OthersWrite ==
    ASSUME \/ Start \/ Stop \/ Drop \/ Shutdown \/ FlusherThread \/ UNCHANGED vars
    PROVE  /\ UNCHANGED <<mem, out, nwrites>>
           /\ \/ UNCHANGED disk
              \/ /\ fl_pc = "write"
                 /\ \E item \in fl_work : \E d : disk' = [disk EXCEPT ![item[1]] = d]
<1>1. CASE Start \/ Stop \/ Drop \/ Shutdown
    BY <1>1 DEF Start, Stop, Drop, Shutdown, ShutdownStore, ShutdownSend, ShutdownJoin,
        poolVars, clientVars, deviceVars
<1>2. CASE FlusherThread
  <2>1. UNCHANGED <<mem, out, nwrites>>
      BY <1>2 DEF FlusherThread, FlNext, FlStep, FlReceive, FlTimeout, FlSnapshot, FlWrite,
          FlClean, FlSync, FlCheck, FlCheckRest, poolVars, clientVars
  <2>2. CASE FlWrite
      BY <2>1, <2>2 DEF FlWrite, write_lba, write_lba_err, PutBlock, deviceVars
  <2>3. CASE FlReceive \/ FlTimeout \/ FlSnapshot \/ FlClean \/ FlSync \/ FlCheck
      BY <2>1, <2>3 DEF FlReceive, FlTimeout, FlSnapshot, FlClean, FlSync, FlCheck,
          FlCheckRest, sync_device, deviceVars
  <2> QED BY <1>2, <2>2, <2>3 DEF FlusherThread, FlNext, FlStep
<1>3. CASE UNCHANGED vars
    BY <1>3 DEF vars, poolVars, clientVars, deviceVars
<1> QED BY <1>1, <1>2, <1>3

\* Nothing the flusher is about to write has left the table.
Shielded == fl_pc = "write" => \A item \in fl_work : item[1] \in DOMAIN table

\* Then its writes do not touch a block that a read has fetched and not yet inserted.
LEMMA LocalsOthers ==
    ASSUME TypeInv, StoreLocals, MissHolds, Shielded,
           \/ Start \/ Stop \/ Drop \/ Shutdown \/ FlusherThread \/ UNCHANGED vars
    PROVE  StoreLocals'
<1>1. /\ pc' = pc /\ req' = req /\ slot' = slot /\ mem' = mem
      /\ DOMAIN table' = DOMAIN table
      /\ \A l \in DOMAIN table : table'[l].pool_index = table[l].pool_index
    BY OthersQuiet, OthersWrite
<1>2. \A c \in Clients : Payload(c)' = Payload(c)
    BY <1>1 DEF Payload
<1>3. \A l : l \notin DOMAIN table => disk'[l] = disk[l]
  <2>1. CASE UNCHANGED disk
      BY <2>1
  <2>2. CASE fl_pc = "write" /\ \E item \in fl_work : \E d : disk' = [disk EXCEPT ![item[1]] = d]
    <3>1. PICK item \in fl_work : \E d : disk' = [disk EXCEPT ![item[1]] = d]
        BY <2>2
    <3>2. item[1] \in DOMAIN table
        BY <2>2 DEF Shielded
    <3>3. disk \in [Lbas -> Contents]
        BY DEF TypeInv, TypeOK, DeviceTypeOK
    <3> QED BY <3>1, <3>2, <3>3
  <2> QED BY <2>1, <2>2, OthersWrite
<1>4. \A c \in Clients : pc[c] = "insert" => req[c].lba \notin DOMAIN table
    BY DEF MissHolds, MissPCs, Cached
<1> QED BY <1>1, <1>2, <1>3, <1>4 DEF StoreLocals, Backs, Cached

\* Every step keeps StoreLocals when there is one client.
LEMMA LocalsStep ==
    ASSUME SingleClient
    PROVE  TypeInv /\ RequestShape /\ MissHolds /\ Shielded /\ StoreLocals /\ [Next]_vars
              => StoreLocals'
<1> SUFFICES ASSUME TypeInv, RequestShape, MissHolds, Shielded, StoreLocals, [Next]_vars
             PROVE  StoreLocals'
    OBVIOUS
<1>1. ASSUME NEW c \in Clients, Request(c) \/ ClientStep(c) PROVE StoreLocals'
  <2>1. LocalsOne(c)
      BY LocalsInvOne
  <2>2. LocalsOne(c)'
      BY <1>1, <2>1, LocalsClient
  <2>3. StoreLocals' <=> LocalsOne(c)'
      BY LocalsInvOne, PTL
  <2> QED BY <2>2, <2>3
<1> QED BY <1>1, LocalsOthers DEF Next

\* Nothing is cached at first.
LEMMA LocalsInit == Init => MissHolds /\ StoreLocals
BY DEF Init, MissHolds, MissPCs, StoreLocals

-----------------------------------------------------------------------------
(* Without a flusher.                                                      *)

\* The cached blocks that differ from the device are dirty, but for one that the
\* client is writing.
FlagsOne(c) ==
    \A l \in DOMAIN table :
        \/ pc[c] \in {"upd_copying", "mark"} /\ req[c].lba = l
        \/ mem[table[l].pool_index] = disk[l]
        \/ table[l].dirty

NoFlusher == fl_pc = "none"

AloneOne(c) ==
    /\ FlagsOne(c)
    /\ pc[c] = "evict_write" => /\ victim[c].lba \in DOMAIN table
                                /\ table[victim[c].lba].dirty
    /\ pc[c] \in {"evict_wake", "evict_remove"} =>
         mem[victim[c].pool_index] = disk[victim[c].lba]

\* With one client AloneInv speaks about that client only.
LEMMA AloneInvOne ==
    ASSUME SingleClient, NEW c \in Clients
    PROVE  /\ DirtyFlagAccurate <=> FlagsOne(c)
           /\ AloneInv <=> NoFlusher /\ AloneOne(c)
<1>1. DirtyFlagAccurate <=> FlagsOne(c)
    BY Zenon DEF SingleClient, DirtyFlagAccurate, Accurate, NotUpdating, FlagsOne, Cached, Dirty
<1>2. AloneInv <=> NoFlusher /\ AloneOne(c)
    BY <1>1, Zenon DEF SingleClient, AloneInv, NoFlusher, AloneOne, Cached, Dirty
<1> QED BY <1>1, <1>2

\* A step that touches no data and does not enter or leave an eviction.
LEMMA QuietFlags ==
    ASSUME NEW c \in Clients, FlagsOne(c), UNCHANGED <<table, mem, disk>>,
           pc[c] \notin {"upd_copying", "mark"}
    PROVE  FlagsOne(c)'
BY DEF FlagsOne

\* A step that writes a block which backs no entry.
LEMMA UnownedFlags ==
    ASSUME TypeInv, NEW c \in Clients, FlagsOne(c), UNCHANGED <<table, disk>>,
           NEW s \in Slots, NEW d, Fill(s, d), Unowned(s), pc[c] \notin {"upd_copying", "mark"}
    PROVE  FlagsOne(c)'
<1>1. mem \in [Slots -> Contents]
    BY DEF TypeInv, TypeOK, PoolTypeOK
<1>2. \A l \in DOMAIN table : mem'[table[l].pool_index] = mem[table[l].pool_index]
    BY <1>1 DEF Fill, Unowned
<1> QED BY <1>2 DEF FlagsOne

\* A request that is called, and each step of it, keeps the flags accurate and its
\* victim as it found it.
LEMMA AloneClient ==
    ASSUME TypeInv, RequestShape, NEW c \in Clients, OwnerOne(c), MissOne(c), LocalsOne(c),
           AloneOne(c), Request(c) \/ ClientStep(c)
    PROVE  AloneOne(c)'
<1>0. /\ pc \in [Clients -> PCs]
      /\ req \in [Clients -> Requests]
      /\ slot \in [Clients -> Slots \cup {NoSlot}]
      /\ victim \in [Clients -> EvictionCandidate]
      /\ mem \in [Slots -> Contents]
      /\ disk \in [Lbas -> Contents]
      /\ DOMAIN table \subseteq Lbas /\ table \in [DOMAIN table -> CacheEntry]
    BY DEF TypeInv, TypeOK, EngineTypeOK, PoolTypeOK, DeviceTypeOK, TableTypeOK
<1>1. ASSUME UNCHANGED <<table, mem, disk>>, pc[c] \notin {"upd_copying", "mark"},
             pc'[c] \notin {"evict_write", "evict_wake", "evict_remove"}
      PROVE  AloneOne(c)'
    BY <1>1, QuietFlags DEF AloneOne
<1>2. CASE Request(c)
  <2>1. UNCHANGED <<table, mem, disk>> /\ pc[c] = "idle"
      BY <1>2 DEF Request, Reject, ReadLookup, WriteLookup, Begin, get_and_touch, tableVars,
          poolVars, deviceVars
  <2>2. pc'[c] \in {"idle", "copy_out", "upd_copy", "alloc"}
      BY <1>0, <1>2 DEF Request, Reject, ReadLookup, WriteLookup, Return, Goto
  <2> QED BY <1>1, <2>1, <2>2
<1>3. CASE Allocate(c) \/ EvictFree(c) \/ Realloc(c) \/ CopyOut(c) \/ Stats(c) \/ WakeFlusher(c)
  <2>1. UNCHANGED <<table, mem, disk>>
      BY <1>3 DEF Allocate, EvictFree, EvictFreeRest, Realloc, CopyOut, Stats, WakeFlusher,
          tableVars, poolVars, deviceVars
  <2>2. /\ pc[c] \in {"alloc", "evict_free", "realloc", "copy_out", "stats", "wake"}
        /\ pc'[c] \in {"select", "fill", "new_copy", "realloc", "idle", "wake"}
      BY <1>0, <1>3 DEF Allocate, TakeSlot, EvictFree, EvictFreeRest, Realloc, CopyOut, Stats,
          WakeFlusher, Return, Goto
  <2> QED BY <1>1, <2>1, <2>2
<1>4. CASE Select(c)
  <2>1. UNCHANGED <<table, mem, disk>> /\ pc[c] = "select"
      BY <1>4 DEF Select, SelectRest, tableVars, poolVars, deviceVars
  <2>2. CASE Return(c, "Internal", Zero)
    <3>1. pc'[c] = "idle"
        BY <1>0, <2>2 DEF Return
    <3> QED BY <1>1, <2>1, <3>1
  <2>3. CASE \E l \in select_eviction_candidate : Choose(c, l, Dirty(l))
    <3>1. PICK l \in DOMAIN table : Choose(c, l, Dirty(l))
        BY <2>3 DEF select_eviction_candidate, OldestOf
    <3>2. /\ victim'[c].lba = l
          /\ victim'[c].pool_index = table[l].pool_index
          /\ pc'[c] = IF Dirty(l) THEN "evict_write" ELSE "evict_remove"
        BY <1>0, <3>1 DEF Choose, Goto
    <3>3. Dirty(l) <=> table[l].dirty
        BY DEF Dirty, Cached
    <3>4. FlagsOne(c)'
        BY <2>1, QuietFlags DEF AloneOne
    <3>5. ~Dirty(l) => mem[table[l].pool_index] = disk[l]
        BY <2>1, <3>3 DEF AloneOne, FlagsOne
    <3> QED BY <2>1, <3>2, <3>3, <3>4, <3>5 DEF AloneOne
  <2> QED BY <1>4, <2>2, <2>3 DEF Select
<1>5. CASE EvictWrite(c)
  <2>1. UNCHANGED <<table, mem>> /\ pc[c] = "evict_write"
      BY <1>5 DEF EvictWrite, tableVars, poolVars
  <2>2. /\ victim[c].lba \in DOMAIN table /\ table[victim[c].lba].dirty
        /\ table[victim[c].lba].pool_index = victim[c].pool_index
      BY <2>1 DEF AloneOne, OwnerOne
  <2>3. UNCHANGED disk \/ \E d : disk' = [disk EXCEPT ![victim[c].lba] = d]
      BY <1>5 DEF EvictWrite, write_lba, write_lba_err, PutBlock, deviceVars
  <2>4. \A l \in DOMAIN table : l # victim[c].lba => disk'[l] = disk[l]
      BY <1>0, <2>3
  <2>5. FlagsOne(c)'
      BY <2>1, <2>2, <2>4 DEF AloneOne, FlagsOne
  <2>6. CASE write_lba(victim[c].lba, mem[victim[c].pool_index]) /\ Goto(c, "evict_wake")
             /\ UNCHANGED victim
    <3>1. pc'[c] = "evict_wake" /\ disk'[victim[c].lba] = mem[victim[c].pool_index]
        BY <1>0, <2>2, <2>6 DEF write_lba, PutBlock, Goto
    <3> QED BY <2>1, <2>5, <2>6, <3>1 DEF AloneOne
  <2>7. CASE Return(c, "Io", Zero)
    <3>1. pc'[c] = "idle"
        BY <1>0, <2>7 DEF Return
    <3> QED BY <2>5, <3>1 DEF AloneOne
  <2> QED BY <1>5, <2>6, <2>7 DEF EvictWrite
<1>6. CASE EvictWake(c)
  <2>1. UNCHANGED <<table, mem, disk, victim>>
      BY <1>6 DEF EvictWake, tableVars, poolVars, deviceVars
  <2>2. pc[c] = "evict_wake" /\ pc'[c] = "evict_remove"
      BY <1>0, <1>6 DEF EvictWake, Goto
  <2> QED BY <2>1, <2>2, QuietFlags DEF AloneOne
<1>7. CASE EvictRemove(c)
  <2>1. UNCHANGED <<mem, disk>> /\ pc[c] = "evict_remove" /\ pc'[c] = "evict_free"
      BY <1>0, <1>7 DEF EvictRemove, Goto, poolVars, deviceVars
  <2>2. table' = [k \in DOMAIN table \ {victim[c].lba} |-> table[k]]
      BY <1>7 DEF EvictRemove, remove
  <2> QED BY <2>1, <2>2 DEF AloneOne, FlagsOne
<1>8. CASE ReadFill(c)
  <2>1. pc[c] = "fill" /\ UNCHANGED <<table, disk>> /\ \E d : Fill(slot[c], d)
      BY <1>8 DEF ReadFill, tableVars, deviceVars
  <2>2. slot[c] \in Slots /\ Unowned(slot[c])
      BY <2>1 DEF TypeInv, ClientLocals, SlotPCs, OwnerOne, Filling
  <2>3. pc'[c] \in {"insert", "idle"}
      BY <1>0, <1>8 DEF ReadFill, Goto, Return
  <2>4. FlagsOne(c)'
      BY <2>1, <2>2, UnownedFlags DEF AloneOne
  <2> QED BY <2>3, <2>4 DEF AloneOne
<1>9. CASE CopyIn(c)
  <2>1. UNCHANGED <<table, disk, req>> /\ \E d : Fill(slot[c], d)
      BY <1>9 DEF CopyIn, tableVars, deviceVars
  <2>2. slot[c] \in Slots
      BY <1>9 DEF CopyIn, TypeInv, ClientLocals, SlotPCs
  <2>3. \/ pc[c] \in {"new_copy", "new_copying"} /\ pc'[c] \in {"new_copying", "insert"}
        \/ pc[c] \in {"upd_copy", "upd_copying"} /\ pc'[c] \in {"upd_copying", "mark"}
      BY <1>0, <1>9 DEF CopyIn, Goto
  <2>4. CASE pc[c] \in {"new_copy", "new_copying"}
    <3>1. Unowned(slot[c])
        BY <2>4 DEF OwnerOne, Filling
    <3>2. FlagsOne(c)'
        BY <2>1, <2>2, <2>4, <3>1, UnownedFlags DEF AloneOne
    <3> QED BY <2>3, <3>2 DEF AloneOne
  <2>5. CASE pc[c] \in {"upd_copy", "upd_copying"}
    <3>1. req[c].lba \in DOMAIN table /\ table[req[c].lba].pool_index = slot[c]
        BY <2>5 DEF LocalsOne
    <3>2. \A l \in DOMAIN table : l # req[c].lba => table[l].pool_index # slot[c]
        BY <3>1 DEF OwnerOne, TableOwns
    <3>3. \A l \in DOMAIN table : l # req[c].lba =>
              mem'[table[l].pool_index] = mem[table[l].pool_index]
        BY <1>0, <2>1, <3>2 DEF Fill, CacheEntry
    <3>4. pc'[c] \in {"upd_copying", "mark"}
        BY <2>3, <2>5
    <3>5. FlagsOne(c)'
        BY <2>1, <3>3, <3>4 DEF AloneOne, FlagsOne
    <3> QED BY <3>4, <3>5 DEF AloneOne
  <2> QED BY <2>3, <2>4, <2>5
<1>10. CASE Insert(c)
  <2>1. /\ UNCHANGED <<mem, disk>>
        /\ pc[c] = "insert" /\ pc'[c] \in {"copy_out", "stats"}
      BY <1>0, <1>10 DEF Insert, Goto, poolVars, deviceVars
  <2>2. /\ DOMAIN table' = DOMAIN table \cup {req[c].lba}
        /\ table'[req[c].lba] = NewEntry(slot[c], req[c].op = "write")
        /\ \A k \in DOMAIN table \ {req[c].lba} : table'[k] = table[k]
      BY <1>10 DEF Insert, insert
  <2>3. \/ table'[req[c].lba].dirty
        \/ mem[table'[req[c].lba].pool_index] = disk[req[c].lba]
    <3>1. req[c].op \in {"read", "write"}
        BY <2>1 DEF RequestShape
    <3>2. CASE req[c].op = "read"
        BY <2>1, <2>2, <3>2 DEF LocalsOne, NewEntry
    <3>3. CASE req[c].op = "write"
      <4>1. table'[req[c].lba] = NewEntry(slot[c], TRUE)
          BY <2>2, <3>3, Zenon
      <4> QED BY <4>1 DEF NewEntry
    <3> QED BY <3>1, <3>2, <3>3
  <2>4. FlagsOne(c)'
      BY <2>1, <2>2, <2>3 DEF AloneOne, FlagsOne
  <2> QED BY <2>1, <2>4 DEF AloneOne
<1>11. CASE MarkDirty(c)
  <2>1. UNCHANGED <<mem, disk>> /\ pc[c] = "mark" /\ pc'[c] = "stats"
      BY <1>0, <1>11 DEF MarkDirty, Goto, poolVars, deviceVars
  <2>2. table' = SetDirty(req[c].lba, TRUE) /\ req[c].lba \in DOMAIN table
      BY <1>11, <2>1 DEF MarkDirty, mark_dirty, Cached, LocalsOne
  <2>3. /\ DOMAIN table' = DOMAIN table
        /\ table'[req[c].lba].dirty
        /\ \A l \in DOMAIN table : l # req[c].lba => table'[l] = table[l]
      BY <1>0, <2>2 DEF SetDirty, NewEntry
  <2>4. FlagsOne(c)'
      BY <2>1, <2>3 DEF AloneOne, FlagsOne
  <2> QED BY <2>1, <2>4 DEF AloneOne
<1> QED BY <1>2, <1>3, <1>4, <1>5, <1>6, <1>7, <1>8, <1>9, <1>10, <1>11 DEF ClientStep

\* Without a flusher every step keeps AloneInv.
LEMMA AloneStep ==
    ASSUME SingleClient, "start" \notin Calls
    PROVE  TypeInv /\ RequestShape /\ OwnerInv /\ MissHolds /\ StoreLocals /\ AloneInv
              /\ [Next]_vars => AloneInv'
<1> SUFFICES ASSUME TypeInv, RequestShape, OwnerInv, MissHolds, StoreLocals, AloneInv,
                    [Next]_vars
             PROVE  AloneInv'
    OBVIOUS
<1>1. ASSUME NEW c \in Clients, Request(c) \/ ClientStep(c) PROVE AloneInv'
  <2>1. OwnerOne(c) /\ MissOne(c) /\ LocalsOne(c) /\ AloneOne(c) /\ NoFlusher
      BY OwnerInvOne, LocalsInvOne, AloneInvOne
  <2>2. AloneOne(c)' /\ NoFlusher'
      BY <1>1, <2>1, AloneClient, ClientLeavesFlusher DEF NoFlusher
  <2>3. AloneInv' <=> (NoFlusher' /\ AloneOne(c)')
      BY AloneInvOne, PTL
  <2> QED BY <2>2, <2>3
<1>2. ASSUME Start \/ Stop \/ Drop \/ Shutdown \/ FlusherThread \/ UNCHANGED vars
      PROVE  AloneInv'
  <2>1. fl_pc = "none"
      BY DEF AloneInv
  <2>2. Drop \/ ShutdownStore \/ ShutdownSend \/ UNCHANGED vars
      BY <1>2, <2>1 DEF Start, Stop, Shutdown, ShutdownJoin, FlusherThread, FlNext, FlStep,
          FlReceive, FlTimeout, FlSnapshot, FlWrite, FlClean, FlSync, FlCheck
  <2>3. UNCHANGED <<fl_pc, pc, req, victim, mem, disk, table>>
      BY <2>2 DEF Drop, ShutdownStore, ShutdownSend, vars, poolVars, tableVars, deviceVars,
          flushVars, threadVars, clientVars
  <2> QED BY <2>3 DEF AloneInv, DirtyFlagAccurate, Accurate, NotUpdating, Dirty, Cached
<1> QED BY <1>1, <1>2 DEF Next

\* Nothing is cached and no flusher runs at first.
LEMMA AloneInit == Init => AloneInv
BY DEF Init, FlusherInit, TableInit, AloneInv, DirtyFlagAccurate

-----------------------------------------------------------------------------
(* With a flusher and room for every block.                                *)

\* When the pool is exhausted and no block is in a client's hands, the table has an
\* entry for each block.
LEMMA FullTable ==
    ASSUME TypeInv, NEW c \in Clients, LeakOne(c), Exhausted, ~Filling(c), pc[c] # "evict_free"
    PROVE  Capacity <= Cardinality(DOMAIN table)
<1>1. \A s \in Slots : CachedSlot(s)
  <2>1. Len(free_list) = 0
      BY DEF Exhausted
  <2>2. \A s \in Slots : ~Free(s)
      BY <2>1 DEF Free
  <2> QED BY <2>2 DEF LeakOne
<1> DEFINE g == [l \in DOMAIN table |-> table[l].pool_index]
<1>2. g \in Surjection(DOMAIN table, Slots)
  <2>1. table \in [DOMAIN table -> CacheEntry]
      BY DEF TypeInv, TypeOK, TableTypeOK
  <2>2. g \in [DOMAIN table -> Slots]
      BY <2>1 DEF CacheEntry
  <2>3. \A s \in Slots : \E l \in DOMAIN table : g[l] = s
      BY <1>1 DEF CachedSlot
  <2> QED BY <2>2, <2>3 DEF Surjection
<1>3. Cardinality(Slots) <= Cardinality(DOMAIN table)
    BY <1>2, CountFacts, FS_Surjection
<1>4. Cardinality(Slots) = Capacity
    BY CapacityAssumption, FS_Interval DEF Slots
<1> QED BY <1>3, <1>4

\* As long as every block fits in the pool, a miss finds a free block: the entries
\* are fewer than the blocks of the pool, and no block is lost.
LEMMA RoomForMiss ==
    ASSUME MaxLba <= Capacity, TypeInv, NEW c \in Clients, OwnerOne(c), LeakOne(c),
           pc[c] = "alloc"
    PROVE  ~Exhausted
<1> SUFFICES ASSUME Exhausted PROVE FALSE
    OBVIOUS
<1>1. Capacity <= Cardinality(DOMAIN table)
    BY FullTable DEF Filling
<1>2. IsFiniteSet(Lbas) /\ Cardinality(Lbas) = MaxLba
    BY BlocksAssumption, FS_Interval DEF Lbas
<1>3. req[c].lba \in Lbas /\ req[c].lba \notin DOMAIN table
    BY DEF TypeInv, ClientLocals, LeakOne, MissPCs
<1>4. IsFiniteSet(Lbas \ {req[c].lba}) /\ Cardinality(Lbas \ {req[c].lba}) = MaxLba - 1
    BY <1>2, <1>3, FS_RemoveElement
<1>5. DOMAIN table \in SUBSET (Lbas \ {req[c].lba})
    BY <1>3 DEF TypeInv, TypeOK, TableTypeOK
<1>6. Cardinality(DOMAIN table) <= MaxLba - 1
    BY <1>4, <1>5, FS_Subset
<1> QED BY <1>1, <1>2, <1>6, CountFacts, BlocksAssumption, CapacityAssumption

\* A request that evicts nothing removes no entry and clears no dirty flag, and
\* writes nothing to the device.
LEMMA KeepsEntries ==
    ASSUME TypeInv, NEW c \in Clients, MissOne(c), pc[c] \notin EvictPCs,
           Request(c) \/ ClientStep(c)
    PROVE  /\ \A l \in DOMAIN table :
                /\ l \in DOMAIN table'
                /\ table'[l].pool_index = table[l].pool_index
                /\ table[l].dirty => table'[l].dirty
           /\ UNCHANGED <<deviceVars, flushed>>
<1>1. CASE Request(c)
    BY <1>1 DEF Request, Reject, ReadLookup, WriteLookup, get_and_touch, tableVars, flushVars
<1>2. CASE Insert(c)
  <2>1. /\ DOMAIN table' = DOMAIN table \cup {req[c].lba}
        /\ \A k \in DOMAIN table \ {req[c].lba} : table'[k] = table[k]
      BY <1>2 DEF Insert, insert
  <2>2. req[c].lba \notin DOMAIN table
      BY <1>2 DEF Insert, MissOne, MissPCs
  <2> QED BY <1>2, <2>1, <2>2 DEF Insert, flushVars
<1>3. CASE MarkDirty(c)
  <2>1. UNCHANGED table \/ (req[c].lba \in DOMAIN table /\ table' = SetDirty(req[c].lba, TRUE))
      BY <1>3 DEF MarkDirty, mark_dirty, Cached, tableVars
  <2> QED BY <1>3, <2>1 DEF MarkDirty, SetDirty, NewEntry, flushVars
<1>4. CASE Allocate(c) \/ ReadFill(c) \/ CopyIn(c) \/ CopyOut(c) \/ Stats(c) \/ WakeFlusher(c)
    BY <1>4 DEF Allocate, ReadFill, CopyIn, CopyOut, Stats, WakeFlusher, tableVars, flushVars,
        threadVars
<1>5. CASE Select(c) \/ EvictWrite(c) \/ EvictWake(c) \/ EvictRemove(c) \/ EvictFree(c)
           \/ Realloc(c)
    BY <1>5 DEF Select, EvictWrite, EvictWake, EvictRemove, EvictFree, EvictFreeRest, Realloc,
        EvictPCs
<1> QED BY <1>1, <1>2, <1>3, <1>4, <1>5 DEF ClientStep

\* When there is room for every block no request begins to evict.
LEMMA RoomyClient ==
    ASSUME MaxLba <= Capacity, TypeInv, NEW c \in Clients, OwnerOne(c), LeakOne(c),
           pc[c] \notin EvictPCs, Request(c) \/ ClientStep(c)
    PROVE  pc'[c] \notin EvictPCs
<1>0. pc \in [Clients -> PCs]
    BY DEF TypeInv, TypeOK, EngineTypeOK
<1>1. CASE Allocate(c)
  <2>1. TakeSlot(c)
      BY <1>1, RoomForMiss DEF Allocate
  <2> QED BY <1>0, <2>1 DEF TakeSlot, Goto, EvictPCs
<1>2. CASE Request(c)
    BY <1>0, <1>2 DEF Request, Reject, ReadLookup, WriteLookup, Return, Goto, EvictPCs
<1>3. CASE ReadFill(c) \/ CopyIn(c) \/ Insert(c) \/ CopyOut(c) \/ MarkDirty(c) \/ Stats(c)
           \/ WakeFlusher(c)
    BY <1>0, <1>3 DEF ReadFill, CopyIn, Insert, CopyOut, MarkDirty, Stats, WakeFlusher,
        Return, Goto, EvictPCs
<1>4. CASE Select(c) \/ EvictWrite(c) \/ EvictWake(c) \/ EvictRemove(c) \/ EvictFree(c)
           \/ Realloc(c)
    BY <1>4 DEF Select, EvictWrite, EvictWake, EvictRemove, EvictFree, EvictFreeRest, Realloc,
        EvictPCs
<1> QED BY <1>1, <1>2, <1>3, <1>4 DEF ClientStep

\* The owner keeps the table and the flusher's locals; when it starts or joins the
\* flusher, that is not between a pwrite and its mark_clean().
LEMMA OwnerLeaves ==
    ASSUME Start \/ Stop \/ Drop \/ Shutdown \/ UNCHANGED vars
    PROVE  /\ UNCHANGED <<pc, req, nwrites, mem, disk, unsynced, table, fl_work, fl_lba, flushed>>
           /\ fd_open' => fd_open
           /\ \/ UNCHANGED fl_pc
              \/ fl_pc \in {"none", "exited"} /\ fl_pc' \in {"wait", "none"}
BY DEF Start, Stop, Drop, Shutdown, ShutdownStore, ShutdownSend, ShutdownJoin, vars, poolVars,
    tableVars, deviceVars, flushVars, threadVars, clientVars

\* What one turn of the flusher's loop does.
LEMMA WriteTurn ==
    ASSUME FlWrite
    PROVE  /\ fl_pc = "write" /\ UNCHANGED <<mem, table, flushed, fd_open>>
           /\ \E item \in fl_work :
                /\ fl_work' = fl_work \ {item}
                /\ \/ /\ disk' = [disk EXCEPT ![item[1]] = mem[item[2]]]
                      /\ unsynced' = unsynced \cup {item[1]}
                      /\ fl_lba' = item[1] /\ fl_pc' = "clean"
                   \/ /\ UNCHANGED disk \/ disk' = [disk EXCEPT ![item[1]] = Torn]
                      /\ unsynced' \subseteq unsynced \cup {item[1]}
                      /\ fl_pc' \in {"write", "sync", "check"}
                      /\ flushed => fl_pc' # "check"
<1>1. fl_pc = "write" /\ UNCHANGED <<mem, table, flushed, fd_open>>
    BY DEF FlWrite, write_lba, write_lba_err, PutBlock, poolVars, tableVars, deviceVars
<1>2. PICK item \in fl_work :
        /\ fl_work' = fl_work \ {item}
        /\ \/ write_lba(item[1], mem[item[2]]) /\ fl_lba' = item[1] /\ fl_pc' = "clean"
           \/ write_lba_err(item[1]) /\ FlLoop(fl_work \ {item}, flushed)
    BY DEF FlWrite
<1>3. CASE write_lba(item[1], mem[item[2]]) /\ fl_lba' = item[1] /\ fl_pc' = "clean"
    BY <1>1, <1>2, <1>3 DEF write_lba, PutBlock
<1>4. CASE write_lba_err(item[1]) /\ FlLoop(fl_work \ {item}, flushed)
  <2>1. /\ UNCHANGED disk \/ disk' = [disk EXCEPT ![item[1]] = Torn]
        /\ unsynced' \subseteq unsynced \cup {item[1]}
      BY <1>4 DEF write_lba_err, PutBlock, deviceVars
  <2>2. fl_pc' \in {"write", "sync", "check"} /\ (flushed => fl_pc' # "check")
      BY <1>4 DEF FlLoop
  <2> QED BY <1>1, <1>2, <2>1, <2>2
<1> QED BY <1>2, <1>3, <1>4

\* The steps of the flusher that neither write nor clean.
LEMMA FlusherQuiet ==
    ASSUME FlReceive \/ FlTimeout \/ FlSnapshot \/ FlSync \/ FlCheck
    PROVE  /\ UNCHANGED <<mem, disk, table, fd_open, fl_lba>>
           /\ fl_pc \in {"wait", "snapshot", "sync", "check"}
           /\ fl_pc' \in {"snapshot", "write", "check", "wait", "exited"}
           /\ unsynced' \subseteq unsynced
           /\ fl_work' \in {fl_work, dirty_entries}
BY DEF FlReceive, FlTimeout, FlSnapshot, FlSync, FlCheck, FlCheckRest, FlCheckLeaves,
    sync_device, poolVars, tableVars, deviceVars

\* mark_clean() of an entry that is not among those still to be written.
LEMMA CleanTurn ==
    ASSUME FlClean
    PROVE  /\ fl_pc = "clean" /\ UNCHANGED <<mem, disk, unsynced, fd_open, fl_work>>
           /\ flushed' /\ fl_pc' \in {"write", "sync"}
           /\ DOMAIN table' = DOMAIN table
           /\ \A l \in DOMAIN table : table'[l].pool_index = table[l].pool_index
           /\ \A l \in DOMAIN table : l # fl_lba => table'[l] = table[l]
           /\ fl_lba \in DOMAIN table => table'[fl_lba].dirty = FALSE
<1>1. UNCHANGED table \/ (fl_lba \in DOMAIN table /\ table' = SetDirty(fl_lba, FALSE))
    BY DEF FlClean, mark_clean, Cached
<1>2. fl_lba \in DOMAIN table => table' = SetDirty(fl_lba, FALSE)
    BY DEF FlClean, mark_clean, Cached
<1>3. /\ DOMAIN table' = DOMAIN table
      /\ \A l \in DOMAIN table : table'[l].pool_index = table[l].pool_index
      /\ \A l \in DOMAIN table : l # fl_lba => table'[l] = table[l]
      /\ fl_lba \in DOMAIN table => table'[fl_lba].dirty = FALSE
    BY <1>1, <1>2 DEF SetDirty, NewEntry
<1> QED BY <1>3 DEF FlClean, FlLoop, poolVars, deviceVars

\* The snapshot stays true: the flusher writes each entry of it where it is cached.
LEMMA RoomyOthers ==
    ASSUME TypeInv, RoomyInv,
           \/ Start \/ Stop \/ Drop \/ Shutdown \/ FlusherThread \/ UNCHANGED vars
    PROVE  RoomyInv'
<1>0. fl_work \subseteq Lbas \X Slots
    BY DEF TypeInv, TypeOK, FlusherTypeOK
<1>1. \A c \in Clients : pc'[c] \notin EvictPCs
    BY OthersQuiet DEF RoomyInv
<1>2. CASE Start \/ Stop \/ Drop \/ Shutdown \/ UNCHANGED vars
    BY <1>1, <1>2, OwnerLeaves DEF RoomyInv, Dirty, Cached
<1>3. CASE FlWrite
  <2>1. PICK item \in fl_work :
            /\ fl_work' = fl_work \ {item}
            /\ fl_pc' = "clean" => fl_lba' = item[1]
            /\ UNCHANGED table
      BY <1>3, WriteTurn
  <2>2. \A i \in fl_work' : Dirty(i[1])' /\ table'[i[1]].pool_index = i[2]
      BY <2>1 DEF RoomyInv, Dirty, Cached
  <2>3. ASSUME NEW i \in fl_work', i[1] = item[1] PROVE FALSE
    <3>1. i[2] = item[2]
        BY <2>1, <2>3 DEF RoomyInv
    <3> QED BY <1>0, <2>1, <2>3, <3>1
  <2> QED BY <1>1, <2>1, <2>2, <2>3 DEF RoomyInv
<1>4. CASE FlClean
  <2>1. \A i \in fl_work' : Dirty(i[1])' /\ table'[i[1]].pool_index = i[2]
      BY <1>4, CleanTurn DEF RoomyInv, Dirty, Cached
  <2> QED BY <1>1, <1>4, <2>1, CleanTurn DEF RoomyInv
<1>5. CASE FlReceive \/ FlTimeout \/ FlSnapshot \/ FlSync \/ FlCheck
  <2>1. UNCHANGED table /\ fl_pc' # "clean" /\ fl_work' \in {fl_work, dirty_entries}
      BY <1>5, FlusherQuiet
  <2>2. \A i \in dirty_entries : Dirty(i[1]) /\ table[i[1]].pool_index = i[2]
      BY DEF dirty_entries
  <2>3. \A i \in fl_work' : Dirty(i[1]) /\ table[i[1]].pool_index = i[2]
      BY <2>1, <2>2 DEF RoomyInv
  <2> QED BY <1>1, <2>1, <2>3 DEF RoomyInv, Dirty, Cached
<1> QED BY <1>2, <1>3, <1>4, <1>5 DEF FlusherThread, FlNext, FlStep

\* With room for every block every step keeps RoomyInv.
LEMMA RoomyStep ==
    ASSUME SingleClient, MaxLba <= Capacity
    PROVE  TypeInv /\ OwnerInv /\ NoLeakInv /\ RoomyInv /\ [Next]_vars => RoomyInv'
<1> SUFFICES ASSUME TypeInv, OwnerInv, NoLeakInv, RoomyInv, [Next]_vars PROVE RoomyInv'
    OBVIOUS
<1>1. ASSUME NEW c \in Clients, Request(c) \/ ClientStep(c) PROVE RoomyInv'
  <2>1. OwnerOne(c) /\ LeakOne(c) /\ MissOne(c) /\ pc[c] \notin EvictPCs
      BY OwnerInvOne, LeakInvOne DEF RoomyInv, LeakOne, MissOne
  <2>2. \A d \in Clients : pc'[d] \notin EvictPCs
      BY <1>1, <2>1, RoomyClient DEF SingleClient
  <2>3. UNCHANGED <<fl_pc, fl_work, fl_lba>>
      BY <1>1, ClientLeavesFlusher
  <2>4. \A l \in DOMAIN table :
            /\ l \in DOMAIN table'
            /\ table'[l].pool_index = table[l].pool_index
            /\ table[l].dirty => table'[l].dirty
      BY <1>1, <2>1, KeepsEntries
  <2> QED BY <2>2, <2>3, <2>4 DEF RoomyInv, Dirty, Cached
<1> QED BY <1>1, RoomyOthers DEF Next

\* No request runs and no snapshot was taken at first.
LEMMA RoomyInit == Init => RoomyInv /\ CommitInv
BY DEF Init, FlusherInit, DeviceInit, RoomyInv, CommitInv, EvictPCs

\* What is not committed is dirty or will be committed by the cycle that runs.
LEMMA CommitStep ==
    ASSUME SingleClient, "fsync" \notin Faults
    PROVE  TypeInv /\ MissHolds /\ RoomyInv /\ CommitInv /\ [Next]_vars => CommitInv'
<1> SUFFICES ASSUME TypeInv, MissHolds, RoomyInv, CommitInv, [Next]_vars, fd_open',
                    NEW l \in unsynced'
             PROVE  \/ Dirty(l)'
                    \/ fl_pc' = "clean" /\ fl_lba' = l
                    \/ flushed' /\ fl_pc' \in {"write", "clean", "sync"}
    BY DEF CommitInv
<1>1. ASSUME NEW c \in Clients, Request(c) \/ ClientStep(c)
      PROVE  \/ Dirty(l)'
             \/ fl_pc' = "clean" /\ fl_lba' = l
             \/ flushed' /\ fl_pc' \in {"write", "clean", "sync"}
  <2>1. MissOne(c) /\ pc[c] \notin EvictPCs
      BY LocalsInvOne DEF RoomyInv
  <2>2. /\ \A k \in DOMAIN table :
             k \in DOMAIN table' /\ (table[k].dirty => table'[k].dirty)
        /\ UNCHANGED <<unsynced, fd_open, flushed>>
      BY <1>1, <2>1, KeepsEntries DEF deviceVars
  <2>3. UNCHANGED <<fl_pc, fl_lba>>
      BY <1>1, ClientLeavesFlusher
  <2> QED BY <2>2, <2>3 DEF CommitInv, Dirty, Cached
<1>2. CASE Start \/ Stop \/ Drop \/ Shutdown \/ UNCHANGED vars
    BY <1>2, OwnerLeaves DEF CommitInv, Dirty, Cached
<1>3. CASE FlWrite
  <2>1. fl_pc = "write" /\ UNCHANGED <<table, flushed, fd_open>>
      BY <1>3, WriteTurn
  <2>2. PICK item \in fl_work :
            /\ l \in unsynced \/ l = item[1]
            /\ \/ fl_lba' = item[1] /\ fl_pc' = "clean"
               \/ fl_pc' \in {"write", "sync", "check"} /\ (flushed => fl_pc' # "check")
      BY <1>3, WriteTurn
  <2>3. Dirty(item[1]) /\ (Dirty(l) \/ flushed \/ l = item[1])
      BY <2>1, <2>2 DEF CommitInv, RoomyInv
  <2> QED BY <2>1, <2>2, <2>3 DEF Dirty, Cached
<1>4. CASE FlClean
    BY <1>4, CleanTurn
<1>5. CASE FlReceive \/ FlTimeout \/ FlSnapshot \/ FlCheck
  <2>1. UNCHANGED <<table, fd_open>> /\ fl_pc \in {"wait", "snapshot", "check"} /\ l \in unsynced
      BY <1>5, FlusherQuiet DEF FlReceive, FlTimeout, FlSnapshot, FlCheck
  <2> QED BY <2>1 DEF CommitInv, Dirty, Cached
<1>6. CASE FlSync
  <2>1. unsynced' = {}
      BY <1>6 DEF FlSync, sync_device, deviceVars
  <2> QED BY <2>1
<1> QED BY <1>1, <1>2, <1>3, <1>4, <1>5, <1>6 DEF Next, FlusherThread, FlNext, FlStep

\* The dirty flag of one address, for the one client.
FlagOne(c, l) ==
    l \in DOMAIN table =>
        \/ pc[c] \in {"upd_copying", "mark"} /\ req[c].lba = l
        \/ mem[table[l].pool_index] = disk[l]
        \/ table[l].dirty

\* With one client Accurate speaks about that client only.
LEMMA AccurateOne == ASSUME SingleClient, NEW c \in Clients, NEW l
                     PROVE  Accurate(l) <=> FlagOne(c, l)
BY Zenon DEF SingleClient, Accurate, NotUpdating, FlagOne, Cached, Dirty

\* A request that evicts nothing, and each step of it, leaves no address with a block
\* that differs from the device and is not dirty.
LEMMA FlagClient ==
    ASSUME TypeInv, RequestShape, NEW c \in Clients, OwnerOne(c), MissOne(c), LocalsOne(c),
           NEW l \in Lbas, FlagOne(c, l), pc[c] \notin EvictPCs, Request(c) \/ ClientStep(c)
    PROVE  FlagOne(c, l)'
<1>0. /\ pc \in [Clients -> PCs]
      /\ mem \in [Slots -> Contents]
      /\ DOMAIN table \subseteq Lbas /\ table \in [DOMAIN table -> CacheEntry]
    BY DEF TypeInv, TypeOK, EngineTypeOK, PoolTypeOK, TableTypeOK
<1>1. UNCHANGED disk
    BY KeepsEntries DEF deviceVars
<1>2. CASE Request(c) \/ Allocate(c) \/ CopyOut(c) \/ Stats(c) \/ WakeFlusher(c)
  <2>1. UNCHANGED <<table, mem>>
      BY <1>2 DEF Request, Reject, ReadLookup, WriteLookup, get_and_touch, Allocate, CopyOut,
          Stats, WakeFlusher, tableVars, poolVars
  <2>2. pc[c] \notin {"upd_copying", "mark"}
      BY <1>2 DEF Request, Reject, ReadLookup, WriteLookup, Begin, Allocate, CopyOut, Stats,
          WakeFlusher
  <2> QED BY <1>1, <2>1, <2>2 DEF FlagOne
<1>3. CASE ReadFill(c) \/ CopyIn(c)
  <2>1. UNCHANGED <<table, req>> /\ \E d : Fill(slot[c], d)
      BY <1>3 DEF ReadFill, CopyIn, tableVars
  <2>2. \/ pc[c] \in {"fill", "new_copy", "new_copying"}
        \/ pc[c] \in {"upd_copy", "upd_copying"} /\ pc'[c] \in {"upd_copying", "mark"}
      BY <1>0, <1>3 DEF ReadFill, CopyIn, Goto
  <2>3. CASE pc[c] \in {"fill", "new_copy", "new_copying"}
    <3>1. l \in DOMAIN table => table[l].pool_index # slot[c]
        BY <2>3 DEF OwnerOne, Filling, Unowned
    <3>2. l \in DOMAIN table => mem'[table[l].pool_index] = mem[table[l].pool_index]
        BY <1>0, <2>1, <3>1 DEF Fill, CacheEntry
    <3> QED BY <1>1, <2>1, <2>3, <3>2 DEF FlagOne
  <2>4. CASE pc[c] \in {"upd_copy", "upd_copying"} /\ pc'[c] \in {"upd_copying", "mark"}
    <3>1. CASE l = req[c].lba
        BY <2>1, <2>4, <3>1 DEF FlagOne
    <3>2. CASE l # req[c].lba
      <4>1. req[c].lba \in DOMAIN table /\ table[req[c].lba].pool_index = slot[c]
          BY <2>4 DEF LocalsOne
      <4>2. l \in DOMAIN table => table[l].pool_index # slot[c]
          BY <3>2, <4>1 DEF OwnerOne, TableOwns
      <4>3. l \in DOMAIN table => mem'[table[l].pool_index] = mem[table[l].pool_index]
          BY <1>0, <2>1, <4>2 DEF Fill, CacheEntry
      <4> QED BY <1>1, <2>1, <3>2, <4>3 DEF FlagOne
    <3> QED BY <3>1, <3>2
  <2> QED BY <2>2, <2>3, <2>4
<1>4. CASE Insert(c)
  <2>1. UNCHANGED mem /\ pc[c] = "insert"
      BY <1>4 DEF Insert, poolVars
  <2>2. /\ DOMAIN table' = DOMAIN table \cup {req[c].lba}
        /\ table'[req[c].lba] = NewEntry(slot[c], req[c].op = "write")
        /\ \A k \in DOMAIN table \ {req[c].lba} : table'[k] = table[k]
      BY <1>4 DEF Insert, insert
  <2>3. CASE l # req[c].lba
      BY <1>1, <2>1, <2>2, <2>3 DEF FlagOne
  <2>4. CASE l = req[c].lba /\ req[c].op = "read"
      BY <1>1, <2>1, <2>2, <2>4 DEF FlagOne, LocalsOne, NewEntry
  <2>5. CASE l = req[c].lba /\ req[c].op = "write"
    <3>1. table'[l] = NewEntry(slot[c], TRUE)
        BY <2>2, <2>5, Zenon
    <3> QED BY <3>1 DEF FlagOne, NewEntry
  <2> QED BY <2>1, <2>3, <2>4, <2>5 DEF RequestShape
<1>5. CASE MarkDirty(c)
  <2>1. UNCHANGED mem /\ pc[c] = "mark"
      BY <1>5 DEF MarkDirty, poolVars
  <2>2. table' = SetDirty(req[c].lba, TRUE) /\ req[c].lba \in DOMAIN table
      BY <1>5, <2>1 DEF MarkDirty, mark_dirty, Cached, LocalsOne
  <2>3. /\ DOMAIN table' = DOMAIN table
        /\ table'[req[c].lba].dirty
        /\ l \in DOMAIN table /\ l # req[c].lba => table'[l] = table[l]
      BY <1>0, <2>2 DEF SetDirty, NewEntry
  <2> QED BY <1>1, <2>1, <2>3 DEF FlagOne
<1>6. CASE Select(c) \/ EvictWrite(c) \/ EvictWake(c) \/ EvictRemove(c) \/ EvictFree(c)
           \/ Realloc(c)
    BY <1>6 DEF Select, EvictWrite, EvictWake, EvictRemove, EvictFree, EvictFreeRest, Realloc,
        EvictPCs
<1> QED BY <1>2, <1>3, <1>4, <1>5, <1>6 DEF ClientStep

\* The flusher changes the device only under a dirty block, and the owner nothing.
LEMMA FlagOthers ==
    ASSUME TypeInv, RoomyInv, NEW l \in Lbas, Accurate(l), ~Accurate(l)',
           \/ Start \/ Stop \/ Drop \/ Shutdown \/ FlusherThread \/ UNCHANGED vars
    PROVE  fl_pc = "clean" /\ fl_lba = l
<1>0. UNCHANGED mem /\ (NotUpdating(l)' <=> NotUpdating(l))
    BY OthersQuiet, OthersWrite DEF NotUpdating
<1>1. ASSUME UNCHANGED <<table, disk>> PROVE FALSE
    BY <1>0, <1>1 DEF Accurate, Dirty, Cached
<1>2. CASE Start \/ Stop \/ Drop \/ Shutdown \/ UNCHANGED vars
    BY <1>1, <1>2, OwnerLeaves
<1>3. CASE FlWrite
  <2>1. UNCHANGED table
      BY <1>3, WriteTurn
  <2>2. PICK item \in fl_work : UNCHANGED disk \/ \E d : disk' = [disk EXCEPT ![item[1]] = d]
      BY <1>3, WriteTurn
  <2>3. Dirty(item[1])
      BY DEF RoomyInv
  <2>4. l # item[1]
      BY <2>1, <2>3 DEF Accurate, Dirty, Cached
  <2>5. disk'[l] = disk[l]
      BY <2>2, <2>4 DEF TypeInv, TypeOK, DeviceTypeOK
  <2> QED BY <1>0, <2>1, <2>5 DEF Accurate, Dirty, Cached
<1>4. CASE FlClean
  <2>1. /\ fl_pc = "clean" /\ UNCHANGED disk
        /\ DOMAIN table' = DOMAIN table
        /\ l \in DOMAIN table /\ l # fl_lba => table'[l] = table[l]
      BY <1>4, CleanTurn
  <2> QED BY <1>0, <2>1 DEF Accurate, Dirty, Cached
<1>5. CASE FlReceive \/ FlTimeout \/ FlSnapshot \/ FlSync \/ FlCheck
    BY <1>1, <1>5, FlusherQuiet
<1> QED BY <1>2, <1>3, <1>4, <1>5 DEF FlusherThread, FlNext, FlStep

\* With room for every block only the flusher's mark_clean() makes a flag inaccurate.
LEMMA RaceStep ==
    ASSUME SingleClient
    PROVE  TypeInv /\ RequestShape /\ OwnerInv /\ MissHolds /\ StoreLocals /\ RoomyInv
              /\ [Next]_vars
              => \A l \in Lbas : Accurate(l) /\ ~Accurate(l)' => fl_pc = "clean" /\ fl_lba = l
<1> SUFFICES ASSUME TypeInv, RequestShape, OwnerInv, MissHolds, StoreLocals, RoomyInv,
                    [Next]_vars, NEW l \in Lbas, Accurate(l), ~Accurate(l)'
             PROVE  fl_pc = "clean" /\ fl_lba = l
    OBVIOUS
<1>1. ASSUME NEW c \in Clients, Request(c) \/ ClientStep(c) PROVE FALSE
  <2>1. OwnerOne(c) /\ MissOne(c) /\ LocalsOne(c) /\ pc[c] \notin EvictPCs /\ FlagOne(c, l)
      BY OwnerInvOne, LocalsInvOne, AccurateOne DEF RoomyInv
  <2>2. FlagOne(c, l)'
      BY <1>1, <2>1, FlagClient
  <2>3. Accurate(l)' <=> FlagOne(c, l)'
      BY AccurateOne, PTL
  <2> QED BY <2>2, <2>3
<1> QED BY <1>1, FlagOthers DEF Next

\* mark_clean() is reached only from a pwrite of the block where it is cached.
LEMMA WroteStep ==
    TypeInv /\ RoomyInv /\ [Next]_vars => (fl_pc # "clean" /\ fl_pc' = "clean" => Wrote')
<1> SUFFICES ASSUME TypeInv, RoomyInv, [Next]_vars, fl_pc # "clean", fl_pc' = "clean"
             PROVE  Wrote'
    OBVIOUS
<1>1. FlWrite
  <2>1. ASSUME NEW c \in Clients, Request(c) \/ ClientStep(c) PROVE FALSE
      BY <2>1, ClientLeavesFlusher
  <2>2. ASSUME Start \/ Stop \/ Drop \/ Shutdown \/ UNCHANGED vars PROVE FALSE
      BY <2>2, OwnerLeaves
  <2>3. ASSUME FlReceive \/ FlTimeout \/ FlSnapshot \/ FlSync \/ FlCheck PROVE FALSE
      BY <2>3, FlusherQuiet
  <2>4. ASSUME FlClean PROVE FALSE
      BY <2>4, CleanTurn
  <2> QED BY <2>1, <2>2, <2>3, <2>4 DEF Next, FlusherThread, FlNext, FlStep
<1>2. PICK item \in fl_work : /\ disk' = [disk EXCEPT ![item[1]] = mem[item[2]]]
                              /\ fl_lba' = item[1]
                              /\ UNCHANGED <<mem, table>>
    BY <1>1, WriteTurn
<1>3. item[1] \in Lbas /\ item[1] \in DOMAIN table /\ table[item[1]].pool_index = item[2]
    BY DEF TypeInv, TypeOK, FlusherTypeOK, RoomyInv, Dirty, Cached
<1>4. disk'[item[1]] = mem[item[2]]
    BY <1>2, <1>3 DEF TypeInv, TypeOK, DeviceTypeOK
<1> QED BY <1>2, <1>3, <1>4 DEF Wrote, Cached

-----------------------------------------------------------------------------
(* The theorems about the dirty flag and the final fsync.                  *)

\* With one client thread and no flusher the dirty flag never lies: a cached block
\* that differs from the device is dirty, through hits, misses, evictions and I/O
\* errors, unless a write to it is running.
THEOREM DirtyFlagWithoutFlusher ==
    ASSUME SingleClient, "start" \notin Calls
    PROVE  Spec => []DirtyFlagAccurate
<1>1. AloneInv => DirtyFlagAccurate /\ Shielded
    BY DEF AloneInv, Shielded
<1>2. TypeInv /\ OwnerInv /\ [Next]_vars => OwnerInv'
    BY OwnerStep
<1>3. TypeInv /\ MissHolds /\ [Next]_vars => MissHolds'
    BY MissStep
<1>4. TypeInv /\ RequestShape /\ MissHolds /\ Shielded /\ StoreLocals /\ [Next]_vars
         => StoreLocals'
    BY LocalsStep
<1>5. TypeInv /\ RequestShape /\ OwnerInv /\ MissHolds /\ StoreLocals /\ AloneInv
         /\ [Next]_vars => AloneInv'
    BY AloneStep
<1> QED BY <1>1, <1>2, <1>3, <1>4, <1>5, TypeInit, TypeStep, ShapeInit, ShapeStep, OwnerInit,
        LocalsInit, AloneInit, PTL DEF Spec

\* With one client thread, a flusher and room for every block, whatever is rewritten and
\* whatever flusher writes fail: a block that is not on the device loses its dirty flag
\* in one way only, by a mark_clean(), and that is reached only from a pwrite that has
\* put the block as it was on the device: a write() has come between the two (run
\* lost_dirty shows that it does).
THEOREM OnlyRaceClearsFlag ==
    ASSUME SingleClient, MaxLba <= Capacity, "pread" \notin Faults
    PROVE  Spec => FlagClearedOnlyInRace
<1>2. TypeInv /\ OwnerInv /\ [Next]_vars => OwnerInv'
    BY OwnerStep
<1>3. TypeInv /\ OwnerInv /\ NoLeakInv /\ [Next]_vars => NoLeakInv'
    BY LeakStep
<1>4. NoLeakInv => MissHolds
    BY DEF NoLeakInv
<1>5. TypeInv /\ OwnerInv /\ NoLeakInv /\ RoomyInv /\ [Next]_vars => RoomyInv'
    BY RoomyStep
<1>6. RoomyInv => Shielded
    BY DEF RoomyInv, Shielded, Dirty, Cached
<1>7. TypeInv /\ RequestShape /\ MissHolds /\ Shielded /\ StoreLocals /\ [Next]_vars
         => StoreLocals'
    BY LocalsStep
<1> DEFINE Kept == /\ \A l \in Lbas : Accurate(l) /\ ~Accurate(l)' => fl_pc = "clean" /\ fl_lba = l
                   /\ fl_pc # "clean" /\ fl_pc' = "clean" => Wrote'
<1>8. TypeInv /\ RequestShape /\ OwnerInv /\ MissHolds /\ StoreLocals /\ RoomyInv
         /\ [Next]_vars => [Kept]_vars
    BY RaceStep, WroteStep
<1>9. Spec => [][Kept]_vars
  <2> HIDE DEF Kept
  <2> QED BY <1>2, <1>3, <1>4, <1>5, <1>6, <1>7, <1>8, TypeInit, TypeStep, ShapeInit,
        ShapeStep, OwnerInit, LeakInit, RoomyInit, LocalsInit, PTL DEF Spec
<1> QED BY <1>9 DEF FlagClearedOnlyInRace

\* With one client thread, room for every block and no failing pread or fsync, what
\* stop() leaves clean has been committed: its final cycle never skips the fsync of a
\* block it wrote, also when a later pwrite of the cycle fails.  Without the room it
\* does not hold (run committed): an eviction's pwrite is followed by no fsync.
THEOREM StopCommits ==
    ASSUME SingleClient, MaxLba <= Capacity, "pread" \notin Faults, "fsync" \notin Faults
    PROVE  Spec => []Committed
<1>1. CommitInv => Committed
    BY DEF CommitInv, Committed
<1>2. TypeInv /\ OwnerInv /\ [Next]_vars => OwnerInv'
    BY OwnerStep
<1>3. TypeInv /\ OwnerInv /\ NoLeakInv /\ [Next]_vars => NoLeakInv'
    BY LeakStep
<1>4. NoLeakInv => MissHolds
    BY DEF NoLeakInv
<1>5. TypeInv /\ OwnerInv /\ NoLeakInv /\ RoomyInv /\ [Next]_vars => RoomyInv'
    BY RoomyStep
<1>6. TypeInv /\ MissHolds /\ RoomyInv /\ CommitInv /\ [Next]_vars => CommitInv'
    BY CommitStep
<1> QED BY <1>1, <1>2, <1>3, <1>4, <1>5, <1>6, TypeInit, TypeStep, OwnerInit, LeakInit,
        RoomyInit, PTL DEF Spec

-----------------------------------------------------------------------------
(* The refinement.                                                         *)

\* What address l stands for, while no client overwrites its cached block.
Value(l) == IF l \in DOMAIN table THEN mem[table[l].pool_index] ELSE disk[l]

\* The refinement mapping for the one client.
StoreOne(c) == [l \in Lbas |-> IF pc[c] = "upd_copying" /\ req[c].lba = l
                                 THEN Payload(c) ELSE Value(l)]
AppliedPCs == {"upd_copying", "mark", "stats", "wake"}
AppliedOne(c) == IF pc[c] \in AppliedPCs THEN {c} ELSE {}

\* With one client the mapping speaks about that client only.
LEMMA StoreIsOne == ASSUME SingleClient, NEW c \in Clients
                    PROVE  Store = StoreOne(c) /\ Applied = AppliedOne(c)
<1>1. Clients = {c}
    BY DEF SingleClient
<1>2. Applied = AppliedOne(c)
    BY <1>1 DEF Applied, AppliedOne, AppliedPCs
<1>3. ASSUME NEW l \in Lbas PROVE Store[l] = StoreOne(c)[l]
  <2>1. CASE pc[c] = "upd_copying" /\ req[c].lba = l
    <3>1. (CHOOSE d \in Clients : pc[d] = "upd_copying" /\ req[d].lba = l) = c
        BY <1>1, <2>1
    <3> QED BY <2>1, <3>1 DEF Store, StoreOne
  <2>2. CASE ~(pc[c] = "upd_copying" /\ req[c].lba = l)
    <3>1. ~\E d \in Clients : pc[d] = "upd_copying" /\ req[d].lba = l
        BY <1>1, <2>2
    <3> QED BY <2>2, <3>1 DEF Store, StoreOne, Value, Cached
  <2> QED BY <2>1, <2>2
<1>4. Store = StoreOne(c)
    BY <1>3 DEF Store, StoreOne
<1> QED BY <1>2, <1>4

(* The steps of BlockStore, in the terms of the engine.                    *)

\* A request that is turned down before its lookup changes nothing.
LEMMA ToRefuse ==
    ASSUME NEW c \in Clients, out[c].status # "pending",
           NEW op \in {"read", "write"}, NEW l \in Lbas \cup {MaxLba}, NEW e \in Errors,
           req' = [req EXCEPT ![c] = [op |-> op, lba |-> l, ver |-> 0]],
           out' = [out EXCEPT ![c] = [status |-> e, block |-> Zero]],
           UNCHANGED <<Store, Applied>>
    PROVE  BS!StoreNext
BY DEF BS!StoreNext, BS!Refuse, BS!Idle, BS!Reply, BS!Lbas, BS!Zero, BS!Block, BS!NoLba, Lbas,
    Zero, Block, NoLba

\* A request that looks up its address has been accepted.
LEMMA ToAccept ==
    ASSUME NEW c \in Clients, out[c].status # "pending",
           NEW op \in {"read", "write"}, NEW l \in Lbas, NEW n \in 0 .. MaxWrites,
           req' = [req EXCEPT ![c] = [op |-> op, lba |-> l, ver |-> n]],
           out' = [out EXCEPT ![c] = [status |-> "pending", block |-> Zero]],
           UNCHANGED <<Store, Applied>>
    PROVE  BS!StoreNext
BY DEF BS!StoreNext, BS!Accept, BS!Idle, BS!Reply, BS!Lbas, BS!Zero, BS!Block, BS!NoLba, Lbas,
    Zero, Block, NoLba

\* A read that returns the content of the store is a Read.
LEMMA ToRead ==
    ASSUME NEW c \in Clients, out[c].status = "pending", req[c].op = "read",
           out' = [out EXCEPT ![c] = [status |-> "ok", block |-> Store[req[c].lba]]],
           UNCHANGED <<Store, Applied, req>>
    PROVE  BS!StoreNext
BY DEF BS!StoreNext, BS!Read, BS!Idle, BS!Reply

\* A write takes effect when its address first maps to its payload.
LEMMA ToApply ==
    ASSUME NEW c \in Clients, out[c].status = "pending", req[c].op = "write", c \notin Applied,
           Store' = [Store EXCEPT ![req[c].lba] = Payload(c)],
           Applied' = Applied \cup {c},
           UNCHANGED <<req, out>>
    PROVE  BS!StoreNext
BY DEF BS!StoreNext, BS!Apply, BS!Idle, BS!Block, Payload, Block

\* A write that has taken effect may return.
LEMMA ToAck ==
    ASSUME NEW c \in Clients, c \in Applied, Applied' = Applied \ {c},
           out' = [out EXCEPT ![c] = [status |-> "ok", block |-> Zero]],
           UNCHANGED <<Store, req>>
    PROVE  BS!StoreNext
BY DEF BS!StoreNext, BS!Ack, BS!Reply, BS!Zero, BS!Block, BS!NoLba, Zero, Block, NoLba

\* A request that has not taken effect may return an error.
LEMMA ToFail ==
    ASSUME NEW c \in Clients, out[c].status = "pending", c \notin Applied, NEW e \in Errors,
           out' = [out EXCEPT ![c] = [status |-> e, block |-> Zero]],
           UNCHANGED <<Store, Applied, req>>
    PROVE  BS!StoreNext
BY DEF BS!StoreNext, BS!Fail, BS!Idle, BS!Reply, BS!Zero, BS!Block, BS!NoLba, Zero, Block, NoLba

\* Every step of a request is a step of BlockStore or changes nothing that it shows,
\* if a block is on the device when it is removed from the table.
LEMMA StoreClient ==
    ASSUME SingleClient, TypeInv, RequestShape, NEW c \in Clients, OwnerOne(c), MissOne(c),
           LocalsOne(c), Request(c) \/ ClientStep(c),
           pc[c] = "evict_remove" => mem[victim[c].pool_index] = disk[victim[c].lba]
    PROVE  BS!StoreNext \/ UNCHANGED <<Store, req, out, Applied>>
<1>0. /\ pc \in [Clients -> PCs]
      /\ req \in [Clients -> Requests]
      /\ out \in [Clients -> Outcomes]
      /\ slot \in [Clients -> Slots \cup {NoSlot}]
      /\ mem \in [Slots -> Contents]
      /\ disk \in [Lbas -> Contents]
      /\ DOMAIN table \subseteq Lbas /\ table \in [DOMAIN table -> CacheEntry]
    BY DEF TypeInv, TypeOK, EngineTypeOK, PoolTypeOK, DeviceTypeOK, TableTypeOK
<1>1. /\ Store = StoreOne(c) /\ Applied = AppliedOne(c)
      /\ Store' = StoreOne(c)' /\ Applied' = AppliedOne(c)'
  <2>1. Store = StoreOne(c) /\ Applied = AppliedOne(c)
      BY StoreIsOne
  <2>2. (Store = StoreOne(c) /\ Applied = AppliedOne(c))'
      BY StoreIsOne, PTL
  <2> QED BY <2>1, <2>2
<1>2. ASSUME pc[c] # "upd_copying", pc'[c] # "upd_copying",
             \A l \in Lbas : Value(l)' = Value(l)
      PROVE  Store' = Store
    BY <1>1, <1>2 DEF StoreOne
<1>3. ASSUME pc[c] \in AppliedPCs <=> pc'[c] \in AppliedPCs PROVE Applied' = Applied
    BY <1>1, <1>3 DEF AppliedOne
<1>4. ASSUME UNCHANGED <<mem, disk>>, DOMAIN table' = DOMAIN table,
             \A l \in DOMAIN table : table'[l].pool_index = table[l].pool_index
      PROVE  \A l \in Lbas : Value(l)' = Value(l)
    BY <1>4 DEF Value
<1>5. ASSUME NEW s \in Slots, NEW d, Unowned(s), Fill(s, d), UNCHANGED <<table, disk>>
      PROVE  \A l \in Lbas : Value(l)' = Value(l)
    BY <1>0, <1>5 DEF Value, Fill, Unowned, CacheEntry
<1>6. ASSUME NEW e \in Errors, Return(c, e, Zero), pc[c] \notin AppliedPCs \cup {"idle"},
             \A l \in Lbas : Value(l)' = Value(l), UNCHANGED req
      PROVE  BS!StoreNext
  <2>1. pc'[c] = "idle" /\ out' = [out EXCEPT ![c] = [status |-> e, block |-> Zero]]
      BY <1>0, <1>6 DEF Return
  <2>2. Store' = Store /\ Applied' = Applied /\ c \notin Applied
      BY <1>1, <1>2, <1>3, <1>6, <2>1 DEF AppliedPCs, AppliedOne
  <2>3. out[c].status = "pending"
      BY <1>6 DEF RequestShape
  <2> QED BY <1>6, <2>1, <2>2, <2>3, ToFail
<1>7. ASSUME pc[c] \notin AppliedPCs, pc'[c] \notin AppliedPCs, UNCHANGED <<req, out>>,
             \A l \in Lbas : Value(l)' = Value(l)
      PROVE  UNCHANGED <<Store, req, out, Applied>>
    BY <1>2, <1>3, <1>7 DEF AppliedPCs
<1>8. CASE Request(c)
  <2>1. UNCHANGED <<mem, disk, table>> /\ pc[c] = "idle"
      BY <1>8 DEF Request, Reject, ReadLookup, WriteLookup, Begin, get_and_touch, tableVars,
          poolVars, deviceVars
  <2>2. pc'[c] \in {"idle", "copy_out", "upd_copy", "alloc"}
      BY <1>0, <1>8 DEF Request, Reject, ReadLookup, WriteLookup, Return, Goto
  <2>3. Store' = Store /\ Applied' = Applied
      BY <1>2, <1>3, <1>4, <2>1, <2>2 DEF AppliedPCs
  <2>4. out[c].status # "pending"
      BY <2>1 DEF RequestShape
  <2>5. CASE Reject(c)
    <3>1. \E op \in {"read", "write"}, l \in Lbas \cup {MaxLba}, e \in Errors :
            /\ req' = [req EXCEPT ![c] = [op |-> op, lba |-> l, ver |-> 0]]
            /\ out' = [out EXCEPT ![c] = [status |-> e, block |-> Zero]]
        BY <2>5 DEF Reject, Begin, Return, Errors
    <3> QED BY <2>3, <2>4, <3>1, ToRefuse
  <2>6. CASE ReadLookup(c) \/ WriteLookup(c)
    <3>1. \E op \in {"read", "write"}, l \in Lbas, n \in 0 .. MaxWrites :
            req' = [req EXCEPT ![c] = [op |-> op, lba |-> l, ver |-> n]]
      <4>1. CASE ReadLookup(c)
        <5>1. 0 \in 0 .. MaxWrites
            BY BlocksAssumption
        <5>2. \E l \in Lbas : req' = [req EXCEPT ![c] = [op |-> "read", lba |-> l, ver |-> 0]]
            BY <4>1 DEF ReadLookup, Begin
        <5> QED BY <5>1, <5>2
      <4>2. CASE WriteLookup(c)
        <5>1. PICK l \in Lbas : /\ nwrites[l] < MaxWrites
                                /\ Begin(c, "write", l, nwrites[l] + 1)
            BY <4>2 DEF WriteLookup
        <5>2. nwrites[l] + 1 \in 0 .. MaxWrites
            BY <5>1, BlocksAssumption DEF TypeInv, TypeOK, EngineTypeOK
        <5> QED BY <5>1, <5>2 DEF Begin
      <4> QED BY <2>6, <4>1, <4>2
    <3>2. out' = [out EXCEPT ![c] = [status |-> "pending", block |-> Zero]]
        BY <2>6 DEF ReadLookup, WriteLookup, Pending
    <3> QED BY <2>3, <2>4, <3>1, <3>2, ToAccept
  <2> QED BY <1>8, <2>5, <2>6 DEF Request
<1>9. CASE Allocate(c) \/ EvictWake(c) \/ EvictFree(c)
  <2>1. UNCHANGED <<mem, disk, table, req, out>>
      BY <1>9 DEF Allocate, EvictWake, EvictFree, EvictFreeRest, tableVars, poolVars, deviceVars
  <2>2. /\ pc[c] \in {"alloc", "evict_wake", "evict_free"}
        /\ pc'[c] \in {"select", "fill", "new_copy", "evict_remove", "realloc"}
      BY <1>0, <1>9 DEF Allocate, TakeSlot, EvictWake, EvictFree, EvictFreeRest, Goto
  <2> QED BY <1>4, <1>7, <2>1, <2>2 DEF AppliedPCs
<1>10. CASE Select(c) \/ Realloc(c)
  <2>1. UNCHANGED <<mem, disk, table, req>> /\ pc[c] \in {"select", "realloc"}
      BY <1>10 DEF Select, SelectRest, Realloc, tableVars, poolVars, deviceVars
  <2>2. \A l \in Lbas : Value(l)' = Value(l)
      BY <1>4, <2>1
  <2>3. CASE \E e \in Errors : Return(c, e, Zero)
      BY <1>6, <2>1, <2>2, <2>3 DEF AppliedPCs
  <2>4. CASE UNCHANGED out /\ pc'[c] \in {"evict_write", "evict_remove", "fill", "new_copy"}
      BY <1>7, <2>1, <2>2, <2>4 DEF AppliedPCs
  <2>5. \/ \E e \in Errors : Return(c, e, Zero)
        \/ UNCHANGED out /\ pc'[c] \in {"evict_write", "evict_remove", "fill", "new_copy"}
    <3>1. CASE Select(c)
        BY <1>0, <3>1 DEF Select, Choose, Goto, Errors
    <3>2. CASE Realloc(c)
        BY <1>0, <3>2 DEF Realloc, TakeSlot, Goto, Errors
    <3> QED BY <1>10, <3>1, <3>2
  <2> QED BY <2>3, <2>4, <2>5
<1>11. CASE EvictWrite(c)
  <2>1. UNCHANGED <<mem, table, req>> /\ pc[c] = "evict_write"
      BY <1>11 DEF EvictWrite, tableVars, poolVars
  <2>2. UNCHANGED disk \/ \E d : disk' = [disk EXCEPT ![victim[c].lba] = d]
      BY <1>11 DEF EvictWrite, write_lba, write_lba_err, PutBlock, deviceVars
  <2>3. \A l \in Lbas : l \notin DOMAIN table => disk'[l] = disk[l]
    <3>1. victim[c].lba \in DOMAIN table
        BY <2>1 DEF OwnerOne
    <3> QED BY <1>0, <2>2, <3>1
  <2>4. \A l \in Lbas : Value(l)' = Value(l)
      BY <2>1, <2>3 DEF Value
  <2>5. CASE Return(c, "Io", Zero)
      BY <1>6, <2>1, <2>4, <2>5 DEF AppliedPCs, Errors
  <2>6. CASE Goto(c, "evict_wake") /\ UNCHANGED out
    <3>1. pc'[c] = "evict_wake"
        BY <1>0, <2>6 DEF Goto
    <3> QED BY <1>7, <2>1, <2>4, <2>6, <3>1 DEF AppliedPCs
  <2> QED BY <1>11, <2>5, <2>6 DEF EvictWrite
<1>12. CASE EvictRemove(c)
  <2>1. /\ UNCHANGED <<mem, disk, req, out>>
        /\ pc[c] = "evict_remove" /\ pc'[c] = "evict_free"
      BY <1>0, <1>12 DEF EvictRemove, Goto, poolVars, deviceVars
  <2>2. table' = [k \in DOMAIN table \ {victim[c].lba} |-> table[k]]
      BY <1>12 DEF EvictRemove, remove
  <2>3. /\ victim[c].lba \in DOMAIN table
        /\ mem[table[victim[c].lba].pool_index] = disk[victim[c].lba]
      BY <2>1 DEF OwnerOne
  <2>4. \A l \in Lbas : Value(l)' = Value(l)
      BY <2>1, <2>2, <2>3 DEF Value
  <2> QED BY <1>7, <2>1, <2>4 DEF AppliedPCs
<1>13. CASE ReadFill(c)
  <2>1. pc[c] = "fill" /\ UNCHANGED <<table, disk, req>> /\ \E d : Fill(slot[c], d)
      BY <1>13 DEF ReadFill, tableVars, deviceVars
  <2>2. slot[c] \in Slots /\ Unowned(slot[c])
      BY <2>1 DEF TypeInv, ClientLocals, SlotPCs, OwnerOne, Filling
  <2>3. \A l \in Lbas : Value(l)' = Value(l)
      BY <1>5, <2>1, <2>2
  <2>4. CASE Return(c, "Io", Zero)
      BY <1>6, <2>1, <2>3, <2>4 DEF AppliedPCs, Errors
  <2>5. CASE Goto(c, "insert") /\ UNCHANGED out
    <3>1. pc'[c] = "insert"
        BY <1>0, <2>5 DEF Goto
    <3> QED BY <1>7, <2>1, <2>3, <2>5, <3>1 DEF AppliedPCs
  <2> QED BY <1>13, <2>4, <2>5 DEF ReadFill
<1>14. CASE CopyIn(c) /\ pc[c] \in {"new_copy", "new_copying"}
  <2>1. UNCHANGED <<table, disk, req, out>> /\ \E d : Fill(slot[c], d)
      BY <1>14 DEF CopyIn, tableVars, deviceVars
  <2>2. slot[c] \in Slots /\ Unowned(slot[c])
      BY <1>14 DEF TypeInv, ClientLocals, SlotPCs, OwnerOne, Filling
  <2>3. \A l \in Lbas : Value(l)' = Value(l)
      BY <1>5, <2>1, <2>2
  <2>4. pc'[c] \in {"new_copying", "insert"}
      BY <1>0, <1>14 DEF CopyIn, Goto
  <2> QED BY <1>7, <1>14, <2>1, <2>3, <2>4 DEF AppliedPCs
<1>15. CASE CopyIn(c) /\ pc[c] \in {"upd_copy", "upd_copying"}
  <2>1. UNCHANGED <<table, disk, req, out>> /\ Payload(c)' = Payload(c)
      BY <1>15 DEF CopyIn, tableVars, deviceVars, Payload
  <2>2. /\ slot[c] \in Slots /\ req[c].lba \in DOMAIN table
        /\ table[req[c].lba].pool_index = slot[c]
        /\ \A l \in DOMAIN table : l # req[c].lba => table[l].pool_index # slot[c]
      BY <1>15 DEF TypeInv, ClientLocals, SlotPCs, LocalsOne, OwnerOne, TableOwns
  <2>3. \/ pc[c] = "upd_copy" /\ pc'[c] = "upd_copying" /\ Fill(slot[c], Torn)
        \/ pc[c] = "upd_copying" /\ pc'[c] = "mark" /\ Fill(slot[c], Payload(c))
      BY <1>0, <1>15 DEF CopyIn, Goto
  <2>4. \A l \in Lbas : l # req[c].lba => Value(l)' = Value(l)
      BY <1>0, <2>1, <2>2, <2>3 DEF Value, Fill, CacheEntry
  <2>5. CASE pc[c] = "upd_copy"
    <3>1. Store' = [Store EXCEPT ![req[c].lba] = Payload(c)]
        BY <1>1, <2>1, <2>3, <2>4, <2>5 DEF StoreOne
    <3>2. c \notin Applied /\ Applied' = Applied \cup {c}
        BY <1>1, <2>3, <2>5 DEF AppliedOne, AppliedPCs
    <3>3. out[c].status = "pending" /\ req[c].op = "write"
        BY <2>5 DEF RequestShape, WritePCs
    <3> QED BY <2>1, <3>1, <3>2, <3>3, ToApply
  <2>6. CASE pc[c] = "upd_copying"
    <3>1. Value(req[c].lba)' = Payload(c)
        BY <1>0, <2>1, <2>2, <2>3, <2>6 DEF Value, Fill
    <3>2. Store' = Store
      <4>1. StoreOne(c)' = [l \in Lbas |-> Value(l)']
          BY <2>3, <2>6 DEF StoreOne
      <4>2. \A l \in Lbas : Value(l)' = StoreOne(c)[l]
        <5>1. ASSUME NEW l \in Lbas, l = req[c].lba PROVE Value(l)' = Payload(c)
            BY <2>1, <3>1, <5>1
        <5> QED BY <2>4, <2>6, <5>1 DEF StoreOne
      <4>3. StoreOne(c) = [l \in Lbas |-> StoreOne(c)[l]]
          BY DEF StoreOne
      <4> QED BY <1>1, <4>1, <4>2, <4>3
    <3>3. Applied' = Applied
        BY <1>3, <2>3, <2>6 DEF AppliedPCs
    <3> QED BY <2>1, <3>2, <3>3
  <2> QED BY <1>15, <2>5, <2>6
<1>16. CASE Insert(c)
  <2>1. /\ UNCHANGED <<mem, disk, req, out>>
        /\ pc[c] = "insert"
        /\ pc'[c] = IF req[c].op = "read" THEN "copy_out" ELSE "stats"
      BY <1>0, <1>16 DEF Insert, Goto, poolVars, deviceVars
  <2>2. /\ DOMAIN table' = DOMAIN table \cup {req[c].lba}
        /\ table'[req[c].lba].pool_index = slot[c]
        /\ \A k \in DOMAIN table \ {req[c].lba} : table'[k] = table[k]
      BY <1>16 DEF Insert, insert, NewEntry
  <2>3. req[c].lba \in Lbas /\ req[c].lba \notin DOMAIN table
      BY <2>1 DEF TypeInv, ClientLocals, MissOne, MissPCs
  <2>4. out[c].status = "pending" /\ req[c].op \in {"read", "write"}
      BY <2>1 DEF RequestShape
  <2>5. \A l \in Lbas : l # req[c].lba => Value(l)' = Value(l)
      BY <2>1, <2>2 DEF Value
  <2>6. Value(req[c].lba)' = mem[slot[c]] /\ Value(req[c].lba) = disk[req[c].lba]
      BY <2>1, <2>2, <2>3 DEF Value
  <2>7. CASE req[c].op = "read"
    <3>1. \A l \in Lbas : Value(l)' = Value(l)
        BY <2>1, <2>5, <2>6, <2>7 DEF LocalsOne
    <3> QED BY <1>7, <2>1, <2>7, <3>1 DEF AppliedPCs
  <2>8. CASE req[c].op = "write"
    <3>1. Value(req[c].lba)' = Payload(c)
        BY <2>1, <2>6, <2>8 DEF LocalsOne
    <3>2. Store' = [Store EXCEPT ![req[c].lba] = Payload(c)]
        BY <1>1, <2>1, <2>5, <2>8, <3>1 DEF StoreOne
    <3>3. c \notin Applied /\ Applied' = Applied \cup {c}
        BY <1>1, <2>1, <2>8 DEF AppliedOne, AppliedPCs
    <3> QED BY <2>1, <2>4, <2>8, <3>2, <3>3, ToApply
  <2> QED BY <2>4, <2>7, <2>8
<1>17. CASE CopyOut(c)
  <2>1. /\ UNCHANGED <<mem, disk, table, req>>
        /\ pc[c] = "copy_out" /\ pc'[c] = "idle"
        /\ out' = [out EXCEPT ![c] = [status |-> "ok", block |-> mem[slot[c]]]]
      BY <1>0, <1>17 DEF CopyOut, Return, tableVars, poolVars, deviceVars
  <2>2. Store[req[c].lba] = mem[slot[c]]
    <3>1. req[c].lba \in DOMAIN table /\ table[req[c].lba].pool_index = slot[c]
        BY <2>1 DEF LocalsOne
    <3> QED BY <1>0, <1>1, <2>1, <3>1 DEF StoreOne, Value
  <2>3. Store' = Store /\ Applied' = Applied
      BY <1>2, <1>3, <1>4, <2>1 DEF AppliedPCs
  <2>4. out[c].status = "pending" /\ req[c].op = "read"
      BY <2>1 DEF RequestShape, ReadPCs
  <2> QED BY <2>1, <2>2, <2>3, <2>4, ToRead
<1>18. CASE MarkDirty(c)
  <2>1. /\ UNCHANGED <<mem, disk, req, out>>
        /\ pc[c] = "mark" /\ pc'[c] = "stats"
      BY <1>0, <1>18 DEF MarkDirty, Goto, poolVars, deviceVars
  <2>2. /\ DOMAIN table' = DOMAIN table
        /\ \A l \in DOMAIN table : table'[l].pool_index = table[l].pool_index
      BY <1>18 DEF MarkDirty, mark_dirty, SetDirty, NewEntry, tableVars
  <2>3. Store' = Store /\ Applied' = Applied
      BY <1>2, <1>3, <1>4, <2>1, <2>2 DEF AppliedPCs
  <2> QED BY <2>1, <2>3
<1>19. CASE Stats(c) \/ WakeFlusher(c)
  <2>1. UNCHANGED <<mem, disk, table, req>> /\ pc[c] \in {"stats", "wake"}
      BY <1>19 DEF Stats, WakeFlusher, tableVars, poolVars, deviceVars
  <2>2. CASE Return(c, "ok", Zero)
    <3>1. pc'[c] = "idle" /\ out' = [out EXCEPT ![c] = [status |-> "ok", block |-> Zero]]
        BY <1>0, <2>2 DEF Return
    <3>2. Store' = Store
        BY <1>2, <1>4, <2>1, <3>1
    <3>3. c \in Applied /\ Applied' = Applied \ {c}
        BY <1>1, <2>1, <3>1 DEF AppliedOne, AppliedPCs
    <3> QED BY <2>1, <3>1, <3>2, <3>3, ToAck
  <2>3. CASE Goto(c, "wake") /\ UNCHANGED out
    <3>1. pc'[c] = "wake"
        BY <1>0, <2>3 DEF Goto
    <3>2. Store' = Store /\ Applied' = Applied
        BY <1>2, <1>3, <1>4, <2>1, <3>1 DEF AppliedPCs
    <3> QED BY <2>1, <2>3, <3>2
  <2> QED BY <1>19, <2>2, <2>3 DEF Stats, WakeFlusher
<1>20. CASE CopyIn(c)
    BY <1>14, <1>15, <1>20 DEF CopyIn
<1> QED BY <1>8, <1>9, <1>10, <1>11, <1>12, <1>13, <1>16, <1>17, <1>18, <1>19, <1>20
        DEF ClientStep

\* What the flusher writes to the device is hidden behind the table.
LEMMA StoreOthers ==
    ASSUME SingleClient, TypeInv, Shielded,
           \/ Start \/ Stop \/ Drop \/ Shutdown \/ FlusherThread \/ UNCHANGED vars
    PROVE  UNCHANGED <<Store, req, out, Applied>>
<1>1. /\ pc' = pc /\ req' = req /\ out' = out /\ mem' = mem
      /\ DOMAIN table' = DOMAIN table
      /\ \A l \in DOMAIN table : table'[l].pool_index = table[l].pool_index
    BY OthersQuiet, OthersWrite
<1>2. \A l : l \notin DOMAIN table => disk'[l] = disk[l]
  <2>1. CASE UNCHANGED disk
      BY <2>1
  <2>2. CASE fl_pc = "write" /\ \E item \in fl_work : \E d : disk' = [disk EXCEPT ![item[1]] = d]
    <3>1. PICK item \in fl_work : \E d : disk' = [disk EXCEPT ![item[1]] = d]
        BY <2>2
    <3>2. item[1] \in DOMAIN table /\ disk \in [Lbas -> Contents]
        BY <2>2 DEF Shielded, TypeInv, TypeOK, DeviceTypeOK
    <3> QED BY <3>1, <3>2
  <2> QED BY <2>1, <2>2, OthersWrite
<1>3. \A l : Value(l)' = Value(l)
    BY <1>1, <1>2 DEF Value
<1>4. Applied' = Applied
    BY <1>1 DEF Applied
<1>5. CASE Clients = {}
  <2>1. Store = [l \in Lbas |-> Value(l)]
      BY <1>5 DEF Store, Value, Cached
  <2>2. Store' = [l \in Lbas |-> Value(l)']
      BY <1>5 DEF Store, Value, Cached
  <2>3. Store' = Store
      BY <1>3, <2>1, <2>2
  <2> QED BY <1>1, <1>4, <2>3
<1>6. ASSUME NEW c \in Clients PROVE Store' = Store
  <2>1. Store = StoreOne(c)
      BY StoreIsOne
  <2>2. (Store = StoreOne(c))'
      BY StoreIsOne, PTL
  <2>3. StoreOne(c)' = StoreOne(c)
      BY <1>1, <1>3 DEF StoreOne, Payload
  <2> QED BY <2>1, <2>2, <2>3
<1> QED BY <1>1, <1>4, <1>5, <1>6

\* The engine starts as the block store does.
LEMMA StoreStarts == Init => BS!StoreInit
<1> SUFFICES ASSUME Init PROVE BS!StoreInit
    OBVIOUS
<1>1. Store = [l \in Lbas |-> Block(l, 0)]
    BY DEF Init, TableInit, DeviceInit, Store, Cached
<1>2. Applied = {}
    BY DEF Init, Applied
<1> QED BY <1>1, <1>2 DEF Init, BS!StoreInit, BS!Lbas, BS!Block, BS!Zero, BS!NoLba, Lbas, Block,
        Zero, NoLba

\* Every step of the engine is a step of the block store or none.
LEMMA StoreSimulates ==
    ASSUME SingleClient
    PROVE  TypeInv /\ RequestShape /\ OwnerInv /\ MissHolds /\ StoreLocals /\ Shielded
              /\ (AloneInv \/ RoomyInv) /\ [Next]_vars
              => [BS!StoreNext]_BS!storeVars
<1> SUFFICES ASSUME TypeInv, RequestShape, OwnerInv, MissHolds, StoreLocals, Shielded,
                    AloneInv \/ RoomyInv, [Next]_vars
             PROVE  BS!StoreNext \/ UNCHANGED <<Store, req, out, Applied>>
    BY DEF BS!storeVars
<1>1. ASSUME NEW c \in Clients, Request(c) \/ ClientStep(c)
      PROVE  BS!StoreNext \/ UNCHANGED <<Store, req, out, Applied>>
  <2>1. OwnerOne(c) /\ MissOne(c) /\ LocalsOne(c)
      BY OwnerInvOne, LocalsInvOne
  <2>2. pc[c] = "evict_remove" => mem[victim[c].pool_index] = disk[victim[c].lba]
      BY DEF AloneInv, RoomyInv, EvictPCs
  <2> QED BY <1>1, <2>1, <2>2, StoreClient
<1> QED BY <1>1, StoreOthers DEF Next

\* With one client thread and no flusher the cache is invisible: the engine implements
\* BlockStore, whatever the sizes of pool and device, through hits, misses, clean and
\* dirty evictions and with any system call failing.
THEOREM InvisibleWithoutFlusher ==
    ASSUME SingleClient, "start" \notin Calls
    PROVE  Spec => ImplementsBlockStore
<1>1. AloneInv => Shielded
    BY DEF AloneInv, Shielded
<1>2. TypeInv /\ OwnerInv /\ [Next]_vars => OwnerInv'
    BY OwnerStep
<1>3. TypeInv /\ MissHolds /\ [Next]_vars => MissHolds'
    BY MissStep
<1>4. TypeInv /\ RequestShape /\ MissHolds /\ Shielded /\ StoreLocals /\ [Next]_vars
         => StoreLocals'
    BY LocalsStep
<1>5. TypeInv /\ RequestShape /\ OwnerInv /\ MissHolds /\ StoreLocals /\ AloneInv
         /\ [Next]_vars => AloneInv'
    BY AloneStep
<1>6. TypeInv /\ RequestShape /\ OwnerInv /\ MissHolds /\ StoreLocals /\ Shielded
         /\ (AloneInv \/ RoomyInv) /\ [Next]_vars
         => [BS!StoreNext]_BS!storeVars
    BY StoreSimulates
<1> QED BY <1>1, <1>2, <1>3, <1>4, <1>5, <1>6, TypeInit, TypeStep, ShapeInit, ShapeStep,
        OwnerInit, LocalsInit, AloneInit, StoreStarts, PTL
        DEF Spec, ImplementsBlockStore, BS!StoreSpec

\* With a flusher that is started and stopped at any time the cache is invisible as
\* long as every block fits in the pool and no pread fails (a failed one shrinks the
\* pool).  Without the room it is not (run stale_flush).
THEOREM InvisibleWithRoom ==
    ASSUME SingleClient, MaxLba <= Capacity, "pread" \notin Faults
    PROVE  Spec => ImplementsBlockStore
<1>1. RoomyInv => Shielded
    BY DEF RoomyInv, Shielded, Dirty, Cached
<1>2. TypeInv /\ OwnerInv /\ [Next]_vars => OwnerInv'
    BY OwnerStep
<1>3. TypeInv /\ OwnerInv /\ NoLeakInv /\ [Next]_vars => NoLeakInv'
    BY LeakStep
<1>4. NoLeakInv => MissHolds
    BY DEF NoLeakInv
<1>5. TypeInv /\ OwnerInv /\ NoLeakInv /\ RoomyInv /\ [Next]_vars => RoomyInv'
    BY RoomyStep
<1>6. TypeInv /\ RequestShape /\ MissHolds /\ Shielded /\ StoreLocals /\ [Next]_vars
         => StoreLocals'
    BY LocalsStep
<1>7. TypeInv /\ RequestShape /\ OwnerInv /\ MissHolds /\ StoreLocals /\ Shielded
         /\ (AloneInv \/ RoomyInv) /\ [Next]_vars
         => [BS!StoreNext]_BS!storeVars
    BY StoreSimulates
<1> QED BY <1>1, <1>2, <1>3, <1>4, <1>5, <1>6, <1>7, TypeInit, TypeStep, ShapeInit, ShapeStep,
        OwnerInit, LeakInit, LocalsInit, RoomyInit, StoreStarts, PTL
        DEF Spec, ImplementsBlockStore, BS!StoreSpec
=============================================================================
