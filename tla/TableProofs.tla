----------------------------- MODULE TableProofs -----------------------------
(***************************************************************************)
(* The table: what a running request is, and the dirty watermark, for one  *)
(* client.                                                                 *)
(***************************************************************************)
EXTENDS LeakProofs, FiniteSetTheorems

-----------------------------------------------------------------------------
(* What a running request is.                                              *)

\* A step of one client that keeps RequestShape for it keeps it for all.
LEMMA ShapeLocal ==
    ASSUME TypeInv, RequestShape, NEW c \in Clients,
           \A d \in Clients \ {c} : pc'[d] = pc[d] /\ req'[d] = req[d] /\ out'[d] = out[d],
           pc'[c] \in ReadPCs => req'[c].op = "read",
           pc'[c] \in WritePCs => req'[c].op = "write",
           pc'[c] # "idle" => req'[c].op \in {"read", "write"},
           pc'[c] # "idle" <=> out'[c].status = "pending"
    PROVE  RequestShape'
BY DEF RequestShape

\* A thread on the read path stays in a read and one on the write path in a write, and
\* both keep the address they were called with.
LEMMA ShapeStep == TypeInv /\ RequestShape /\ [Next]_vars => RequestShape'
<1> SUFFICES ASSUME TypeInv, RequestShape, [Next]_vars PROVE RequestShape'
    OBVIOUS
<1>0. /\ pc \in [Clients -> PCs]
      /\ req \in [Clients -> Requests]
      /\ out \in [Clients -> Outcomes]
    BY DEF TypeInv, TypeOK, EngineTypeOK
<1>1. ASSUME NEW c \in Clients, Request(c) PROVE RequestShape'
  <2>1. \A d \in Clients \ {c} : pc'[d] = pc[d] /\ req'[d] = req[d] /\ out'[d] = out[d]
      BY <1>0, <1>1 DEF Request, Reject, ReadLookup, WriteLookup, Begin, Goto, Return, Pending
  <2>2. CASE Reject(c)
    <3>1. pc'[c] = "idle" /\ out'[c].status \in {"LbaOutOfRange", "Config"}
        BY <1>0, <2>2 DEF Reject, Return
    <3> QED BY <2>1, <3>1, ShapeLocal DEF ReadPCs, WritePCs
  <2>3. CASE ReadLookup(c)
    <3>1. /\ pc'[c] \in {"copy_out", "alloc"}
          /\ req'[c].op = "read"
          /\ out'[c].status = "pending"
        BY <1>0, <2>3 DEF ReadLookup, Begin, Goto, Pending
    <3> QED BY <2>1, <3>1, ShapeLocal DEF ReadPCs, WritePCs
  <2>4. CASE WriteLookup(c)
    <3>1. /\ pc'[c] \in {"upd_copy", "alloc"}
          /\ req'[c].op = "write"
          /\ out'[c].status = "pending"
        BY <1>0, <2>4 DEF WriteLookup, Begin, Goto, Pending
    <3> QED BY <2>1, <3>1, ShapeLocal DEF ReadPCs, WritePCs
  <2> QED BY <1>1, <2>2, <2>3, <2>4 DEF Request
<1>2. ASSUME NEW c \in Clients, ClientStep(c) PROVE RequestShape'
  <2>1. UNCHANGED req
      BY <1>2 DEF ClientStep, Allocate, Select, SelectRest, EvictWrite, EvictWake,
          EvictRemove, EvictFree, EvictFreeRest, Realloc, ReadFill, CopyIn, Insert,
          CopyOut, MarkDirty, Stats, WakeFlusher
  <2>2. /\ req[c].op \in {"read", "write"}
        /\ pc[c] \in ReadPCs => req[c].op = "read"
        /\ pc[c] \in WritePCs => req[c].op = "write"
        /\ out[c].status = "pending"
        /\ pc[c] # "idle"
    <3>1. pc[c] # "idle"
        BY <1>2 DEF ClientStep, Allocate, Select, EvictWrite, EvictWake, EvictRemove,
            EvictFree, EvictFreeRest, Realloc, ReadFill, CopyIn, Insert, CopyOut,
            MarkDirty, Stats, WakeFlusher
    <3> QED BY <3>1 DEF RequestShape
  <2>3. CASE \E st \in {"ok"} \cup Errors, b \in Contents : Return(c, st, b)
    <3>1. PICK st \in {"ok"} \cup Errors, b \in Contents : Return(c, st, b)
        BY <2>3
    <3>2. pc'[c] = "idle" /\ out'[c].status = st /\ st # "pending"
        BY <1>0, <3>1 DEF Return, Errors
    <3>3. \A d \in Clients \ {c} : pc'[d] = pc[d] /\ out'[d] = out[d]
        BY <1>0, <3>1 DEF Return
    <3> QED BY <2>1, <3>2, <3>3, ShapeLocal DEF ReadPCs, WritePCs
  <2>4. ASSUME NEW label \in PCs \ {"idle"}, Goto(c, label), UNCHANGED out,
               label \in ReadPCs => req[c].op = "read",
               label \in WritePCs => req[c].op = "write"
        PROVE  RequestShape'
    <3>1. pc'[c] = label /\ \A d \in Clients \ {c} : pc'[d] = pc[d]
        BY <1>0, <2>4 DEF Goto
    <3> QED BY <2>1, <2>2, <2>4, <3>1, ShapeLocal
  <2>5. ASSUME NEW label \in {"select", "evict_write", "evict_wake", "evict_remove",
                              "evict_free", "realloc", "insert"},
               Goto(c, label), UNCHANGED out
        PROVE  RequestShape'
      BY <2>4, <2>5 DEF PCs, ReadPCs, WritePCs
  <2>6. ASSUME NEW label \in {"new_copying", "upd_copying", "mark", "stats", "wake"},
                req[c].op = "write", Goto(c, label), UNCHANGED out
         PROVE  RequestShape'
      BY <2>4, <2>6 DEF PCs, ReadPCs, WritePCs
  <2>7. CASE TakeSlot(c) /\ UNCHANGED out
    <3>1. Goto(c, IF req[c].op = "read" THEN "fill" ELSE "new_copy")
        BY <2>7 DEF TakeSlot
    <3>2. CASE req[c].op = "read"
      <4>1. Goto(c, "fill")
          BY <3>1, <3>2
      <4> QED BY <2>4, <2>7, <3>2, <4>1 DEF PCs, ReadPCs, WritePCs
    <3>3. CASE req[c].op = "write"
      <4>1. Goto(c, "new_copy")
          BY <3>1, <3>3
      <4> QED BY <2>4, <2>7, <3>3, <4>1 DEF PCs, ReadPCs, WritePCs
    <3> QED BY <2>2, <3>2, <3>3
  <2>8. CASE Allocate(c) \/ EvictWake(c) \/ EvictRemove(c) \/ EvictFree(c) \/ CopyIn(c)
             \/ Insert(c) \/ MarkDirty(c)
    <3>1. UNCHANGED out
        BY <2>8 DEF Allocate, EvictWake, EvictRemove, EvictFree, EvictFreeRest, CopyIn,
            Insert, MarkDirty
    <3>2. \/ TakeSlot(c)
          \/ \E label \in {"select", "evict_remove", "evict_free", "realloc", "insert"} :
                Goto(c, label)
          \/ /\ pc[c] \in WritePCs
             /\ \E label \in {"new_copying", "upd_copying", "mark", "stats"} : Goto(c, label)
          \/ req[c].op = "read" /\ Goto(c, "copy_out")
          \/ req[c].op # "read" /\ Goto(c, "stats")
        BY <2>8 DEF Allocate, EvictWake, EvictRemove, EvictFree, EvictFreeRest, CopyIn,
            Insert, MarkDirty, WritePCs
    <3>3. ASSUME req[c].op = "read", Goto(c, "copy_out") PROVE RequestShape'
        BY <2>4, <3>1, <3>3 DEF PCs, ReadPCs, WritePCs
    <3> QED BY <2>2, <2>7, <2>5, <2>6, <3>1, <3>2, <3>3
  <2>9. CASE Select(c) \/ EvictWrite(c) \/ Realloc(c) \/ ReadFill(c) \/ Stats(c)
    <3>1. \/ Return(c, "Internal", Zero) \/ Return(c, "Io", Zero)
          \/ Return(c, "PoolExhausted", Zero) \/ Return(c, "ok", Zero)
          \/ TakeSlot(c) /\ UNCHANGED out
          \/ /\ UNCHANGED out
             /\ \E label \in {"evict_write", "evict_remove", "evict_wake", "insert"} : Goto(c, label)
          \/ /\ UNCHANGED out
             /\ pc[c] \in WritePCs
             /\ Goto(c, "wake")
        BY <2>9 DEF Select, Choose, EvictWrite, Realloc, ReadFill, Stats, WritePCs
    <3> QED BY <2>2, <2>3, <2>7, <2>5, <2>6, <3>1, ContentsFacts DEF Errors
  <2>10. CASE CopyOut(c) \/ WakeFlusher(c)
    <3>1. mem[slot[c]] \in Contents \/ WakeFlusher(c)
        BY <2>10 DEF CopyOut, TypeInv, TypeOK, PoolTypeOK, ClientLocals, SlotPCs
    <3> QED BY <2>3, <2>10, <3>1, ContentsFacts DEF CopyOut, WakeFlusher
  <2> QED BY <1>2, <2>8, <2>9, <2>10 DEF ClientStep
<1>3. CASE Start \/ Stop \/ Drop \/ Shutdown \/ FlusherThread \/ UNCHANGED vars
  <2>1. UNCHANGED <<pc, req, out>>
      BY <1>3 DEF Start, Stop, Drop, Shutdown, ShutdownStore, ShutdownSend, ShutdownJoin,
          FlusherThread, vars, clientVars
  <2> QED BY <2>1 DEF RequestShape
<1> QED BY <1>1, <1>2, <1>3 DEF Next

\* No request has begun at first.
LEMMA ShapeInit == Init => RequestShape
BY DEF Init, RequestShape, ReadPCs, WritePCs

-----------------------------------------------------------------------------
(* The watermark: counting.                                                *)

Under(d, t) == t > 0 => d * 100 < WatermarkPct * t

\* Below counts the dirty entries of the table, and the room a client has made in it.
LEMMA BelowIsUnder ==
    ASSUME NEW room
    PROVE  Below(room) <=> Under(Cardinality(DirtyLbas), Cardinality(DOMAIN table) + room)
BY DEF Below, Under

\* Fewer dirty entries, or one clean entry more, keep a share below the watermark.
LEMMA UnderFacts ==
    ASSUME WatermarkPct > 0, NEW d \in Nat, NEW t \in Nat, d <= t, Under(d, t)
    PROVE  /\ Under(d, t + 1)
           /\ \A e \in Nat : e <= d => Under(e, t)
<1>1. WatermarkPct \in Nat
    BY WatermarkAssumption
<1>2. WatermarkPct * (t + 1) = WatermarkPct * t + WatermarkPct
    BY <1>1
<1> DEFINE w == WatermarkPct * t
<1>3. w \in Nat /\ (t = 0 => w = 0)
    BY <1>1
<1> HIDE DEF w
<1>4. t > 0 => d * 100 < w
    BY DEF Under, w
<1>5. d * 100 < w + WatermarkPct
    BY <1>1, <1>3, <1>4
<1>6. \A e \in Nat : e <= d => (t > 0 => e * 100 < w)
    BY <1>3, <1>4
<1> QED BY <1>2, <1>5, <1>6 DEF Under, w

\* The table is finite.
LEMMA CountFacts ==
    ASSUME TypeInv
    PROVE  /\ IsFiniteSet(DOMAIN table) /\ IsFiniteSet(DirtyLbas)
           /\ Cardinality(DOMAIN table) \in Nat /\ Cardinality(DirtyLbas) \in Nat
           /\ Cardinality(DirtyLbas) <= Cardinality(DOMAIN table)
<1>1. IsFiniteSet(Lbas)
    BY BlocksAssumption, FS_Interval DEF Lbas
<1>2. DOMAIN table \in SUBSET Lbas
    BY DEF TypeInv, TypeOK, TableTypeOK
<1>3. IsFiniteSet(DOMAIN table)
    BY <1>1, <1>2, FS_Subset
<1>4. DirtyLbas \in SUBSET DOMAIN table
    BY DEF DirtyLbas
<1>5. IsFiniteSet(DirtyLbas) /\ Cardinality(DirtyLbas) <= Cardinality(DOMAIN table)
    BY <1>3, <1>4, FS_Subset
<1> QED BY <1>3, <1>5, FS_CardinalityType

\* stats() counts the dirty entries by their pairs.
LEMMA PairsCount == ASSUME TypeInv PROVE Cardinality(dirty_entries) = Cardinality(DirtyLbas)
<1> DEFINE f == [l \in DirtyLbas |-> <<l, table[l].pool_index>>]
<1>1. dirty_entries = {<<l, table[l].pool_index>> : l \in DirtyLbas}
    BY DEF dirty_entries, DirtyLbas
<1>2. f \in Bijection(DirtyLbas, dirty_entries)
  <2>1. f \in [DirtyLbas -> dirty_entries]
      BY <1>1
  <2>2. \A k, l \in DirtyLbas : f[k] = f[l] => k = l
      OBVIOUS
  <2>3. \A t \in dirty_entries : \E l \in DirtyLbas : f[l] = t
      BY <1>1
  <2> QED BY <2>1, <2>2, <2>3 DEF Bijection, Injection, IsInjective, Surjection
<1>3. ExistsBijection(DirtyLbas, dirty_entries)
    BY <1>2 DEF ExistsBijection
<1> QED BY <1>3, CountFacts, FS_Bijection

-----------------------------------------------------------------------------
(* The watermark: the steps.                                               *)

\* WatermarkInv for the one client.
Due == owed \/ fl_pc \in {"snapshot", "exited"}
Calm(c) == AllFlushing \/ pc[c] \in {"stats", "wake"} \/ Below(Room(c))

WatermarkOne(c) ==
    /\ life = "up" /\ fd_open
    /\ fl_pc \notin {"write", "clean"} => fl_work = {}
    /\ fl_pc = "none" => DirtyLbas = {} /\ (pc[c] # "idle" => req[c].op # "write")
    /\ Due \/ Calm(c)

\* With one client, the invariant is a statement about that client.
LEMMA WatermarkInvOne == ASSUME SingleClient, NEW c \in Clients
                         PROVE  WatermarkInv <=> WatermarkOne(c)
BY Zenon DEF SingleClient, WatermarkInv, WatermarkOne, Due, Calm

RoomPCs == {"fill", "new_copy", "new_copying", "insert", "evict_free", "realloc"}

\* Where a client is between making room in the table and using it.
LEMMA RoomIs == ASSUME NEW c PROVE Room(c) = IF pc[c] \in RoomPCs THEN 1 ELSE 0
BY DEF Room, RoomPCs, Filling

\* A step of a client that leaves the table alone, and does not give up the room
\* it has made.
LEMMA QuietCalm ==
    ASSUME WatermarkSetting, TypeInv, NEW c \in Clients, Due \/ Calm(c),
           UNCHANGED <<table, fl_pc, fl_work, fl_lba>>, owed => owed',
           pc[c] \notin {"stats", "wake"}, pc[c] \in RoomPCs => pc'[c] \in RoomPCs
    PROVE  (Due \/ Calm(c))'
<1>1. CASE Due
    BY <1>1 DEF Due
<1>2. CASE AllFlushing
    BY <1>2 DEF Calm, AllFlushing, Flushing, DirtyLbas, Dirty, Cached
<1>3. CASE Below(Room(c))
  <2>1. DirtyLbas' = DirtyLbas
      BY DEF DirtyLbas, Dirty, Cached
  <2>2. Under(Cardinality(DirtyLbas), Cardinality(DOMAIN table) + Room(c))
      BY <1>3, BelowIsUnder
  <2>3. Under(Cardinality(DirtyLbas), Cardinality(DOMAIN table) + Room(c)')
    <3>1. CASE Room(c)' = Room(c)
        BY <2>2, <3>1
    <3>2. CASE Room(c) = 0 /\ Room(c)' = 1
      <4>1. Under(Cardinality(DirtyLbas), Cardinality(DOMAIN table))
          BY <2>2, <3>2, CountFacts
      <4> QED BY <3>2, <4>1, CountFacts, UnderFacts DEF WatermarkSetting
    <3>3. Room(c)' = IF pc'[c] \in RoomPCs THEN 1 ELSE 0
        BY DEF Room, RoomPCs, Filling
    <3> QED BY <3>1, <3>2, <3>3, RoomIs
  <2>4. Below(Room(c))'
      BY <2>1, <2>3 DEF Below, Under
  <2> QED BY <2>4 DEF Calm
<1> QED BY <1>1, <1>2, <1>3 DEF Calm

\* No step of a client touches the flusher's locals; a wake() only adds to owed.
LEMMA ClientLeavesFlusher ==
    ASSUME NEW c \in Clients, Request(c) \/ ClientStep(c)
    PROVE  UNCHANGED <<life, fl_pc, fl_work, fl_lba, fd_open>> /\ (owed => owed')
<1>1. CASE Request(c)
    BY <1>1 DEF Request, Reject, ReadLookup, WriteLookup, flushVars, engineVars, deviceVars
<1>2. CASE EvictWake(c) \/ WakeFlusher(c)
    BY <1>2 DEF EvictWake, WakeFlusher, wake, threadVars, engineVars, deviceVars
<1>3. CASE EvictWrite(c)
    BY <1>3 DEF EvictWrite, write_lba, write_lba_err, PutBlock, flushVars, engineVars, deviceVars
<1>4. CASE Allocate(c) \/ Select(c) \/ EvictRemove(c) \/ EvictFree(c) \/ Realloc(c)
           \/ ReadFill(c) \/ CopyIn(c) \/ Insert(c) \/ CopyOut(c) \/ MarkDirty(c) \/ Stats(c)
    BY <1>4 DEF Allocate, Select, SelectRest, EvictRemove, EvictFree, EvictFreeRest, Realloc,
        ReadFill, CopyIn, Insert, CopyOut, MarkDirty, Stats, flushVars, engineVars, deviceVars
<1> QED BY <1>1, <1>2, <1>3, <1>4 DEF ClientStep

\* A request that is called, and each step of it.
LEMMA WatermarkClient ==
    ASSUME WatermarkSetting, TypeInv, RequestShape, NEW c \in Clients, OwnerOne(c), LeakOne(c),
           WatermarkOne(c), Request(c) \/ ClientStep(c)
    PROVE  WatermarkOne(c)'
<1>0. pc \in [Clients -> PCs] /\ req \in [Clients -> Requests]
    BY DEF TypeInv, TypeOK, EngineTypeOK
<1>1. UNCHANGED <<life, fl_pc, fl_work, fl_lba, fd_open>> /\ (owed => owed')
    BY ClientLeavesFlusher
<1>2. Due \/ Calm(c)
    BY DEF WatermarkOne
<1>3. SUFFICES /\ fl_pc = "none" => DirtyLbas' = {} /\ (pc'[c] # "idle" => req'[c].op # "write")
               /\ (Due \/ Calm(c))'
    BY <1>1 DEF WatermarkOne
<1>4. ASSUME UNCHANGED table PROVE DirtyLbas' = DirtyLbas
    BY <1>4 DEF DirtyLbas, Dirty, Cached
<1>5. CASE Request(c)
  <2>1. UNCHANGED table /\ pc[c] = "idle" /\ pc'[c] \in {"idle", "alloc", "copy_out", "upd_copy"}
      BY <1>0, <1>5 DEF Request, Reject, ReadLookup, WriteLookup, Begin, Return, Goto,
          get_and_touch, tableVars
  <2>2. (Due \/ Calm(c))'
      BY <1>1, <1>2, <2>1, QuietCalm DEF RoomPCs
  <2>3. fl_pc = "none" => (pc'[c] # "idle" => req'[c].op # "write")
      BY <1>0, <1>5 DEF Request, Reject, ReadLookup, WriteLookup, Begin, Return, WatermarkSetting
  <2> QED BY <1>4, <2>1, <2>2, <2>3 DEF WatermarkOne
<1>6. ASSUME ClientStep(c) PROVE fl_pc = "none" => req[c].op = "read" /\ req'[c].op # "write"
  <2>1. pc[c] # "idle" /\ UNCHANGED req
      BY <1>6 DEF ClientStep, Allocate, Select, SelectRest, EvictWrite, EvictWake,
          EvictRemove, EvictFree, EvictFreeRest, Realloc, ReadFill, CopyIn, Insert,
          CopyOut, MarkDirty, Stats, WakeFlusher
  <2> QED BY <2>1 DEF WatermarkOne, RequestShape
<1>7. CASE Allocate(c) \/ Select(c) \/ EvictWrite(c) \/ EvictWake(c) \/ CopyOut(c)
  <2>1. UNCHANGED table /\ pc[c] \notin RoomPCs \cup {"stats", "wake"}
      BY <1>7 DEF Allocate, Select, SelectRest, EvictWrite, EvictWake, CopyOut, tableVars, RoomPCs
  <2>2. (Due \/ Calm(c))'
      BY <1>1, <1>2, <2>1, QuietCalm
  <2> QED BY <1>4, <1>6, <1>7, <2>1, <2>2 DEF WatermarkOne, ClientStep
<1>8. CASE EvictFree(c) \/ Realloc(c) \/ ReadFill(c) \/ CopyIn(c)
  <2>1. UNCHANGED table /\ pc[c] \notin {"stats", "wake"}
      BY <1>8 DEF EvictFree, EvictFreeRest, Realloc, ReadFill, CopyIn, tableVars
  <2>2. pc[c] \in RoomPCs => pc'[c] \in RoomPCs
    <3>1. CASE EvictFree(c) \/ CopyIn(c)
        BY <1>0, <3>1 DEF EvictFree, EvictFreeRest, CopyIn, Goto, RoomPCs
    <3>2. CASE Realloc(c)
        BY <1>0, <3>2 DEF Realloc, OwnerOne, TakeSlot, Goto, RoomPCs
    <3>3. CASE ReadFill(c)
        BY <1>0, <3>3 DEF ReadFill, read_lba_err, Goto, RoomPCs, WatermarkSetting
    <3> QED BY <1>8, <3>1, <3>2, <3>3
  <2>3. (Due \/ Calm(c))'
      BY <1>1, <1>2, <2>1, <2>2, QuietCalm
  <2> QED BY <1>4, <1>6, <1>8, <2>1, <2>3 DEF WatermarkOne, ClientStep
<1>9. CASE EvictRemove(c)
  <2> DEFINE l == victim[c].lba
  <2>1. l \in DOMAIN table /\ pc[c] = "evict_remove" /\ pc'[c] = "evict_free"
      BY <1>0, <1>9 DEF EvictRemove, Goto, OwnerOne
  <2>2. table' = [k \in DOMAIN table \ {l} |-> table[k]]
      BY <1>9 DEF EvictRemove, remove
  <2>3. DOMAIN table' = DOMAIN table \ {l} /\ DirtyLbas' = DirtyLbas \ {l}
      BY <2>2 DEF DirtyLbas, Dirty, Cached
  <2>4. ASSUME AllFlushing PROVE (Due \/ Calm(c))'
      BY <1>1, <2>3, <2>4 DEF Calm, AllFlushing, Flushing
  <2>5. ASSUME Below(Room(c)) PROVE (Due \/ Calm(c))'
    <3> DEFINE d == Cardinality(DirtyLbas)
               t == Cardinality(DOMAIN table)
               e == Cardinality(DirtyLbas')
    <3>1. d \in Nat /\ t \in Nat /\ d <= t /\ IsFiniteSet(DirtyLbas) /\ IsFiniteSet(DOMAIN table)
        BY CountFacts
    <3>2. Cardinality(DOMAIN table') = t - 1
        BY <2>1, <2>3, <3>1, FS_RemoveElement
    <3>3. e \in Nat /\ e <= d
      <4>1. DirtyLbas' \in SUBSET DirtyLbas
          BY <2>3
      <4> QED BY <3>1, <4>1, FS_Subset, FS_CardinalityType
    <3>4. Under(d, t)
      <4>1. Room(c) = 0
          BY <2>1, RoomIs DEF RoomPCs
      <4>2. Under(d, t + 0)
          BY <2>5, <4>1, BelowIsUnder
      <4> QED BY <3>1, <4>2
    <3>5. Under(e, t)
        BY <3>1, <3>3, <3>4, UnderFacts DEF WatermarkSetting
    <3>6. Room(c)' = 1
        BY <2>1 DEF Room
    <3>7. Below(Room(c))'
        BY <3>1, <3>2, <3>5, <3>6 DEF Below, Under
    <3> QED BY <3>7 DEF Calm
  <2>6. ASSUME Due PROVE (Due \/ Calm(c))'
      BY <1>1, <2>6 DEF Due
  <2> QED BY <1>2, <1>6, <1>9, <2>1, <2>3, <2>4, <2>5, <2>6 DEF Calm, WatermarkOne, ClientStep
<1>10. CASE Insert(c)
  <2> DEFINE l == req[c].lba
  <2>1. pc[c] = "insert" /\ l \notin DOMAIN table
      BY <1>10 DEF Insert, LeakOne, MissPCs
  <2>2. CASE req[c].op = "write"
    <3>1. pc'[c] = "stats"
        BY <1>0, <1>10, <2>2 DEF Insert, Goto
    <3> QED BY <1>6, <1>10, <2>2, <3>1 DEF ClientStep, Calm
  <2>3. CASE req[c].op = "read"
    <3>1. pc'[c] = "copy_out"
        BY <1>0, <1>10, <2>3 DEF Insert, Goto
    <3>2. /\ DOMAIN table' = DOMAIN table \cup {l}
          /\ table'[l].dirty = FALSE
          /\ \A k \in DOMAIN table : table'[k] = table[k]
        BY <1>10, <2>1, <2>3 DEF Insert, insert, NewEntry
    <3>3. DirtyLbas' = DirtyLbas
        BY <2>1, <3>2 DEF DirtyLbas, Dirty, Cached
    <3>4. ASSUME AllFlushing PROVE (Due \/ Calm(c))'
        BY <1>1, <3>3, <3>4 DEF Calm, AllFlushing, Flushing
    <3>5. ASSUME Below(Room(c)) PROVE (Due \/ Calm(c))'
      <4>1. Room(c) = 1 /\ Room(c)' = 0
          BY <2>1, <3>1 DEF Room, Filling
      <4>2. Cardinality(DOMAIN table') = Cardinality(DOMAIN table) + 1
          BY <2>1, <3>2, CountFacts, FS_AddElement
      <4>3. Below(Room(c))'
          BY <3>3, <3>5, <4>1, <4>2, CountFacts DEF Below
      <4> QED BY <4>3 DEF Calm
    <3>6. ASSUME Due PROVE (Due \/ Calm(c))'
        BY <1>1, <3>6 DEF Due
    <3> QED BY <1>2, <1>6, <1>10, <2>1, <3>3, <3>4, <3>5, <3>6 DEF Calm, WatermarkOne, ClientStep
  <2> QED BY <2>1, <2>2, <2>3 DEF RequestShape
<1>11. CASE MarkDirty(c)
  <2>1. pc'[c] = "stats" /\ req[c].op = "write"
      BY <1>0, <1>11 DEF MarkDirty, Goto, RequestShape, WritePCs
  <2> QED BY <1>6, <1>11, <2>1 DEF ClientStep, Calm
<1>12. CASE Stats(c)
  <2>1. req[c].op = "write"
      BY <1>12 DEF Stats, RequestShape, WritePCs
  <2>2. CASE Goto(c, "wake")
      BY <1>0, <1>6, <1>12, <2>1, <2>2 DEF ClientStep, Calm, Goto
  <2>3. CASE ~should_flush_immediately /\ Return(c, "ok", Zero)
    <3>1. pc'[c] = "idle" /\ Room(c)' = 0
        BY <1>0, <2>3 DEF Return, Room, Filling
    <3>2. UNCHANGED table
        BY <1>12 DEF Stats, tableVars
    <3>3. DirtyLbas' = DirtyLbas
        BY <1>4, <3>2
    <3>4. Under(Cardinality(DirtyLbas), Cardinality(DOMAIN table))
      <4> DEFINE t == Cardinality(DOMAIN table)
      <4>1. t # 0 => ~(Cardinality(DirtyLbas) * 100 >= WatermarkPct * t)
          BY <2>3, PairsCount DEF should_flush_immediately
      <4>2. WatermarkPct * t \in Int
          BY WatermarkAssumption, CountFacts
      <4> QED BY <4>1, <4>2, CountFacts DEF Under
    <3>5. Below(Room(c))'
        BY <3>1, <3>2, <3>3, <3>4, CountFacts DEF Below, Under
    <3> QED BY <1>6, <1>12, <2>1, <3>5 DEF ClientStep, Calm
  <2> QED BY <1>12, <2>2, <2>3 DEF Stats
<1>13. CASE WakeFlusher(c)
  <2>1. req[c].op = "write"
      BY <1>13 DEF WakeFlusher, RequestShape, WritePCs
  <2>2. fl_pc # "none"
      BY <1>6, <1>13, <2>1 DEF ClientStep
  <2>3. Due'
      BY <1>1, <1>13, <2>2 DEF WakeFlusher, wake, Alive, Due
  <2> QED BY <2>2, <2>3
<1> QED BY <1>5, <1>7, <1>8, <1>9, <1>10, <1>11, <1>12, <1>13 DEF ClientStep

\* The owner can only start the flusher; the flusher's own steps.
LEMMA WatermarkOthers ==
    ASSUME WatermarkSetting, TypeInv, WatermarkInv,
           \/ Start \/ Stop \/ Drop \/ Shutdown \/ FlusherThread \/ UNCHANGED vars
    PROVE  WatermarkInv'
<1> DEFINE Some == \E c \in Clients : pc[c] \in {"stats", "wake"} \/ Below(Room(c))
<1>0. Due \/ AllFlushing \/ Some
    BY DEF WatermarkInv, Due
<1>1. ASSUME UNCHANGED <<pc, table>> PROVE (Some => Some') /\ DirtyLbas' = DirtyLbas
  <2>1. DirtyLbas' = DirtyLbas
      BY <1>1 DEF DirtyLbas, Dirty, Cached
  <2>2. \A c \in Clients : Room(c)' = Room(c)
      BY <1>1 DEF Room, Filling
  <2> QED BY <1>1, <2>1, <2>2 DEF Below
<1>2. CASE Stop \/ Drop \/ Shutdown
    BY <1>2 DEF Stop, Drop, Shutdown, ShutdownStore, ShutdownSend, ShutdownJoin,
        WatermarkInv, WatermarkSetting
<1>3. CASE UNCHANGED vars
  <2>1. /\ UNCHANGED <<pc, table, req, life, fd_open, fl_pc, fl_work, fl_lba, owed>>
        /\ (Some => Some') /\ DirtyLbas' = DirtyLbas
      BY <1>1, <1>3 DEF vars, tableVars, clientVars, engineVars, deviceVars, flushVars
  <2>2. AllFlushing => AllFlushing'
      BY <2>1 DEF AllFlushing, Flushing
  <2> QED BY <1>0, <2>1, <2>2 DEF WatermarkInv, Due
<1>4. CASE Start
  <2>1. /\ UNCHANGED <<pc, table, req, life, fd_open, fl_work, fl_lba, owed>>
        /\ fl_pc = "none" /\ fl_pc' = "wait"
      BY <1>4 DEF Start, tableVars, clientVars, engineVars, deviceVars
  <2>2. DirtyLbas' = {} /\ fl_work' = {}
      BY <1>1, <2>1 DEF WatermarkInv
  <2> QED BY <2>1, <2>2 DEF WatermarkInv, AllFlushing
<1>5. CASE FlusherThread
  <2>0. UNCHANGED <<pc, req, life>>
      BY <1>5 DEF FlusherThread, clientVars, engineVars
  <2>1. CASE FlReceive \/ FlTimeout
      BY <1>1, <2>0, <2>1 DEF FlReceive, FlTimeout, tableVars, deviceVars, WatermarkInv
  <2>2. CASE FlSnapshot
    <3>1. UNCHANGED <<table, fd_open>> /\ fl_work' = dirty_entries /\ fl_pc' \in {"check", "write"}
        BY <2>2 DEF FlSnapshot, tableVars, deviceVars
    <3>2. fl_pc' # "write" => fl_work' = {}
        BY <2>2 DEF FlSnapshot
    <3>3. DirtyLbas' = DirtyLbas
        BY <1>1, <2>0, <3>1
    <3>4. ASSUME NEW l \in DirtyLbas PROVE \E s \in Slots : <<l, s>> \in fl_work'
      <4>1. <<l, table[l].pool_index>> \in dirty_entries
          BY DEF dirty_entries, DirtyLbas
      <4>2. table[l].pool_index \in Slots
          BY DEF TypeInv, TypeOK, TableTypeOK, CacheEntry, DirtyLbas
      <4> QED BY <3>1, <4>1, <4>2
    <3>5. AllFlushing'
        BY <3>3, <3>4 DEF AllFlushing, Flushing
    <3> QED BY <2>0, <3>1, <3>2, <3>5 DEF WatermarkInv
  <2>3. CASE FlWrite
    <3>1. fl_pc = "write" /\ UNCHANGED <<table, owed>>
        BY <2>3 DEF FlWrite, tableVars
    <3>2. PICK item \in fl_work : /\ fl_work' = fl_work \ {item}
                                 /\ fl_lba' = item[1]
                                 /\ fl_pc' = "clean"
                                 /\ UNCHANGED fd_open
        BY <2>3 DEF FlWrite, write_lba, write_lba_err, PutBlock, WatermarkInv, WatermarkSetting
    <3>3. (Some => Some') /\ DirtyLbas' = DirtyLbas
        BY <1>1, <2>0, <3>1
    <3>4. ASSUME NEW l, Flushing(l) PROVE Flushing(l)'
        BY <3>1, <3>2, <3>4 DEF Flushing
    <3>5. AllFlushing => AllFlushing'
        BY <3>3, <3>4 DEF AllFlushing
    <3> QED BY <1>0, <2>0, <3>1, <3>2, <3>3, <3>5 DEF WatermarkInv, Due
  <2>4. CASE FlClean
    <3>1. /\ fl_pc = "clean" /\ UNCHANGED <<owed, fd_open, fl_work>>
          /\ fl_pc' = IF fl_work # {} THEN "write" ELSE "sync"
        BY <2>4 DEF FlClean, FlLoop, deviceVars
    <3>2. DOMAIN table' = DOMAIN table /\ DirtyLbas' = DirtyLbas \ {fl_lba}
      <4>1. CASE fl_lba \in DOMAIN table
        <5>1. table' = SetDirty(fl_lba, FALSE)
            BY <2>4, <4>1 DEF FlClean, mark_clean, Cached
        <5> QED BY <4>1, <5>1 DEF SetDirty, NewEntry, DirtyLbas, Dirty, Cached
      <4>2. CASE fl_lba \notin DOMAIN table
          BY <2>4, <4>2 DEF FlClean, mark_clean, Cached, DirtyLbas, Dirty
      <4> QED BY <4>1, <4>2
    <3>3. AllFlushing => AllFlushing'
        BY <3>1, <3>2 DEF AllFlushing, Flushing
    <3>4. ASSUME NEW c \in Clients, Below(Room(c)) PROVE Below(Room(c))'
      <4> DEFINE d == Cardinality(DirtyLbas)
                 t == Cardinality(DOMAIN table) + Room(c)
                 e == Cardinality(DirtyLbas')
      <4>1. Room(c)' = Room(c) /\ Room(c) \in {0, 1}
          BY <2>0 DEF Room, Filling
      <4>2. d \in Nat /\ t \in Nat /\ d <= t /\ IsFiniteSet(DirtyLbas)
          BY <4>1, CountFacts
      <4>3. e \in Nat /\ e <= d
        <5>1. DirtyLbas' \in SUBSET DirtyLbas
            BY <3>2
        <5> QED BY <4>2, <5>1, FS_Subset, FS_CardinalityType
      <4>4. Under(d, t)
          BY <3>4, BelowIsUnder
      <4>5. Under(e, t)
          BY <4>2, <4>3, <4>4, UnderFacts DEF WatermarkSetting
      <4> QED BY <3>2, <4>1, <4>5 DEF Below, Under
    <3>5. Some => Some'
        BY <2>0, <3>4
    <3> QED BY <1>0, <2>0, <3>1, <3>3, <3>5 DEF WatermarkInv, Due
  <2>5. CASE FlSync \/ FlCheck
    <3>1. /\ fl_pc \in {"sync", "check"} /\ UNCHANGED <<table, fd_open, fl_work, fl_lba>>
          /\ fl_pc' \in {"check", "wait", "exited"}
          /\ fl_pc' = "exited" \/ UNCHANGED owed
        BY <2>5 DEF FlSync, sync_device, FlCheck, FlCheckLeaves, FlCheckRest, tableVars, deviceVars
    <3>2. (Some => Some') /\ DirtyLbas' = DirtyLbas
        BY <1>1, <2>0, <3>1
    <3>3. AllFlushing => AllFlushing'
        BY <3>1, <3>2 DEF AllFlushing, Flushing
    <3> QED BY <1>0, <2>0, <3>1, <3>2, <3>3 DEF WatermarkInv, Due
  <2> QED BY <1>5, <2>1, <2>2, <2>3, <2>4, <2>5 DEF FlusherThread, FlNext, FlStep
<1> QED BY <1>2, <1>3, <1>4, <1>5

\* Every step of every thread keeps WatermarkInv when there is one client.
LEMMA WatermarkStep ==
    ASSUME SingleClient, WatermarkSetting
    PROVE  TypeInv /\ RequestShape /\ OwnerInv /\ NoLeakInv /\ WatermarkInv /\ [Next]_vars
             => WatermarkInv'
<1> SUFFICES ASSUME TypeInv, RequestShape, OwnerInv, NoLeakInv, WatermarkInv, [Next]_vars
             PROVE  WatermarkInv'
    OBVIOUS
<1>1. ASSUME NEW c \in Clients, Request(c) \/ ClientStep(c) PROVE WatermarkInv'
  <2>1. OwnerOne(c) /\ LeakOne(c) /\ WatermarkOne(c)
      BY OwnerInvOne, LeakInvOne, WatermarkInvOne
  <2>2. WatermarkOne(c)'
      BY <1>1, <2>1, WatermarkClient
  <2>3. WatermarkInv' <=> WatermarkOne(c)'
      BY WatermarkInvOne, PTL
  <2> QED BY <2>2, <2>3
<1> QED BY <1>1, WatermarkOthers DEF Next

\* An empty table is below every watermark.
LEMMA WatermarkInit == Init => WatermarkInv
<1> SUFFICES ASSUME Init PROVE WatermarkInv
    OBVIOUS
<1>1. DirtyLbas = {}
    BY DEF Init, TableInit, DirtyLbas
<1> QED BY <1>1 DEF Init, FlusherInit, DeviceInit, WatermarkInv, AllFlushing

\* The invariant is enough: when the flusher sleeps nothing is being flushed.
LEMMA WatermarkEnough ==
    ASSUME WatermarkSetting, TypeInv, WatermarkInv PROVE WatermarkHeeded
<1> SUFFICES ASSUME fl_pc = "wait", ~owed, \A c \in Clients : pc[c] = "idle",
                    Cardinality(DOMAIN table) > 0
             PROVE  Cardinality(DirtyLbas) * 100 < WatermarkPct * Cardinality(DOMAIN table)
    BY DEF WatermarkHeeded, DirtyLbas
<1>1. CASE AllFlushing
  <2>1. DirtyLbas = {}
      BY <1>1 DEF WatermarkInv, AllFlushing, Flushing
  <2>2. Cardinality(DirtyLbas) = 0
      BY <2>1, FS_EmptySet
  <2>3. WatermarkPct * Cardinality(DOMAIN table) > 0
      BY WatermarkAssumption, CountFacts DEF WatermarkSetting
  <2> QED BY <2>2, <2>3
<1>2. CASE \E c \in Clients : Below(Room(c))
  <2>1. PICK c \in Clients : Below(Room(c))
      BY <1>2
  <2>2. Room(c) = 0
      BY DEF Room, Filling
  <2> QED BY <2>1, <2>2, CountFacts DEF Below
<1> QED BY <1>1, <1>2 DEF WatermarkInv

\* With one client that writes only after start(), no failing transfers and a watermark
\* above 0: the flusher never sleeps on a table whose dirty share has reached the
\* watermark, although only writes compare the two and evictions shrink the table.
THEOREM SingleClientWatermark ==
    ASSUME SingleClient, Calls \subseteq {"start"}, Faults \subseteq {"fsync"}, WatermarkPct > 0
    PROVE  Spec => []WatermarkHeeded
<1>1. CASE ~StartFirst
  <2>1. WatermarkHeeded
      BY <1>1 DEF WatermarkHeeded
  <2> QED BY <2>1, PTL
<1>2. CASE StartFirst
  <2>1. WatermarkSetting /\ "pread" \notin Faults
      BY <1>2 DEF WatermarkSetting
  <2>2. TypeInv /\ WatermarkInv => WatermarkHeeded
      BY <2>1, WatermarkEnough
  <2>3. TypeInv /\ OwnerInv /\ [Next]_vars => OwnerInv'
      BY OwnerStep
  <2>4. TypeInv /\ OwnerInv /\ NoLeakInv /\ [Next]_vars => NoLeakInv'
      BY <2>1, LeakStep
  <2>5. TypeInv /\ RequestShape /\ OwnerInv /\ NoLeakInv /\ WatermarkInv /\ [Next]_vars
          => WatermarkInv'
      BY <2>1, WatermarkStep
  <2> QED BY <2>2, <2>3, <2>4, <2>5, WatermarkInit, ShapeInit, ShapeStep, LeakInit, OwnerInit,
             TypeInit, TypeStep, PTL DEF Spec
<1> QED BY <1>1, <1>2
=============================================================================
