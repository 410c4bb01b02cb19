----------------------------- MODULE LeakProofs -----------------------------
(***************************************************************************)
(* No pool block is lost as long as one thread calls read() and write()    *)
(* and no pread fails.  NoSlotLost needs OwnerInv, by which the allocation *)
(* after an eviction cannot fail, and MissHolds, by which insert() never   *)
(* replaces an entry whose block nobody would free.                        *)
(***************************************************************************)
EXTENDS OwnerProofs

CachedSlot(s) == \E l \in DOMAIN table : table[l].pool_index = s

\* NoLeakInv for the one client.
LeakOne(c) ==
    /\ \A s \in Slots : \/ Free(s)
                        \/ CachedSlot(s)
                        \/ Filling(c) /\ slot[c] = s
                        \/ pc[c] = "evict_free" /\ victim[c].pool_index = s
    /\ pc[c] \in MissPCs => req[c].lba \notin DOMAIN table

\* With one client NoLeakInv speaks about that client only.
LEMMA LeakInvOne == ASSUME SingleClient, NEW c \in Clients
                    PROVE  NoLeakInv <=> LeakOne(c)
BY Zenon DEF SingleClient, NoLeakInv, NoSlotLost, MissHolds, LeakOne, CachedSlot,
    Filling, Backs, Cached

\* A step that leaves free list, table and locals alone.
LEMMA QuietKeeps ==
    ASSUME NEW c \in Clients, LeakOne(c), UNCHANGED <<free_list, table>>,
           \/ UNCHANGED <<slot, victim>>
              /\ (Filling(c)' <=> Filling(c))
              /\ (pc'[c] = "evict_free" <=> pc[c] = "evict_free")
           \/ ~Filling(c) /\ pc[c] # "evict_free",
           pc'[c] \in MissPCs => pc[c] \in MissPCs /\ req'[c].lba = req[c].lba
    PROVE  LeakOne(c)'
<1>1. \A s : (Free(s)' <=> Free(s)) /\ (CachedSlot(s)' <=> CachedSlot(s))
    BY DEF Free, CachedSlot
<1> QED BY <1>1 DEF LeakOne

\* The block that is taken from the free list is in the client's hands.
LEMMA TakeSlotHolds ==
    ASSUME TypeInv, NEW c \in Clients, OwnerOne(c), LeakOne(c), TakeSlot(c),
           pc[c] \in {"alloc", "realloc"}, UNCHANGED <<table, req>>
    PROVE  LeakOne(c)'
<1>1. PICK s \in Slots : /\ allocate(s)
                        /\ slot' = [slot EXCEPT ![c] = s]
                        /\ Goto(c, IF req[c].op = "read" THEN "fill" ELSE "new_copy")
    BY DEF TakeSlot
<1>2. free_list \in Seq(Slots) /\ FreeOnce
    BY DEF TypeInv, TypeOK, PoolTypeOK, OwnerOne
<1>3. \A t : Free(t)' <=> Free(t) /\ t # s
    BY <1>1, <1>2, PopKeeps
<1>4. slot'[c] = s /\ pc'[c] \in {"fill", "new_copy"}
    BY <1>1 DEF TypeInv, TypeOK, EngineTypeOK, Goto
<1>5. \A t \in Slots : Free(t) \/ CachedSlot(t)
    BY DEF LeakOne, Filling
<1>6. \A t : CachedSlot(t)' <=> CachedSlot(t)
    BY DEF CachedSlot
<1> QED BY <1>3, <1>4, <1>5, <1>6 DEF LeakOne, Filling, MissPCs

\* A request that is called, and each step of it, keeps the invariant, unless a pread
\* fails.
LEMMA LeakClient ==
    ASSUME TypeInv, NEW c \in Clients, OwnerOne(c), LeakOne(c),
           Request(c) \/ ClientStep(c)
    PROVE  LeakOne(c)' \/ ("pread" \in Faults /\ pc'[c] = "idle" /\ out'[c].status = "Io")
<1>0. /\ pc \in [Clients -> PCs]
      /\ req \in [Clients -> Requests]
      /\ slot \in [Clients -> Slots \cup {NoSlot}]
      /\ victim \in [Clients -> EvictionCandidate]
      /\ out \in [Clients -> Outcomes]
    BY DEF TypeInv, TypeOK, EngineTypeOK
<1>1. CASE Reject(c)
  <2>1. pc[c] = "idle" /\ pc'[c] = "idle"
      BY <1>0, <1>1 DEF Reject, Begin, Return
  <2> QED BY <1>1, <2>1, QuietKeeps DEF Reject, poolVars, tableVars, Filling, MissPCs
<1>2. CASE ReadLookup(c) \/ WriteLookup(c)
  <2>1. UNCHANGED <<free_list, table>> /\ pc[c] = "idle"
      BY <1>2 DEF ReadLookup, WriteLookup, Begin, get_and_touch, poolVars, tableVars
  <2>2. \/ pc'[c] \in {"copy_out", "upd_copy"}
        \/ pc'[c] = "alloc" /\ req'[c].lba \notin DOMAIN table
      BY <1>0, <1>2 DEF ReadLookup, WriteLookup, Begin, Goto, Cached
  <2>3. \A s : (Free(s)' <=> Free(s)) /\ (CachedSlot(s)' <=> CachedSlot(s))
      BY <2>1 DEF Free, CachedSlot
  <2> QED BY <2>1, <2>2, <2>3 DEF LeakOne, Filling, MissPCs
<1>3. CASE Allocate(c)
  <2>1. CASE TakeSlot(c)
      BY <1>3, <2>1, TakeSlotHolds DEF Allocate, tableVars
  <2>2. CASE Goto(c, "select") /\ UNCHANGED free_list
    <3>1. pc[c] = "alloc" /\ pc'[c] = "select"
        BY <1>0, <1>3, <2>2 DEF Allocate, Goto
    <3> QED BY <1>3, <2>2, <3>1, QuietKeeps DEF Allocate, tableVars, Filling, MissPCs
  <2> QED BY <1>3, <2>1, <2>2 DEF Allocate
<1>4. CASE Select(c) \/ EvictWrite(c) \/ EvictWake(c)
  <2>1. UNCHANGED <<free_list, table, req>>
      BY <1>4 DEF Select, SelectRest, EvictWrite, EvictWake, poolVars, tableVars
  <2>2. /\ pc[c] \in {"select", "evict_write", "evict_wake"}
        /\ pc'[c] \in {"idle", "evict_write", "evict_wake", "evict_remove"}
      BY <1>0, <1>4 DEF Select, Choose, EvictWrite, EvictWake, Return, Goto
  <2> QED BY <2>1, <2>2, QuietKeeps DEF Filling, MissPCs
<1>5. CASE EvictRemove(c)
  <2>1. pc[c] = "evict_remove" /\ pc'[c] = "evict_free"
      BY <1>0, <1>5 DEF EvictRemove, Goto
  <2>2. UNCHANGED <<free_list, victim, req>>
      BY <1>5 DEF EvictRemove, poolVars
  <2>3. table' = [k \in DOMAIN table \ {victim[c].lba} |-> table[k]]
      BY <1>5 DEF EvictRemove, remove
  <2>4. table[victim[c].lba].pool_index = victim[c].pool_index
      BY <2>1 DEF OwnerOne
  <2>5. \A s : Free(s)' <=> Free(s)
      BY <2>2 DEF Free
  <2>6. \A s : CachedSlot(s) => CachedSlot(s)' \/ s = victim[c].pool_index
      BY <2>3, <2>4 DEF CachedSlot
  <2>7. \A s \in Slots : Free(s) \/ CachedSlot(s)
      BY <2>1 DEF LeakOne, Filling
  <2> QED BY <2>1, <2>2, <2>3, <2>5, <2>6, <2>7 DEF LeakOne, MissPCs
<1>6. CASE EvictFree(c)
  <2>1. pc[c] = "evict_free" /\ pc'[c] = "realloc"
      BY <1>0, <1>6 DEF EvictFree, EvictFreeRest, Goto
  <2>2. UNCHANGED <<table, req>> /\ deallocate(victim[c].pool_index)
      BY <1>6 DEF EvictFree, EvictFreeRest, tableVars
  <2>3. free_list \in Seq(Slots) /\ victim[c].pool_index \in Slots
      BY <2>1 DEF TypeInv, TypeOK, PoolTypeOK, ClientLocals, VictimPCs
  <2>4. \A t : Free(t)' <=> Free(t) \/ t = victim[c].pool_index
      BY <2>1, <2>2, <2>3, PushKeeps DEF OwnerOne, Unowned
  <2>5. \A t : CachedSlot(t)' <=> CachedSlot(t)
      BY <2>2 DEF CachedSlot
  <2> QED BY <2>1, <2>2, <2>4, <2>5 DEF LeakOne, Filling, MissPCs
<1>7. CASE Realloc(c)
  <2>1. pc[c] = "realloc" /\ ~Exhausted
      BY <1>7 DEF Realloc, OwnerOne
  <2> QED BY <1>7, <2>1, TakeSlotHolds DEF Realloc, tableVars
<1>8. CASE ReadFill(c)
  <2>1. CASE "pread" \in Faults /\ Return(c, "Io", Zero)
      BY <1>0, <2>1 DEF Return
  <2>2. CASE Goto(c, "insert") /\ UNCHANGED <<slot, victim>>
    <3>1. pc[c] = "fill" /\ pc'[c] = "insert" /\ UNCHANGED <<free_list, table, req>>
        BY <1>0, <1>8, <2>2 DEF ReadFill, Goto, tableVars
    <3> QED BY <2>2, <3>1, QuietKeeps DEF Filling, MissPCs
  <2> QED BY <1>8, <2>1, <2>2 DEF ReadFill, read_lba_err
<1>9. CASE CopyIn(c)
  <2>1. UNCHANGED <<free_list, table, slot, victim, req>>
      BY <1>9 DEF CopyIn, tableVars
  <2>2. \/ pc[c] \in {"new_copy", "new_copying"} /\ pc'[c] \in {"new_copying", "insert"}
        \/ pc[c] \in {"upd_copy", "upd_copying"} /\ pc'[c] \in {"upd_copying", "mark"}
      BY <1>0, <1>9 DEF CopyIn, Goto
  <2> QED BY <2>1, <2>2, QuietKeeps DEF Filling, MissPCs
<1>10. CASE Insert(c)
  <2>1. pc[c] = "insert" /\ pc'[c] \in {"copy_out", "stats"}
      BY <1>0, <1>10 DEF Insert, Goto
  <2>2. UNCHANGED free_list
      BY <1>10 DEF Insert, poolVars
  <2>3. /\ DOMAIN table' = DOMAIN table \cup {req[c].lba}
        /\ table'[req[c].lba].pool_index = slot[c]
        /\ \A k \in DOMAIN table \ {req[c].lba} : table'[k] = table[k]
      BY <1>10 DEF Insert, insert, NewEntry
  <2>4. req[c].lba \notin DOMAIN table
      BY <2>1 DEF LeakOne, MissPCs
  <2>5. \A s : CachedSlot(s) \/ s = slot[c] => CachedSlot(s)'
      BY <2>3, <2>4 DEF CachedSlot
  <2>6. \A s : Free(s)' <=> Free(s)
      BY <2>2 DEF Free
  <2> QED BY <2>1, <2>5, <2>6 DEF LeakOne, Filling, MissPCs
<1>11. CASE MarkDirty(c)
  <2>1. pc[c] = "mark" /\ pc'[c] = "stats" /\ UNCHANGED free_list
      BY <1>0, <1>11 DEF MarkDirty, Goto, poolVars
  <2>2. /\ DOMAIN table' = DOMAIN table
        /\ \A l \in DOMAIN table : table'[l].pool_index = table[l].pool_index
      BY <1>11 DEF MarkDirty, mark_dirty, SetDirty, NewEntry, tableVars
  <2>3. \A s : (Free(s)' <=> Free(s)) /\ (CachedSlot(s)' <=> CachedSlot(s))
      BY <2>1, <2>2 DEF Free, CachedSlot
  <2> QED BY <2>1, <2>3 DEF LeakOne, Filling, MissPCs
<1>12. CASE CopyOut(c) \/ Stats(c) \/ WakeFlusher(c)
  <2>1. UNCHANGED <<free_list, table>>
      BY <1>12 DEF CopyOut, Stats, WakeFlusher, poolVars, tableVars
  <2>2. pc[c] \in {"copy_out", "stats", "wake"} /\ pc'[c] \in {"idle", "wake"}
      BY <1>0, <1>12 DEF CopyOut, Stats, WakeFlusher, Return, Goto
  <2> QED BY <2>1, <2>2, QuietKeeps DEF Filling, MissPCs
<1> QED BY <1>1, <1>2, <1>3, <1>4, <1>5, <1>6, <1>7, <1>8, <1>9, <1>10, <1>11, <1>12
        DEF Request, ClientStep

\* The owner and the flusher move no block.
LEMMA LeakOthers ==
    ASSUME NoLeakInv,
           \/ Start \/ Stop \/ Drop \/ Shutdown \/ FlusherThread \/ UNCHANGED vars
    PROVE  NoLeakInv'
<1>1. free_list' = free_list /\ pc' = pc /\ req' = req /\ slot' = slot /\ victim' = victim
    BY OthersQuiet
<1>2. /\ DOMAIN table' = DOMAIN table
      /\ \A l \in DOMAIN table : table'[l].pool_index = table[l].pool_index
    BY OthersQuiet
<1>3. \A s : Free(s)' <=> Free(s)
    BY <1>1 DEF Free
<1>4. \A s : (\E l \in DOMAIN table' : Backs(s, l)') <=> (\E l \in DOMAIN table : Backs(s, l))
    BY <1>2 DEF Backs, Cached
<1>5. \A c \in Clients : Filling(c)' <=> Filling(c)
    BY <1>1 DEF Filling
<1>6. NoSlotLost'
    BY <1>1, <1>3, <1>4, <1>5 DEF NoLeakInv, NoSlotLost
<1>7. MissHolds'
    BY <1>1, <1>2 DEF NoLeakInv, MissHolds, Cached
<1> QED BY <1>6, <1>7 DEF NoLeakInv

\* All blocks are free at first.
LEMMA LeakInit == Init => NoLeakInv
<1> SUFFICES ASSUME Init PROVE NoLeakInv
    OBVIOUS
<1>1. free_list = [i \in 1 .. Capacity |-> i - 1] /\ \A c \in Clients : pc[c] = "idle"
    BY DEF Init, PoolInit
<1>2. Len(free_list) = Capacity
    BY <1>1, CapacityAssumption
<1>3. ASSUME NEW s \in Slots PROVE Free(s)
  <2>1. s + 1 \in 1 .. Len(free_list) /\ free_list[s + 1] = s
      BY <1>1, <1>2, CapacityAssumption DEF Slots
  <2> QED BY <2>1 DEF Free
<1> QED BY <1>1, <1>3 DEF NoLeakInv, NoSlotLost, MissHolds, MissPCs

\* Every step of every thread keeps NoLeakInv when there is one client.
LEMMA LeakStep ==
    ASSUME SingleClient, "pread" \notin Faults
    PROVE  TypeInv /\ OwnerInv /\ NoLeakInv /\ [Next]_vars => NoLeakInv'
<1> SUFFICES ASSUME TypeInv, OwnerInv, NoLeakInv, [Next]_vars PROVE NoLeakInv'
    OBVIOUS
<1>1. ASSUME NEW c \in Clients, Request(c) \/ ClientStep(c) PROVE NoLeakInv'
  <2>1. OwnerOne(c) /\ LeakOne(c)
      BY OwnerInvOne, LeakInvOne
  <2>2. LeakOne(c)'
      BY <1>1, <2>1, LeakClient
  <2>3. NoLeakInv' <=> LeakOne(c)'
      BY LeakInvOne, PTL
  <2> QED BY <2>2, <2>3
<1> QED BY <1>1, LeakOthers DEF Next

\* With one client thread and no failing pread the pool never shrinks: every
\* block is free, cached or held by the request that is running.
THEOREM SingleClientNoLeak ==
    ASSUME SingleClient, "pread" \notin Faults
    PROVE  Spec => []NoSlotLost
<1>1. NoLeakInv => NoSlotLost
    BY DEF NoLeakInv
<1>2. TypeInv /\ OwnerInv /\ [Next]_vars => OwnerInv'
    BY OwnerStep
<1>3. TypeInv /\ OwnerInv /\ NoLeakInv /\ [Next]_vars => NoLeakInv'
    BY LeakStep
<1> QED BY <1>1, <1>2, <1>3, LeakInit, OwnerInit, TypeInit, TypeStep, PTL DEF Spec
=============================================================================
