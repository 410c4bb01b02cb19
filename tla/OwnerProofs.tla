----------------------------- MODULE OwnerProofs -----------------------------
(***************************************************************************)
(* Who owns a pool block when at most one thread calls read() and write(), *)
(* with the flusher running or not, for any pool, device and faults.       *)
(* OneOwner is not inductive: an eviction passes its block through a       *)
(* removal and a deallocation that hold no common lock, so the invariant   *)
(* has to say that the victim is still what was selected (VictimFresh) and *)
(* that between the two steps its block is nobody's (EvictedUnowned).      *)
(***************************************************************************)
EXTENDS TypeProofs, SequenceTheorems

-----------------------------------------------------------------------------
(* The free list.                                                          *)

\* allocate() takes the last element and leaves the others where they are.
LEMMA PopFacts ==
    ASSUME free_list \in Seq(Slots), NEW s \in Slots, allocate(s)
    PROVE  /\ Len(free_list) \in Nat \ {0}
           /\ s = free_list[Len(free_list)]
           /\ Len(free_list') = Len(free_list) - 1
           /\ \A i \in 1 .. (Len(free_list) - 1) : free_list'[i] = free_list[i]
<1>1. Len(free_list) \in Nat \ {0}
    BY EmptySeq DEF allocate, Exhausted
<1>2. \A i \in 1 .. (Len(free_list) - 1) : free_list[i] \in Slots
    BY <1>1, LenProperties
<1>3. free_list' = SubSeq(free_list, 1, Len(free_list) - 1)
    BY DEF allocate
<1>4. /\ Len(free_list') = IF 1 <= Len(free_list) - 1 THEN Len(free_list) - 1 - 1 + 1 ELSE 0
      /\ \A i \in 1 .. (Len(free_list) - 1 - 1 + 1) : free_list'[i] = free_list[1 + i - 1]
    BY <1>1, <1>2, <1>3, SubSeqProperties
<1>5. s = free_list[Len(free_list)]
    BY DEF allocate
<1>6. Len(free_list') = Len(free_list) - 1
  <2> DEFINE n == Len(free_list)
  <2>1. n \in Nat \ {0} /\ Len(free_list') = IF 1 <= n - 1 THEN n - 1 - 1 + 1 ELSE 0
      BY <1>1, <1>4
  <2> HIDE DEF n
  <2>2. CASE n = 1
      BY <2>1, <2>2 DEF n
  <2>3. CASE n > 1
    <3>1. 1 <= n - 1 /\ n - 1 - 1 + 1 = n - 1
        BY <2>1, <2>3
    <3> QED BY <2>1, <3>1 DEF n
  <2> QED BY <2>1, <2>2, <2>3
<1>7. \A i \in 1 .. (Len(free_list) - 1) : free_list'[i] = free_list[i]
    BY <1>1, <1>4
<1> QED BY <1>1, <1>5, <1>6, <1>7

\* deallocate() adds its argument at the end.
LEMMA PushFacts ==
    ASSUME free_list \in Seq(Slots), NEW s \in Slots, deallocate(s)
    PROVE  /\ Len(free_list) \in Nat
           /\ Len(free_list') = Len(free_list) + 1
           /\ free_list'[Len(free_list) + 1] = s
           /\ \A i \in 1 .. Len(free_list) : free_list'[i] = free_list[i]
BY DEF deallocate

\* No index is twice in the free list.
FreeOnce == \A i, j \in 1 .. Len(free_list) : free_list[i] = free_list[j] => i = j

\* What is free after an allocate() was free before, and is not the block
\* that was taken.
LEMMA PopKeeps ==
    ASSUME free_list \in Seq(Slots), FreeOnce, NEW s \in Slots, allocate(s)
    PROVE  FreeOnce' /\ Free(s) /\ ~Free(s)' /\ \A t : Free(t)' <=> Free(t) /\ t # s
BY PopFacts DEF FreeOnce, Free

\* A deallocate() of a block that is not free adds that block and no other.
LEMMA PushKeeps ==
    ASSUME free_list \in Seq(Slots), FreeOnce, NEW s \in Slots, ~Free(s), deallocate(s)
    PROVE  /\ FreeOnce'
           /\ \A t : Free(t)' <=> Free(t) \/ t = s
           /\ ~Exhausted'
BY PushFacts DEF FreeOnce, Free, Exhausted

-----------------------------------------------------------------------------
(* The steps.                                                              *)

\* The table entries back different blocks, none of them free.
TableOwns ==
    /\ \A k, l \in DOMAIN table : table[k].pool_index = table[l].pool_index => k = l
    /\ \A l \in DOMAIN table : ~Free(table[l].pool_index)

\* A block a client has allocated and not inserted yet, or has evicted and
\* not freed yet, is neither free nor cached.
Unowned(s) == ~Free(s) /\ \A l \in DOMAIN table : table[l].pool_index # s

\* OwnerInv for the one client.
OwnerOne(c) ==
    /\ FreeOnce
    /\ TableOwns
    /\ Filling(c) => Unowned(slot[c])
    /\ pc[c] \in {"evict_write", "evict_wake", "evict_remove"} =>
         /\ victim[c].lba \in DOMAIN table
         /\ table[victim[c].lba].pool_index = victim[c].pool_index
         /\ table[victim[c].lba].dirty => victim[c].needs_flush
    /\ pc[c] = "evict_free" => Unowned(victim[c].pool_index)
    /\ pc[c] = "realloc" => ~Exhausted

\* With one client OwnerInv speaks about that client only.
LEMMA OwnerInvOne == ASSUME SingleClient, NEW c \in Clients
                     PROVE  OwnerInv <=> OwnerOne(c)
BY Zenon DEF SingleClient, OwnerInv, OneOwner, VictimFresh, EvictedUnowned, OwnerOne,
    ReallocSucceeds, FreeOnce, TableOwns, Unowned, Filling, Backs, Cached, Dirty

\* A step that leaves the free list alone, and in the table keeps the entries
\* and their blocks, keeps who owns what.
LEMMA SameBlocks ==
    ASSUME UNCHANGED free_list, DOMAIN table' = DOMAIN table,
           \A l \in DOMAIN table : table'[l].pool_index = table[l].pool_index
    PROVE  /\ FreeOnce' <=> FreeOnce
           /\ TableOwns' <=> TableOwns
           /\ \A s : Unowned(s)' <=> Unowned(s)
           /\ Exhausted' <=> Exhausted
BY DEF FreeOnce, TableOwns, Unowned, Free, Exhausted

\* Taking a block from the free list makes the client its only owner.
LEMMA TakeSlotOwns ==
    ASSUME TypeInv, NEW c \in Clients, OwnerOne(c), TakeSlot(c), UNCHANGED table
    PROVE  OwnerOne(c)'
<1>1. PICK s \in Slots : /\ allocate(s)
                        /\ slot' = [slot EXCEPT ![c] = s]
                        /\ Goto(c, IF req[c].op = "read" THEN "fill" ELSE "new_copy")
    BY DEF TakeSlot
<1>2. free_list \in Seq(Slots) /\ FreeOnce
    BY DEF TypeInv, TypeOK, PoolTypeOK, OwnerOne
<1>3. FreeOnce' /\ Free(s) /\ ~Free(s)' /\ \A t : Free(t)' <=> Free(t) /\ t # s
    BY <1>1, <1>2, PopKeeps
<1>4. TableOwns' /\ Unowned(s)'
    BY <1>3 DEF OwnerOne, TableOwns, Unowned
<1>5. slot'[c] = s /\ pc'[c] \in {"fill", "new_copy"}
    BY <1>1 DEF TypeInv, TypeOK, EngineTypeOK, Goto
<1> QED BY <1>3, <1>4, <1>5 DEF OwnerOne, Filling

\* A step that returns from a request, or goes where the client owns nothing
\* new, keeps the invariant.
LEMMA LeaveKeeps ==
    ASSUME NEW c \in Clients, OwnerOne(c), UNCHANGED <<free_list, table>>,
           pc'[c] \notin {"fill", "new_copy", "new_copying", "insert", "evict_write",
                         "evict_wake", "evict_remove", "evict_free", "realloc"}
    PROVE  OwnerOne(c)'
BY DEF OwnerOne, Filling, FreeOnce, TableOwns, Unowned, Free, Exhausted

\* A request that is called, and each step of it, keeps the invariant.
LEMMA OwnerClient ==
    ASSUME TypeInv, NEW c \in Clients, OwnerOne(c), Request(c) \/ ClientStep(c)
    PROVE  OwnerOne(c)'
<1>0. /\ pc \in [Clients -> PCs]
      /\ slot \in [Clients -> Slots \cup {NoSlot}]
      /\ victim \in [Clients -> EvictionCandidate]
    BY DEF TypeInv, TypeOK, EngineTypeOK
<1>1. CASE Reject(c)
  <2>1. pc'[c] = "idle"
      BY <1>0, <1>1 DEF Reject, Return
  <2> QED BY <1>1, <2>1, LeaveKeeps DEF Reject, poolVars, tableVars
<1>2. CASE ReadLookup(c)
  <2>1. pc'[c] \in {"copy_out", "alloc"} /\ UNCHANGED table
      BY <1>0, <1>2 DEF ReadLookup, Goto, get_and_touch, tableVars
  <2> QED BY <1>2, <2>1, LeaveKeeps DEF ReadLookup, poolVars
<1>3. CASE WriteLookup(c)
  <2>1. pc'[c] \in {"upd_copy", "alloc"}
      BY <1>0, <1>3 DEF WriteLookup, Goto
  <2> QED BY <1>3, <2>1, LeaveKeeps DEF WriteLookup, poolVars, tableVars
<1>4. CASE Allocate(c)
  <2>1. CASE TakeSlot(c)
      BY <1>4, <2>1, TakeSlotOwns DEF Allocate, tableVars
  <2>2. CASE Goto(c, "select") /\ UNCHANGED free_list
    <3>1. pc'[c] = "select"
        BY <1>0, <2>2 DEF Goto
    <3> QED BY <1>4, <2>2, <3>1, LeaveKeeps DEF Allocate, tableVars
  <2> QED BY <1>4, <2>1, <2>2 DEF Allocate
<1>5. CASE Select(c)
  <2>1. UNCHANGED <<free_list, table>>
      BY <1>5 DEF Select, SelectRest, poolVars, tableVars
  <2>2. CASE Return(c, "Internal", Zero)
    <3>1. pc'[c] = "idle"
        BY <1>0, <2>2 DEF Return
    <3> QED BY <2>1, <3>1, LeaveKeeps
  <2>3. CASE \E l \in select_eviction_candidate : Choose(c, l, Dirty(l))
    <3>1. PICK l \in DOMAIN table : Choose(c, l, Dirty(l))
        BY <2>3 DEF select_eviction_candidate, OldestOf
    <3>2. /\ victim'[c].lba = l
          /\ victim'[c].pool_index = table[l].pool_index
          /\ victim'[c].needs_flush = Dirty(l)
          /\ pc'[c] \in {"evict_write", "evict_remove"}
        BY <1>0, <3>1 DEF Choose, Goto
    <3>3. table[l].dirty => Dirty(l)
        BY DEF Dirty, Cached
    <3> QED BY <2>1, <3>2, <3>3, SameBlocks DEF OwnerOne, Filling
  <2> QED BY <1>5, <2>2, <2>3 DEF Select
<1>6. CASE EvictWrite(c)
  <2>1. UNCHANGED <<free_list, table>>
      BY <1>6 DEF EvictWrite, poolVars, tableVars
  <2>2. CASE Return(c, "Io", Zero)
    <3>1. pc'[c] = "idle"
        BY <1>0, <2>2 DEF Return
    <3> QED BY <2>1, <3>1, LeaveKeeps
  <2>3. CASE Goto(c, "evict_wake") /\ UNCHANGED <<slot, victim, out>>
    <3>1. pc[c] = "evict_write" /\ pc'[c] = "evict_wake"
        BY <1>0, <1>6, <2>3 DEF EvictWrite, Goto
    <3> QED BY <2>1, <2>3, <3>1, SameBlocks DEF OwnerOne, Filling
  <2> QED BY <1>6, <2>2, <2>3 DEF EvictWrite
<1>7. CASE EvictWake(c)
  <2>1. UNCHANGED <<free_list, table, victim>>
      BY <1>7 DEF EvictWake, poolVars, tableVars
  <2>2. pc[c] = "evict_wake" /\ pc'[c] = "evict_remove"
      BY <1>0, <1>7 DEF EvictWake, Goto
  <2> QED BY <2>1, <2>2, SameBlocks DEF OwnerOne, Filling
<1>8. CASE EvictRemove(c)
  <2>1. pc[c] = "evict_remove" /\ pc'[c] = "evict_free"
      BY <1>0, <1>8 DEF EvictRemove, Goto
  <2>2. UNCHANGED <<free_list, victim>>
      BY <1>8 DEF EvictRemove, poolVars
  <2>3. table' = [k \in DOMAIN table \ {victim[c].lba} |-> table[k]]
      BY <1>8 DEF EvictRemove, remove
  <2>4. FreeOnce' /\ \A s : Free(s)' <=> Free(s)
      BY <2>2 DEF OwnerOne, FreeOnce, Free
  <2>5. TableOwns' /\ Unowned(victim[c].pool_index)'
      BY <2>1, <2>2, <2>3, <2>4 DEF OwnerOne, TableOwns, Unowned
  <2> QED BY <2>1, <2>2, <2>4, <2>5 DEF OwnerOne, Filling
<1>9. CASE EvictFree(c)
  <2>1. pc[c] = "evict_free" /\ pc'[c] = "realloc"
      BY <1>0, <1>9 DEF EvictFree, EvictFreeRest, Goto
  <2>2. UNCHANGED table /\ deallocate(victim[c].pool_index)
      BY <1>9 DEF EvictFree, EvictFreeRest, tableVars
  <2>3. free_list \in Seq(Slots) /\ victim[c].pool_index \in Slots
      BY <2>1 DEF TypeInv, TypeOK, PoolTypeOK, ClientLocals, VictimPCs
  <2>4. FreeOnce /\ Unowned(victim[c].pool_index)
      BY <2>1 DEF OwnerOne
  <2>5. /\ FreeOnce'
        /\ \A t : Free(t)' <=> Free(t) \/ t = victim[c].pool_index
        /\ ~Exhausted'
      BY <2>2, <2>3, <2>4, PushKeeps DEF Unowned
  <2>6. TableOwns'
      BY <2>2, <2>4, <2>5 DEF OwnerOne, TableOwns, Unowned
  <2> QED BY <2>1, <2>5, <2>6 DEF OwnerOne, Filling
<1>10. CASE Realloc(c)
  <2>1. CASE TakeSlot(c)
      BY <1>10, <2>1, TakeSlotOwns DEF Realloc, tableVars
  <2>2. CASE Exhausted
      BY <1>10, <2>2 DEF Realloc, OwnerOne, TakeSlot, allocate
  <2> QED BY <1>10, <2>1, <2>2 DEF Realloc
<1>11. CASE ReadFill(c)
  <2>1. UNCHANGED <<free_list, table>>
      BY <1>11 DEF ReadFill, tableVars
  <2>2. CASE Return(c, "Io", Zero)
    <3>1. pc'[c] = "idle"
        BY <1>0, <2>2 DEF Return
    <3> QED BY <2>1, <3>1, LeaveKeeps
  <2>3. CASE Goto(c, "insert") /\ UNCHANGED <<slot, victim, out>>
    <3>1. pc[c] = "fill" /\ pc'[c] = "insert"
        BY <1>0, <1>11, <2>3 DEF ReadFill, Goto
    <3> QED BY <2>1, <2>3, <3>1, SameBlocks DEF OwnerOne, Filling
  <2> QED BY <1>11, <2>2, <2>3 DEF ReadFill
<1>12. CASE CopyIn(c)
  <2>1. UNCHANGED <<free_list, table, slot>>
      BY <1>12 DEF CopyIn, tableVars
  <2>2. \/ Filling(c) /\ pc'[c] \in {"new_copying", "insert"}
        \/ pc'[c] \in {"upd_copying", "mark"}
      BY <1>0, <1>12 DEF CopyIn, Goto, Filling
  <2> QED BY <2>1, <2>2, SameBlocks DEF OwnerOne, Filling
<1>13. CASE Insert(c)
  <2>1. Filling(c) /\ pc'[c] \in {"copy_out", "stats"}
      BY <1>0, <1>13 DEF Insert, Goto, Filling
  <2>2. UNCHANGED free_list
      BY <1>13 DEF Insert, poolVars
  <2>3. /\ DOMAIN table' = DOMAIN table \cup {req[c].lba}
        /\ table'[req[c].lba].pool_index = slot[c]
        /\ \A k \in DOMAIN table \ {req[c].lba} : table'[k] = table[k]
      BY <1>13 DEF Insert, insert, NewEntry
  <2>4. FreeOnce' /\ \A s : Free(s)' <=> Free(s)
      BY <2>2 DEF OwnerOne, FreeOnce, Free
  <2>5. TableOwns'
      BY <2>1, <2>3, <2>4 DEF OwnerOne, TableOwns, Unowned
  <2> QED BY <2>1, <2>4, <2>5 DEF OwnerOne, Filling
<1>14. CASE CopyOut(c)
  <2>1. pc'[c] = "idle"
      BY <1>0, <1>14 DEF CopyOut, Return
  <2> QED BY <1>14, <2>1, LeaveKeeps DEF CopyOut, poolVars, tableVars
<1>15. CASE MarkDirty(c)
  <2>1. pc'[c] = "stats" /\ UNCHANGED free_list
      BY <1>0, <1>15 DEF MarkDirty, Goto, poolVars
  <2>2. /\ DOMAIN table' = DOMAIN table
        /\ \A l \in DOMAIN table : table'[l].pool_index = table[l].pool_index
      BY <1>15 DEF MarkDirty, mark_dirty, SetDirty, NewEntry, tableVars
  <2> QED BY <2>1, <2>2, SameBlocks DEF OwnerOne, Filling
<1>16. CASE Stats(c) \/ WakeFlusher(c)
  <2>1. pc'[c] \in {"idle", "wake"}
      BY <1>0, <1>16 DEF Stats, WakeFlusher, Return, Goto
  <2> QED BY <1>16, <2>1, LeaveKeeps DEF Stats, WakeFlusher, poolVars, tableVars
<1> QED BY <1>1, <1>2, <1>3, <1>4, <1>5, <1>6, <1>7, <1>8, <1>9, <1>10, <1>11,
        <1>12, <1>13, <1>14, <1>15, <1>16 DEF Request, ClientStep

\* The steps of the owner and of the flusher move no block: the flusher only
\* clears dirty flags, and only of entries that are still there.
LEMMA OthersQuiet ==
    ASSUME \/ Start \/ Stop \/ Drop \/ Shutdown \/ FlusherThread \/ UNCHANGED vars
    PROVE  /\ UNCHANGED <<free_list, pc, req, slot, victim>>
           /\ DOMAIN table' = DOMAIN table
           /\ \A l \in DOMAIN table : table'[l].pool_index = table[l].pool_index
           /\ \A l \in DOMAIN table : table'[l].dirty = table[l].dirty
                                     \/ table'[l].dirty = FALSE
<1>1. UNCHANGED <<free_list, pc, req, slot, victim>>
  <2>1. CASE Start \/ Stop \/ Drop \/ Shutdown
      BY <2>1 DEF Start, Stop, Drop, Shutdown, ShutdownStore, ShutdownSend, ShutdownJoin,
          poolVars, clientVars
  <2>2. CASE FlusherThread
      BY <2>2 DEF FlusherThread, FlNext, FlStep, FlReceive, FlTimeout, FlSnapshot, FlWrite,
          FlClean, FlSync, FlCheck, FlCheckRest, poolVars, clientVars
  <2>3. CASE UNCHANGED vars
      BY <2>3 DEF vars, poolVars, clientVars
  <2> QED BY <2>1, <2>2, <2>3
<1>2. FlClean \/ UNCHANGED table
    BY DEF Start, Stop, Drop, Shutdown, ShutdownStore, ShutdownSend, ShutdownJoin,
        FlusherThread, FlNext, FlStep, FlReceive, FlTimeout, FlSnapshot, FlWrite,
        FlSync, FlCheck, FlCheckRest, vars, tableVars
<1>3. UNCHANGED table \/ (fl_lba \in DOMAIN table /\ table' = SetDirty(fl_lba, FALSE))
    BY <1>2 DEF FlClean, mark_clean, Cached
<1>4. /\ DOMAIN table' = DOMAIN table
      /\ \A l \in DOMAIN table : table'[l].pool_index = table[l].pool_index
    BY <1>3 DEF SetDirty, NewEntry
<1>5. \A l \in DOMAIN table : table'[l].dirty = table[l].dirty \/ table'[l].dirty = FALSE
    BY <1>3 DEF SetDirty, NewEntry
<1> QED BY <1>1, <1>4, <1>5

\* So they keep OwnerInv.
LEMMA OwnerOthers ==
    ASSUME OwnerInv,
           \/ Start \/ Stop \/ Drop \/ Shutdown \/ FlusherThread \/ UNCHANGED vars
    PROVE  OwnerInv'
<1>1. UNCHANGED <<free_list, pc, slot, victim>>
    BY OthersQuiet
<1>2. /\ DOMAIN table' = DOMAIN table
      /\ \A l \in DOMAIN table : table'[l].pool_index = table[l].pool_index
    BY OthersQuiet
<1>3. \A l \in DOMAIN table : table'[l].dirty = table[l].dirty \/ table'[l].dirty = FALSE
    BY OthersQuiet
<1>4. /\ free_list' = free_list /\ pc' = pc /\ slot' = slot /\ victim' = victim
      /\ \A t, l : Backs(t, l)' <=> Backs(t, l)
      /\ \A l : Dirty(l)' => Dirty(l)
  <2>1. free_list' = free_list /\ pc' = pc /\ slot' = slot /\ victim' = victim
      BY <1>1
  <2>2. ASSUME NEW t, NEW l PROVE Backs(t, l)' <=> Backs(t, l)
    <3>1. CASE l \in DOMAIN table
        BY <1>2, <3>1 DEF Backs, Cached
    <3>2. CASE l \notin DOMAIN table
        BY <1>2, <3>2 DEF Backs, Cached
    <3> QED BY <3>1, <3>2
  <2>3. ASSUME NEW l, Dirty(l)' PROVE Dirty(l)
      BY <1>2, <1>3, <2>3 DEF Dirty, Cached
  <2> QED BY <2>1, <2>2, <2>3
<1>5. \A t : Free(t)' <=> Free(t)
    BY <1>4 DEF Free
<1>6. OneOwner'
  <2>1. \A i, j \in 1 .. Len(free_list') : free_list'[i] = free_list'[j] => i = j
      BY <1>4 DEF OwnerInv, OneOwner
  <2>2. /\ \A k, l \in DOMAIN table' : table'[k].pool_index = table'[l].pool_index => k = l
        /\ \A l \in DOMAIN table' : ~Free(table[l].pool_index)'
    <3>1. TableOwns
        BY DEF OwnerInv, OneOwner, TableOwns
    <3>2. TableOwns'
        BY <1>1, <1>2, <3>1, SameBlocks
    <3> QED BY <3>2 DEF TableOwns
  <2>4. ASSUME NEW c \in Clients, Filling(c)'
        PROVE  /\ ~Free(slot[c])'
               /\ \A l \in DOMAIN table' : ~Backs(slot[c], l)'
               /\ \A d \in Clients \ {c} : Filling(d)' => slot'[d] # slot'[c]
    <3>1. Filling(c) /\ \A d \in Clients : Filling(d)' <=> Filling(d)
        BY <1>4, <2>4 DEF Filling
    <3>2. ~Free(slot[c]) /\ \A l \in DOMAIN table : ~Backs(slot[c], l)
        BY <3>1 DEF OwnerInv, OneOwner
    <3>3. \A d \in Clients \ {c} : Filling(d)' => slot'[d] # slot'[c]
        BY <1>4, <3>1 DEF OwnerInv, OneOwner
    <3>4. ~Free(slot[c])'
        BY <1>4, <3>2 DEF Free
    <3>5. \A l \in DOMAIN table' : ~Backs(slot[c], l)'
        BY <1>2, <1>4, <3>2 DEF Backs, Cached
    <3> QED BY <3>3, <3>4, <3>5
  <2> QED BY <2>1, <2>2, <2>4 DEF OneOwner
<1>7. VictimFresh'
    BY <1>2, <1>4 DEF OwnerInv, VictimFresh, Backs, Cached, Dirty
<1>8. EvictedUnowned'
  <2> SUFFICES ASSUME NEW c \in Clients, pc'[c] = "evict_free"
               PROVE  /\ ~Free(victim[c].pool_index)'
                      /\ \A l \in DOMAIN table' : ~Backs(victim[c].pool_index, l)'
      BY DEF EvictedUnowned
  <2>1. /\ ~Free(victim[c].pool_index)
        /\ \A l \in DOMAIN table : ~Backs(victim[c].pool_index, l)
      BY <1>4 DEF OwnerInv, EvictedUnowned
  <2>2. ~Free(victim[c].pool_index)'
      BY <1>4, <2>1 DEF Free
  <2> QED BY <1>2, <1>4, <2>1, <2>2 DEF Backs, Cached
<1>9. ReallocSucceeds'
    BY <1>1 DEF OwnerInv, ReallocSucceeds, Exhausted
<1> QED BY <1>6, <1>7, <1>8, <1>9 DEF OwnerInv

\* The pool starts with every block in the free list once.
LEMMA OwnerInit == Init => OwnerInv
<1> SUFFICES ASSUME Init PROVE OwnerInv
    OBVIOUS
<1>1. /\ free_list = [i \in 1 .. Capacity |-> i - 1]
      /\ DOMAIN table = {}
      /\ \A c \in Clients : pc[c] = "idle"
    BY DEF Init, PoolInit, TableInit
<1>2. Len(free_list) = Capacity
    BY <1>1, CapacityAssumption
<1>3. \A i, j \in 1 .. Len(free_list) : free_list[i] = free_list[j] => i = j
    BY <1>1, <1>2, CapacityAssumption
<1> QED BY <1>1, <1>3 DEF OwnerInv, OneOwner, VictimFresh, EvictedUnowned,
        ReallocSucceeds, Filling

\* Every step of every thread keeps OwnerInv when there is one client.
LEMMA OwnerStep ==
    ASSUME SingleClient
    PROVE  TypeInv /\ OwnerInv /\ [Next]_vars => OwnerInv'
<1> SUFFICES ASSUME TypeInv, OwnerInv, [Next]_vars PROVE OwnerInv'
    OBVIOUS
<1>1. ASSUME NEW c \in Clients, Request(c) \/ ClientStep(c) PROVE OwnerInv'
  <2>1. OwnerOne(c)
      BY OwnerInvOne
  <2>2. OwnerOne(c)'
      BY <1>1, <2>1, OwnerClient
  <2>3. OwnerInv' <=> OwnerOne(c)'
      BY OwnerInvOne, PTL
  <2> QED BY <2>2, <2>3
<1> QED BY <1>1, OwnerOthers DEF Next

\* With one client thread, with the flusher and with any I/O errors: no pool
\* block ever has two owners, so no pread, copy or eviction of one address
\* touches the cached block of another.
THEOREM SingleClientOneOwner == ASSUME SingleClient PROVE Spec => []OneOwner
<1>1. OwnerInv => OneOwner
    BY DEF OwnerInv
<1>2. TypeInv /\ OwnerInv /\ [Next]_vars => OwnerInv'
    BY OwnerStep
<1> QED BY <1>1, <1>2, OwnerInit, TypeInit, TypeStep, PTL DEF Spec

\* With one client thread the candidate an eviction works on never goes stale,
\* although nothing is locked between its selection and its removal.
THEOREM SingleClientVictimFresh == ASSUME SingleClient PROVE Spec => []VictimFresh
<1>1. OwnerInv => VictimFresh
    BY DEF OwnerInv
<1>2. TypeInv /\ OwnerInv /\ [Next]_vars => OwnerInv'
    BY OwnerStep
<1> QED BY <1>1, <1>2, OwnerInit, TypeInit, TypeStep, PTL DEF Spec
==============================================================================
