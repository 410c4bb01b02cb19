----------------------------- MODULE TypeProofs -----------------------------
(***************************************************************************)
(* TypeOK for any number of clients, addresses, pool blocks and faults.    *)
(* TypeOK alone is not inductive: that a copy leaves a proper content and  *)
(* a deallocation a proper index in the pool depends on ClientLocals, that a  *)
(* request has assigned the locals it uses where it uses them.             *)
(***************************************************************************)
EXTENDS EngineProperties, TLAPS

USE DEF PCs, FlPCs

\* Contents is closed under what copies and transfers leave behind.
LEMMA ContentsFacts ==
    /\ Zero \in Contents
    /\ Torn \in Contents
    /\ \A l \in Lbas : \A n \in 0 .. MaxWrites : Block(l, n) \in Contents
BY DEF Contents, Zero, Torn, Block

\* The sentinels are no members of the sets they stand beside.
LEMMA Sentinels == NoLba \notin Lbas /\ NoSlot \notin Slots
BY BlocksAssumption, CapacityAssumption DEF NoLba, Lbas, NoSlot, Slots

\* The initial state of MemoryPool, LbaTable, BlockDevice, Flusher and engine.
LEMMA TypeInit == Init => TypeInv
<1> SUFFICES ASSUME Init PROVE TypeInv
    OBVIOUS
<1>1. PoolTypeOK
    BY ContentsFacts, CapacityAssumption DEF Init, PoolInit, PoolTypeOK, Slots
<1>2. TableTypeOK
    BY DEF Init, TableInit, TableTypeOK
<1>3. DeviceTypeOK
    BY ContentsFacts, BlocksAssumption DEF Init, DeviceInit, DeviceTypeOK
<1>4. FlusherTypeOK
    BY DEF Init, FlusherInit, FlusherTypeOK
<1>5. EngineTypeOK
    BY ContentsFacts, BlocksAssumption, EngineAssumption
    DEF Init, EngineTypeOK, NoVictim, Requests, EvictionCandidate, Outcomes
<1>6. ClientLocals /\ FlusherLocals
    BY DEF Init, FlusherInit, ClientLocals, FlusherLocals, SlotPCs, VictimPCs
<1> QED BY <1>1, <1>2, <1>3, <1>4, <1>5, <1>6 DEF TypeInv, TypeOK

\* The records the locals of a client hold.
LEMMA RecordFacts ==
    /\ NoVictim \in EvictionCandidate
    /\ \A st \in {"pending", "ok"} \cup Errors, b \in Contents :
          [status |-> st, block |-> b] \in Outcomes
    /\ \A op \in {"none", "read", "write"}, l \in Lbas \cup {NoLba, MaxLba},
          n \in 0 .. MaxWrites : [op |-> op, lba |-> l, ver |-> n] \in Requests
    /\ \A l \in Lbas, s \in Slots, f \in BOOLEAN :
          [lba |-> l, pool_index |-> s, needs_flush |-> f] \in EvictionCandidate
BY DEF NoVictim, EvictionCandidate, Outcomes, Requests

\* A request that begins is a proper one.
LEMMA BeginTypes ==
    ASSUME EngineTypeOK, NEW c \in Clients, NEW op \in {"read", "write"},
           NEW l \in Lbas \cup {MaxLba}, NEW n \in 0 .. MaxWrites, Begin(c, op, l, n)
    PROVE  req' \in [Clients -> Requests]
BY RecordFacts DEF EngineTypeOK, Begin

\* A request that returns leaves proper locals.
LEMMA ReturnTypes ==
    ASSUME EngineTypeOK, NEW c \in Clients, NEW st \in {"ok"} \cup Errors,
           NEW b \in Contents, Return(c, st, b), UNCHANGED <<req, nwrites, engineVars>>
    PROVE  EngineTypeOK'
BY RecordFacts DEF EngineTypeOK, Return, engineVars

\* A request that goes on, with new locals or the old ones.
LEMMA GotoTypes ==
    ASSUME EngineTypeOK, NEW c \in Clients, NEW label \in PCs, Goto(c, label),
           UNCHANGED <<req, out, nwrites, engineVars>>,
           slot' \in [Clients -> Slots \cup {NoSlot}],
           victim' \in [Clients -> EvictionCandidate]
    PROVE  EngineTypeOK'
BY DEF EngineTypeOK, Goto, engineVars

\* Every step of a client, of the owner and of the flusher keeps the types.
LEMMA TypeStep == TypeInv /\ [Next]_vars => TypeInv'
<1> SUFFICES ASSUME TypeInv, [Next]_vars PROVE TypeInv'
    OBVIOUS
<1>0. /\ PoolTypeOK /\ TableTypeOK /\ DeviceTypeOK /\ FlusherTypeOK
      /\ EngineTypeOK /\ ClientLocals /\ FlusherLocals
    BY DEF TypeInv, TypeOK
<1>1. ASSUME NEW c \in Clients, Reject(c) PROVE TypeInv'
  <2>1. PoolTypeOK' /\ TableTypeOK' /\ DeviceTypeOK' /\ FlusherTypeOK' /\ FlusherLocals'
      BY <1>0, <1>1 DEF Reject, PoolTypeOK, poolVars, TableTypeOK, tableVars,
          DeviceTypeOK, deviceVars, FlusherTypeOK, flushVars,
          threadVars, syncVars, FlusherLocals
  <2>2. EngineTypeOK'
    <3>1. 0 \in 0 .. MaxWrites
        BY BlocksAssumption
    <3>2. req' \in [Clients -> Requests]
        BY <1>0, <1>1, <3>1, BeginTypes DEF Reject
    <3>3. \E st \in {"ok"} \cup Errors : Return(c, st, Zero)
        BY <1>1 DEF Reject, Errors
    <3> QED BY <1>0, <1>1, <3>2, <3>3, RecordFacts, ContentsFacts
            DEF Reject, Return, EngineTypeOK, engineVars
  <2>3. ClientLocals'
      BY <1>0, <1>1 DEF Reject, Begin, Return, EngineTypeOK, ClientLocals,
          clientVars, SlotPCs, VictimPCs
  <2> QED BY <2>1, <2>2, <2>3 DEF TypeInv, TypeOK
<1>2. ASSUME NEW c \in Clients, ReadLookup(c) PROVE TypeInv'
  <2>1. PoolTypeOK' /\ DeviceTypeOK' /\ FlusherTypeOK' /\ FlusherLocals'
      BY <1>0, <1>2 DEF ReadLookup, PoolTypeOK, poolVars, DeviceTypeOK,
          deviceVars, FlusherTypeOK, flushVars, threadVars,
          syncVars, FlusherLocals
  <2>2. TableTypeOK'
      BY <1>0, <1>2 DEF ReadLookup, get_and_touch, touch, Forget, TableTypeOK,
          tableVars
  <2>3. EngineTypeOK'
    <3>1. 0 \in 0 .. MaxWrites
        BY BlocksAssumption
    <3>2. req' \in [Clients -> Requests]
        BY <1>0, <1>2, <3>1, BeginTypes DEF ReadLookup
    <3>3. out' \in [Clients -> Outcomes]
        BY <1>0, <1>2, RecordFacts, ContentsFacts DEF ReadLookup, Pending, EngineTypeOK
    <3>4. slot' \in [Clients -> Slots \cup {NoSlot}] /\ pc' \in [Clients -> PCs]
        BY <1>0, <1>2 DEF ReadLookup, Goto, EngineTypeOK
    <3> QED BY <1>0, <1>2, <3>2, <3>3, <3>4 DEF ReadLookup, EngineTypeOK, engineVars
  <2>4. ClientLocals'
      BY <1>0, <1>2 DEF ReadLookup, Begin, Goto, EngineTypeOK, ClientLocals,
          clientVars, SlotPCs, VictimPCs
  <2> QED BY <2>1, <2>2, <2>3, <2>4 DEF TypeInv, TypeOK
<1>3. ASSUME NEW c \in Clients, WriteLookup(c) PROVE TypeInv'
  <2>1. PoolTypeOK' /\ TableTypeOK' /\ DeviceTypeOK' /\ FlusherTypeOK' /\ FlusherLocals'
      BY <1>0, <1>3 DEF WriteLookup, PoolTypeOK, poolVars, TableTypeOK, tableVars,
          DeviceTypeOK, deviceVars, FlusherTypeOK, flushVars,
          threadVars, syncVars, FlusherLocals
  <2>2. EngineTypeOK'
    <3>1. PICK l \in Lbas : /\ nwrites[l] < MaxWrites
                           /\ Begin(c, "write", l, nwrites[l] + 1)
                           /\ nwrites' = [nwrites EXCEPT ![l] = nwrites[l] + 1]
        BY <1>3 DEF WriteLookup
    <3>2. nwrites[l] + 1 \in 0 .. MaxWrites
        BY <1>0, <3>1, BlocksAssumption DEF EngineTypeOK
    <3>3. req' \in [Clients -> Requests]
        BY <1>0, <3>1, <3>2, BeginTypes
    <3>4. nwrites' \in [Lbas -> 0 .. MaxWrites]
        BY <1>0, <3>1, <3>2 DEF EngineTypeOK
    <3>5. out' \in [Clients -> Outcomes]
        BY <1>0, <1>3, RecordFacts, ContentsFacts DEF WriteLookup, Pending, EngineTypeOK
    <3>6. slot' \in [Clients -> Slots \cup {NoSlot}] /\ pc' \in [Clients -> PCs]
        BY <1>0, <1>3 DEF WriteLookup, Goto, EngineTypeOK, Cached, TableTypeOK, CacheEntry
    <3> QED BY <1>0, <1>3, <3>3, <3>4, <3>5, <3>6 DEF WriteLookup, EngineTypeOK, engineVars
  <2>3. ClientLocals'
      BY <1>0, <1>3 DEF WriteLookup, Begin, Goto, EngineTypeOK, TableTypeOK,
          CacheEntry, Cached, ClientLocals, clientVars, SlotPCs,
          VictimPCs
  <2> QED BY <2>1, <2>2, <2>3 DEF TypeInv, TypeOK
<1>4. ASSUME NEW c \in Clients, Allocate(c) PROVE TypeInv'
  <2>1. TableTypeOK' /\ DeviceTypeOK' /\ FlusherTypeOK' /\ FlusherLocals'
      BY <1>0, <1>4 DEF Allocate, TableTypeOK, tableVars, DeviceTypeOK,
          deviceVars, FlusherTypeOK, flushVars, threadVars,
          syncVars, FlusherLocals
  <2>2. PoolTypeOK'
      BY <1>0, <1>4 DEF Allocate, TakeSlot, allocate, Exhausted, PoolTypeOK,
          poolVars
  <2>3. EngineTypeOK'
      BY <1>0, <1>4 DEF Allocate, TakeSlot, Goto, EngineTypeOK, engineVars,
          clientVars
  <2>4. ClientLocals'
      BY <1>0, <1>4 DEF Allocate, TakeSlot, Goto, EngineTypeOK, ClientLocals,
          clientVars, SlotPCs, VictimPCs
  <2> QED BY <2>1, <2>2, <2>3, <2>4 DEF TypeInv, TypeOK
<1>5. ASSUME NEW c \in Clients, Select(c) PROVE TypeInv'
  <2>1. PoolTypeOK' /\ TableTypeOK' /\ DeviceTypeOK' /\ FlusherTypeOK' /\ FlusherLocals'
      BY <1>0, <1>5 DEF Select, SelectRest, PoolTypeOK, poolVars, TableTypeOK,
          tableVars, DeviceTypeOK, deviceVars, FlusherTypeOK,
          flushVars, threadVars, syncVars, FlusherLocals
  <2>2. EngineTypeOK'
    <3>1. CASE Return(c, "Internal", Zero)
        BY <1>0, <1>5, <3>1, ReturnTypes, ContentsFacts
        DEF Select, SelectRest, Errors
    <3>2. CASE \E l \in select_eviction_candidate : Choose(c, l, Dirty(l))
      <4>1. PICK l \in DOMAIN table : Choose(c, l, Dirty(l))
          BY <3>2 DEF select_eviction_candidate, OldestOf
      <4>2. l \in Lbas /\ table[l].pool_index \in Slots /\ Dirty(l) \in BOOLEAN
          BY <1>0 DEF TableTypeOK, CacheEntry, Dirty, Cached
      <4>3. victim' \in [Clients -> EvictionCandidate]
          BY <1>0, <4>1, <4>2, RecordFacts DEF Choose, EngineTypeOK
      <4> QED BY <1>0, <1>5, <4>1, <4>3
              DEF Select, SelectRest, Choose, Goto, EngineTypeOK, engineVars
    <3> QED BY <1>5, <3>1, <3>2 DEF Select
  <2>3. ClientLocals'
      BY <1>0, <1>5 DEF Select, SelectRest, Choose, Goto, Return, EngineTypeOK,
          select_eviction_candidate, OldestOf, TableTypeOK,
          CacheEntry, ClientLocals, clientVars, SlotPCs, VictimPCs
  <2> QED BY <2>1, <2>2, <2>3 DEF TypeInv, TypeOK
<1>6. ASSUME NEW c \in Clients, EvictWrite(c) PROVE TypeInv'
  <2>1. PoolTypeOK' /\ TableTypeOK' /\ FlusherTypeOK' /\ FlusherLocals'
      BY <1>0, <1>6 DEF EvictWrite, PoolTypeOK, poolVars, TableTypeOK, tableVars,
          FlusherTypeOK, flushVars, threadVars, syncVars,
          FlusherLocals
  <2>2. DeviceTypeOK'
      BY <1>0, <1>6, ContentsFacts DEF EvictWrite, write_lba, write_lba_err, PutBlock,
          ClientLocals, VictimPCs, PoolTypeOK, DeviceTypeOK,
          deviceVars
  <2>3. EngineTypeOK'
    <3>1. CASE Return(c, "Io", Zero)
        BY <1>0, <1>6, <3>1, ReturnTypes, ContentsFacts DEF EvictWrite, Errors
    <3>2. CASE Goto(c, "evict_wake") /\ UNCHANGED <<slot, victim, out>>
        BY <1>0, <1>6, <3>2, GotoTypes DEF EvictWrite, EngineTypeOK
    <3> QED BY <1>6, <3>1, <3>2 DEF EvictWrite
  <2>4. ClientLocals'
      BY <1>0, <1>6 DEF EvictWrite, Goto, Return, EngineTypeOK, ClientLocals,
          clientVars, SlotPCs, VictimPCs
  <2> QED BY <2>1, <2>2, <2>3, <2>4 DEF TypeInv, TypeOK
<1>7. ASSUME NEW c \in Clients, EvictWake(c) PROVE TypeInv'
  <2>1. PoolTypeOK' /\ TableTypeOK' /\ DeviceTypeOK' /\ FlusherLocals'
      BY <1>0, <1>7 DEF EvictWake, PoolTypeOK, poolVars, TableTypeOK, tableVars,
          DeviceTypeOK, deviceVars, FlusherLocals, flushVars,
          threadVars
  <2>2. FlusherTypeOK'
      BY <1>0, <1>7 DEF EvictWake, wake, try_send, FlushSignal, FlusherTypeOK,
          flushVars, threadVars, syncVars
  <2>3. EngineTypeOK'
      BY <1>0, <1>7 DEF EvictWake, Goto, EngineTypeOK, engineVars, clientVars
  <2>4. ClientLocals'
      BY <1>0, <1>7 DEF EvictWake, Goto, EngineTypeOK, ClientLocals, clientVars,
          SlotPCs, VictimPCs
  <2> QED BY <2>1, <2>2, <2>3, <2>4 DEF TypeInv, TypeOK
<1>8. ASSUME NEW c \in Clients, EvictRemove(c) PROVE TypeInv'
  <2>1. PoolTypeOK' /\ DeviceTypeOK' /\ FlusherTypeOK' /\ FlusherLocals'
      BY <1>0, <1>8 DEF EvictRemove, PoolTypeOK, poolVars, DeviceTypeOK,
          deviceVars, FlusherTypeOK, flushVars, threadVars,
          syncVars, FlusherLocals
  <2>2. TableTypeOK'
      BY <1>0, <1>8 DEF EvictRemove, remove, Forget, TableTypeOK, tableVars
  <2>3. EngineTypeOK'
      BY <1>0, <1>8 DEF EvictRemove, Goto, EngineTypeOK, engineVars, clientVars
  <2>4. ClientLocals'
      BY <1>0, <1>8 DEF EvictRemove, Goto, EngineTypeOK, ClientLocals, clientVars,
          SlotPCs, VictimPCs
  <2> QED BY <2>1, <2>2, <2>3, <2>4 DEF TypeInv, TypeOK
<1>9. ASSUME NEW c \in Clients, EvictFree(c) PROVE TypeInv'
  <2>1. TableTypeOK' /\ DeviceTypeOK' /\ FlusherTypeOK' /\ FlusherLocals'
      BY <1>0, <1>9 DEF EvictFree, EvictFreeRest, TableTypeOK, tableVars,
          DeviceTypeOK, deviceVars, FlusherTypeOK, flushVars,
          threadVars, syncVars, FlusherLocals
  <2>2. PoolTypeOK'
      BY <1>0, <1>9 DEF EvictFree, EvictFreeRest, deallocate, ClientLocals,
          VictimPCs, PoolTypeOK, poolVars
  <2>3. EngineTypeOK'
      BY <1>0, <1>9 DEF EvictFree, EvictFreeRest, Goto, EngineTypeOK, engineVars,
          clientVars
  <2>4. ClientLocals'
      BY <1>0, <1>9 DEF EvictFree, EvictFreeRest, Goto, EngineTypeOK,
          ClientLocals, clientVars, SlotPCs, VictimPCs
  <2> QED BY <2>1, <2>2, <2>3, <2>4 DEF TypeInv, TypeOK
<1>10. ASSUME NEW c \in Clients, Realloc(c) PROVE TypeInv'
  <2>1. TableTypeOK' /\ DeviceTypeOK' /\ FlusherTypeOK' /\ FlusherLocals'
      BY <1>0, <1>10 DEF Realloc, TableTypeOK, tableVars, DeviceTypeOK, deviceVars,
          FlusherTypeOK, flushVars, threadVars, syncVars,
          FlusherLocals
  <2>2. PoolTypeOK'
      BY <1>0, <1>10 DEF Realloc, TakeSlot, allocate, Exhausted, PoolTypeOK,
          poolVars
  <2>3. EngineTypeOK'
    <3>1. CASE Return(c, "PoolExhausted", Zero)
        BY <1>0, <1>10, <3>1, ReturnTypes, ContentsFacts DEF Realloc, Errors
    <3>2. CASE TakeSlot(c) /\ UNCHANGED <<victim, out>>
        BY <1>0, <1>10, <3>2 DEF Realloc, TakeSlot, Goto, EngineTypeOK, engineVars
    <3> QED BY <1>10, <3>1, <3>2 DEF Realloc
  <2>4. ClientLocals'
      BY <1>0, <1>10 DEF Realloc, TakeSlot, Goto, Return, EngineTypeOK,
          ClientLocals, clientVars, SlotPCs, VictimPCs
  <2> QED BY <2>1, <2>2, <2>3, <2>4 DEF TypeInv, TypeOK
<1>11. ASSUME NEW c \in Clients, ReadFill(c) PROVE TypeInv'
  <2>1. TableTypeOK' /\ DeviceTypeOK' /\ FlusherTypeOK' /\ FlusherLocals'
      BY <1>0, <1>11 DEF ReadFill, TableTypeOK, tableVars, DeviceTypeOK,
          deviceVars, FlusherTypeOK, flushVars, threadVars,
          syncVars, FlusherLocals
  <2>2. PoolTypeOK'
      BY <1>0, <1>11, ContentsFacts DEF ReadFill, Fill, read_lba_err, DeviceTypeOK, ClientLocals,
          SlotPCs, PoolTypeOK, poolVars
  <2>3. EngineTypeOK'
    <3>1. CASE Return(c, "Io", Zero)
        BY <1>0, <1>11, <3>1, ReturnTypes, ContentsFacts DEF ReadFill, Errors
    <3>2. CASE Goto(c, "insert") /\ UNCHANGED <<slot, victim, out>>
        BY <1>0, <1>11, <3>2, GotoTypes DEF ReadFill, EngineTypeOK
    <3> QED BY <1>11, <3>1, <3>2 DEF ReadFill
  <2>4. ClientLocals'
      BY <1>0, <1>11 DEF ReadFill, Goto, Return, EngineTypeOK, ClientLocals,
          clientVars, SlotPCs, VictimPCs
  <2> QED BY <2>1, <2>2, <2>3, <2>4 DEF TypeInv, TypeOK
<1>12. ASSUME NEW c \in Clients, CopyIn(c) PROVE TypeInv'
  <2>1. TableTypeOK' /\ DeviceTypeOK' /\ FlusherTypeOK' /\ FlusherLocals'
      BY <1>0, <1>12 DEF CopyIn, TableTypeOK, tableVars, DeviceTypeOK, deviceVars,
          FlusherTypeOK, flushVars, threadVars, syncVars,
          FlusherLocals
  <2>2. PoolTypeOK'
    <3>1. slot[c] \in Slots
        BY <1>0, <1>12 DEF CopyIn, ClientLocals, SlotPCs
    <3>2. Payload(c) \in Contents
      <4>1. req[c].lba \in Lbas
          BY <1>0, <1>12 DEF CopyIn, ClientLocals, EngineTypeOK
      <4>2. req[c].ver \in 0 .. MaxWrites
          BY <1>0, <1>12 DEF EngineTypeOK, Requests
      <4> QED BY <4>1, <4>2, ContentsFacts DEF Payload
    <3>3. \E d \in Contents : Fill(slot[c], d)
        BY <1>12, <3>2, ContentsFacts DEF CopyIn
    <3> QED BY <1>0, <1>12, <3>1, <3>3 DEF CopyIn, Fill, PoolTypeOK
  <2>3. EngineTypeOK'
      BY <1>0, <1>12 DEF CopyIn, Goto, EngineTypeOK, engineVars, clientVars
  <2>4. ClientLocals'
      BY <1>0, <1>12 DEF CopyIn, Goto, EngineTypeOK, ClientLocals, clientVars,
          SlotPCs, VictimPCs
  <2> QED BY <2>1, <2>2, <2>3, <2>4 DEF TypeInv, TypeOK
<1>13. ASSUME NEW c \in Clients, Insert(c) PROVE TypeInv'
  <2>1. PoolTypeOK' /\ DeviceTypeOK' /\ FlusherTypeOK' /\ FlusherLocals'
      BY <1>0, <1>13 DEF Insert, PoolTypeOK, poolVars, DeviceTypeOK, deviceVars,
          FlusherTypeOK, flushVars, threadVars, syncVars,
          FlusherLocals
  <2>2. TableTypeOK'
      BY <1>0, <1>13 DEF Insert, insert, touch, Forget, NewEntry, CacheEntry,
          ClientLocals, SlotPCs, TableTypeOK, tableVars
  <2>3. EngineTypeOK'
      BY <1>0, <1>13 DEF Insert, Goto, EngineTypeOK, engineVars, clientVars
  <2>4. ClientLocals'
      BY <1>0, <1>13 DEF Insert, Goto, EngineTypeOK, ClientLocals, clientVars,
          SlotPCs, VictimPCs
  <2> QED BY <2>1, <2>2, <2>3, <2>4 DEF TypeInv, TypeOK
<1>14. ASSUME NEW c \in Clients, CopyOut(c) PROVE TypeInv'
  <2>1. PoolTypeOK' /\ TableTypeOK' /\ DeviceTypeOK' /\ FlusherTypeOK' /\ FlusherLocals'
      BY <1>0, <1>14 DEF CopyOut, PoolTypeOK, poolVars, TableTypeOK, tableVars,
          DeviceTypeOK, deviceVars, FlusherTypeOK, flushVars,
          threadVars, syncVars, FlusherLocals
  <2>2. EngineTypeOK'
    <3>1. mem[slot[c]] \in Contents
        BY <1>0, <1>14 DEF CopyOut, PoolTypeOK, ClientLocals, SlotPCs
    <3> QED BY <1>0, <1>14, <3>1, ReturnTypes DEF CopyOut
  <2>3. ClientLocals'
      BY <1>0, <1>14 DEF CopyOut, Return, EngineTypeOK, ClientLocals, clientVars,
          SlotPCs, VictimPCs
  <2> QED BY <2>1, <2>2, <2>3 DEF TypeInv, TypeOK
<1>15. ASSUME NEW c \in Clients, MarkDirty(c) PROVE TypeInv'
  <2>1. PoolTypeOK' /\ DeviceTypeOK' /\ FlusherTypeOK' /\ FlusherLocals'
      BY <1>0, <1>15 DEF MarkDirty, PoolTypeOK, poolVars, DeviceTypeOK, deviceVars,
          FlusherTypeOK, flushVars, threadVars, syncVars,
          FlusherLocals
  <2>2. TableTypeOK'
    <3>1. CASE Cached(req[c].lba)
      <4>1. table' = SetDirty(req[c].lba, TRUE) /\ touch(req[c].lba)
          BY <1>15, <3>1 DEF MarkDirty, mark_dirty
      <4>2. req[c].lba \in Lbas
          BY <1>0, <3>1 DEF Cached, TableTypeOK
      <4> QED BY <1>0, <3>1, <4>1, <4>2
              DEF SetDirty, NewEntry, touch, Forget, Cached, CacheEntry, TableTypeOK
    <3>2. CASE ~Cached(req[c].lba)
        BY <1>0, <1>15, <3>2 DEF MarkDirty, mark_dirty, tableVars, TableTypeOK
    <3> QED BY <3>1, <3>2
  <2>3. EngineTypeOK'
      BY <1>0, <1>15 DEF MarkDirty, Goto, EngineTypeOK, engineVars, clientVars
  <2>4. ClientLocals'
      BY <1>0, <1>15 DEF MarkDirty, Goto, EngineTypeOK, ClientLocals, clientVars,
          SlotPCs, VictimPCs
  <2> QED BY <2>1, <2>2, <2>3, <2>4 DEF TypeInv, TypeOK
<1>16. ASSUME NEW c \in Clients, Stats(c) PROVE TypeInv'
  <2>1. PoolTypeOK' /\ TableTypeOK' /\ DeviceTypeOK' /\ FlusherTypeOK' /\ FlusherLocals'
      BY <1>0, <1>16 DEF Stats, PoolTypeOK, poolVars, TableTypeOK, tableVars,
          DeviceTypeOK, deviceVars, FlusherTypeOK, flushVars,
          threadVars, syncVars, FlusherLocals
  <2>2. EngineTypeOK'
    <3>1. CASE Return(c, "ok", Zero)
        BY <1>0, <1>16, <3>1, ReturnTypes, ContentsFacts DEF Stats
    <3>2. CASE Goto(c, "wake") /\ UNCHANGED <<slot, victim, out>>
        BY <1>0, <1>16, <3>2, GotoTypes DEF Stats, EngineTypeOK
    <3> QED BY <1>16, <3>1, <3>2 DEF Stats
  <2>3. ClientLocals'
      BY <1>0, <1>16 DEF Stats, Goto, Return, EngineTypeOK, ClientLocals,
          clientVars, SlotPCs, VictimPCs
  <2> QED BY <2>1, <2>2, <2>3 DEF TypeInv, TypeOK
<1>17. ASSUME NEW c \in Clients, WakeFlusher(c) PROVE TypeInv'
  <2>1. PoolTypeOK' /\ TableTypeOK' /\ DeviceTypeOK' /\ FlusherLocals'
      BY <1>0, <1>17 DEF WakeFlusher, PoolTypeOK, poolVars, TableTypeOK, tableVars,
          DeviceTypeOK, deviceVars, FlusherLocals, flushVars,
          threadVars
  <2>2. FlusherTypeOK'
      BY <1>0, <1>17 DEF WakeFlusher, wake, try_send, FlushSignal, FlusherTypeOK,
          flushVars, threadVars, syncVars
  <2>3. EngineTypeOK'
      BY <1>0, <1>17, ReturnTypes, ContentsFacts DEF WakeFlusher
  <2>4. ClientLocals'
      BY <1>0, <1>17 DEF WakeFlusher, Return, EngineTypeOK, ClientLocals,
          clientVars, SlotPCs, VictimPCs
  <2> QED BY <2>1, <2>2, <2>3, <2>4 DEF TypeInv, TypeOK
<1>18. ASSUME Start PROVE TypeInv'
    BY <1>18 DEF Start, TypeInv, TypeOK, PoolTypeOK, TableTypeOK, DeviceTypeOK,
        FlusherTypeOK, EngineTypeOK, ClientLocals, FlusherLocals,
        SlotPCs, VictimPCs, poolVars, tableVars, deviceVars,
        flushVars, threadVars, clientVars, engineVars
<1>19. ASSUME Stop PROVE TypeInv'
    BY <1>19 DEF Stop, TypeInv, TypeOK, PoolTypeOK, TableTypeOK, DeviceTypeOK,
        FlusherTypeOK, EngineTypeOK, ClientLocals, FlusherLocals,
        SlotPCs, VictimPCs, poolVars, tableVars, deviceVars,
        flushVars, threadVars, clientVars, engineVars
<1>20. ASSUME Drop PROVE TypeInv'
    BY <1>20 DEF Drop, TypeInv, TypeOK, PoolTypeOK, TableTypeOK, DeviceTypeOK,
        FlusherTypeOK, EngineTypeOK, ClientLocals, FlusherLocals,
        SlotPCs, VictimPCs, poolVars, tableVars, deviceVars,
        flushVars, threadVars, clientVars, engineVars
<1>21. ASSUME ShutdownStore PROVE TypeInv'
    BY <1>21 DEF ShutdownStore, TypeInv, TypeOK, PoolTypeOK, TableTypeOK,
        DeviceTypeOK, FlusherTypeOK, EngineTypeOK, ClientLocals,
        FlusherLocals, SlotPCs, VictimPCs, poolVars, tableVars,
        deviceVars, flushVars, threadVars, clientVars, engineVars
<1>22. ASSUME ShutdownSend PROVE TypeInv'
    BY <1>22 DEF ShutdownSend, try_send, FlushSignal, TypeInv, TypeOK,
        PoolTypeOK, TableTypeOK, DeviceTypeOK, FlusherTypeOK,
        EngineTypeOK, ClientLocals, FlusherLocals, SlotPCs, VictimPCs,
        poolVars, tableVars, deviceVars, flushVars, threadVars,
        clientVars, engineVars
<1>23. ASSUME ShutdownJoin PROVE TypeInv'
    BY <1>23 DEF ShutdownJoin, TypeInv, TypeOK, PoolTypeOK, TableTypeOK,
        DeviceTypeOK, FlusherTypeOK, EngineTypeOK, ClientLocals,
        FlusherLocals, SlotPCs, VictimPCs, poolVars, tableVars,
        deviceVars, flushVars, threadVars, clientVars, engineVars
<1>24. ASSUME FlReceive, UNCHANGED <<clientVars, engineVars>> PROVE TypeInv'
    BY <1>24 DEF FlReceive, FlushSignal, TypeInv, TypeOK, PoolTypeOK,
        TableTypeOK, DeviceTypeOK, FlusherTypeOK, EngineTypeOK,
        ClientLocals, FlusherLocals, SlotPCs, VictimPCs, poolVars,
        tableVars, deviceVars, flushVars, threadVars, clientVars,
        engineVars
<1>25. ASSUME FlTimeout, UNCHANGED <<clientVars, engineVars>> PROVE TypeInv'
    BY <1>25 DEF FlTimeout, TypeInv, TypeOK, PoolTypeOK, TableTypeOK,
        DeviceTypeOK, FlusherTypeOK, EngineTypeOK, ClientLocals,
        FlusherLocals, SlotPCs, VictimPCs, poolVars, tableVars,
        deviceVars, flushVars, threadVars, clientVars, engineVars
<1>26. ASSUME FlSnapshot, UNCHANGED <<clientVars, engineVars>> PROVE TypeInv'
  <2>1. PoolTypeOK' /\ TableTypeOK' /\ DeviceTypeOK' /\ EngineTypeOK' /\ ClientLocals' /\ FlusherLocals'
      BY <1>0, <1>26 DEF FlSnapshot, PoolTypeOK, poolVars, TableTypeOK, tableVars,
          DeviceTypeOK, deviceVars, EngineTypeOK, engineVars,
          clientVars, ClientLocals, SlotPCs, VictimPCs,
          FlusherLocals, flushVars, threadVars
  <2>2. FlusherTypeOK'
    <3>1. dirty_entries \subseteq Lbas \X Slots
        BY <1>0 DEF dirty_entries, TableTypeOK, CacheEntry
    <3> QED BY <1>0, <1>26, <3>1 DEF FlSnapshot, FlusherTypeOK
  <2> QED BY <2>1, <2>2 DEF TypeInv, TypeOK
<1>27. ASSUME FlWrite, UNCHANGED <<clientVars, engineVars>> PROVE TypeInv'
  <2>1. PoolTypeOK' /\ TableTypeOK' /\ EngineTypeOK' /\ ClientLocals'
      BY <1>0, <1>27 DEF FlWrite, PoolTypeOK, poolVars, TableTypeOK, tableVars,
          EngineTypeOK, engineVars, clientVars, ClientLocals,
          SlotPCs, VictimPCs
  <2>2. DeviceTypeOK'
      BY <1>0, <1>27, ContentsFacts DEF FlWrite, write_lba, write_lba_err, PutBlock,
          FlusherTypeOK, PoolTypeOK, DeviceTypeOK, deviceVars
  <2>3. FlusherTypeOK'
      BY <1>0, <1>27 DEF FlWrite, FlLoop, FlusherTypeOK, flushVars, threadVars,
          syncVars
  <2>4. FlusherLocals'
      BY <1>0, <1>27 DEF FlWrite, FlusherTypeOK, FlLoop, FlusherLocals, flushVars,
          threadVars
  <2> QED BY <2>1, <2>2, <2>3, <2>4 DEF TypeInv, TypeOK
<1>28. ASSUME FlClean, UNCHANGED <<clientVars, engineVars>> PROVE TypeInv'
  <2>1. PoolTypeOK' /\ DeviceTypeOK' /\ EngineTypeOK' /\ ClientLocals'
      BY <1>0, <1>28 DEF FlClean, PoolTypeOK, poolVars, DeviceTypeOK, deviceVars,
          EngineTypeOK, engineVars, clientVars, ClientLocals,
          SlotPCs, VictimPCs
  <2>2. TableTypeOK'
      BY <1>0, <1>28 DEF FlClean, mark_clean, SetDirty, NewEntry, Cached,
          CacheEntry, TableTypeOK, tableVars
  <2>3. FlusherTypeOK'
      BY <1>0, <1>28 DEF FlClean, FlLoop, FlusherTypeOK, flushVars, threadVars,
          syncVars
  <2>4. FlusherLocals'
      BY <1>0, <1>28 DEF FlClean, FlLoop, FlusherLocals, flushVars, threadVars
  <2> QED BY <2>1, <2>2, <2>3, <2>4 DEF TypeInv, TypeOK
<1>29. ASSUME FlSync, UNCHANGED <<clientVars, engineVars>> PROVE TypeInv'
  <2>1. PoolTypeOK' /\ TableTypeOK' /\ FlusherTypeOK' /\ EngineTypeOK' /\ ClientLocals' /\ FlusherLocals'
      BY <1>0, <1>29 DEF FlSync, PoolTypeOK, poolVars, TableTypeOK, tableVars,
          FlusherTypeOK, flushVars, threadVars, syncVars,
          EngineTypeOK, engineVars, clientVars, ClientLocals,
          SlotPCs, VictimPCs, FlusherLocals
  <2>2. DeviceTypeOK'
      BY <1>0, <1>29 DEF FlSync, sync_device, DeviceTypeOK, deviceVars
  <2> QED BY <2>1, <2>2 DEF TypeInv, TypeOK
<1>30. ASSUME FlCheck, UNCHANGED <<clientVars, engineVars>> PROVE TypeInv'
  <2>1. PoolTypeOK' /\ TableTypeOK' /\ DeviceTypeOK' /\ FlusherTypeOK' /\ EngineTypeOK' /\ ClientLocals' /\ FlusherLocals'
      BY <1>0, <1>30 DEF FlCheck, FlCheckLeaves, FlCheckRest, PoolTypeOK, poolVars,
          TableTypeOK, tableVars, DeviceTypeOK, deviceVars,
          FlusherTypeOK, flushVars, threadVars, syncVars,
          EngineTypeOK, engineVars, clientVars, ClientLocals,
          SlotPCs, VictimPCs, FlusherLocals
  <2> QED BY <2>1 DEF TypeInv, TypeOK
<1>31. CASE UNCHANGED vars
    BY <1>31 DEF vars, TypeInv, TypeOK, PoolTypeOK, TableTypeOK, DeviceTypeOK,
        FlusherTypeOK, EngineTypeOK, ClientLocals, FlusherLocals,
        SlotPCs, VictimPCs, poolVars, tableVars, deviceVars,
        flushVars, threadVars, clientVars, engineVars
<1> QED
    BY <1>1, <1>2, <1>3, <1>4, <1>5, <1>6, <1>7, <1>8, <1>9, <1>10,
        <1>11, <1>12, <1>13, <1>14, <1>15, <1>16, <1>17, <1>18, <1>19,
        <1>20, <1>21, <1>22, <1>23, <1>24, <1>25, <1>26, <1>27, <1>28,
        <1>29, <1>30, <1>31
    DEF Next, Request, ClientStep, Shutdown, FlusherThread, FlNext, FlStep

\* Every variable keeps its type in every reachable state: no free list entry
\* or table entry is ever out of the pool, no address out of the device.
THEOREM TypeCorrect == Spec => []TypeOK
<1>1. TypeInv => TypeOK
    BY DEF TypeInv
<1> QED BY <1>1, TypeInit, TypeStep, PTL DEF Spec
=============================================================================
