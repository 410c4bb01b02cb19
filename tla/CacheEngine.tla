---------------------------- MODULE CacheEngine ----------------------------
(***************************************************************************)
(* engine/cache_engine.rs, engine/read_path.rs and engine/write_path.rs:   *)
(* the client threads that call read() and write(), the owner that calls   *)
(* start(), stop() and drops the engine, and the flusher thread, over the  *)
(* pool, the table, the device and the flush channel they share.           *)
(*                                                                         *)
(* read() and write() take &self, so any number of client threads may be   *)
(* inside them at once; start(), stop() and drop need the engine to        *)
(* themselves.  A step of a client is one critical section of a shared     *)
(* object, one system call, or one half of a copy into a pool block.       *)
(***************************************************************************)
EXTENDS Flusher

CONSTANTS Clients,        \* the threads that call read() and write()
          ReadOnlyModes,  \* the values of CacheConfig::read_only to consider
          Calls,          \* which of "start", "stop", "drop" the owner uses
          StartFirst,     \* whether callers write only while a flusher runs
          MaxFree         \* bound: no new request once the free list is longer

ASSUME EngineAssumption == /\ ReadOnlyModes \subseteq BOOLEAN
                           /\ Calls \subseteq {"start", "stop", "drop"}
                           /\ StartFirst \in BOOLEAN
                           /\ MaxFree \in Nat

VARIABLES pc,         \* pc[c]: where client c is
          req,        \* req[c]: the request c is in, or was in last
          slot,       \* slot[c]: the local pool_index
          victim,     \* victim[c]: the local EvictionCandidate
          out,        \* out[c]: what the request returned
          nwrites,    \* nwrites[l]: payloads made so far for l
          read_only,  \* CacheConfig::read_only
          life        \* where the owner is

clientVars == <<pc, req, slot, victim, out, nwrites>>
engineVars == <<read_only, life>>
vars == <<poolVars, tableVars, deviceVars, flushVars, clientVars, engineVars>>

PCs == {"idle", "alloc", "select", "evict_write", "evict_wake", "evict_remove",
        "evict_free", "realloc", "fill", "new_copy", "new_copying", "insert",
        "copy_out", "upd_copy", "upd_copying", "mark", "stats", "wake"}

\* The CacheError variants a request can return; "Io" stands for Io and for the
\* PermissionDenied that CacheError::io makes of EACCES and EPERM.
Errors == {"LbaOutOfRange", "Config", "Io", "Internal", "PoolExhausted"}

NoVictim == [lba |-> NoLba, pool_index |-> NoSlot, needs_flush |-> FALSE]

Requests == [op : {"none", "read", "write"},
             lba : Lbas \cup {NoLba, MaxLba}, ver : 0 .. MaxWrites]

EvictionCandidate == [lba : Lbas \cup {NoLba}, pool_index : Slots \cup {NoSlot},
                      needs_flush : BOOLEAN]

Outcomes == [status : {"none", "pending", "ok"} \cup Errors, block : Contents]

EngineTypeOK == /\ pc \in [Clients -> PCs]
                /\ req \in [Clients -> Requests]
                /\ slot \in [Clients -> Slots \cup {NoSlot}]
                /\ victim \in [Clients -> EvictionCandidate]
                /\ out \in [Clients -> Outcomes]
                /\ nwrites \in [Lbas -> 0 .. MaxWrites]
                /\ read_only \in BOOLEAN
                /\ life \in {"up", "flag", "send", "join", "dropped"}

TypeOK == /\ PoolTypeOK
          /\ TableTypeOK
          /\ DeviceTypeOK
          /\ FlusherTypeOK
          /\ EngineTypeOK

\* CacheEngine::new: flusher is None until start().
Init == /\ PoolInit
        /\ TableInit
        /\ DeviceInit
        /\ FlusherInit
        /\ pc = [c \in Clients |-> "idle"]
        /\ req = [c \in Clients |-> [op |-> "none", lba |-> NoLba, ver |-> 0]]
        /\ slot = [c \in Clients |-> NoSlot]
        /\ victim = [c \in Clients |-> NoVictim]
        /\ out = [c \in Clients |-> [status |-> "none", block |-> Zero]]
        /\ nwrites = [l \in Lbas |-> 0]
        /\ read_only \in ReadOnlyModes
        /\ life = "up"

-----------------------------------------------------------------------------
(* Control of a client thread.                                             *)

Goto(c, label) == pc' = [pc EXCEPT ![c] = label]

\* A request begins; the bound keeps a corrupted free list finite.
Begin(c, op, l, n) ==
    /\ pc[c] = "idle"
    /\ life = "up"
    /\ Len(free_list) <= MaxFree
    /\ req' = [req EXCEPT ![c] = [op |-> op, lba |-> l, ver |-> n]]

Pending(c) == out' = [out EXCEPT ![c] = [status |-> "pending", block |-> Zero]]

\* A request returns; its locals are gone.
Return(c, status, block) ==
    /\ pc' = [pc EXCEPT ![c] = "idle"]
    /\ out' = [out EXCEPT ![c] = [status |-> status, block |-> block]]
    /\ slot' = [slot EXCEPT ![c] = NoSlot]
    /\ victim' = [victim EXCEPT ![c] = NoVictim]

Payload(c) == Block(req[c].lba, req[c].ver)

-----------------------------------------------------------------------------
(* CacheEngine::read and CacheEngine::write up to the first lookup.        *)

\* validate_lba() fails, or cached_write() in read-only mode.
Reject(c) ==
    /\ \/ \E op \in {"read", "write"} :
            /\ Begin(c, op, MaxLba, 0)
            /\ Return(c, "LbaOutOfRange", Zero)
       \/ \E l \in Lbas :
            /\ read_only
            /\ Begin(c, "write", l, 0)
            /\ Return(c, "Config", Zero)
    /\ UNCHANGED <<poolVars, tableVars, deviceVars, flushVars, nwrites, engineVars>>

\* cached_read(): get_and_touch() decides between hit and miss.
ReadLookup(c) ==
    /\ \E l \in Lbas :
         /\ Begin(c, "read", l, 0)
         /\ \/ \E s \in Slots :
                 /\ get_and_touch(l, s)
                 /\ slot' = [slot EXCEPT ![c] = s]
                 /\ Goto(c, "copy_out")
            \/ /\ ~Cached(l)
               /\ Goto(c, "alloc")
               /\ UNCHANGED <<slot, tableVars>>
    /\ Pending(c)
    /\ UNCHANGED <<victim, nwrites>>
    /\ UNCHANGED <<poolVars, deviceVars, flushVars, engineVars>>

\* Mutant: a write never looks for an entry it could update.
WriteLookupMisses(c) ==
    /\ ~read_only
    /\ \E l \in Lbas :
         /\ nwrites[l] < MaxWrites
         /\ Begin(c, "write", l, nwrites[l] + 1)
         /\ nwrites' = [nwrites EXCEPT ![l] = nwrites[l] + 1]
    /\ Goto(c, "alloc")
    /\ Pending(c)
    /\ UNCHANGED <<slot, victim>>
    /\ UNCHANGED <<poolVars, tableVars, deviceVars, flushVars, engineVars>>

\* cached_write(): get() clones the entry, the lock is dropped again.  start()
\* "must be called [...] before any write operations"; nothing enforces it, so
\* whether callers comply is a parameter.
WriteLookup(c) ==
    /\ ~read_only
    /\ StartFirst => fl_pc # "none"
    /\ \E l \in Lbas :
         /\ nwrites[l] < MaxWrites
         /\ Begin(c, "write", l, nwrites[l] + 1)
         /\ nwrites' = [nwrites EXCEPT ![l] = nwrites[l] + 1]
         /\ \/ /\ Cached(l)
               /\ slot' = [slot EXCEPT ![c] = table[l].pool_index]
               /\ Goto(c, "upd_copy")
            \/ /\ ~Cached(l)
               /\ Goto(c, "alloc")
               /\ UNCHANGED slot
    /\ Pending(c)
    /\ UNCHANGED victim
    /\ UNCHANGED <<poolVars, tableVars, deviceVars, flushVars, engineVars>>

-----------------------------------------------------------------------------
(* allocate_or_evict()                                                     *)

\* The block is there to be filled by a pread or by a copy.
TakeSlot(c) == \E s \in Slots :
                  /\ allocate(s)
                  /\ slot' = [slot EXCEPT ![c] = s]
                  /\ Goto(c, IF req[c].op = "read" THEN "fill" ELSE "new_copy")

\* Fast path: a free slot is available.
Allocate(c) ==
    /\ pc[c] = "alloc"
    /\ \/ TakeSlot(c)
       \/ /\ Exhausted
          /\ Goto(c, "select")
          /\ UNCHANGED <<free_list, slot>>
    /\ UNCHANGED <<mem, req, victim, out, nwrites>>
    /\ UNCHANGED <<tableVars, deviceVars, flushVars, engineVars>>

Choose(c, l, flush) ==
    /\ victim' = [victim EXCEPT ![c] = [lba |-> l, pool_index |-> table[l].pool_index,
                                        needs_flush |-> flush]]
    /\ Goto(c, IF flush THEN "evict_write" ELSE "evict_remove")
    /\ UNCHANGED <<slot, out>>

SelectRest == /\ UNCHANGED <<req, nwrites>>
              /\ UNCHANGED <<poolVars, tableVars, deviceVars, flushVars, engineVars>>

\* Mutant: the victim is never written back.
SelectNoFlush(c) ==
    /\ pc[c] = "select"
    /\ \/ DOMAIN table = {} /\ Return(c, "Internal", Zero)
       \/ \E l \in select_eviction_candidate : Choose(c, l, FALSE)
    /\ SelectRest

\* Mutant: without a candidate the allocation is tried again.
SelectRetries(c) ==
    /\ pc[c] = "select"
    /\ \/ DOMAIN table = {} /\ Goto(c, "alloc") /\ UNCHANGED <<slot, victim, out>>
       \/ \E l \in select_eviction_candidate : Choose(c, l, Dirty(l))
    /\ SelectRest

\* select_eviction_candidate(), from a snapshot of the table.
Select(c) ==
    /\ pc[c] = "select"
    /\ \/ DOMAIN table = {} /\ Return(c, "Internal", Zero)
       \/ \E l \in select_eviction_candidate : Choose(c, l, Dirty(l))
    /\ SelectRest

\* A dirty candidate is written back first; an error ends the request.
EvictWrite(c) ==
    /\ pc[c] = "evict_write"
    /\ \/ /\ write_lba(victim[c].lba, mem[victim[c].pool_index])
          /\ Goto(c, "evict_wake")
          /\ UNCHANGED <<slot, victim, out>>
       \/ /\ write_lba_err(victim[c].lba)
          /\ Return(c, "Io", Zero)
    /\ UNCHANGED <<req, nwrites>>
    /\ UNCHANGED <<poolVars, tableVars, flushVars, engineVars>>

EvictWake(c) ==
    /\ pc[c] = "evict_wake"
    /\ wake
    /\ Goto(c, "evict_remove")
    /\ UNCHANGED <<threadVars, req, slot, victim, out, nwrites>>
    /\ UNCHANGED <<poolVars, tableVars, deviceVars, engineVars>>

\* Mutant: the slot is freed while the table still has the entry.
EvictRemoveSkipped(c) ==
    /\ pc[c] = "evict_remove"
    /\ Goto(c, "evict_free")
    /\ UNCHANGED <<req, slot, victim, out, nwrites, tableVars>>
    /\ UNCHANGED <<poolVars, deviceVars, flushVars, engineVars>>

EvictRemove(c) ==
    /\ pc[c] = "evict_remove"
    /\ remove(victim[c].lba)
    /\ Goto(c, "evict_free")
    /\ UNCHANGED <<req, slot, victim, out, nwrites>>
    /\ UNCHANGED <<poolVars, deviceVars, flushVars, engineVars>>

EvictFreeRest(c) ==
    /\ pc[c] = "evict_free"
    /\ Goto(c, "realloc")
    /\ UNCHANGED <<mem, req, slot, victim, out, nwrites>>
    /\ UNCHANGED <<tableVars, deviceVars, flushVars, engineVars>>

\* Mutant: the wrong local index is returned to the pool.
EvictFreesLocal(c) == EvictFreeRest(c) /\ deallocate(slot[c])

EvictFree(c) ==
    /\ EvictFreeRest(c)
    /\ deallocate(victim[c].pool_index)

\* The second allocate(); its error is the request's.
Realloc(c) ==
    /\ pc[c] = "realloc"
    /\ \/ TakeSlot(c) /\ UNCHANGED <<victim, out>>
       \/ /\ Exhausted
          /\ Return(c, "PoolExhausted", Zero)
          /\ UNCHANGED free_list
    /\ UNCHANGED <<mem, req, nwrites>>
    /\ UNCHANGED <<tableVars, deviceVars, flushVars, engineVars>>

-----------------------------------------------------------------------------
(* The rest of cached_read() and cached_write().                           *)

\* Miss: pread into the pool block.  On an error the block is not returned
\* to the pool.
ReadFill(c) ==
    /\ pc[c] = "fill"
    /\ \/ /\ Fill(slot[c], disk[req[c].lba])
          /\ Goto(c, "insert")
          /\ UNCHANGED <<slot, victim, out>>
       \/ /\ \E d \in read_lba_err(mem[slot[c]]) : Fill(slot[c], d)
          /\ Return(c, "Io", Zero)
    /\ UNCHANGED <<free_list, req, nwrites>>
    /\ UNCHANGED <<tableVars, deviceVars, flushVars, engineVars>>

\* The non-temporal copy of the payload, halfway and done.
CopyIn(c) ==
    /\ \/ pc[c] = "new_copy" /\ Fill(slot[c], Torn) /\ Goto(c, "new_copying")
       \/ pc[c] = "new_copying" /\ Fill(slot[c], Payload(c)) /\ Goto(c, "insert")
       \/ pc[c] = "upd_copy" /\ Fill(slot[c], Torn) /\ Goto(c, "upd_copying")
       \/ pc[c] = "upd_copying" /\ Fill(slot[c], Payload(c)) /\ Goto(c, "mark")
    /\ UNCHANGED <<free_list, req, slot, victim, out, nwrites>>
    /\ UNCHANGED <<tableVars, deviceVars, flushVars, engineVars>>

\* A clean entry for a read, a dirty one for a write.
Insert(c) ==
    /\ pc[c] = "insert"
    /\ insert(req[c].lba, NewEntry(slot[c], req[c].op = "write"))
    /\ Goto(c, IF req[c].op = "read" THEN "copy_out" ELSE "stats")
    /\ UNCHANGED <<req, slot, victim, out, nwrites>>
    /\ UNCHANGED <<poolVars, deviceVars, flushVars, engineVars>>

\* The temporal copy from the pool block to the caller's buffer.
CopyOut(c) ==
    /\ pc[c] = "copy_out"
    /\ Return(c, "ok", mem[slot[c]])
    /\ UNCHANGED <<req, nwrites>>
    /\ UNCHANGED <<poolVars, tableVars, deviceVars, flushVars, engineVars>>

\* Mutant: an update leaves the flag of its entry alone.
MarkDirtySkipped(c) ==
    /\ pc[c] = "mark"
    /\ Goto(c, "stats")
    /\ UNCHANGED <<req, slot, victim, out, nwrites, tableVars>>
    /\ UNCHANGED <<poolVars, deviceVars, flushVars, engineVars>>

MarkDirty(c) ==
    /\ pc[c] = "mark"
    /\ mark_dirty(req[c].lba)
    /\ Goto(c, "stats")
    /\ UNCHANGED <<req, slot, victim, out, nwrites>>
    /\ UNCHANGED <<poolVars, deviceVars, flushVars, engineVars>>

\* maybe_wake_flusher(): stats() and the watermark ...
Stats(c) ==
    /\ pc[c] = "stats"
    /\ \/ /\ should_flush_immediately
          /\ Goto(c, "wake")
          /\ UNCHANGED <<slot, victim, out>>
       \/ /\ ~should_flush_immediately
          /\ Return(c, "ok", Zero)
    /\ UNCHANGED <<req, nwrites>>
    /\ UNCHANGED <<poolVars, tableVars, deviceVars, flushVars, engineVars>>

\* ... and the wake.
WakeFlusher(c) ==
    /\ pc[c] = "wake"
    /\ wake
    /\ Return(c, "ok", Zero)
    /\ UNCHANGED <<threadVars, req, nwrites>>
    /\ UNCHANGED <<poolVars, tableVars, deviceVars, engineVars>>

-----------------------------------------------------------------------------
(* The owner: start(), stop() and drop.                                    *)

\* &mut self: no other call is in progress.
Exclusive == life = "up" /\ \A c \in Clients : pc[c] = "idle"

\* start() with no flusher; a second start() and one in read-only mode
\* return without doing anything.
Start ==
    /\ "start" \in Calls
    /\ Exclusive
    /\ fl_pc = "none"
    /\ ~read_only
    /\ fl_pc' = "wait"
    /\ stop' = FALSE
    /\ UNCHANGED <<chan, fl_signal, fl_work, fl_lba, flushed, owed>>
    /\ UNCHANGED <<poolVars, tableVars, deviceVars, clientVars, engineVars>>

\* stop() with a flusher calls BackgroundFlusher::shutdown().
Stop ==
    /\ "stop" \in Calls
    /\ Exclusive
    /\ fl_pc # "none"
    /\ life' = "flag"
    /\ UNCHANGED <<poolVars, tableVars, deviceVars, flushVars, clientVars, read_only>>

\* The engine is dropped: its fields in the order they are declared, so the
\* device is closed first and the flusher, if any, shut down after it.
Drop ==
    /\ "drop" \in Calls
    /\ Exclusive
    /\ fd_open' = FALSE
    /\ life' = IF fl_pc = "none" THEN "dropped" ELSE "flag"
    /\ UNCHANGED <<disk, unsynced, read_only>>
    /\ UNCHANGED <<poolVars, tableVars, flushVars, clientVars>>

\* shutdown(): the stop flag, then the signal, then the join.
ShutdownStore ==
    /\ life = "flag"
    /\ stop' = TRUE
    /\ life' = "send"
    /\ UNCHANGED <<chan, threadVars, owed, read_only>>
    /\ UNCHANGED <<poolVars, tableVars, deviceVars, clientVars>>

\* Mutant: the stop flag is all a shutdown sets.
ShutdownFlagOnly ==
    /\ life = "send"
    /\ life' = "join"
    /\ UNCHANGED <<flushVars, read_only>>
    /\ UNCHANGED <<poolVars, tableVars, deviceVars, clientVars>>

ShutdownSend ==
    /\ life = "send"
    /\ try_send("Shutdown")
    /\ life' = "join"
    /\ UNCHANGED <<stop, threadVars, owed, read_only>>
    /\ UNCHANGED <<poolVars, tableVars, deviceVars, clientVars>>

ShutdownJoin ==
    /\ life = "join"
    /\ fl_pc = "exited"
    /\ fl_pc' = "none"
    /\ stop' = FALSE
    /\ life' = IF fd_open THEN "up" ELSE "dropped"
    /\ UNCHANGED <<chan, fl_signal, fl_work, fl_lba, flushed, owed, read_only>>
    /\ UNCHANGED <<poolVars, tableVars, deviceVars, clientVars>>

-----------------------------------------------------------------------------
ClientStep(c) == \/ Allocate(c) \/ Select(c)
                 \/ EvictWrite(c) \/ EvictWake(c) \/ EvictRemove(c) \/ EvictFree(c)
                 \/ Realloc(c) \/ ReadFill(c) \/ CopyIn(c) \/ Insert(c)
                 \/ CopyOut(c) \/ MarkDirty(c) \/ Stats(c) \/ WakeFlusher(c)

Request(c) == Reject(c) \/ ReadLookup(c) \/ WriteLookup(c)

Shutdown == ShutdownStore \/ ShutdownSend \/ ShutdownJoin

FlusherThread == FlNext /\ UNCHANGED <<clientVars, engineVars>>

Next == \/ \E c \in Clients : Request(c) \/ ClientStep(c)
        \/ Start \/ Stop \/ Drop \/ Shutdown
        \/ FlusherThread

Spec == Init /\ [][Next]_vars
=============================================================================
