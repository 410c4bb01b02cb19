-------------------------- MODULE EngineProperties --------------------------
(***************************************************************************)
(* What is checked and proved of CacheEngine.                              *)
(***************************************************************************)
EXTENDS CacheEngine

-----------------------------------------------------------------------------
(* The pool: who owns a block.                                             *)

\* Client c has allocated slot[c] and not yet put it into the table.
Filling(c) == pc[c] \in {"fill", "new_copy", "new_copying", "insert"}

Free(s) == \E i \in 1 .. Len(free_list) : free_list[i] = s
Backs(s, l) == Cached(l) /\ table[l].pool_index = s

\* A pool block has at most one owner: one place in the free list, one table
\* entry, or one client that is filling it (the SAFETY comment of BlockBuffer:
\* "The pool guarantees that each block is handed out to at most one owner at
\* a time").  deallocate() pushes whatever index it is given, so this rests on
\* allocate_or_evict() freeing a victim exactly once.
OneOwner ==
    /\ \A i, j \in 1 .. Len(free_list) : free_list[i] = free_list[j] => i = j
    /\ \A k, l \in DOMAIN table : table[k].pool_index = table[l].pool_index => k = l
    /\ \A l \in DOMAIN table : ~Free(table[l].pool_index)
    /\ \A c \in Clients : Filling(c) =>
          /\ ~Free(slot[c])
          /\ \A l \in DOMAIN table : ~Backs(slot[c], l)
          /\ \A d \in Clients \ {c} : Filling(d) => slot[d] # slot[c]

\* No pool block is lost: each is free, cached, or in the hands of a request
\* that is still running.  It holds as long as no pread fails; cached_read()
\* does not return its block to the pool when one does.
NoSlotLost ==
    \A s \in Slots : \/ Free(s)
                     \/ \E l \in DOMAIN table : Backs(s, l)
                     \/ \E c \in Clients :
                          \/ Filling(c) /\ slot[c] = s
                          \/ pc[c] = "evict_free" /\ victim[c].pool_index = s

-----------------------------------------------------------------------------
(* The table: the victim of an eviction.                                   *)

\* What select_eviction_candidate() said of its victim is still true when the
\* victim is written back and removed, although no lock is held in between:
\* it is still cached in the same pool block, and if it is dirty it was found
\* dirty and is written back before it is removed.
VictimFresh ==
    \A c \in Clients :
        pc[c] \in {"evict_write", "evict_wake", "evict_remove"} =>
            /\ Backs(victim[c].pool_index, victim[c].lba)
            /\ Dirty(victim[c].lba) => victim[c].needs_flush

-----------------------------------------------------------------------------
(* The flush channel: one slot, try_send, a stop flag.                     *)

\* A wake() to a running flusher is never lost although try_send() drops it when
\* the channel is full: until the flusher takes its next snapshot (or exits), a
\* signal is pending or has just been received.
WakeNotLost == owed => chan # "empty" \/ fl_pc = "snapshot"

\* stop() never waits for the flush interval to elapse: once shutdown() has
\* tried to send its signal, a flusher that is waiting has a signal to receive,
\* also when the Shutdown itself was dropped because a Wake filled the channel.
ShutdownPrompt == life = "join" /\ fl_pc = "wait" => chan # "empty"

\* The dirty watermark is heeded: while the flusher sleeps with no wake pending and
\* no request is running, the dirty share of the table is below the watermark,
\* whatever evictions, reads and flush cycles have done to both counts since the
\* last write compared them (maybe_wake_flusher() is called by writes only).  For one
\* client that starts the flusher first and a device without errors.
WatermarkHeeded ==
    StartFirst /\ fl_pc = "wait" /\ ~owed /\ (\A c \in Clients : pc[c] = "idle") =>
        LET total == Cardinality(DOMAIN table)
            dirty == Cardinality({l \in DOMAIN table : Dirty(l)})
        IN  total > 0 => dirty * 100 < WatermarkPct * total

-----------------------------------------------------------------------------
(* The inductive invariants behind TypeOK and the invariants above.        *)

\* Where a client uses the local pool_index, and where the candidate.
SlotPCs == {"fill", "new_copy", "new_copying", "insert",
            "copy_out", "upd_copy", "upd_copying", "mark"}
VictimPCs == {"evict_write", "evict_wake", "evict_remove", "evict_free"}

\* A local that is used has been assigned.
ClientLocals ==
    \A c \in Clients :
        /\ pc[c] # "idle" => req[c].lba \in Lbas
        /\ pc[c] \in SlotPCs => slot[c] \in Slots
        /\ pc[c] \in VictimPCs => /\ victim[c].lba \in Lbas
                                  /\ victim[c].pool_index \in Slots

FlusherLocals == fl_pc = "clean" => fl_lba \in Lbas

TypeInv == TypeOK /\ ClientLocals /\ FlusherLocals

\* The flag is set before the signal is sent, and nothing is pending for a
\* thread that does not run.
NotifyInv ==
    /\ WakeNotLost
    /\ ShutdownPrompt
    /\ ~Alive => ~owed /\ chan = "empty"
    /\ life \in {"send", "join"} => stop
    /\ fl_pc = "none" => life \in {"up", "dropped"}

\* An evicted block that is not yet back in the free list is nobody's.
EvictedUnowned ==
    \A c \in Clients : pc[c] = "evict_free" =>
        /\ ~Free(victim[c].pool_index)
        /\ \A l \in DOMAIN table : ~Backs(victim[c].pool_index, l)

\* "this should succeed since we just freed a slot" (read_path.rs): with one client
\* nobody else takes the block that was freed.
ReallocSucceeds == \A c \in Clients : pc[c] = "realloc" => ~Exhausted

OwnerInv == OneOwner /\ VictimFresh /\ EvictedUnowned /\ ReallocSucceeds

\* An address that was looked up and not found is still not cached when its
\* block is inserted, so insert() replaces nothing.
MissPCs == {"alloc", "select", "evict_write", "evict_wake", "evict_remove",
            "evict_free", "realloc", "fill", "new_copy", "new_copying", "insert"}

MissHolds == \A c \in Clients : pc[c] \in MissPCs => ~Cached(req[c].lba)

NoLeakInv == NoSlotLost /\ MissHolds

\* Where only a read is, where only a write, and that a request is pending until
\* it returns.
ReadPCs == {"fill", "copy_out"}
WritePCs == {"new_copy", "new_copying", "upd_copy", "upd_copying", "mark", "stats", "wake"}

RequestShape ==
    \A c \in Clients :
        /\ pc[c] \in ReadPCs => req[c].op = "read"
        /\ pc[c] \in WritePCs => req[c].op = "write"
        /\ pc[c] # "idle" => req[c].op \in {"read", "write"}
        /\ pc[c] # "idle" <=> out[c].status = "pending"

\* The watermark.  The flush cycle that runs will clean l, if no pwrite fails.
DirtyLbas == {l \in DOMAIN table : Dirty(l)}
Flushing(l) == \/ fl_pc = "clean" /\ fl_lba = l
               \/ \E s \in Slots : <<l, s>> \in fl_work
AllFlushing == \A l \in DirtyLbas : Flushing(l)

\* The dirty share is below the watermark once `room` clean entries are added: a
\* read that has evicted an entry, or has a free block, is about to add one.
Below(room) == LET total == Cardinality(DOMAIN table) + room
               IN  total > 0 => Cardinality(DirtyLbas) * 100 < WatermarkPct * total
Room(c) == IF Filling(c) \/ pc[c] \in {"evict_free", "realloc"} THEN 1 ELSE 0

\* What WatermarkHeeded is about: the flusher is started first and neither stopped
\* nor dropped, transfers do not fail, and the watermark is not 0 (with 0 a read is
\* enough to reach it).
WatermarkSetting == /\ StartFirst
                    /\ Calls \subseteq {"start"}
                    /\ Faults \subseteq {"fsync"}
                    /\ WatermarkPct > 0

\* Unless a cycle is due, every dirty entry is about to be cleaned, or the share is
\* below the watermark, or a write that has just raised it is about to compare it.
WatermarkInv ==
    /\ life = "up" /\ fd_open
    /\ fl_pc \notin {"write", "clean"} => fl_work = {}
    /\ fl_pc = "none" => /\ DirtyLbas = {}
                        /\ \A c \in Clients : pc[c] # "idle" => req[c].op # "write"
    /\ fl_pc \notin {"snapshot", "exited"} /\ ~owed =>
         \/ AllFlushing
         \/ \E c \in Clients : pc[c] \in {"stats", "wake"} \/ Below(Room(c))

\* At most one thread calls read() and write().
SingleClient == \A c, d \in Clients : c = d

-----------------------------------------------------------------------------
(* What the engine promises its callers.                                   *)

\* The block store the engine stands for: the pool block of a cached address,
\* the device's block of any other.  A write over a cached block counts from
\* the moment its copy begins.
Store == [l \in Lbas |->
            IF \E c \in Clients : pc[c] = "upd_copying" /\ req[c].lba = l
              THEN Payload(CHOOSE c \in Clients : pc[c] = "upd_copying" /\ req[c].lba = l)
              ELSE IF Cached(l) THEN mem[table[l].pool_index] ELSE disk[l]]

Applied == {c \in Clients : pc[c] \in {"upd_copying", "mark", "stats", "wake"}}

BS == INSTANCE BlockStore WITH store <- Store, applied <- Applied

\* A write-back cache is invisible: the engine implements BlockStore, with
\* hits, misses, dirty evictions and failing system calls.
ImplementsBlockStore == BS!StoreSpec

-----------------------------------------------------------------------------
(* Progress.                                                               *)

FlusherStep == FlStep /\ UNCHANGED <<clientVars, engineVars>>
FlusherTimeout == FlTimeout /\ UNCHANGED <<clientVars, engineVars>>

\* Threads that are inside an operation keep running.
ThreadFairness == /\ \A c \in Clients : WF_vars(ClientStep(c))
                  /\ WF_vars(Shutdown)
                  /\ WF_vars(FlusherStep)

\* Without any fairness of the interval timer.
FairSpec == Spec /\ ThreadFairness

\* stop() and drop return, and do not need the interval timer to do so.
ShutdownReturns == life = "flag" ~> life \in {"up", "dropped"}

\* Every read() and write() returns.
RequestsReturn == \A c \in Clients : pc[c] # "idle" ~> pc[c] = "idle"

\* If the interval timer runs and no pwrite fails, a dirty block does not stay
\* dirty while the flusher lives: each is written back or evicted.
DirtyIsFlushed ==
    WF_vars(FlusherTimeout) =>
        \A l \in Lbas : Alive /\ Dirty(l) ~> ~Dirty(l) \/ ~Alive

-----------------------------------------------------------------------------
(* The dirty flag.                                                         *)

\* No client is between copying its payload into l's block and marking l.
NotUpdating(l) ==
    \A c \in Clients : pc[c] \in {"upd_copying", "mark"} => req[c].lba # l

\* A cached block that differs from the device is dirty.
Accurate(l) ==
    Cached(l) /\ NotUpdating(l) /\ mem[table[l].pool_index] # disk[l] => Dirty(l)

\* The step after a pwrite of the flusher has put the block of fl_lba, as it then
\* was, on the device.
Wrote == Cached(fl_lba) /\ mem[table[fl_lba].pool_index] = disk[fl_lba]

\* Rewritten blocks, failing and torn flusher writes, restarts of the flusher: the one
\* step by which a block that is not on the device loses its dirty flag is the
\* flusher's mark_clean() of that block, and mark_clean() is reached only from a
\* pwrite that has put the block's content of that moment on the device; so the flag
\* is lost only if a write() changes the block between the two.  For one client and
\* room for every block.
FlagClearedOnlyInRace ==
    [][/\ \A l \in Lbas : Accurate(l) /\ ~Accurate(l)' => fl_pc = "clean" /\ fl_lba = l
       /\ fl_pc # "clean" /\ fl_pc' = "clean" => Wrote']_vars

-----------------------------------------------------------------------------
(* Claims of the repository that the code does not keep; each is the       *)
(* subject of a run that refutes it.                                       *)

\* CacheEntry::dirty is "`true` if the cached data has been written to but not
\* yet flushed back to the block device" (entry.rs): a cached block that
\* differs from the device is dirty.
DirtyFlagAccurate == \A l \in DOMAIN table : Accurate(l)

\* "concurrent I/O is coordinated at a higher level by the engine" (device.rs):
\* without I/O errors the device's block l only ever holds payloads written to
\* l, as long as nobody is copying.
OwnBlocksOnDisk ==
    \A l \in Lbas : disk[l][1] \in {l, NoLba}

\* "Sends a shutdown signal, waits for the thread to perform a final flush, and
\* then joins it" (flusher.rs): without I/O errors nothing is dirty when the
\* join of a stop() returns.
FinalFlush ==
    life = "join" /\ fl_pc = "exited" /\ fd_open => \A l \in Lbas : ~Dirty(l)

\* "shutdown cleanly (all blocks committed)" (commands.rs): what stop() leaves
\* clean has been committed by an fsync.
Committed ==
    life = "join" /\ fl_pc = "exited" /\ fd_open => \A l \in unsynced : Dirty(l)

\* "Best-effort shutdown if the caller forgot to call `shutdown()`"
\* (flusher.rs): the final flush is given an open descriptor to write to.
FlusherHasDevice == Alive => fd_open

-----------------------------------------------------------------------------
(* The inductive invariants behind the promises to the callers.            *)

\* A request that copies to or from a cached block uses the block that backs its
\* address, and what is about to be inserted is what the address stands for.
StoreLocals ==
    \A c \in Clients :
        /\ pc[c] \in {"copy_out", "upd_copy", "upd_copying", "mark"} =>
              Backs(slot[c], req[c].lba)
        /\ pc[c] = "insert" =>
              mem[slot[c]] = IF req[c].op = "read" THEN disk[req[c].lba] ELSE Payload(c)

\* Without a flusher: a dirty flag is only cleared by a removal, so a victim that
\* is removed is on the device.
AloneInv ==
    /\ fl_pc = "none"
    /\ DirtyFlagAccurate
    /\ \A c \in Clients :
          /\ pc[c] = "evict_write" => Dirty(victim[c].lba)
          /\ pc[c] \in {"evict_wake", "evict_remove"} =>
                mem[victim[c].pool_index] = disk[victim[c].lba]

\* With a flusher and room for every block: nothing is evicted, so what the flusher
\* has still to write is cached where it was, and dirty.
EvictPCs == {"select", "evict_write", "evict_wake", "evict_remove", "evict_free", "realloc"}

RoomyInv ==
    /\ \A c \in Clients : pc[c] \notin EvictPCs
    /\ \A item \in fl_work : Dirty(item[1]) /\ table[item[1]].pool_index = item[2]
    /\ fl_pc = "clean" => \A item \in fl_work : item[1] # fl_lba

\* A block that was written and not yet committed is dirty, or the cycle that wrote
\* it has its fsync still to come.
CommitInv ==
    fd_open => \A l \in unsynced :
        \/ Dirty(l)
        \/ fl_pc = "clean" /\ fl_lba = l
        \/ flushed /\ fl_pc \in {"write", "clean", "sync"}

=============================================================================
