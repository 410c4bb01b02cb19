------------------------------ MODULE Flusher ------------------------------
(***************************************************************************)
(* flush/sync.rs, flush/scheduler.rs and flush/flusher.rs: the background  *)
(* write-back thread, the bounded(1) channel and the stop flag by which    *)
(* the engine signals it.                                                  *)
(*                                                                         *)
(* Between two steps of the thread any other thread may run: it holds the  *)
(* table lock only inside dirty_entries() and mark_clean(), and no lock    *)
(* while a pwrite reads the block memory.                                  *)
(***************************************************************************)
EXTENDS LbaTable, BlockDevice, FiniteSets

CONSTANT WatermarkPct   \* FlushSchedule::dirty_watermark, in percent

ASSUME WatermarkAssumption == WatermarkPct \in 0 .. 100

VARIABLES chan,      \* the channel: "empty" or the one pending FlushSignal
          stop,      \* the AtomicBool shared by notifier and receiver
          fl_pc,     \* where the thread is; "none" when there is no thread
          fl_signal, \* the local `signal` of flush_thread_main
          fl_work,   \* the rest of the local `dirty` of flush_dirty_blocks
          fl_lba,    \* the lba written last and not yet marked clean
          flushed,   \* whether the local counter `flushed` is above 0
          owed       \* history: a wake() came after the last dirty_entries()

syncVars == <<chan, stop>>
threadVars == <<fl_pc, fl_signal, fl_work, fl_lba, flushed>>
flushVars == <<chan, stop, fl_pc, fl_signal, fl_work, fl_lba, flushed, owed>>

FlushSignal == {"Wake", "Shutdown"}
FlPCs == {"none", "wait", "snapshot", "write", "clean", "sync", "check", "exited"}

FlusherTypeOK == /\ chan \in FlushSignal \cup {"empty"}
                 /\ stop \in BOOLEAN
                 /\ fl_pc \in FlPCs
                 /\ fl_signal \in FlushSignal \cup {"none"}
                 /\ fl_work \subseteq Lbas \X Slots
                 /\ fl_lba \in Lbas \cup {NoLba}
                 /\ flushed \in BOOLEAN
                 /\ owed \in BOOLEAN

FlusherInit == /\ chan = "empty"
               /\ stop = FALSE
               /\ fl_pc = "none"
               /\ fl_signal = "none"
               /\ fl_work = {}
               /\ fl_lba = NoLba
               /\ flushed = FALSE
               /\ owed = FALSE

-----------------------------------------------------------------------------
(* The notifier, used by the client threads.                               *)

\* The receiver lives as long as the thread runs; a send to a channel
\* without a receiver (also that of flush_notifier_or_noop) goes nowhere.
Alive == fl_pc \notin {"none", "exited"}

\* Sender::try_send on the bounded(1) channel.
try_send(sig) == chan' = IF Alive /\ chan = "empty" THEN sig ELSE chan

wake == /\ try_send("Wake")
        /\ owed' = (owed \/ Alive)
        /\ UNCHANGED stop

\* Mutant: the share is taken of the pool, not of the entries.
should_flush_of_pool ==
    LET dirty == Cardinality(dirty_entries)
    IN  DOMAIN table # {} /\ dirty * 100 >= WatermarkPct * Capacity

\* should_flush_immediately(dirty, total): dirty / total >= dirty_watermark.
should_flush_immediately ==
    LET total == Cardinality(DOMAIN table)
        dirty == Cardinality(dirty_entries)
    IN  total # 0 /\ dirty * 100 >= WatermarkPct * total

-----------------------------------------------------------------------------
(* The thread, flush_thread_main with flush_dirty_blocks inlined.          *)

\* FlushReceiver::wait returns the pending signal ...
FlReceive == /\ fl_pc = "wait"
             /\ chan # "empty"
             /\ fl_signal' = chan
             /\ chan' = "empty"
             /\ fl_pc' = "snapshot"
             /\ UNCHANGED <<stop, fl_work, fl_lba, flushed, owed>>
             /\ UNCHANGED <<poolVars, tableVars, deviceVars>>

\* ... or None when the interval has elapsed without one.
FlTimeout == /\ fl_pc = "wait"
             /\ chan = "empty"
             /\ fl_signal' = "none"
             /\ fl_pc' = "snapshot"
             /\ UNCHANGED <<chan, stop, fl_work, fl_lba, flushed, owed>>
             /\ UNCHANGED <<poolVars, tableVars, deviceVars>>

\* dirty_entries() under the read lock; the pairs are used after it is gone.
FlSnapshot == /\ fl_pc = "snapshot"
              /\ fl_work' = dirty_entries
              /\ flushed' = FALSE
              /\ owed' = FALSE
              /\ fl_pc' = IF dirty_entries = {} THEN "check" ELSE "write"
              /\ UNCHANGED <<chan, stop, fl_signal, fl_lba>>
              /\ UNCHANGED <<poolVars, tableVars, deviceVars>>

\* Where the loop over the dirty entries goes on.
FlLoop(work, some) == fl_pc' = IF work # {} THEN "write"
                               ELSE IF some THEN "sync" ELSE "check"

\* Mutant: a block whose pwrite failed is marked clean like the others.
FlWriteIgnoresError ==
    /\ fl_pc = "write"
    /\ \E item \in fl_work :
         /\ fl_work' = fl_work \ {item}
         /\ write_lba(item[1], mem[item[2]]) \/ write_lba_err(item[1])
         /\ fl_lba' = item[1]
    /\ fl_pc' = "clean"
    /\ UNCHANGED <<chan, stop, fl_signal, flushed, owed>>
    /\ UNCHANGED <<poolVars, tableVars>>

\* One turn of the loop: pwrite of the pool block as it is now, whichever
\* block that pool index backs by now.  The order of the pairs is that of
\* the HashMap, so any of them may be next.
FlWrite == /\ fl_pc = "write"
           /\ \E item \in fl_work :
                /\ fl_work' = fl_work \ {item}
                /\ \/ /\ write_lba(item[1], mem[item[2]])
                      /\ fl_lba' = item[1]
                      /\ fl_pc' = "clean"
                   \/ /\ write_lba_err(item[1])
                      /\ FlLoop(fl_work \ {item}, flushed)
                      /\ UNCHANGED fl_lba
           /\ UNCHANGED <<chan, stop, fl_signal, flushed, owed>>
           /\ UNCHANGED <<poolVars, tableVars>>

\* mark_clean() of the lba just written, whatever happened to it since.
FlClean == /\ fl_pc = "clean"
           /\ mark_clean(fl_lba)
           /\ flushed' = TRUE
           /\ fl_lba' = NoLba
           /\ FlLoop(fl_work, TRUE)
           /\ UNCHANGED <<chan, stop, fl_signal, fl_work, owed>>
           /\ UNCHANGED <<poolVars, deviceVars>>

\* Mutant: the fsync is left out.
FlSyncSkipped ==
    /\ fl_pc = "sync"
    /\ fl_pc' = "check"
    /\ UNCHANGED <<chan, stop, fl_signal, fl_work, fl_lba, flushed, owed>>
    /\ UNCHANGED <<poolVars, tableVars, deviceVars>>

\* fsync, only when the cycle wrote something; a failure is logged.
FlSync == /\ fl_pc = "sync"
          /\ sync_device
          /\ fl_pc' = "check"
          /\ UNCHANGED <<chan, stop, fl_signal, fl_work, fl_lba, flushed, owed>>
          /\ UNCHANGED <<poolVars, tableVars>>

FlCheckLeaves == /\ fl_pc' = "exited"
                 /\ chan' = "empty"
                 /\ owed' = FALSE

FlCheckRest == /\ fl_signal' = "none"
               /\ flushed' = FALSE
               /\ UNCHANGED <<stop, fl_work, fl_lba>>
               /\ UNCHANGED <<poolVars, tableVars, deviceVars>>

\* Mutant: signals that arrived during the cycle are drained after it.
FlCheckDrains ==
    /\ fl_pc = "check"
    /\ IF fl_signal = "Shutdown" \/ stop
         THEN FlCheckLeaves
         ELSE fl_pc' = "wait" /\ chan' = "empty" /\ UNCHANGED owed
    /\ FlCheckRest

\* Mutant: only the signal is tested, not the stop flag.
FlCheckSignalOnly ==
    /\ fl_pc = "check"
    /\ IF fl_signal = "Shutdown"
         THEN FlCheckLeaves
         ELSE fl_pc' = "wait" /\ UNCHANGED <<chan, owed>>
    /\ FlCheckRest

\* The exit test; the receiver is dropped with what the channel holds.
FlCheck == /\ fl_pc = "check"
           /\ \/ /\ fl_signal = "Shutdown" \/ stop
                 /\ FlCheckLeaves
              \/ /\ fl_signal # "Shutdown" /\ ~stop
                 /\ fl_pc' = "wait"
                 /\ UNCHANGED <<chan, owed>>
           /\ FlCheckRest

FlStep == FlReceive \/ FlSnapshot \/ FlWrite \/ FlClean \/ FlSync \/ FlCheck
FlNext == FlStep \/ FlTimeout
=============================================================================
