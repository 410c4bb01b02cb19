# A TLA+ model of the asm-cache-inject cache engine

`asm-cache-inject` puts a write-back RAM cache in front of a raw block device.
Client threads read and write whole blocks through `CacheEngine`; a background
thread writes dirty blocks back to the device. This directory holds TLA+ modules
translated from that code, the TLC runs that check them on small instances, and
TLAPS proofs of the properties that hold for every instance. `PROJECT.json` maps
each definition to the source lines it stands for.

## 1. The system

| component | source | state | operations |
|---|---|---|---|
| memory pool | `memory/pool.rs` | free list (Mutex), block memory (no lock) | `allocate`, `deallocate`, `get_block` |
| LBA table | `cache/lba_table.rs`, `entry.rs` | map lba -> (pool index, dirty, last access), behind a RwLock | `get`, `get_and_touch`, `insert`, `remove`, `mark_dirty`, `mark_clean`, `dirty_entries`, `entries_by_lru`, `stats` |
| eviction policy | `cache/eviction.rs` | none | `select_eviction_candidate`: oldest clean entry, else oldest |
| device I/O | `io/device.rs`, `reader.rs`, `writer.rs` | descriptor; the device | `read_lba`, `write_lba`, `sync_device`, `close` on drop |
| flush channel | `flush/sync.rs` | bounded(1) channel, stop flag | `wake`, `shutdown`, `wait`, `is_stopped` |
| flush schedule | `flush/scheduler.rs` | interval, watermark | `should_flush_immediately` |
| flusher | `flush/flusher.rs` | the thread and its locals | `spawn`, `shutdown`, drop, the loop |
| engine | `engine/cache_engine.rs`, `read_path.rs`, `write_path.rs` | the above, `flusher: Option` | `new`, `start`, `stop`, `read`, `write`, drop |
| configuration | `engine/config.rs` | sizes, watermark, mode | `validate`, size arithmetic |
| device information | `io/device_info.rs` | size, sector size | `query`, `max_lba` |
| assembly routines | `asm/` | CPU feature cache | copies, fences, prefetches |
| benchmark | `bench/` | counters, timings | direct, cached and warm phases |
| command line | `cli/`, `main.rs` | a running flag | `cache`, `bench`, `info` |

How they interact: `read` and `write` take `&self`, so any number of client
threads may be inside them; they share the pool, the table, the device and the
channel with the flusher. `start`, `stop` and drop take the engine exclusively.
No lock is held across two operations of the pool or of the table, and none while
block memory is copied, read by a `pwrite` or filled by a `pread`. What is hard
is therefore what happens *between* two critical sections, and every such gap is a
state of the model:

* an eviction is select / pwrite / wake / remove / deallocate / allocate;
* a write is lookup / copy / mark dirty / stats / wake;
* a flush cycle is wait / snapshot / (pwrite / mark clean)* / fsync / exit test;
* a shutdown is flag / signal / join, against a channel that drops what does not fit;
* any system call may fail, and a transfer may stop halfway.

What makes each part correct:

* pool: a block has one owner, no block gets lost, the second `allocate` succeeds;
* table: a victim is fresh when it is evicted; the dirty flag is accurate, or lost in one known race only;
* device: a block only ever holds payloads written to its address;
* channel: a wake is answered, a shutdown is prompt, nobody waits for ever;
* flusher: the last flush flushes, what is clean after `stop()` is committed;
* engine: callers cannot tell it from the device;
* configuration: an engine that is built has a pool; what `validate()` accepts does not panic later;
* device information, command line: whatever fails, descriptors are closed and threads joined;
* benchmark: it does not draw from an empty device, its warm phases measure what they say, it ends;
* assembly routines: a copy is complete and visible when it returns, and stays in its block.

The hazards behind these, each with its line, are in `PROJECT.json`.

## 2. The modules

| module | models | extends |
|---|---|---|
| `Blocks` | addresses and block contents | |
| `MemoryPool` | the pool | `Blocks` |
| `LbaTable` | table, entries, eviction policy | `MemoryPool` |
| `BlockDevice` | the device and its failures | `Blocks` |
| `Flusher` | channel, schedule, the thread | `LbaTable`, `BlockDevice` |
| `CacheEngine` | clients, owner, and all of the above composed: `Spec` | `Flusher` |
| `BlockStore` | abstract: a device without a cache | `Blocks` |
| `EngineProperties` | properties, inductive invariants, fairness, refinement mapping | `CacheEngine` |
| `MCEngine` | instance for TLC, client symmetry | `EngineProperties` |
| `Setup` | configuration, pool sizing, device query and open, as the steps of the main thread | |
| `Bench` | the loops of `run_benchmarks`, as the client of the engine | `Setup`, `CacheEngine` |
| `Commands` | `main` and the three commands, composing `Setup`, `Bench` and the engine: `CommandSpec`, its properties and inductive invariants | `Bench`, `EngineProperties` |
| `MCCommands` | instance for TLC: the configurations to try | `Commands` |
| `NtCopy` | `nt_memcpy`, store by store: `CopySpec`, and its properties | |
| `TypeProofs`, `NotifyProofs` | proofs: types of variables and locals; the channel | `EngineProperties` |
| `OwnerProofs` | proofs: who owns a pool block | `TypeProofs` |
| `LeakProofs` | proofs: no pool block is lost | `OwnerProofs` |
| `TableProofs` | proofs: what a running request is, the watermark | `LeakProofs` |
| `StoreProofs` | proofs: dirty flag, commit, refinement of `BlockStore` | `TableProofs` |
| `CommandProofs` | proofs: the commands and the benchmark | `Commands`, `StoreProofs` |
| `CopyProofs` | proofs | `NtCopy` |

**Grain.** One step is one critical section, one system call, or half of a copy
into a pool block. `pc[c]` names the place of client `c` in `cached_read`,
`cached_write` and `allocate_or_evict`; `fl_pc` that of the thread in
`flush_thread_main` with `flush_dirty_blocks` inlined; `life` that of the owner in
`stop()` or drop. Steps that touch nothing shared are merged with a neighbour.

**Data.** A block's content is `<<lba, n>>`, the n-th payload written to that
address, `<<lba, 0>>` being what the device held at first. `Zero` is fresh pool
memory. `Torn` is a block of which a part was copied or transferred: a copy
into the pool goes through it, so a `pwrite` that runs at the same time can see it,
and a failing transfer may leave it behind. Copies out of the pool and the
`pread`/`pwrite` themselves are one step.

**Time.** `last_access` is only compared, so the table keeps the order `older`: `<<k, l>>` when
k's stamp is less than l's. `Instant` is monotonic but two readings may be equal: with
`CoarseClock` a new stamp may equal the last one given (`latest` are the entries that have it), and
`entries_by_lru` may then put any of the oldest first. Every run
uses `CoarseClock` but those of the benchmark: there a block of 4 KiB is copied by the one thread between
two stamps, so the nanosecond clock has advanced. The stamp of a new entry is taken to be read when it is
inserted; in the code it is read just before, which is the same for one client
and makes no difference to what is checked with two. `access_count` is only
printed and left out.

**Watermark.** A percentage instead of an `f64`; the comparison is the same
for the small counts of a model.

**Channel.** `chan` is the one message the channel holds. `try_send` is
crossbeam's (external). A notifier without a receiver sends nowhere, which is
also what `flush_notifier_or_noop` builds when there is no flusher. The receiver
is dropped with its message when the thread exits, and each `start()` makes a new
channel. The `Disconnected` arm of `wait` cannot be reached: the flusher's own notifier
outlives the thread. `owed` is a history variable: a `wake()` came after the last
snapshot.

**Owner.** A duplicate `start()`, a `start()` in read-only mode and a `stop()`
without a flusher change nothing and are not steps. Drop closes the device and
then shuts the flusher down, the order of the fields in the struct. The
descriptor number being reused after the close is not modelled.

**Errors.** `"Io"` also stands for the `PermissionDenied` that `CacheError::io`
makes of EACCES and EPERM. `Faults` says which system calls may fail.

**Setup.** `cmd_pc` is the place of the main thread, from `main`'s dispatch to the
end of the process. An error anywhere is `Leave(error)`: the command returns through `?` and
its locals are dropped, the engine first and the direct device after it. `fds` holds
the open descriptors by what they were opened for. Sizes are scaled down: a `usize` has `Word`
values, a MiB is `MiB` bytes and a page `PageAlignment`; products wrap as in a release
build (a debug build panics at that line). Two pages per MiB make the default
configuration of 1 MiB the two-block pool of the engine, and sizes of 4, 8 and 9 MiB stand for
"above `isize::MAX`", "wraps to 0" and "wraps to 1 MiB". The watermark 101 stands for every
value `contains` rejects, NaN included. The path, `stat`, `open`, `ioctl` and the allocator
fail as `SysFaults` says. `"Ioctl"` is the `Io` error whose operation is an ioctl.

**Benchmark.** A phase is a record (access pattern, operation, direct or cached, warm or
not), so that all eight loop functions are the same few actions. A cached operation is a request
of `CacheEngine` (`Request`), whose steps and those of the flusher then run; the
main thread waits for its outcome. A loop function begins with its addresses and its buffer
(`EnterLoop`): `gen_range` panics if there is an address to draw and the device has none, and
`AlignedBuffer::new` may fail, which leaves `run_benchmarks` between `start()` and `stop()`. The seeded
generator yields one unknown sequence of words, the same for every random loop; `gen_range` (external)
brings a word into the range of the device. The engine's variables hold the
values of `CacheEngine::new` from the start and are not used before it has returned;
`CommandsAssumption` ties the pool size that `Setup` computes to `Capacity`. The device
holds `MaxLba` blocks, or less than one. The loops after the first direct write cannot be reached in
the code, and are not reached in the model.

**Streaming copy.** Memory is counted in the 16-byte words of one `MOVNTDQ`. A store goes into a buffer and
from there to memory, in any order; the fence waits until the buffers are empty.
`CacheEngine` sees of all this a block that is torn for a while (`CopyIn`).

**Bounds.** `MaxWrites`: payloads per address. `MaxFree`: no new request starts
while the free list is longer; a list without duplicates has at most `Capacity`
elements, so this only cuts off behaviours in which the pool is already corrupted
by two clients. `StartFirst`: whether callers obey `start()`'s "Must be called
after `new()` and before any write operations"; nothing enforces it, so runs that
pass do without it, except `single`, where `WatermarkHeeded` is about a flusher that has
seen every write, and runs that refute a claim assume it. `BenchCounts`, `BenchSizes`,
`CacheConfigs`: the arguments tried.

## 3. The runs

Two pool blocks and three addresses give clean and dirty evictions
with a choice of victim; one pool block and two addresses are the least
that evicts and reuses a block.

| run | instance | checks | shows |
|---|---|---|---|
| `single` | 1 client, 3 addresses, 2 blocks, flusher started first, watermark 0.75, no faults | `TypeOK OneOwner NoSlotLost VictimFresh WatermarkHeeded` | with one client the flusher cannot upset the bookkeeping of pool and table, and does not sleep on a table at its watermark |
| `no_flusher` | 1 client, 3 addresses written twice, 2 blocks, all faults, both modes | `DirtyFlagAccurate ImplementsBlockStore` | the cache is invisible: hits, misses, evictions, failures |
| `fits` | 1 client, 2 addresses, 2 blocks, 2 writes each, failing pwrites, start/stop | `Committed ImplementsBlockStore FlagClearedOnlyInRace` | the cache is invisible with a flusher too when nothing is evicted; a `mark_clean` that a rewrite has overtaken is the only way to lose a dirty flag |
| `progress` | 2 clients, 1 address, 1 block, failing preads and fsyncs, start/stop/drop | `WakeNotLost ShutdownPrompt ShutdownReturns RequestsReturn DirtyIsFlushed` | the one-place channel suffices, every call returns, dirty blocks are flushed |
| `bench` | 3 commands, 211 configurations of the cache command, all setup faults, benchmarks of 0, 2 and 3 operations on 3 blocks (or a device of none) with a pool of 2 | `PoolHasBlocks NoPanic NothingLeftOpen WarmHits LostBlockEndsBench CommandReturns` | the program around the engine |
| `nt_copy` | 3 chunks between neighbouring words | `CopyComplete NeighboursKept` | the streaming copy |
| `lost_dirty` | 1 client, 2 writes | `DirtyFlagAccurate` violated | finding 1 |
| `stale_flush` | 1 client, 1 block | `OwnBlocksOnDisk` violated | finding 2 |
| `final_flush` | 1 client, 2 blocks, stop | `FinalFlush` violated | finding 3 |
| `committed` | 1 client, 1 block, stop | `Committed` violated | finding 4 |
| `bench_write` | benchmark with writes, no faults | `FlusherHasDevice` violated | findings 5 and 7 |
| `double_free` | 2 clients, 1 block | `OneOwner` violated | finding 6 |

`bench` and `bench_write` use `MCCommands`, `nt_copy` uses `NtCopy`, and the others
`MCEngine`. In `bench` all 64 sequences of three random words out of 0 to 3 are tried on a device of three blocks, so random loops that fit in the pool and
loops that do not both occur, after a sequential loop and without one.

Deadlock is checked except where the system may stop for good: after a drop, when a
command or a copy has returned, and where the requests of two clients are used up by `MaxFree`.

**Refinement.** `BlockStore` is a device without a cache: an accepted read returns
the block's content at one moment between call and return, a write that returns
"ok" has taken effect once, a request that fails has changed nothing. The mapping
(`Store`) takes the pool block of a cached address and the device block of any
other; a write over a cached block counts from the start of its copy. It is a
promise for one client: with a flusher and evictions it fails by findings 1 and 2.

**Fairness.** `FairSpec` assumes that a client inside a request, an owner inside
`stop()` or drop, and a flusher that has something to do keep running (weak
fairness, what an operating system's scheduler gives a runnable thread). It assumes
nothing of new requests and nothing of the interval timer, so
`ShutdownReturns` and `RequestsReturn` hold even if the interval never elapses.
`FairCommandSpec` assumes the same of the main thread, and nothing of the user who presses
Ctrl+C, so `CommandReturns` is about `bench` and `info`.
Only `DirtyIsFlushed` assumes the timer, in its own statement, and it is checked
without failing `pwrite`s: a block that cannot be written stays dirty.

**Mutants.** Every property of a passing run has a mutated definition
(`PROJECT.json`, "mutants") under which TLC refutes it: a dropped removal, a
skipped fsync, an exit test that forgets the stop flag, and so on. They are
defined next to the definition they replace, marked `Mutant`.

## 4. Findings

Each is a run that TLC refutes, against a line of the repository.

1. **A flush can clear the dirty flag of newer data.** The flusher's `pwrite` and
   `mark_clean` are two steps; a write between them is marked clean. A later
   eviction drops it without writing it back.
2. **A flush can write one address's data to another.** The snapshot's pool index
   is used after the entry was evicted and its block reused.
3. **`stop()` may leave dirty blocks behind.** The stop flag is tested at the end of a
   cycle that may have begun before the flag was set.
4. **`stop()` may leave uncommitted blocks behind.** A dirty eviction is not followed by an
   fsync unless the flusher finds something else to write.
5. **Drop closes the device first.** An engine that is dropped without `stop()` closes its
   descriptor and only then shuts the flusher down. `bench/runner.rs` takes this
   path whenever a phase fails; an engine with dirty blocks would lose them.
6. **Two clients can free one block twice.** Neither the command line nor the
   benchmark calls the engine from two threads; its documentation says it may be.
7. **The write benchmarks cannot run.** `run_benchmarks` gives the direct write
   loops a descriptor opened with `O_RDONLY`. Their first `pwrite` fails, so `--confirm-write`
   ends in an error after the read phases, through the drop of finding 5; the cached
   write loops are never reached. The counterexample of `bench_write` has no other fault in it.

Also seen, not stated as a run:

* an ioctl error leaks the descriptor of `DeviceInfo::query` (the exception in `NothingLeftOpen`);
* errors of the last flush are only logged;
* with two clients, which nothing in the repository has, the second `allocate` of an eviction may find
  the freed block taken (`read_path.rs:107`: "this should succeed"), and two writers of one address copy into its
  block at the same time (`cache_engine.rs:9`: "writes are exclusive per-LBA");
* a read whose `pread` fails keeps its pool block. The benchmark ends with the error (`LostBlockEndsBench`); a caller
  that goes on will at last get the `Internal` error that "should never happen" (`types.rs:57`);
* a watermark of 1.0 is not "only periodic" (`scheduler.rs:20`): the comparison is `>=`, so a table whose entries are
  all dirty wakes the flusher. `WatermarkHeeded` is checked at 0.75, where no count of the instance makes
  `>=` and `>` differ;
* the warm random loop is not "all hits" (`runner.rs:184`) when its blocks do not fit in the pool. `WarmHits`
  says when it is.

## 5. The proofs

Every safety property that a passing run checks, and the refinement, is a theorem. The theorems
are for any `MaxLba`, `MaxWrites`, `Capacity`, `Faults`, watermark and
set of clients, from the named assumptions of the modules (the first and the third
are positive) and the hypotheses given below. TLC checked each statement and each inductive
invariant on instances first; the invariants are in `EngineProperties`, and in `Commands` for
the program. Inductive steps are proved action by action and combined in the last step of a theorem.

**Types and channel**, for any number of clients.

* `TypeCorrect` (`TypeProofs`): `Spec => []TypeOK`. `TypeOK` is not inductive: a
  step that uses a local `pool_index` or victim needs it to be assigned, so the invariant
  is `TypeInv`, with `ClientLocals` and `FlusherLocals`.
* `WakeIsNeverLost`, `ShutdownNeedsNoTimer` (`NotifyProofs`). The invariant `NotifyInv` adds that
  nothing is pending for a thread
  that does not run, and that the flag is set before the signal is sent: a thread
  whose Shutdown was dropped is inside a cycle and then sees the flag, or
  has the Wake that filled the channel still to receive.

**Pool and table.** `SingleClient` says that at most one thread calls `read` and `write`.

* `SingleClientOneOwner`, `SingleClientVictimFresh`
  (`OwnerProofs`): whatever the flusher
  does and whatever fails. The invariant `OwnerInv` ties the two together with
  `EvictedUnowned`: between `remove` and `deallocate` the victim's block is nobody's. Finding 6
  shows that `SingleClient` cannot be left out.
* `SingleClientNoLeak` (`LeakProofs`): with no failing
  `pread`. It needs `MissHolds`: an address that was looked up and not found is
  still not cached when it is inserted, so `insert` replaces nothing.
* `SingleClientWatermark` (`TableProofs`): one client, the flusher started and neither stopped nor
  dropped, no failing transfer, a watermark above 0. Only writes compare the dirty share with the watermark,
  while an eviction raises the share by shrinking the table. `WatermarkInv` says why this is
  harmless: unless a cycle is due, all dirty entries are in the cycle that runs, or a write
  is about to compare, or the share is below the watermark once the entry is counted that a read is about to
  add (`Room`): the entry an eviction takes away is replaced before the call returns.
  The counting needs the cardinality of sets that gain or lose one element.
  With a watermark of 0 a table of clean blocks has reached it and no read
  wakes the flusher; a failing `pwrite` leaves a block dirty that nobody announces again.

**What callers see** (`StoreProofs`), for one client.

* `DirtyFlagWithoutFlusher`, `InvisibleWithoutFlusher`: while `start()` is not called, for all
  sizes and all faults, the flag is accurate and the engine refines `BlockStore`. `AloneInv` follows an eviction: a dirty victim
  is still dirty when it is written, and a victim that is removed is on the device.
* `InvisibleWithRoom`: with a flusher started and stopped at any time, if all blocks fit
  in the pool and no `pread` fails. `RoomyInv` says that nothing is evicted, so what the
  flusher's snapshot names is still cached in the same block. That the pool does not run
  out uses `SingleClientNoLeak`; a failed `pread` shrinks the pool.
* `OnlyRaceClearsFlag`: under the hypotheses of `InvisibleWithRoom`, with any number of rewrites
  and failing flusher writes, the only step that leaves a block unmarked and different from the device is
  the `mark_clean` of finding 1, and `mark_clean` is reached only from a `pwrite` that has put the block as it was on the
  device. It is an action property, proved step by step from `RoomyInv`: a client that
  has changed a block marks it before it goes on, a flusher's `pwrite` that fails or stops halfway leaves
  the flag alone, and one that succeeds has written the block that still backs the address.
* `StopCommits`: under the hypotheses of `InvisibleWithRoom` and no failing fsync (`CommitInv`):
  a block that was written and not committed is dirty, or the cycle that wrote it has its fsync still to come.
  Finding 4 is the eviction that the room excludes.

The refinement is proved step by step. `StoreLocals` says that a request copies to or from the block that backs its address and
that what it inserts is what the address stands for. Both settings provide what is still missing: an entry that is removed
equals the device's block, and the flusher writes only addresses that are cached (`Shielded`), whose
device block the mapping does not look at. Then each action of a client is one
action of `BlockStore` or a stutter, and flusher and owner never change the mapped store. The hypotheses are
not for convenience: without them `stale_flush` and `lost_dirty` are counterexamples.

**The program** (`CommandProofs`), for every set of configurations, counts and setup failures.

* `ProgramUsesEngine`: `CommandSpec => Spec`. Every step of a command is a step of the engine or leaves
  the engine alone, so a theorem `Spec => []P` above holds of the program too, if its hypotheses agree with
  `CommandsAssumption`. Those that exclude calls of the owner do not (`SingleClientWatermark`,
  `DirtyFlagWithoutFlusher`, `InvisibleWithoutFlusher`): they are about other users of the engine.
* `NeverPanics` and `EnginesHaveBlocks`: `SetupInv` follows what `validate()` and
  the pool have established to each later place of the main thread; `ArgsInv` says that the command line
  does not change, so that the clamped count of a device without blocks is 0 in every loop.
* `CommandsCleanUp`: `FdsInv` says which descriptors are open at each place, on the
  way out included, and `ThreadInv` that the flusher runs only while the engine exists, and is shut down before
  it goes. The one exception, the descriptor of a failed ioctl, is in the statement.
* `LeakEndsBenchmark`: with the main thread as the only client, a pool block is lost only by the operation that
  ends the benchmark, so `LostBlockEndsBench` holds with all faults and any clock. `LoopInv` is the inductive
  invariant: `ReadsInv`, `CallInv` and `UnlessFailed` below, with the engine's.
* `WarmLoopsHit`: with the main thread as the only client, as in the code, and a clock that advances between
  two accesses (`~CoarseClock`; with equal stamps TLC refutes `WarmHits`, as the evicted block is then any of
  the oldest). The argument has four parts.
  `ReadsInv` and `CallInv`: until a write loop fails, the engine only
  serves reads of one loop at a time, nothing is dirty, and an eviction takes the oldest entry of
  a full pool. `UnlessFailed`: no pool block is lost unless the benchmark is on its way out.
  `StackInv`, the stack property of LRU: a block that stays cached keeps with it all blocks accessed
  after it. From this, `FitInv`: blocks that fit in the pool stay, since a victim that the loop has used would be
  the oldest entry, so the loop would have used all that is cached, and with the missing block more than fits; and
  `HitInv`: in a sequential loop longer than the pool, a block that is hit would have all the others of
  the loop cached with it, more than the pool holds.

**The streaming copy.**

* `CopyIsComplete`, `CopyKeepsNeighbours` (`CopyProofs`): for any block size that is a multiple of
  a chunk, any place in the pool and any order of draining. `CopyComplete` is not inductive; the
  loop invariant `StoredSoFar` says that each word stored so far is in memory or in a buffer and
  no other word is in one, and `ChunksCover` that the chunks make up the block.

Only model-checked: the liveness properties `ShutdownReturns`, `RequestsReturn`, `DirtyIsFlushed` and
`CommandReturns`. Fairness is out of the prover's reach.

## 6. Not modelled, and the plan

Not modelled: the parsing of arguments (clap) and printed output, benchmark timing and
reports (text and floating point), sector size and model string (only printed), prefetch
hints (no state), `REP MOVSB` (one instruction), freeing of the backing allocation and the
alignment of a caller's buffer, a thread that cannot be spawned, a Ctrl+C handler that cannot
be set or a signal before it is set (the `cache` command issues no requests, so nothing
can be dirty then).

Done, in this order: pool, table, device, flusher, engine, block store, types, channel,
ownership, leaks, then setup, benchmark, commands, the streaming copy with its proof, and then a theorem
for each of the other invariants and for the refinement.

Next: a statement of what two clients that touch different addresses may still rely on.
