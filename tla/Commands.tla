------------------------------ MODULE Commands ------------------------------
(***************************************************************************)
(* main.rs and cli/commands.rs: the process.  The main thread dispatches a *)
(* command, sets up what it needs (Setup), runs the benchmark (Bench) or   *)
(* waits for Ctrl+C, stops the engine and drops it, while the flusher      *)
(* thread of CacheEngine runs beside it.                                   *)
(*                                                                         *)
(* The engine's variables hold the values that CacheEngine::new gives them *)
(* from the start and are not used before "new" has returned.              *)
(***************************************************************************)
EXTENDS Bench, EngineProperties

CONSTANTS CacheConfigs,   \* the configurations the cache command is given
          BenchSizes,     \* the cache sizes, in MiB, given to a benchmark
          BenchCounts,    \* the block counts given to a benchmark
          BenchWrites     \* whether --confirm-write is given

\* CacheConfig::new: the defaults, DEFAULT_BLOCK_SIZE being one page.
DefaultConfig(mb) == [device_path |-> "/dev/sda", cache_size_mb |-> mb,
                      block_size |-> PageAlignment, flush_interval_secs |-> 5,
                      dirty_watermark |-> WatermarkPct]

\* The pool of a benchmark's engine is the pool of CacheEngine.
ASSUME CommandsAssumption ==
    /\ CacheConfigs \subseteq Configs
    /\ BenchSizes \subseteq Nat /\ BenchCounts \subseteq Nat /\ BenchWrites \subseteq BOOLEAN
    /\ Calls = {"start", "stop", "drop"}
    /\ \A mb \in BenchSizes :
         LET c == DefaultConfig(mb)
         IN  cache_size_bytes(c) # 0 /\ LayoutFits(cache_size_bytes(c))
               => block_count(c) = Capacity

Modes == {"sequential", "random", "all"}

Words == 0 .. MaxLba

NoBench == [mode |-> "all", block_count |-> 0, include_writes |-> FALSE,
            dev_blocks |-> MaxLba, rnd |-> [i \in Lbas |-> 0]]

Args(command, cfg, b) == [command |-> command, cfg |-> cfg, mode |-> b.mode,
                          block_count |-> b.block_count, dev_blocks |-> b.dev_blocks,
                          include_writes |-> b.include_writes, rnd |-> b.rnd]

\* A benchmark's device may be smaller than one block.  What the generator
\* yields for the seed is unknown, so it is any sequence of words, which
\* gen_range() brings into the range of the device.
BenchConfigs == [mode : Modes \cup {"unknown"}, block_count : BenchCounts,
                 dev_blocks : {0, MaxLba}, include_writes : BenchWrites,
                 rnd : [Lbas -> Words]]

CommandInit ==
    /\ \/ \E cfg \in CacheConfigs : args = Args("cache", cfg, NoBench)
       \/ \E mb \in BenchSizes, b \in BenchConfigs : args = Args("bench", DefaultConfig(mb), b)
       \/ args = Args("info", DefaultConfig(1), NoBench)
    /\ cmd_pc = "dispatch"
    /\ caller = "none"
    /\ fds = {}
    /\ pool_blocks = 0
    /\ status = "none"
    /\ BenchInit
    /\ Init
    /\ args.command = "bench" => read_only = ~args.include_writes

commandVars == <<vars, setupVars, benchVars>>

-----------------------------------------------------------------------------
\* main(), exec_info, exec_bench and exec_cache up to the first fallible call.
\* run_benchmarks opens the direct device before it builds the engine.
Dispatch ==
    /\ At("dispatch")
    /\ \/ /\ args.command = "bench" /\ args.mode \notin Modes
          /\ Leave("Config") /\ UNCHANGED caller
       \/ args.command = "bench" /\ args.mode \in Modes /\ Go("stat") /\ caller' = "direct"
       \/ args.command = "info" /\ Go("stat") /\ caller' = "info"
       \/ args.command = "cache" /\ Go("validate") /\ UNCHANGED caller
    /\ UNCHANGED <<args, fds, pool_blocks, benchVars, vars>>

Main == SetupStep /\ UNCHANGED <<benchVars, vars>>

Keep == UNCHANGED <<args, caller, pool_blocks, benchVars>>

\* engine.start(), which does nothing in read-only mode.
StartEngine ==
    /\ At("start")
    /\ Start \/ (read_only /\ UNCHANGED vars)
    /\ Go(IF args.command = "bench" THEN "enter" ELSE "signal")
    /\ Keep /\ UNCHANGED fds

\* exec_cache polls a flag that the Ctrl+C handler clears.
CtrlC ==
    /\ At("signal")
    /\ Go("stop")
    /\ Keep /\ UNCHANGED <<fds, vars>>

\* engine.stop()?
StopEngine ==
    /\ At("stop")
    /\ Stop \/ (fl_pc = "none" /\ UNCHANGED vars)
    /\ Go("stopping")
    /\ Keep /\ UNCHANGED fds

Stopped ==
    /\ At("stopping")
    /\ life = "up"
    /\ Leave("ok")
    /\ Keep /\ UNCHANGED <<fds, vars>>

\* The engine is dropped, if there is one ...
DropEngine ==
    /\ At("leave")
    /\ \/ "engine" \in fds /\ Drop
       \/ "engine" \notin fds /\ UNCHANGED vars
    /\ fds' = fds \ {"engine"}
    /\ Go("dropping")
    /\ pool_blocks' = 0
    /\ UNCHANGED <<args, caller, benchVars>>

\* ... and then the direct device, declared before it.
Exit ==
    /\ At("dropping")
    /\ life \in {"dropped", "up"}
    /\ fds' = fds \ {"direct"}
    /\ Go("exit")
    /\ Keep /\ UNCHANGED vars

MainStep == Dispatch \/ Main \/ StartEngine \/ BenchStep \/ StopEngine \/ Stopped
            \/ DropEngine \/ Exit

EngineStep == /\ Shutdown \/ FlusherThread \/ \E c \in Clients : ClientStep(c)
              /\ UNCHANGED <<setupVars, benchVars>>

CommandNext == MainStep \/ CtrlC \/ EngineStep

CommandSpec == CommandInit /\ [][CommandNext]_commandVars

\* The main thread and the threads of the engine keep running; nothing is
\* assumed of the interval timer and of the user.
FairCommandSpec ==
    /\ CommandSpec
    /\ WF_commandVars(MainStep)
    /\ WF_commandVars(Shutdown /\ UNCHANGED <<setupVars, benchVars>>)
    /\ WF_commandVars(FlusherStep /\ UNCHANGED <<setupVars, benchVars>>)
    /\ \A c \in Clients : WF_commandVars(ClientStep(c) /\ UNCHANGED <<setupVars, benchVars>>)

-----------------------------------------------------------------------------
\* The main thread is past CacheEngine::new and has not dropped the engine.
Built == cmd_pc \in {"start", "enter", "run", "call", "signal", "stop", "stopping"}

\* Whatever cache_size_mb wraps to, CacheEngine::new returns an engine only with
\* a pool of at least one block, of the size asked for unless the product does
\* not fit a usize; a benchmark's pool is the one CacheEngine is about.
PoolHasBlocks ==
    Built => /\ pool_blocks >= 1
             /\ args.cfg.cache_size_mb * MiB < Word
                  => pool_blocks * args.cfg.block_size = args.cfg.cache_size_mb * MiB
             /\ args.command = "bench" => pool_blocks = Capacity

\* Two calls of a setup and of a benchmark panic on a bad argument and are reached
\* only with a good one: FlushSchedule::new, as validate() has rejected every
\* watermark its assertion would fail on, and gen_range(), which is never asked to
\* draw from a device smaller than one block, as the clamped count is then 0.
NoPanic == status # "panic"

\* When a command has returned, by whatever path, its descriptors are closed and
\* no flusher thread is left; only the error of an ioctl leaves one descriptor
\* open (query() returns through `?` before close_fd).
NothingLeftOpen ==
    At("exit") => /\ fds = IF status = "Ioctl" THEN {"query"} ELSE {}
                  /\ fl_pc = "none"

\* When is the warm cache of run_benchmarks warm?  A repeated loop hits on every
\* operation if its distinct blocks fit in the pool, whatever earlier loops left
\* there; a sequential loop over
\* more blocks than that never hits, since the LRU has evicted each before its turn.
WarmHits ==
    At("run") /\ phase <= Len(BenchPhases) /\ Loop.warm /\ idx = effective_count =>
        LET used == {AddrAt(i) : i \in 0 .. (effective_count - 1)}
        IN  /\ Cardinality(used) <= Capacity => hits = effective_count
            /\ Loop.access = "seq" /\ effective_count > Capacity => hits = 0

\* A pread that fails in cached_read() loses a block of the pool, but no operation
\* works with the smaller pool: the error ends the benchmark, so before every
\* operation and at stop() each block is free or cached.
LostBlockEndsBench == Built /\ ~At("call") => NoSlotLost

\* The info and bench commands return, whatever fails and without the help of the
\* interval timer.
CommandReturns == args.command # "cache" => <>At("exit")

-----------------------------------------------------------------------------
(* The inductive invariants behind NoPanic, PoolHasBlocks, NothingLeftOpen *)
(* and WarmHits.                                                           *)

QueryPCs == {"stat", "query_open", "ioctl", "query_close", "open"}
Leaving == cmd_pc \in {"leave", "dropping", "exit"}

\* The main thread is past validate() and past MemoryPool::new.
Pooled == cmd_pc = "schedule" \/ Built \/ (cmd_pc \in QueryPCs /\ caller = "engine")
Validated == cmd_pc = "pool" \/ Pooled

\* There is no engine without validate() and a pool of its sizes; the query of the
\* info command does not go on to open the device.
SetupInv ==
    /\ Validated => validate(args.cfg)
    /\ Pooled => /\ PoolAccepts(cache_size_bytes(args.cfg), args.cfg.block_size)
                 /\ LayoutFits(cache_size_bytes(args.cfg))
                 /\ pool_blocks = block_count(args.cfg)
    /\ cmd_pc = "open" => caller \in {"direct", "engine"}
    /\ cmd_pc \in QueryPCs => caller \in {"direct", "engine", "info"}
    /\ status # "panic"

\* Which descriptors are open where.
FdsInv ==
    /\ fds \subseteq {"query", "direct", "engine"}
    /\ "query" \in fds <=> cmd_pc \in {"ioctl", "query_close"} \/ status = "Ioctl"
    /\ ~Leaving => status = "none"
    /\ cmd_pc \in {"dropping", "exit"} => "engine" \notin fds
    /\ cmd_pc = "exit" => "direct" \notin fds

\* A flusher runs only beside an engine that is open or is being dropped.
ThreadInv ==
    /\ cmd_pc = "schedule" \/ Built => "engine" \in fds
    /\ "engine" \notin fds /\ cmd_pc \notin {"dropping", "exit"} =>
         fl_pc = "none" /\ life = "up"
    /\ cmd_pc \in {"dropping", "exit"} => ~fd_open \/ (fl_pc = "none" /\ life = "up")
    /\ ~fd_open => life # "up"
    /\ life = "dropped" => fl_pc = "none"
    /\ cmd_pc = "exit" => fl_pc = "none" /\ life \in {"up", "dropped"}

\* The command line does not change, and a loop counts up from 0.
ArgsInv ==
    /\ \/ args.command = "bench" /\ \E mb \in BenchSizes : args.cfg = DefaultConfig(mb)
       \/ args.command = "cache" /\ args.cfg \in CacheConfigs
       \/ args.command = "info" /\ args.cfg = DefaultConfig(1)
    /\ args.block_count \in Nat
    /\ args.dev_blocks \in {0, MaxLba}
    /\ args.rnd \in [Lbas -> Words]
    /\ idx \in Nat

\* What WarmHits rests on.  The loops that are reached with something to do only
\* read: a direct write ends the benchmark, and the cached writes come after it.
ReadsInv ==
    /\ phase \in Nat \ {0} /\ idx <= effective_count
    /\ cmd_pc \in {"enter", "run", "call", "stop", "stopping"} \/ Leaving \/ phase = 1
    /\ cmd_pc \in {"run", "call"} => phase <= Len(BenchPhases)
    /\ effective_count > 0 =>
         /\ \A q \in 1 .. (phase - 1) : q <= Len(BenchPhases) => BenchPhases[q].op = "read"
         /\ phase <= Len(BenchPhases) /\ Loop.op = "write" => idx = 0

CachedLoop == /\ cmd_pc \in {"enter", "run", "call"}
              /\ phase <= Len(BenchPhases) /\ Loop.via = "cached"

\* The engine is used by the operation that runs and by nothing else; an eviction
\* takes the oldest entry of all, as none is dirty.
CallInv ==
    /\ \A c \in Clients : pc[c] # "idle" => At("call")
    /\ At("call") => /\ CachedLoop /\ Loop.op = "read" /\ idx < effective_count
                     /\ \A c \in Clients : req[c].op = "read" /\ req[c].lba = Addr
    /\ \A l \in DOMAIN table : ~Dirty(l)
    /\ \A c \in Clients :
         /\ pc[c] \notin {"evict_write", "evict_wake"}
         /\ pc[c] \in {"select", "evict_remove"} => Exhausted
         /\ pc[c] = "evict_remove" => victim[c].lba \in OldestOf(DOMAIN table)

\* A failed pread loses a block of the pool, and ends the benchmark.
Failed == \/ Leaving
          \/ At("call") /\ \E c \in Clients : pc[c] = "idle" /\ out[c].status = "Io"
UnlessFailed == Failed \/ NoLeakInv

\* A cold and a warm loop are one sequence of accesses; how many have reached the
\* table, the last one when its block is found or inserted; and whether m has been
\* accessed since the last access to l.
Access(i) == AddrAt(IF i < effective_count THEN i ELSE i - effective_count)
Touched == \E c \in Clients : pc[c] = "copy_out" \/ (pc[c] = "idle" /\ out[c].status = "ok")
Accesses == idx + (IF Loop.warm THEN effective_count ELSE 0)
                + (IF At("call") /\ Touched THEN 1 ELSE 0)
Since(l, m) == \E j \in 0 .. (Accesses - 1) :
                  Access(j) = m /\ \A i \in j .. (Accesses - 1) : Access(i) # l

\* The stack property of LRU: as long as a block stays cached, so does whatever has
\* been accessed since it.
StackInv == CachedLoop => \A l, m \in Lbas : Cached(l) /\ Since(l, m)
                                               => Cached(m) /\ <<l, m>> \in older

\* Blocks that fit in the pool stay, from their first access on.
Used == {AddrAt(i) : i \in 0 .. (effective_count - 1)}
FitInv == CachedLoop /\ Cardinality(Used) <= Capacity =>
             \A j \in 0 .. (Accesses - 1) : Cached(Access(j))

HitInv == CachedLoop /\ Loop.warm =>
            /\ Cardinality(Used) <= Capacity => hits = idx + (IF At("call") THEN 1 ELSE 0)
            /\ Loop.access = "seq" /\ effective_count > Capacity => hits = 0
=============================================================================
