------------------------------- MODULE Setup -------------------------------
(***************************************************************************)
(* engine/config.rs, MemoryPool::new, io/device_info.rs, BlockDevice::open *)
(* and FlushSchedule::new: how the main thread gets from its arguments to  *)
(* open descriptors and an engine.  Each step may fail; an error returns   *)
(* through `?` to the command, which then drops what it has.               *)
(*                                                                         *)
(* Sizes are at the scale of a model: a usize has Word values, and the     *)
(* arithmetic wraps as in a release build.                                 *)
(***************************************************************************)
EXTENDS Integers

CONSTANTS Word,             \* number of values of a usize
          MiB,              \* 1024 * 1024, at the scale of Word
          PageAlignment,    \* PAGE_ALIGNMENT, at the same scale
          SysFaults         \* the calls of a setup that may fail in a model

ASSUME SetupAssumption ==
    /\ Word \in Nat \ {0} /\ MiB \in Nat \ {0} /\ PageAlignment \in Nat \ {0}
    /\ MiB % PageAlignment = 0 /\ Word % MiB = 0
    /\ SysFaults \subseteq {"stat", "open", "ioctl", "alloc"}

VARIABLES args,         \* the parsed command line
          cmd_pc,       \* where the main thread is
          caller,       \* for whom DeviceInfo::query and BlockDevice::open run
          fds,          \* the open descriptors, by what they were opened for
          pool_blocks,  \* capacity of the pool that was allocated, 0 if none
          status        \* what the command returns

setupVars == <<args, cmd_pc, caller, fds, pool_blocks, status>>

-----------------------------------------------------------------------------
(* CacheConfig.  The watermark is a percentage; 101 stands for any value   *)
(* outside of [0.0, 1.0], NaN included.                                    *)

Configs == [device_path : {"", "/dev/sda"}, cache_size_mb : Nat, block_size : Nat,
            flush_interval_secs : Nat, dirty_watermark : 0 .. 101]

\* The product wraps.
cache_size_bytes(c) == (c.cache_size_mb * MiB) % Word

block_count(c) == cache_size_bytes(c) \div c.block_size

\* validate() returns Ok; every error is a CacheError::Config.
validate(c) ==
    /\ c.device_path # ""
    /\ c.cache_size_mb # 0
    /\ c.block_size # 0 /\ c.block_size % PageAlignment = 0
    /\ cache_size_bytes(c) % c.block_size = 0
    /\ c.dirty_watermark \in 0 .. 100
    /\ c.flush_interval_secs # 0

-----------------------------------------------------------------------------
(* MemoryPool::new(total, block) with its AlignedBuffer::new(total).       *)

\* Layout::from_size_align: no more than isize::MAX once rounded up.
LayoutFits(total) == total <= (Word \div 2) - PageAlignment

\* Mutant: the pool trusts the sizes of a validated configuration.
PoolAcceptsValidated(total, block) == TRUE

\* The sizes the pool accepts.
PoolAccepts(total, block) == /\ block # 0 /\ block % PageAlignment = 0
                             /\ total # 0 /\ total % block = 0

-----------------------------------------------------------------------------
(* Control of the main thread.                                             *)

At(label) == cmd_pc = label
Go(label) == cmd_pc' = label /\ UNCHANGED status

\* The command returns; its locals are dropped next.
Leave(s) == cmd_pc' = "leave" /\ status' = s

\* config.validate()? of CacheEngine::new
Validate ==
    /\ At("validate")
    /\ \/ validate(args.cfg) /\ Go("pool")
       \/ ~validate(args.cfg) /\ Leave("Config")
    /\ UNCHANGED <<args, caller, fds, pool_blocks>>

\* MemoryPool::new(...)?
NewPool ==
    /\ At("pool")
    /\ LET total == cache_size_bytes(args.cfg)
           block == args.cfg.block_size
       IN  \/ /\ PoolAccepts(total, block) /\ LayoutFits(total)
              /\ pool_blocks' = total \div block
              /\ caller' = "engine"
              /\ Go("stat")
           \/ /\ ~PoolAccepts(total, block)
              /\ Leave("Config")
              /\ UNCHANGED <<caller, pool_blocks>>
           \/ /\ PoolAccepts(total, block)
              /\ "alloc" \in SysFaults \/ ~LayoutFits(total)
              /\ Leave("Allocation")
              /\ UNCHANGED <<caller, pool_blocks>>
    /\ UNCHANGED <<args, fds>>

-----------------------------------------------------------------------------
(* DeviceInfo::query, then the open() of BlockDevice::open.                *)

Fails(call, s) == call \in SysFaults /\ Leave(s)

\* The path exists, its metadata can be read and it is a block device.
QueryStat ==
    /\ At("stat")
    /\ \/ args.cfg.device_path # "" /\ Go("query_open")
       \/ args.cfg.device_path = "" /\ Leave("DeviceNotFound")
       \/ Fails("stat", "DeviceNotFound")
       \/ Fails("stat", "Io")
       \/ Fails("stat", "NotBlockDevice")
    /\ UNCHANGED <<args, caller, fds, pool_blocks>>

QueryOpen ==
    /\ At("query_open")
    /\ \/ fds' = fds \cup {"query"} /\ Go("ioctl")
       \/ Fails("open", "Io") /\ UNCHANGED fds
    /\ UNCHANGED <<args, caller, pool_blocks>>

\* BLKGETSIZE64 and BLKSSZGET; an error leaves before close_fd.
QueryIoctl ==
    /\ At("ioctl")
    /\ Go("query_close") \/ Fails("ioctl", "Ioctl")
    /\ UNCHANGED <<args, caller, fds, pool_blocks>>

\* Mutant: the descriptor of the query is never closed.
QueryCloseSkipped ==
    /\ At("query_close")
    /\ IF caller = "info" THEN Leave("ok") ELSE Go("open")
    /\ UNCHANGED <<args, caller, fds, pool_blocks>>

\* close_fd; exec_info has what it wants, BlockDevice::open goes on.
QueryClose ==
    /\ At("query_close")
    /\ fds' = fds \ {"query"}
    /\ IF caller = "info" THEN Leave("ok") ELSE Go("open")
    /\ UNCHANGED <<args, caller, pool_blocks>>

\* open() with O_DIRECT.  The direct device of the benchmark is opened first,
\* the engine's after it.
OpenDevice ==
    /\ At("open")
    /\ \/ /\ fds' = fds \cup {caller}
          /\ Go(IF caller = "direct" THEN "validate" ELSE "schedule")
       \/ Fails("open", "Io") /\ UNCHANGED fds
    /\ UNCHANGED <<args, caller, pool_blocks>>

\* LbaTable::new(config.block_count()) and FlushSchedule::new, which panics on
\* a watermark out of range.
NewSchedule ==
    /\ At("schedule")
    /\ IF args.cfg.dirty_watermark \in 0 .. 100 THEN Go("start") ELSE Leave("panic")
    /\ UNCHANGED <<args, caller, fds, pool_blocks>>

SetupStep == \/ Validate \/ NewPool \/ QueryStat \/ QueryOpen \/ QueryIoctl
             \/ QueryClose \/ OpenDevice \/ NewSchedule
=============================================================================
