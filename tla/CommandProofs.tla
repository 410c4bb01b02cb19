---------------------------- MODULE CommandProofs ----------------------------
(***************************************************************************)
(* The process: the main thread only ever uses the engine as CacheEngine   *)
(* says its callers do, so what is proved of the engine holds inside the   *)
(* program, and the setup and the exit of a command keep their promises    *)
(* whatever fails on the way.                                              *)
(***************************************************************************)
EXTENDS Commands, StoreProofs

-----------------------------------------------------------------------------
(* The engine inside the program.                                          *)

\* A step of the program is a step of the engine, or leaves it alone.
LEMMA EngineInside == [CommandNext]_commandVars => [Next]_vars
<1> SUFFICES ASSUME [CommandNext]_commandVars PROVE [Next]_vars
    OBVIOUS
<1>1. CASE MainStep
  <2>1. CASE StartEngine \/ StopEngine \/ DropEngine
      BY <2>1 DEF StartEngine, StopEngine, DropEngine, Next
  <2>2. CASE Dispatch \/ Main \/ Stopped \/ Exit
      BY <2>2 DEF Dispatch, Main, Stopped, Exit
  <2>3. CASE BenchStep
      BY <2>3 DEF BenchStep, EnterLoop, DirectRead, DirectWrite, NextLoop, LastLoop, CachedOp,
          CachedReturn, Next
  <2> QED BY <1>1, <2>1, <2>2, <2>3 DEF MainStep
<1>2. CASE CtrlC
    BY <1>2 DEF CtrlC
<1>3. CASE EngineStep
    BY <1>3 DEF EngineStep, Next
<1>4. CASE UNCHANGED commandVars
    BY <1>4 DEF commandVars
<1> QED BY <1>1, <1>2, <1>3, <1>4 DEF CommandNext

\* Every behaviour of the program is one of the engine: the benchmark and the cache
\* command call read(), write(), start(), stop() and drop only where CacheEngine
\* allows it.  So a theorem Spec => []P is one about the program, if its hypotheses
\* agree with CommandsAssumption: those that exclude calls of the owner do not.
THEOREM ProgramUsesEngine == CommandSpec => Spec
<1>1. CommandInit => Init
    BY DEF CommandInit
<1> QED BY <1>1, EngineInside, PTL DEF CommandSpec, Spec

-----------------------------------------------------------------------------
(* The setup.                                                              *)

\* Where the main thread is after a step that is not one of the setup.
LEMMA AfterSetup ==
    ASSUME [CommandNext]_commandVars, ~Main
    PROVE  /\ UNCHANGED args
           /\ \/ UNCHANGED <<cmd_pc, status>>
              \/ cmd_pc = "dispatch" /\ cmd_pc' \in {"stat", "validate", "leave"}
              \/ Built /\ (Built' \/ cmd_pc' = "leave")
              \/ Leaving /\ Leaving'
<1>1. CASE Dispatch
    BY <1>1 DEF Dispatch, At, Go, Leave
<1>2. CASE StartEngine \/ StopEngine \/ Stopped \/ CtrlC
    BY <1>2 DEF StartEngine, StopEngine, Stopped, CtrlC, Keep, At, Go, Leave, Built
<1>3. CASE DropEngine \/ Exit
    BY <1>3 DEF DropEngine, Exit, Keep, At, Go, Leaving
<1>4. CASE BenchStep
    BY <1>4 DEF BenchStep, EnterLoop, DirectRead, DirectWrite, NextLoop, LastLoop, CachedOp,
        CachedReturn, InLoop, At, Go, Leave, Fails, Built
<1>5. CASE EngineStep \/ UNCHANGED commandVars
    BY <1>5 DEF EngineStep, commandVars, setupVars
<1> QED BY <1>1, <1>2, <1>3, <1>4, <1>5 DEF CommandNext, MainStep

\* No step changes the command line, and a loop counts its operations up from 0.
LEMMA ArgsStep == ArgsInv /\ [CommandNext]_commandVars => ArgsInv'
<1> SUFFICES ASSUME ArgsInv, [CommandNext]_commandVars PROVE ArgsInv'
    OBVIOUS
<1>1. UNCHANGED args
  <2>1. CASE Main
      BY <2>1 DEF Main, SetupStep, Validate, NewPool, QueryStat, QueryOpen, QueryIoctl,
          QueryClose, OpenDevice, NewSchedule
  <2> QED BY <2>1, AfterSetup
<1>2. idx' \in {idx, idx + 1, 0}
  <2>1. CASE BenchStep
      BY <2>1 DEF BenchStep, EnterLoop, DirectRead, DirectWrite, NextLoop, LastLoop, CachedOp,
          CachedReturn, Returned, benchVars
  <2>2. CASE ~BenchStep
      BY <2>2 DEF CommandNext, MainStep, Dispatch, Main, StartEngine, StopEngine, Stopped,
          DropEngine, Exit, CtrlC, Keep, EngineStep, commandVars, benchVars
  <2> QED BY <2>1, <2>2
<1>3. idx' \in Nat
    BY <1>2 DEF ArgsInv
<1> QED BY <1>1, <1>3 DEF ArgsInv

\* Every command line that main() accepts is of one of the three forms.
LEMMA ArgsStarts == CommandInit => ArgsInv
<1> SUFFICES ASSUME CommandInit PROVE ArgsInv
    OBVIOUS
<1>1. idx \in Nat
    BY DEF CommandInit, BenchInit
<1>2. 0 \in Words
    BY BlocksAssumption DEF Words
<1>3. ASSUME NEW cfg \in CacheConfigs, args = Args("cache", cfg, NoBench) PROVE ArgsInv
    BY <1>1, <1>2, <1>3 DEF ArgsInv, Args, NoBench
<1>4. ASSUME NEW mb \in BenchSizes, NEW b \in BenchConfigs,
             args = Args("bench", DefaultConfig(mb), b)
      PROVE  ArgsInv
    BY <1>1, <1>4, CommandsAssumption DEF ArgsInv, Args, BenchConfigs
<1>5. ASSUME args = Args("info", DefaultConfig(1), NoBench) PROVE ArgsInv
    BY <1>1, <1>2, <1>5 DEF ArgsInv, Args, NoBench
<1> QED BY <1>3, <1>4, <1>5 DEF CommandInit

\* No loop draws from a device smaller than one block: it has nothing to draw.
LEMMA NeverDrawsFromNothing == ASSUME ArgsInv PROVE ~DrawsFromNothing
BY DEF ArgsInv, DrawsFromNothing, effective_count

\* What such a step leaves alone, and what it may make of the status.
LEMMA AfterSetupKeeps ==
    ASSUME TypeOK, ArgsInv, [CommandNext]_commandVars, ~Main
    PROVE  /\ \/ UNCHANGED status
              \/ ~Leaving /\ cmd_pc' = "leave" /\ status' \notin {"panic", "Ioctl"}
           /\ \/ UNCHANGED <<caller, fds>>
              \/ Dispatch /\ UNCHANGED fds
              \/ UNCHANGED caller /\ cmd_pc = "leave" /\ fds' = fds \ {"engine"}
                 /\ cmd_pc' = "dropping"
              \/ UNCHANGED caller /\ cmd_pc = "dropping" /\ fds' = fds \ {"direct"}
                 /\ cmd_pc' = "exit"
           /\ UNCHANGED pool_blocks \/ cmd_pc' = "dropping"
<1>1. CASE Dispatch
    BY <1>1 DEF Dispatch, At, Go, Leave, Leaving
<1>2. CASE StartEngine \/ StopEngine \/ Stopped \/ CtrlC
    BY <1>2 DEF StartEngine, StopEngine, Stopped, CtrlC, Keep, At, Go, Leave, Leaving
<1>3. CASE DropEngine \/ Exit
    BY <1>3 DEF DropEngine, Exit, Keep, At, Go
<1>4. CASE \/ EnterLoop \/ DirectRead \/ DirectWrite \/ NextLoop \/ LastLoop
           \/ \E c \in Clients : CachedOp(c)
    BY <1>4, NeverDrawsFromNothing DEF EnterLoop, DirectRead, DirectWrite, NextLoop, LastLoop,
        CachedOp, InLoop, At, Go, Leave, Fails, Leaving
<1>5. ASSUME NEW c \in Clients, CachedReturn(c)
      PROVE  /\ \/ UNCHANGED status
                \/ ~Leaving /\ cmd_pc' = "leave" /\ status' \notin {"panic", "Ioctl"}
             /\ UNCHANGED <<caller, fds, pool_blocks>>
  <2>1. out[c].status \notin {"panic", "Ioctl"}
      BY DEF TypeOK, EngineTypeOK, Outcomes, Errors
  <2> QED BY <1>5, <2>1 DEF CachedReturn, At, Go, Leave, Leaving
<1>6. CASE EngineStep \/ UNCHANGED commandVars
    BY <1>6 DEF EngineStep, commandVars, setupVars
<1> QED BY <1>1, <1>2, <1>3, <1>4, <1>5, <1>6 DEF CommandNext, MainStep, BenchStep

\* The setup and what follows keep SetupInv.
LEMMA SetupStepInv == TypeOK /\ ArgsInv /\ SetupInv /\ [CommandNext]_commandVars => SetupInv'
<1> SUFFICES ASSUME TypeOK, ArgsInv, SetupInv, [CommandNext]_commandVars PROVE SetupInv'
    OBVIOUS
<1> USE DEF Validated, Pooled, QueryPCs, Built
<1>1. CASE Main
  <2>1. UNCHANGED args
      BY <1>1 DEF Main, SetupStep, Validate, NewPool, QueryStat, QueryOpen, QueryIoctl,
          QueryClose, OpenDevice, NewSchedule
  <2>2. CASE Validate
      BY <2>1, <2>2 DEF Validate, SetupInv, At, Go, Leave
  <2>3. CASE NewPool
    <3>1. cmd_pc = "pool" /\ validate(args.cfg)
        BY <2>3 DEF NewPool, At, SetupInv
    <3>2. \/ cmd_pc' = "leave" /\ status' \in {"Config", "Allocation"}
          \/ /\ PoolAccepts(cache_size_bytes(args.cfg), args.cfg.block_size)
             /\ LayoutFits(cache_size_bytes(args.cfg))
             /\ pool_blocks' = block_count(args.cfg)
             /\ cmd_pc' = "stat" /\ caller' = "engine" /\ UNCHANGED status
        BY <2>3 DEF NewPool, Go, Leave, block_count
    <3> QED BY <2>1, <3>1, <3>2 DEF SetupInv
  <2>4. CASE QueryStat \/ QueryOpen \/ QueryIoctl
      BY <2>1, <2>4 DEF QueryStat, QueryOpen, QueryIoctl, SetupInv, At, Go, Leave, Fails
  <2>5. CASE QueryClose
      BY <2>1, <2>5 DEF QueryClose, SetupInv, At, Go, Leave
  <2>6. CASE OpenDevice
      BY <2>1, <2>6 DEF OpenDevice, SetupInv, At, Go, Leave, Fails
  <2>7. CASE NewSchedule
    <3>1. args.cfg.dirty_watermark \in 0 .. 100
        BY <2>7 DEF NewSchedule, At, SetupInv, validate
    <3> QED BY <2>1, <2>7, <3>1 DEF NewSchedule, At, Go, SetupInv
  <2> QED BY <1>1, <2>2, <2>3, <2>4, <2>5, <2>6, <2>7 DEF Main, SetupStep
<1>2. CASE ~Main /\ Dispatch
    BY <1>2 DEF Dispatch, At, Go, Leave, SetupInv
<1>3. CASE ~Main /\ ~Dispatch
  <2>1. /\ UNCHANGED <<args, caller>> /\ status' # "panic"
        /\ UNCHANGED pool_blocks \/ cmd_pc' = "dropping"
      BY <1>3, AfterSetup, AfterSetupKeeps DEF SetupInv
  <2>2. \/ UNCHANGED cmd_pc
        \/ Built /\ (Built' \/ cmd_pc' = "leave")
        \/ Leaving'
        \/ cmd_pc = "dispatch"
      BY <1>3, AfterSetup
  <2>3. cmd_pc = "dispatch" => UNCHANGED cmd_pc
      BY <1>3 DEF CommandNext, MainStep, StartEngine, BenchStep, EnterLoop, DirectRead, DirectWrite,
          NextLoop, LastLoop, CachedOp, CachedReturn, InLoop, StopEngine, Stopped, DropEngine, Exit, CtrlC,
          EngineStep, commandVars, setupVars, At
  <2> QED BY <2>1, <2>2, <2>3 DEF SetupInv, Leaving
<1> QED BY <1>1, <1>2, <1>3

\* A command starts with nothing set up.
LEMMA SetupStarts == CommandInit => SetupInv /\ FdsInv
BY DEF CommandInit, SetupInv, FdsInv, Validated, Pooled, QueryPCs, Built, Leaving

\* The assertion of FlushSchedule::new cannot fail, as no configuration reaches it that
\* validate() has not passed, and gen_range() is not called on an empty range, for any
\* command line, device and seed and whatever fails before.
THEOREM NeverPanics == CommandSpec => []NoPanic
<1>1. SetupInv => NoPanic
    BY DEF SetupInv, NoPanic
<1> QED BY <1>1, SetupStarts, SetupStepInv, ArgsStarts, ArgsStep, ProgramUsesEngine, TypeCorrect,
        PTL DEF CommandSpec

\* The addresses of a loop are on the device.
LEMMA AddrInRange ==
    ASSUME ArgsInv, NEW i \in Nat, i < effective_count
    PROVE  /\ effective_count \in Nat
           /\ AddrAt(i) \in Lbas /\ AddrAt(i) < args.dev_blocks /\ args.dev_blocks = MaxLba
<1>1. args.dev_blocks \in Nat /\ args.dev_blocks \in {0, MaxLba}
    BY BlocksAssumption DEF ArgsInv
<1>2. args.block_count \in Nat
    BY DEF ArgsInv
<1>3. i < args.dev_blocks /\ effective_count \in Nat
    BY <1>1, <1>2 DEF effective_count
<1>4. args.dev_blocks = MaxLba /\ i \in Lbas
    BY <1>1, <1>3, BlocksAssumption DEF Lbas
<1>5. args.rnd[i] \in Nat
    BY <1>4, BlocksAssumption DEF ArgsInv, Words
<1>6. gen_range(args.rnd[i], args.dev_blocks) \in 0 .. (args.dev_blocks - 1)
    BY <1>4, <1>5, BlocksAssumption DEF gen_range
<1>7. gen_range(args.rnd[i], args.dev_blocks) \in Lbas
    BY <1>4, <1>6, BlocksAssumption DEF Lbas
<1> QED BY <1>3, <1>4, <1>6, <1>7, BlocksAssumption DEF AddrAt

\* Division without a remainder.
LEMMA ExactDivision ==
    ASSUME NEW m \in Nat \ {0}, NEW n \in Nat \ {0}, m % n = 0
    PROVE  m \div n >= 1 /\ (m \div n) * n = m
OBVIOUS

\* Whatever cache_size_mb wraps to, an engine has a pool of at least one block, of the
\* size that was asked for if that fits a usize: validate() and MemoryPool::new
\* together leave no size that the pool divides differently from the configuration.
THEOREM EnginesHaveBlocks == CommandSpec => []PoolHasBlocks
<1>1. ASSUME SetupInv, ArgsInv PROVE PoolHasBlocks
  <2> DEFINE total == cache_size_bytes(args.cfg)
             block == args.cfg.block_size
  <2> SUFFICES ASSUME Built
               PROVE  /\ pool_blocks >= 1
                      /\ args.cfg.cache_size_mb * MiB < Word
                           => pool_blocks * block = args.cfg.cache_size_mb * MiB
                      /\ args.command = "bench" => pool_blocks = Capacity
      BY DEF PoolHasBlocks
  <2>1. /\ PoolAccepts(total, block) /\ LayoutFits(total)
        /\ pool_blocks = total \div block
        /\ pool_blocks = block_count(args.cfg)
      BY <1>1 DEF SetupInv, Pooled, block_count
  <2>2. args.cfg.cache_size_mb \in Nat /\ block \in Nat
    <3>1. CASE args.cfg \in CacheConfigs
        BY <3>1, CommandsAssumption DEF Configs
    <3>2. ASSUME NEW mb \in Nat, args.cfg = DefaultConfig(mb)
          PROVE  args.cfg.cache_size_mb \in Nat /\ block \in Nat
        BY <3>2, SetupAssumption DEF DefaultConfig
    <3> QED BY <1>1, <3>1, <3>2, CommandsAssumption DEF ArgsInv
  <2>3. args.cfg.cache_size_mb * MiB \in Nat
      BY <2>2, SetupAssumption
  <2>4. total \in Nat /\ (args.cfg.cache_size_mb * MiB < Word
                            => total = args.cfg.cache_size_mb * MiB)
      BY <2>3, SetupAssumption DEF cache_size_bytes
  <2>5. total \in Nat \ {0} /\ block \in Nat \ {0} /\ total % block = 0
      BY <2>1, <2>2, <2>4 DEF PoolAccepts
  <2>6. pool_blocks >= 1 /\ pool_blocks * block = total
      BY <2>1, <2>5, ExactDivision
  <2>7. ASSUME args.command = "bench" PROVE pool_blocks = Capacity
    <3>1. PICK mb \in BenchSizes : args.cfg = DefaultConfig(mb)
        BY <1>1, <2>7 DEF ArgsInv
    <3> QED BY <2>1, <2>5, <3>1, CommandsAssumption
  <2> QED BY <2>4, <2>6, <2>7
<1> QED BY <1>1, SetupStarts, SetupStepInv, ArgsStarts, ArgsStep, ProgramUsesEngine, TypeCorrect,
        PTL DEF CommandSpec

-----------------------------------------------------------------------------
(* Descriptors and threads at the end of a command.                        *)

\* Every step opens and closes descriptors where FdsInv says.
LEMMA FdsStep ==
    TypeOK /\ ArgsInv /\ SetupInv /\ FdsInv /\ [CommandNext]_commandVars => FdsInv'
<1> SUFFICES ASSUME TypeOK, ArgsInv, SetupInv, FdsInv, [CommandNext]_commandVars PROVE FdsInv'
    OBVIOUS
<1>1. CASE Main
  <2>1. CASE Validate \/ NewPool \/ QueryStat \/ NewSchedule
    <3>1. /\ UNCHANGED fds /\ cmd_pc \in {"validate", "pool", "stat", "schedule"}
          /\ \/ UNCHANGED status /\ cmd_pc' \in {"pool", "stat", "query_open", "start"}
             \/ cmd_pc' = "leave" /\ status' # "Ioctl"
        BY <2>1 DEF Validate, NewPool, QueryStat, NewSchedule, At, Go, Leave, Fails
    <3> QED BY <3>1 DEF FdsInv, Leaving
  <2>2. CASE QueryOpen \/ QueryIoctl
      BY <2>2 DEF QueryOpen, QueryIoctl, At, Go, Leave, Fails, FdsInv, Leaving
  <2>3. CASE QueryClose
      BY <2>3 DEF QueryClose, At, Go, Leave, FdsInv, Leaving
  <2>4. CASE OpenDevice
      BY <2>4 DEF OpenDevice, At, Go, Leave, Fails, FdsInv, SetupInv, Leaving
  <2> QED BY <1>1, <2>1, <2>2, <2>3, <2>4 DEF Main, SetupStep
<1>2. CASE ~Main
  <2>1. \/ UNCHANGED <<cmd_pc, status>>
        \/ cmd_pc = "dispatch" /\ cmd_pc' \in {"stat", "validate", "leave"}
        \/ Built /\ (Built' \/ cmd_pc' = "leave")
        \/ Leaving /\ Leaving'
      BY <1>2, AfterSetup
  <2>2. \/ UNCHANGED status
        \/ ~Leaving /\ cmd_pc' = "leave" /\ status' \notin {"panic", "Ioctl"}
      BY <1>2, AfterSetupKeeps
  <2>3. \/ UNCHANGED fds
        \/ cmd_pc = "leave" /\ fds' = fds \ {"engine"} /\ cmd_pc' = "dropping"
        \/ cmd_pc = "dropping" /\ fds' = fds \ {"direct"} /\ cmd_pc' = "exit"
      BY <1>2, AfterSetupKeeps
  <2>4. /\ cmd_pc' = "dropping" => cmd_pc = "dropping" \/ fds' = fds \ {"engine"}
        /\ cmd_pc' = "exit" =>
             cmd_pc = "exit" \/ (cmd_pc = "dropping" /\ fds' = fds \ {"direct"})
    <3>1. CASE DropEngine \/ Exit
        BY <3>1 DEF DropEngine, Exit, At, Go
    <3>2. CASE ~DropEngine /\ ~Exit
        BY <1>2, <3>2 DEF CommandNext, MainStep, Dispatch, StartEngine, BenchStep, EnterLoop,
            DirectRead, DirectWrite, NextLoop, LastLoop, CachedOp, CachedReturn, StopEngine,
            Stopped, CtrlC, EngineStep, commandVars, setupVars, Go, Leave, Fails
    <3> QED BY <3>1, <3>2
  <2> QED BY <2>1, <2>2, <2>3, <2>4 DEF FdsInv, Leaving, Built
<1> QED BY <1>1, <1>2

\* The main thread starts the flusher of an open engine only, and drops an engine
\* before it returns.
LEMMA ThreadStep == TypeOK /\ SetupInv /\ FdsInv /\ ThreadInv /\ [CommandNext]_commandVars
                      => ThreadInv'
<1> SUFFICES ASSUME TypeOK, SetupInv, FdsInv, ThreadInv, [CommandNext]_commandVars
             PROVE  ThreadInv'
    OBVIOUS
<1> USE DEF Built
<1>1. CASE Main
  <2>1. UNCHANGED <<fl_pc, life, fd_open>>
      BY <1>1 DEF Main, vars, deviceVars, flushVars, engineVars
  <2>2. /\ cmd_pc \in {"validate", "pool", "stat", "query_open", "ioctl", "query_close",
                       "open", "schedule"}
        /\ cmd_pc' \in {"pool", "stat", "query_open", "ioctl", "query_close", "open",
                        "validate", "schedule", "start", "leave"}
        /\ cmd_pc' = "start" => cmd_pc = "schedule"
        /\ "engine" \in fds => "engine" \in fds'
        /\ cmd_pc' = "schedule" => "engine" \in fds'
    <3>1. CASE Validate \/ NewPool \/ QueryStat \/ NewSchedule
        BY <3>1 DEF Validate, NewPool, QueryStat, NewSchedule, At, Go, Leave, Fails
    <3>2. CASE QueryOpen \/ QueryIoctl \/ QueryClose
        BY <3>2 DEF QueryOpen, QueryIoctl, QueryClose, At, Go, Leave, Fails
    <3>3. CASE OpenDevice
        BY <3>3 DEF OpenDevice, At, Go, Leave, Fails, SetupInv
    <3> QED BY <1>1, <3>1, <3>2, <3>3 DEF Main, SetupStep
  <2> QED BY <2>1, <2>2 DEF ThreadInv
<1>2. CASE Dispatch \/ CtrlC \/ Stopped
  <2>1. /\ UNCHANGED <<fl_pc, life, fd_open, fds>>
        /\ ~Leaving
        /\ cmd_pc' \in {"stat", "validate", "leave"} \/ (Built /\ cmd_pc' = "stop")
      BY <1>2 DEF Dispatch, CtrlC, Stopped, Keep, At, Go, Leave, Leaving, vars, deviceVars,
          flushVars, engineVars
  <2> QED BY <2>1 DEF ThreadInv, Leaving
<1>3. CASE StartEngine \/ StopEngine
  <2>1. /\ UNCHANGED <<fds, fd_open>>
        /\ Built /\ Built'
        /\ UNCHANGED <<life, fl_pc>> \/ (life = "up" /\ life' \in {"up", "flag"})
      BY <1>3 DEF StartEngine, StopEngine, Start, Stop, Exclusive, Keep, At, Go, vars,
          deviceVars, flushVars, engineVars
  <2>2. life' = "up" => life = "up"
      BY <2>1
  <2>3. fd_open \in BOOLEAN /\ (~fd_open => life # "up")
      BY DEF ThreadInv, TypeOK, DeviceTypeOK
  <2>4. ~fd_open' => life' # "up"
      BY <2>1, <2>2, <2>3
  <2> QED BY <2>1, <2>4 DEF ThreadInv
<1>4. CASE BenchStep
  <2>1. /\ UNCHANGED <<fds, fd_open, life, fl_pc>>
        /\ Built /\ (Built' \/ cmd_pc' = "leave")
    <3>1. CASE \/ EnterLoop \/ DirectRead \/ DirectWrite \/ NextLoop \/ LastLoop
               \/ \E c \in Clients : CachedReturn(c)
        BY <3>1 DEF EnterLoop, DirectRead, DirectWrite, NextLoop, LastLoop, CachedReturn, InLoop,
            At, Go, Leave, Fails, vars, deviceVars, flushVars, engineVars
    <3>2. CASE \E c \in Clients : CachedOp(c)
        BY <3>2 DEF CachedOp, InLoop, Request, Reject, ReadLookup, WriteLookup, At, Go,
            deviceVars, flushVars, engineVars
    <3> QED BY <1>4, <3>1, <3>2 DEF BenchStep
  <2> QED BY <2>1 DEF ThreadInv
<1>5. CASE DropEngine
  <2>1. /\ cmd_pc = "leave" /\ cmd_pc' = "dropping"
        /\ \/ /\ fd_open' = FALSE /\ life = "up" /\ UNCHANGED fl_pc
              /\ life' = IF fl_pc = "none" THEN "dropped" ELSE "flag"
           \/ "engine" \notin fds /\ UNCHANGED <<fl_pc, life, fd_open>>
      BY <1>5 DEF DropEngine, Drop, Exclusive, At, Go, vars, deviceVars, flushVars, engineVars
  <2> QED BY <2>1 DEF ThreadInv
<1>6. CASE Exit
  <2>1. /\ cmd_pc = "dropping" /\ cmd_pc' = "exit"
        /\ life \in {"dropped", "up"}
        /\ UNCHANGED <<fl_pc, life, fd_open>>
      BY <1>6 DEF Exit, At, Go, vars, deviceVars, flushVars, engineVars
  <2> QED BY <2>1 DEF ThreadInv
<1>7. CASE EngineStep
  <2>1. UNCHANGED <<cmd_pc, fds>>
      BY <1>7 DEF EngineStep, setupVars
  <2>2. CASE \E c \in Clients : ClientStep(c)
    <3>1. UNCHANGED <<fl_pc, life, fd_open>>
        BY <2>2, ClientLeavesFlusher
    <3> QED BY <2>1, <3>1 DEF ThreadInv
  <2>3. CASE FlusherThread
    <3>1. fl_pc # "none" /\ UNCHANGED <<life, fd_open>>
        BY <2>3 DEF FlusherThread, FlNext, FlStep, FlReceive, FlTimeout, FlSnapshot, FlWrite,
            FlClean, FlSync, FlCheck, FlCheckRest, engineVars, deviceVars, write_lba,
            write_lba_err, PutBlock, sync_device
    <3> QED BY <2>1, <3>1 DEF ThreadInv
  <2>4. CASE Shutdown
    <3>1. /\ life \in {"flag", "send", "join"} /\ UNCHANGED fd_open
          /\ \/ UNCHANGED fl_pc /\ life' \in {"send", "join"}
             \/ fl_pc' = "none" /\ life' = IF fd_open THEN "up" ELSE "dropped"
        BY <2>4 DEF Shutdown, ShutdownStore, ShutdownSend, ShutdownJoin, threadVars, deviceVars
    <3> QED BY <2>1, <3>1 DEF ThreadInv
  <2> QED BY <1>7, <2>2, <2>3, <2>4 DEF EngineStep
<1>8. CASE UNCHANGED commandVars
  <2>1. UNCHANGED <<cmd_pc, fds, fl_pc, life, fd_open>>
      BY <1>8 DEF commandVars, vars, setupVars, deviceVars, flushVars, engineVars
  <2> QED BY <2>1 DEF ThreadInv
<1> QED BY <1>1, <1>2, <1>3, <1>4, <1>5, <1>6, <1>7, <1>8 DEF CommandNext, MainStep

\* Whatever fails and at whatever call, a command has closed its descriptors and joined
\* its flusher thread when it returns; the one exception is the descriptor of a query
\* whose ioctl failed.
THEOREM CommandsCleanUp == CommandSpec => []NothingLeftOpen
<1>1. CommandInit => ThreadInv
    BY DEF CommandInit, ThreadInv, Built, Init, FlusherInit, DeviceInit
<1>2. ASSUME FdsInv, ThreadInv PROVE NothingLeftOpen
  <2> SUFFICES ASSUME cmd_pc = "exit"
               PROVE  /\ fds = IF status = "Ioctl" THEN {"query"} ELSE {}
                      /\ fl_pc = "none"
      BY DEF NothingLeftOpen, At
  <2>1. /\ fds \subseteq {"query", "direct", "engine"}
        /\ "engine" \notin fds /\ "direct" \notin fds
        /\ "query" \in fds <=> status = "Ioctl"
      BY <1>2 DEF FdsInv
  <2>2. fl_pc = "none"
      BY <1>2 DEF ThreadInv
  <2> QED BY <2>1, <2>2
<1> QED BY <1>1, <1>2, SetupStarts, SetupStepInv, ArgsStarts, ArgsStep, FdsStep, ThreadStep,
        ProgramUsesEngine, TypeCorrect, PTL DEF CommandSpec

-----------------------------------------------------------------------------
(* The benchmark: its loops.                                               *)

Phases == [access : {"seq", "rnd"}, op : {"read", "write"}, via : {"direct", "cached"},
           warm : BOOLEAN]

\* The loops of a benchmark come in suites: a direct one first, a warm one after the
\* cold one it repeats, and a cached write loop after the direct one.
InOrder(s) ==
    \A q \in 1 .. Len(s) :
        /\ q = 1 => s[q].via = "direct" /\ s[q].op = "read" /\ s[q].warm = FALSE
        /\ s[q].warm = TRUE => /\ q > 1 /\ s[q].via = "cached"
                               /\ s[q - 1].via = "cached" /\ s[q - 1].warm = FALSE
                               /\ s[q - 1].access = s[q].access
        /\ s[q].via = "cached" /\ s[q].op = "write" => q > 1 /\ s[q - 1].op = "write"

\* One suite after another is still in order.
LEMMA InOrderConcat ==
    ASSUME NEW s \in Seq(Phases), NEW t \in Seq(Phases), InOrder(s), InOrder(t)
    PROVE  InOrder(s \o t)
<1>1. /\ Len(s) \in Nat /\ Len(t) \in Nat
      /\ Len(s \o t) = Len(s) + Len(t)
      /\ \A i \in 1 .. Len(s) : (s \o t)[i] = s[i]
      /\ \A i \in 1 .. Len(t) : (s \o t)[Len(s) + i] = t[i]
    OBVIOUS
<1> DEFINE u == s \o t
<1> HIDE DEF u
<1> SUFFICES ASSUME NEW q \in 1 .. Len(u)
             PROVE  /\ q = 1 => u[q].via = "direct" /\ u[q].op = "read" /\ u[q].warm = FALSE
                    /\ u[q].warm = TRUE => /\ q > 1 /\ u[q].via = "cached"
                                           /\ u[q - 1].via = "cached" /\ u[q - 1].warm = FALSE
                                           /\ u[q - 1].access = u[q].access
                    /\ u[q].via = "cached" /\ u[q].op = "write" =>
                          q > 1 /\ u[q - 1].op = "write"
    BY DEF InOrder, u
<1>2. CASE q <= Len(s)
  <2>1. u[q] = s[q] /\ (q > 1 => u[q - 1] = s[q - 1]) /\ q \in 1 .. Len(s)
      BY <1>1, <1>2 DEF u
  <2> QED BY <2>1 DEF InOrder
<1>3. CASE q > Len(s)
  <2> DEFINE r == q - Len(s)
  <2>1. r \in 1 .. Len(t) /\ u[q] = t[r]
    <3>1. r \in 1 .. Len(t) /\ q = Len(s) + r
        BY <1>1, <1>3 DEF u
    <3> QED BY <1>1, <3>1 DEF u
  <2>2. r > 1 => q > 1 /\ u[q - 1] = t[r - 1]
    <3>1. ASSUME r > 1 PROVE r - 1 \in 1 .. Len(t) /\ q - 1 = Len(s) + (r - 1) /\ q > 1
        BY <1>1, <2>1, <3>1
    <3> QED BY <1>1, <3>1 DEF u
  <2>3. q = 1 => r = 1
      BY <1>1, <1>3
  <2>4. r = 1 \/ r > 1
      BY <1>1, <2>1
  <2> HIDE DEF r
  <2>5. CASE r = 1
      BY <2>1, <2>5 DEF InOrder
  <2>6. CASE r > 1
    <3>1. q # 1 /\ q > 1 /\ u[q - 1] = t[r - 1]
        BY <1>1, <2>2, <2>6
    <3>2. /\ t[r].warm = TRUE => /\ t[r].via = "cached"
                                 /\ t[r - 1].via = "cached" /\ t[r - 1].warm = FALSE
                                 /\ t[r - 1].access = t[r].access
          /\ t[r].via = "cached" /\ t[r].op = "write" => t[r - 1].op = "write"
        BY <2>1 DEF InOrder
    <3> QED BY <2>1, <3>1, <3>2, Zenon
  <2> QED BY <2>4, <2>5, <2>6
<1>4. q <= Len(s) \/ q > Len(s)
    BY <1>1 DEF u
<1> QED BY <1>2, <1>3, <1>4, Zenon

\* Each suite is in order.
LEMMA SuiteInOrder ==
    ASSUME NEW a \in {"seq", "rnd"}
    PROVE  Suite(a) \in Seq(Phases) /\ InOrder(Suite(a))
<1> DEFINE L(op, via, warm) == [access |-> a, op |-> op, via |-> via, warm |-> warm]
           reads == <<L("read", "direct", FALSE), L("read", "cached", FALSE),
                      L("read", "cached", TRUE)>>
           writes == <<L("write", "direct", FALSE), L("write", "cached", FALSE)>>
<1>1. Suite(a) = IF args.include_writes THEN reads \o writes ELSE reads
    BY DEF Suite
<1>2. reads \in Seq(Phases) /\ writes \in Seq(Phases)
    BY DEF Phases
<1>3. Len(reads) = 3 /\ Len(writes) = 2
    OBVIOUS
<1>4. InOrder(reads)
    BY <1>3 DEF InOrder
<1>5. InOrder(reads \o writes)
  <2> DEFINE w == reads \o writes
  <2>1. /\ Len(w) = 5
        /\ w[1] = L("read", "direct", FALSE) /\ w[2] = L("read", "cached", FALSE)
        /\ w[3] = L("read", "cached", TRUE)
        /\ w[4] = L("write", "direct", FALSE) /\ w[5] = L("write", "cached", FALSE)
    <3>1. /\ reads[1] = L("read", "direct", FALSE) /\ reads[2] = L("read", "cached", FALSE)
          /\ reads[3] = L("read", "cached", TRUE)
          /\ writes[1] = L("write", "direct", FALSE) /\ writes[2] = L("write", "cached", FALSE)
        OBVIOUS
    <3> HIDE DEF reads, writes, L
    <3>2. /\ Len(w) = Len(reads) + Len(writes)
          /\ \A i \in 1 .. Len(reads) + Len(writes) :
                w[i] = IF i <= Len(reads) THEN reads[i] ELSE writes[i - Len(reads)]
        BY <1>2, ConcatProperties, Zenon
    <3> HIDE DEF w
    <3>3. Len(w) = 5 /\ \A i \in 1 .. 5 : w[i] = IF i <= 3 THEN reads[i] ELSE writes[i - 3]
        BY <1>3, <3>2
    <3>4. /\ w[1] = reads[1] /\ w[2] = reads[2] /\ w[3] = reads[3]
          /\ w[4] = writes[1] /\ w[5] = writes[2]
        BY <3>3
    <3> QED BY <3>1, <3>3, <3>4
  <2> HIDE DEF w
  <2> QED BY <2>1 DEF InOrder, w
<1>6. reads \o writes \in Seq(Phases)
    BY <1>2
<1> QED BY <1>1, <1>2, <1>4, <1>5, <1>6

\* So the phases of a benchmark are in order.
LEMMA PhasesInOrder == BenchPhases \in Seq(Phases) /\ InOrder(BenchPhases)
<1>1. <<>> \in Seq(Phases) /\ InOrder(<<>>)
    BY DEF InOrder
<1> DEFINE s == IF args.mode \in {"sequential", "all"} THEN Suite("seq") ELSE <<>>
           t == IF args.mode \in {"random", "all"} THEN Suite("rnd") ELSE <<>>
<1>2. s \in Seq(Phases) /\ InOrder(s) /\ t \in Seq(Phases) /\ InOrder(t)
    BY <1>1, SuiteInOrder
<1>3. BenchPhases = s \o t
    BY DEF BenchPhases
<1> HIDE DEF s, t
<1> QED BY <1>2, <1>3, InOrderConcat

-----------------------------------------------------------------------------
(* The benchmark: its steps.                                               *)

AfterLoops == cmd_pc \in {"stop", "stopping"} \/ Leaving
Looping == cmd_pc \in {"enter", "run", "call"}

\* A step that starts no operation of a loop and continues none.
Quiet ==
    /\ UNCHANGED <<args, phase, idx, hits, older, free_list, pc, req, slot, victim, out>>
    /\ DOMAIN table' = DOMAIN table
    /\ \A l \in DOMAIN table : table'[l].pool_index = table[l].pool_index
    /\ \A l \in DOMAIN table : table'[l].dirty = table[l].dirty \/ table'[l].dirty = FALSE
    /\ \/ UNCHANGED cmd_pc
       \/ ~Looping /\ ~AfterLoops /\ cmd_pc' \notin {"run", "call"}
       \/ cmd_pc = "enter" /\ cmd_pc' = "run" /\ phase <= Len(BenchPhases)
       \/ (AfterLoops \/ cmd_pc \in {"enter", "run"}) /\ AfterLoops'
    /\ Leaving => Leaving'

\* What the owner and the flusher leave alone.
LEMMA OthersLeave ==
    ASSUME Start \/ Stop \/ Drop \/ Shutdown \/ FlusherThread \/ UNCHANGED vars
    PROVE  /\ UNCHANGED <<older, free_list, pc, req, slot, victim, out>>
           /\ DOMAIN table' = DOMAIN table
           /\ \A l \in DOMAIN table : table'[l].pool_index = table[l].pool_index
           /\ \A l \in DOMAIN table : table'[l].dirty = table[l].dirty
                                     \/ table'[l].dirty = FALSE
<1>1. UNCHANGED older
    BY DEF Start, Stop, Drop, Shutdown, ShutdownStore, ShutdownSend, ShutdownJoin, FlusherThread,
        FlNext, FlStep, FlReceive, FlTimeout, FlSnapshot, FlWrite, FlClean, FlSync, FlCheck,
        FlCheckRest, mark_clean, vars, tableVars
<1>2. UNCHANGED out
    BY DEF Start, Stop, Drop, Shutdown, ShutdownStore, ShutdownSend, ShutdownJoin, FlusherThread,
        vars, clientVars
<1> QED BY <1>1, <1>2, OthersQuiet

\* Every step is one of a loop, one of the engine for it, or quiet.
LEMMA BenchMoves ==
    ASSUME [CommandNext]_commandVars
    PROVE  \/ Quiet
           \/ DirectRead /\ Returned /\ Go("run")
           \/ NextLoop
           \/ \E c \in Clients : CachedOp(c) \/ CachedReturn(c)
           \/ EngineStep /\ \E c \in Clients : ClientStep(c)
<1>1. CASE Dispatch \/ Main \/ CtrlC \/ Stopped \/ Exit
  <2>1. UNCHANGED <<args, benchVars, vars>>
      BY <1>1 DEF Dispatch, Main, SetupStep, Validate, NewPool, QueryStat, QueryOpen, QueryIoctl,
          QueryClose, OpenDevice, NewSchedule, CtrlC, Stopped, Exit, Keep
  <2>2. /\ cmd_pc \in {"leave", "dropping", "exit", "stop", "stopping"} => AfterLoops'
        /\ cmd_pc' \notin {"run", "call"} /\ ~Looping
        /\ Leaving => Leaving'
      BY <1>1 DEF Dispatch, Main, SetupStep, Validate, NewPool, QueryStat, QueryOpen, QueryIoctl,
          QueryClose, OpenDevice, NewSchedule, CtrlC, Stopped, Exit, At, Go, Leave, Fails, Leaving,
          AfterLoops, Looping
  <2>3. AfterLoops => cmd_pc \in {"leave", "dropping", "exit", "stop", "stopping"}
      BY DEF AfterLoops, Leaving
  <2> QED BY <2>1, <2>2, <2>3, OthersLeave DEF Quiet, benchVars, Looping
<1>2. CASE StartEngine \/ StopEngine \/ DropEngine
  <2>1. UNCHANGED <<args, benchVars>> /\ (Start \/ Stop \/ Drop \/ UNCHANGED vars)
      BY <1>2 DEF StartEngine, StopEngine, DropEngine, Keep
  <2>2. /\ (cmd_pc = "start" /\ cmd_pc' \in {"enter", "signal"}) \/ (AfterLoops /\ AfterLoops')
        /\ Leaving => Leaving'
      BY <1>2 DEF StartEngine, StopEngine, DropEngine, At, Go, Leaving, AfterLoops
  <2> QED BY <2>1, <2>2, OthersLeave DEF Quiet, benchVars, Looping, AfterLoops, Leaving
<1>3. CASE DirectRead \/ DirectWrite
  <2> SUFFICES ASSUME ~(DirectRead /\ Returned /\ Go("run")) PROVE Quiet
      OBVIOUS
  <2>1. UNCHANGED <<args, benchVars, vars>> /\ cmd_pc = "run" /\ cmd_pc' = "leave"
      BY <1>3 DEF DirectRead, DirectWrite, InLoop, At, Leave
  <2> QED BY <2>1, OthersLeave DEF Quiet, benchVars, Looping, AfterLoops, Leaving
<1>4. CASE EngineStep /\ ~\E c \in Clients : ClientStep(c)
  <2>1. UNCHANGED <<args, cmd_pc, benchVars>> /\ (Shutdown \/ FlusherThread)
      BY <1>4 DEF EngineStep, setupVars
  <2> QED BY <2>1, OthersLeave DEF Quiet, benchVars, Leaving
<1>5. CASE UNCHANGED commandVars
    BY <1>5, OthersLeave DEF Quiet, commandVars, benchVars, setupVars, Leaving
<1>6. CASE EnterLoop \/ LastLoop
  <2>1. /\ UNCHANGED <<args, benchVars, vars>> /\ cmd_pc = "enter"
        /\ (cmd_pc' = "run" /\ phase <= Len(BenchPhases)) \/ cmd_pc' \in {"leave", "stop"}
      BY <1>6 DEF EnterLoop, LastLoop, At, Go, Leave, Fails
  <2> QED BY <2>1, OthersLeave DEF Quiet, benchVars, AfterLoops, Leaving
<1> QED BY <1>1, <1>2, <1>3, <1>4, <1>5, <1>6 DEF CommandNext, MainStep, BenchStep

\* The phases of a benchmark and the length of its loops are fixed by the command line.
LEMMA Fixed ==
    ASSUME UNCHANGED args
    PROVE  UNCHANGED <<BenchPhases, effective_count>>
BY DEF BenchPhases, Suite, effective_count

\* The phase that runs, and what InOrder says of it.
LEMMA LoopShape ==
    ASSUME ReadsInv, phase <= Len(BenchPhases)
    PROVE  /\ Loop \in Phases
           /\ phase = 1 => Loop.via = "direct" /\ Loop.op = "read" /\ Loop.warm = FALSE
           /\ Loop.warm = TRUE => /\ phase > 1 /\ Loop.via = "cached"
                                  /\ BenchPhases[phase - 1].via = "cached"
                                  /\ BenchPhases[phase - 1].warm = FALSE
                                  /\ BenchPhases[phase - 1].access = Loop.access
           /\ Loop.via = "cached" /\ Loop.op = "write" =>
                phase > 1 /\ BenchPhases[phase - 1].op = "write"
<1>1. phase \in 1 .. Len(BenchPhases)
    BY PhasesInOrder DEF ReadsInv
<1>2. Loop \in Phases
    BY <1>1, PhasesInOrder DEF Loop
<1> QED BY <1>1, <1>2, PhasesInOrder DEF InOrder, Loop

\* A cached loop that has something to do reads: the direct write loop before a cached
\* one is never left but by an error.
LEMMA OnlyReads ==
    ASSUME ReadsInv, ArgsInv, phase <= Len(BenchPhases), idx < effective_count,
           Loop.via = "cached"
    PROVE  Loop.op = "read"
<1>1. Loop.op \in {"read", "write"}
    BY LoopShape DEF Phases
<1>2. phase \in Nat \ {0} /\ Len(BenchPhases) \in Nat
    BY PhasesInOrder DEF ReadsInv
<1>3. idx \in Nat /\ effective_count \in Nat
    BY AddrInRange DEF ArgsInv
<1>4. \A q \in 1 .. (phase - 1) : q <= Len(BenchPhases) => BenchPhases[q].op = "read"
    BY <1>3 DEF ReadsInv
<1>5. phase > 1 => BenchPhases[phase - 1].op = "read"
    BY <1>2, <1>4
<1> QED BY <1>1, <1>5, LoopShape

\* An operation of a cached loop is a read of the next address, a hit or a miss.
LEMMA OpMoves ==
    ASSUME TypeInv, ReadsInv, ArgsInv, NEW c \in Clients, CachedOp(c)
    PROVE  /\ InLoop /\ CachedLoop /\ cmd_pc = "run" /\ cmd_pc' = "call"
           /\ Loop.op = "read" /\ Addr \in Lbas
           /\ UNCHANGED <<args, phase, idx, free_list, table>>
           /\ pc[c] = "idle"
           /\ req'[c].op = "read" /\ req'[c].lba = Addr
           /\ out'[c].status = "pending"
           /\ \/ Cached(Addr) /\ pc'[c] = "copy_out" /\ touch(Addr) /\ hits' = hits + 1
              \/ ~Cached(Addr) /\ pc'[c] = "alloc" /\ UNCHANGED <<older, hits>>
<1>1. /\ InLoop /\ Loop.via = "cached" /\ cmd_pc' = "call"
      /\ Request(c) /\ req'[c].op = Loop.op /\ req'[c].lba = Addr
      /\ hits' = (IF Cached(Addr) THEN hits + 1 ELSE hits)
      /\ UNCHANGED <<args, phase, idx>>
    BY DEF CachedOp, Go
<1>2. CachedLoop /\ cmd_pc = "run" /\ idx < effective_count
    BY <1>1 DEF InLoop, CachedLoop, At
<1>3. Loop.op = "read"
    BY <1>1, <1>2, OnlyReads DEF CachedLoop
<1>4. Addr \in Lbas /\ Addr # MaxLba
  <2>1. idx \in Nat
      BY DEF ArgsInv
  <2>2. Addr \in Lbas
      BY <1>2, <2>1, AddrInRange DEF Addr
  <2> QED BY <2>2, BlocksAssumption DEF Lbas
<1>5. /\ pc \in [Clients -> PCs] /\ req \in [Clients -> Requests]
      /\ out \in [Clients -> Outcomes]
    BY DEF TypeInv, TypeOK, EngineTypeOK
<1>6. ReadLookup(c)
  <2>1. ~Reject(c)
      BY <1>1, <1>3, <1>4, <1>5 DEF Reject, Begin
  <2>2. ~WriteLookup(c)
      BY <1>1, <1>3, <1>5 DEF WriteLookup, Begin
  <2> QED BY <1>1, <2>1, <2>2 DEF Request
<1>7. PICK l \in Lbas :
          /\ Begin(c, "read", l, 0)
          /\ \/ \E s \in Slots : get_and_touch(l, s) /\ Goto(c, "copy_out")
             \/ ~Cached(l) /\ Goto(c, "alloc") /\ UNCHANGED tableVars
    BY <1>6 DEF ReadLookup
<1>8. l = Addr /\ pc[c] = "idle"
    BY <1>1, <1>5, <1>7 DEF Begin
<1>9. UNCHANGED <<free_list, table>> /\ out'[c].status = "pending"
    BY <1>5, <1>6, <1>7 DEF ReadLookup, Pending, get_and_touch, poolVars, tableVars
<1>10. \/ Cached(Addr) /\ pc'[c] = "copy_out" /\ touch(Addr)
       \/ ~Cached(Addr) /\ pc'[c] = "alloc" /\ UNCHANGED older
    BY <1>5, <1>7, <1>8 DEF get_and_touch, Goto, tableVars
<1> QED BY <1>1, <1>2, <1>3, <1>4, <1>8, <1>9, <1>10

\* The steps of the engine inside such a read.
LEMMA StepMoves ==
    ASSUME TypeInv, RequestShape, CallInv, NEW c \in Clients, EngineStep, ClientStep(c)
    PROVE  /\ UNCHANGED <<args, cmd_pc, phase, idx, hits, req>>
           /\ cmd_pc = "call" /\ pc[c] # "idle"
           /\ \/ /\ UNCHANGED <<table, older>>
                 /\ \/ pc[c] = "alloc" /\ pc'[c] = "select" /\ Exhausted /\ UNCHANGED free_list
                    \/ pc[c] \in {"alloc", "realloc"} /\ pc'[c] = "fill"
                    \/ /\ pc[c] = "select" /\ pc'[c] = "evict_remove"
                       /\ victim'[c].lba \in OldestOf(DOMAIN table) /\ UNCHANGED free_list
                    \/ pc[c] = "evict_free" /\ pc'[c] = "realloc"
                    \/ pc[c] = "fill" /\ pc'[c] = "insert"
                    \/ pc[c] # "copy_out" /\ pc'[c] = "idle" /\ out'[c].status \in Errors
                    \/ pc[c] = "copy_out" /\ pc'[c] = "idle" /\ out'[c].status = "ok"
              \/ /\ pc[c] = "evict_remove" /\ pc'[c] = "evict_free"
                 /\ remove(victim[c].lba)
              \/ /\ pc[c] = "insert" /\ pc'[c] = "copy_out"
                 /\ insert(Addr, NewEntry(slot[c], FALSE))
<1>1. /\ pc \in [Clients -> PCs] /\ victim \in [Clients -> EvictionCandidate]
      /\ out \in [Clients -> Outcomes]
    BY DEF TypeInv, TypeOK, EngineTypeOK
<1>2. UNCHANGED <<args, cmd_pc, phase, idx, hits>>
    BY DEF EngineStep, setupVars, benchVars
<1>3. pc[c] # "idle" /\ UNCHANGED req
    BY DEF ClientStep, Allocate, Select, SelectRest, EvictWrite, EvictWake, EvictRemove, EvictFree,
        EvictFreeRest, Realloc, ReadFill, CopyIn, Insert, CopyOut, MarkDirty, Stats, WakeFlusher
<1>4. /\ cmd_pc = "call" /\ req[c].op = "read" /\ req[c].lba = Addr
      /\ pc[c] \notin {"evict_write", "evict_wake"}
    BY <1>3 DEF CallInv, At
<1>5. pc[c] \notin {"new_copy", "new_copying", "upd_copy", "upd_copying", "mark", "stats", "wake"}
    BY <1>4 DEF RequestShape, WritePCs
<1>6. CASE Allocate(c) \/ Realloc(c)
  <2>1. pc[c] \in {"alloc", "realloc"} /\ UNCHANGED <<table, older>>
      BY <1>6 DEF Allocate, Realloc, tableVars
  <2>2. CASE TakeSlot(c)
    <3>1. pc'[c] = "fill"
        BY <1>1, <1>4, <2>2 DEF TakeSlot, Goto
    <3> QED BY <1>2, <1>3, <1>4, <2>1, <3>1
  <2>3. CASE Allocate(c) /\ ~TakeSlot(c)
    <3>1. pc[c] = "alloc" /\ pc'[c] = "select" /\ Exhausted /\ UNCHANGED free_list
        BY <1>1, <2>3 DEF Allocate, Goto
    <3> QED BY <1>2, <1>3, <1>4, <2>1, <3>1
  <2>4. CASE Realloc(c) /\ ~TakeSlot(c)
    <3>1. pc'[c] = "idle" /\ out'[c].status \in Errors
        BY <1>1, <2>4 DEF Realloc, Return, Errors
    <3> QED BY <1>2, <1>3, <1>4, <2>1, <3>1
  <2> QED BY <1>6, <2>2, <2>3, <2>4
<1>7. CASE Select(c)
  <2>1. pc[c] = "select" /\ UNCHANGED <<table, older, free_list>>
      BY <1>7 DEF Select, SelectRest, tableVars, poolVars
  <2>2. CASE Return(c, "Internal", Zero)
      BY <1>1, <1>2, <1>3, <1>4, <2>1, <2>2 DEF Return, Errors
  <2>3. ASSUME NEW l \in select_eviction_candidate, Choose(c, l, Dirty(l))
        PROVE  pc'[c] = "evict_remove" /\ victim'[c].lba \in OldestOf(DOMAIN table)
    <3>1. {k \in DOMAIN table : ~Dirty(k)} = DOMAIN table
        BY DEF CallInv
    <3>2. select_eviction_candidate = OldestOf(DOMAIN table)
        BY <3>1 DEF select_eviction_candidate
    <3>3. l \in DOMAIN table /\ ~Dirty(l)
        BY <2>3, <3>2 DEF OldestOf, CallInv
    <3> QED BY <1>1, <2>3, <3>2, <3>3 DEF Choose, Goto
  <2> QED BY <1>2, <1>3, <1>4, <1>7, <2>1, <2>2, <2>3 DEF Select
<1>8. CASE EvictRemove(c) \/ EvictFree(c)
    BY <1>1, <1>2, <1>3, <1>4, <1>8 DEF EvictRemove, EvictFree, EvictFreeRest, Goto, tableVars
<1>9. CASE ReadFill(c) \/ CopyOut(c)
  <2>1. UNCHANGED <<table, older>>
      BY <1>9 DEF ReadFill, CopyOut, tableVars
  <2>2. \/ pc[c] = "fill" /\ pc'[c] = "insert"
        \/ pc[c] # "copy_out" /\ pc'[c] = "idle" /\ out'[c].status \in Errors
        \/ pc[c] = "copy_out" /\ pc'[c] = "idle" /\ out'[c].status = "ok"
      BY <1>1, <1>9 DEF ReadFill, CopyOut, Goto, Return, Errors
  <2> QED BY <1>2, <1>3, <1>4, <2>1, <2>2
<1>10. CASE Insert(c)
    BY <1>1, <1>2, <1>3, <1>4, <1>10 DEF Insert, Goto
<1>11. CASE EvictWrite(c) \/ EvictWake(c) \/ CopyIn(c) \/ MarkDirty(c) \/ Stats(c)
            \/ WakeFlusher(c)
    BY <1>4, <1>5, <1>11 DEF EvictWrite, EvictWake, CopyIn, MarkDirty, Stats, WakeFlusher
<1> QED BY <1>6, <1>7, <1>8, <1>9, <1>10, <1>11 DEF ClientStep

\* The loop goes on after a read that succeeds, and is left after one that fails.
LEMMA ReturnMoves ==
    ASSUME NEW c \in Clients, CachedReturn(c)
    PROVE  /\ UNCHANGED <<args, phase, hits, table, older, free_list, pc, req, slot, victim, out>>
           /\ cmd_pc = "call" /\ pc[c] = "idle"
           /\ \/ out[c].status = "ok" /\ cmd_pc' = "run" /\ idx' = idx + 1
              \/ out[c].status # "ok" /\ cmd_pc' = "leave" /\ idx' = idx
BY DEF CachedReturn, At, Go, Leave, Returned, benchVars, vars, tableVars, poolVars, clientVars

\* A loop ends when all of it is done.
LEMMA NextLoopMoves ==
    ASSUME ReadsInv, ArgsInv, NextLoop
    PROVE  /\ UNCHANGED <<args, table, older, free_list, pc, req, slot, victim, out>>
           /\ cmd_pc = "run"
           /\ phase <= Len(BenchPhases) /\ idx = effective_count
           /\ cmd_pc' = "enter" /\ phase' = phase + 1 /\ idx' = 0 /\ hits' = 0
<1>1. idx \in Nat /\ idx <= effective_count /\ effective_count \in Nat
    BY BlocksAssumption DEF ArgsInv, ReadsInv, effective_count
<1>2. cmd_pc = "run" /\ phase <= Len(BenchPhases)
    BY DEF NextLoop, At, ReadsInv
<1> QED BY <1>1, <1>2 DEF NextLoop, InLoop, At, Go, vars, tableVars, poolVars, clientVars

\* Every loop keeps ReadsInv.
LEMMA ReadsStep ==
    TypeInv /\ ArgsInv /\ RequestShape /\ CallInv /\ ReadsInv /\ [CommandNext]_commandVars => ReadsInv'
<1> SUFFICES ASSUME TypeInv, ArgsInv, RequestShape, CallInv, ReadsInv, [CommandNext]_commandVars
             PROVE  ReadsInv'
    OBVIOUS
<1>1. idx \in Nat /\ effective_count \in Nat /\ phase \in Nat \ {0} /\ Len(BenchPhases) \in Nat
    BY BlocksAssumption, PhasesInOrder DEF ArgsInv, ReadsInv, effective_count
<1>2. CASE Quiet \/ \E c \in Clients : CachedOp(c) \/ (EngineStep /\ ClientStep(c))
  <2>1. UNCHANGED <<args, phase, idx>>
      BY <1>2, OpMoves, StepMoves DEF Quiet
  <2>2. /\ cmd_pc' \in {"enter", "run", "call", "stop", "stopping"} \/ Leaving' \/ phase' = 1
        /\ cmd_pc' \in {"run", "call"} => phase <= Len(BenchPhases)
      BY <1>2, <2>1, OpMoves, StepMoves DEF Quiet, ReadsInv, AfterLoops, Looping, Leaving, CachedLoop
  <2> QED BY <2>1, <2>2, Fixed DEF ReadsInv, Loop
<1>3. CASE DirectRead /\ Returned /\ Go("run")
  <2>1. /\ UNCHANGED <<args, phase>> /\ idx' = idx + 1 /\ idx < effective_count
        /\ cmd_pc' = "run" /\ phase <= Len(BenchPhases)
      BY <1>3 DEF DirectRead, Returned, InLoop, Go
  <2>2. Loop.op = "read"
      BY <1>3 DEF DirectRead
  <2>3. Loop' = Loop
      BY <2>1, Fixed DEF Loop
  <2> QED BY <1>1, <2>1, <2>2, <2>3, Fixed DEF ReadsInv
<1>4. CASE NextLoop
  <2>1. /\ UNCHANGED args /\ phase <= Len(BenchPhases) /\ idx = effective_count
        /\ cmd_pc' = "enter" /\ phase' = phase + 1 /\ idx' = 0
      BY <1>4, NextLoopMoves
  <2>2. effective_count > 0 => Loop.op = "read"
    <3>1. Loop.op \in {"read", "write"}
        BY <2>1, LoopShape DEF Phases
    <3> QED BY <1>1, <2>1, <3>1 DEF ReadsInv
  <2>3. ASSUME effective_count > 0, NEW q \in 1 .. phase
        PROVE  BenchPhases[q].op = "read"
    <3>1. CASE q = phase
        BY <2>2, <2>3, <3>1 DEF Loop
    <3>2. CASE q \in 1 .. (phase - 1)
        BY <1>1, <2>1, <2>3, <3>2 DEF ReadsInv
    <3> QED BY <1>1, <3>1, <3>2
  <2>4. \A q \in 1 .. (phase' - 1) : q \in 1 .. phase
      BY <1>1, <2>1
  <2> QED BY <1>1, <2>1, <2>3, <2>4, Fixed DEF ReadsInv
<1>5. ASSUME NEW c \in Clients, CachedReturn(c) PROVE ReadsInv'
  <2>1. UNCHANGED <<args, phase>> /\ cmd_pc = "call" /\ cmd_pc' \in {"run", "leave"}
        /\ idx' \in {idx, idx + 1}
      BY <1>5, ReturnMoves
  <2>2. idx < effective_count /\ Loop.op = "read"
      BY <2>1 DEF CallInv, At
  <2>3. Loop' = Loop
      BY <2>1, Fixed DEF Loop
  <2> QED BY <1>1, <2>1, <2>2, <2>3, Fixed DEF ReadsInv, Leaving
<1> QED BY <1>2, <1>3, <1>4, <1>5, BenchMoves

\* Exhausted speaks of the free list only.
LEMMA ExhaustedSame == ASSUME UNCHANGED free_list PROVE Exhausted' <=> Exhausted
BY DEF Exhausted

\* The engine is used by the loops only, and every step keeps CallInv.
LEMMA CallStep ==
    ASSUME SingleClient
    PROVE  TypeInv /\ ArgsInv /\ RequestShape /\ ReadsInv /\ CallInv /\ [CommandNext]_commandVars
             => CallInv'
<1> SUFFICES ASSUME TypeInv, ArgsInv, RequestShape, ReadsInv, CallInv, [CommandNext]_commandVars
             PROVE  CallInv'
    OBVIOUS
<1>1. CASE Quiet
  <2>1. UNCHANGED <<args, phase, idx, older, free_list, pc, req, victim>>
        /\ DOMAIN table' = DOMAIN table /\ (At("call")' <=> At("call"))
      BY <1>1 DEF Quiet, At, Looping, AfterLoops, Leaving
  <2>2. Addr' = Addr /\ Loop' = Loop /\ (At("call") => (CachedLoop' <=> CachedLoop))
      BY <2>1, Fixed DEF Addr, AddrAt, Loop, CachedLoop, At
  <2>3. \A l \in DOMAIN table' : ~Dirty(l)'
    <3>1. ASSUME NEW l \in DOMAIN table' PROVE ~Dirty(l)'
      <4>1. l \in DOMAIN table /\ ~table[l].dirty
          BY <2>1, <3>1 DEF CallInv, Dirty, Cached
      <4>2. table'[l].dirty = table[l].dirty \/ table'[l].dirty = FALSE
          BY <1>1, <4>1 DEF Quiet
      <4> QED BY <4>1, <4>2, Zenon DEF Dirty, Cached
    <3> QED BY <3>1
  <2>4. \A c \in Clients :
            /\ pc'[c] \notin {"evict_write", "evict_wake"}
            /\ pc'[c] \in {"select", "evict_remove"} => Exhausted'
            /\ pc'[c] = "evict_remove" => victim'[c].lba \in OldestOf(DOMAIN table)'
      BY <2>1, ExhaustedSame DEF CallInv, OldestOf
  <2>5. /\ \A c \in Clients : pc'[c] # "idle" => At("call")'
        /\ At("call")' => /\ CachedLoop' /\ Loop'.op = "read" /\ idx' < effective_count'
                          /\ \A c \in Clients : req'[c].op = "read" /\ req'[c].lba = Addr'
      BY <2>1, <2>2, Fixed DEF CallInv
  <2> QED BY <2>3, <2>4, <2>5 DEF CallInv
<1>2. CASE (DirectRead /\ Returned /\ Go("run")) \/ NextLoop
           \/ \E c \in Clients : CachedReturn(c)
  <2>1. UNCHANGED <<table, pc>> /\ ~At("call")' /\ \A c \in Clients : pc[c] = "idle"
    <3>1. CASE DirectRead /\ Returned /\ Go("run")
        BY <3>1 DEF DirectRead, InLoop, Go, At, CallInv, vars, tableVars, clientVars
    <3>2. CASE NextLoop
        BY <3>2, NextLoopMoves DEF At, CallInv
    <3>3. ASSUME NEW c \in Clients, CachedReturn(c)
          PROVE  UNCHANGED <<table, pc>> /\ ~At("call")' /\ \A d \in Clients : pc[d] = "idle"
        BY <3>3, ReturnMoves DEF At, SingleClient
    <3> QED BY <1>2, <3>1, <3>2, <3>3
  <2>2. \A l \in DOMAIN table' : ~Dirty(l)'
      BY <2>1 DEF CallInv, Dirty, Cached
  <2> QED BY <2>1, <2>2 DEF CallInv
<1>3. ASSUME NEW c \in Clients, CachedOp(c) PROVE CallInv'
  <2>1. /\ InLoop /\ CachedLoop /\ cmd_pc' = "call" /\ Loop.op = "read"
        /\ UNCHANGED <<args, phase, idx, table>>
        /\ req'[c].op = "read" /\ req'[c].lba = Addr
        /\ pc'[c] \in {"copy_out", "alloc"}
      BY <1>3, OpMoves
  <2>2. Addr' = Addr /\ Loop' = Loop /\ CachedLoop' /\ idx' < effective_count'
      BY <2>1, Fixed DEF Addr, AddrAt, Loop, CachedLoop, InLoop
  <2>3. \A d \in Clients : d = c
      BY DEF SingleClient
  <2>4. \A l \in DOMAIN table' : ~Dirty(l)'
      BY <2>1 DEF CallInv, Dirty, Cached
  <2> QED BY <2>1, <2>2, <2>3, <2>4 DEF CallInv, At
<1>4. ASSUME NEW c \in Clients, EngineStep, ClientStep(c) PROVE CallInv'
  <2>1. /\ UNCHANGED <<args, cmd_pc, phase, idx, req>> /\ cmd_pc = "call"
        /\ pc'[c] \notin {"evict_write", "evict_wake"}
        /\ pc'[c] \in {"select", "evict_remove"} => Exhausted /\ UNCHANGED free_list
        /\ pc'[c] = "evict_remove" =>
             UNCHANGED <<table, older>> /\ victim'[c].lba \in OldestOf(DOMAIN table)
        /\ \/ UNCHANGED table
           \/ remove(victim[c].lba)
           \/ insert(Addr, NewEntry(slot[c], FALSE))
    <3>1. pc[c] = "select" => Exhausted
        BY DEF CallInv
    <3> QED BY <1>4, <3>1, StepMoves
  <2>2. Addr' = Addr /\ Loop' = Loop /\ (CachedLoop' <=> CachedLoop) /\ (At("call")' <=> At("call"))
      BY <2>1, Fixed DEF Addr, AddrAt, Loop, CachedLoop, At
  <2>3. \A d \in Clients : d = c
      BY DEF SingleClient
  <2>4. \A l \in DOMAIN table' : ~Dirty(l)'
    <3>1. CASE UNCHANGED table
        BY <3>1 DEF CallInv, Dirty, Cached
    <3>2. CASE remove(victim[c].lba)
        BY <3>2 DEF CallInv, Dirty, Cached, remove
    <3>3. CASE insert(Addr, NewEntry(slot[c], FALSE))
        BY <3>3 DEF CallInv, Dirty, Cached, insert, NewEntry
    <3> QED BY <2>1, <3>1, <3>2, <3>3
  <2>5. At("call") /\ CachedLoop /\ Loop.op = "read" /\ idx < effective_count
        /\ \A d \in Clients : req[d].op = "read" /\ req[d].lba = Addr
      BY <2>1 DEF CallInv, At
  <2>6. /\ pc'[c] \in {"select", "evict_remove"} => Exhausted'
        /\ pc'[c] = "evict_remove" => victim'[c].lba \in OldestOf(DOMAIN table)'
      BY <2>1, ExhaustedSame DEF OldestOf
  <2> QED BY <2>1, <2>2, <2>3, <2>4, <2>5, <2>6, Fixed DEF CallInv
<1> QED BY <1>1, <1>2, <1>3, <1>4, BenchMoves

\* A block is lost only by a read that fails, and no read follows it.
LEMMA UnlessFailedStep ==
    ASSUME SingleClient
    PROVE  TypeInv /\ OwnerInv /\ ArgsInv /\ RequestShape /\ ReadsInv /\ CallInv /\ UnlessFailed
             /\ [CommandNext]_commandVars => UnlessFailed'
<1> SUFFICES ASSUME TypeInv, OwnerInv, ArgsInv, RequestShape, ReadsInv, CallInv, UnlessFailed,
                    [CommandNext]_commandVars
             PROVE  UnlessFailed'
    OBVIOUS
<1>1. CASE Quiet
  <2>1. CASE Failed
      BY <1>1, <2>1 DEF UnlessFailed, Failed, Quiet, At, Leaving, AfterLoops, Looping
  <2>2. CASE NoLeakInv
    <3>1. /\ UNCHANGED <<free_list, pc, req, slot, victim>>
          /\ DOMAIN table' = DOMAIN table
          /\ \A l \in DOMAIN table : table'[l].pool_index = table[l].pool_index
        BY <1>1 DEF Quiet
    <3>2. \A s, l : Backs(s, l)' <=> Backs(s, l)
        BY <3>1 DEF Backs, Cached
    <3>3. \A s : Free(s)' <=> Free(s)
        BY <3>1 DEF Free
    <3>4. NoSlotLost'
        BY <2>2, <3>1, <3>2, <3>3 DEF NoLeakInv, NoSlotLost, Filling
    <3>5. MissHolds'
        BY <2>2, <3>1 DEF NoLeakInv, MissHolds, Cached
    <3> QED BY <3>4, <3>5 DEF UnlessFailed, NoLeakInv
  <2> QED BY <2>1, <2>2 DEF UnlessFailed
<1>2. CASE (DirectRead /\ Returned /\ Go("run")) \/ NextLoop
  <2>1. cmd_pc = "run" /\ UNCHANGED vars
      BY <1>2 DEF DirectRead, NextLoop, InLoop, At
  <2>2. NoLeakInv
      BY <2>1 DEF UnlessFailed, Failed, At, Leaving
  <2> QED BY <2>1, <2>2, LeakOthers DEF UnlessFailed
<1>3. ASSUME NEW c \in Clients, CachedReturn(c) PROVE UnlessFailed'
  <2>1. /\ UNCHANGED vars /\ cmd_pc = "call" /\ pc[c] = "idle"
        /\ cmd_pc' = "leave" \/ out[c].status = "ok"
      BY <1>3, ReturnMoves DEF CachedReturn
  <2>2. CASE cmd_pc' = "leave"
      BY <2>2 DEF UnlessFailed, Failed, Leaving
  <2>3. CASE out[c].status = "ok"
    <3>1. \A d \in Clients : out[d].status # "Io"
        BY <2>3 DEF SingleClient
    <3>2. NoLeakInv
        BY <2>1, <3>1 DEF UnlessFailed, Failed, Leaving
    <3> QED BY <2>1, <3>2, LeakOthers DEF UnlessFailed
  <2> QED BY <2>1, <2>2, <2>3
<1>4. ASSUME NEW c \in Clients, CachedOp(c) \/ (EngineStep /\ ClientStep(c)) PROVE UnlessFailed'
  <2>1. cmd_pc' = "call" /\ (cmd_pc = "run" \/ (cmd_pc = "call" /\ pc[c] # "idle"))
      BY <1>4, OpMoves, StepMoves
  <2>2. ~Failed
      BY <2>1 DEF Failed, At, Leaving, SingleClient
  <2>3. OwnerOne(c) /\ LeakOne(c)
      BY <2>2, OwnerInvOne, LeakInvOne DEF UnlessFailed
  <2>4. Request(c) \/ ClientStep(c)
      BY <1>4 DEF CachedOp
  <2>5. LeakOne(c)' \/ (pc'[c] = "idle" /\ out'[c].status = "Io")
      BY <2>3, <2>4, LeakClient
  <2>6. NoLeakInv' <=> LeakOne(c)'
      BY LeakInvOne, PTL
  <2> QED BY <2>1, <2>5, <2>6 DEF UnlessFailed, Failed, At
<1> QED BY <1>1, <1>2, <1>3, <1>4, BenchMoves

-----------------------------------------------------------------------------
(* The benchmark: what is cached.                                          *)

\* The removal of the oldest entry keeps whatever is younger than an entry that stays.
LEMMA EvictKeepsOrder ==
    ASSUME NEW v \in OldestOf(DOMAIN table), remove(v), NEW l, NEW m, Cached(l)',
           Cached(l) => Cached(m) /\ <<l, m>> \in older
    PROVE  Cached(m)' /\ <<l, m>> \in older'
<1>1. l \in DOMAIN table /\ l # v
    BY DEF remove, Cached
<1>2. m \in DOMAIN table /\ <<l, m>> \in older
    BY <1>1 DEF Cached
<1>3. v \in DOMAIN table /\ <<l, v>> \notin older
    BY <1>1 DEF OldestOf
<1>4. m # v
    BY <1>2, <1>3
<1>5. <<l, m>> \in Forget(v)
    BY <1>1, <1>2, <1>4 DEF Forget
<1> QED BY <1>2, <1>4, <1>5 DEF remove, Cached

\* With a clock that has advanced, touch() puts an entry behind all the others.
LEMMA SharpTouch ==
    ASSUME ~CoarseClock, NEW l, touch(l)
    PROVE  older' = Forget(l) \cup ((DOMAIN table \ {l}) \X {l})
BY DEF touch

\* An access makes its block the youngest and leaves the order of the others alone.
LEMMA AccessOrders ==
    ASSUME ~CoarseClock, NEW x, touch(x), DOMAIN table' = DOMAIN table \cup {x}, NEW l, NEW m, l # x,
           Cached(l)', m = x \/ (Cached(l) => Cached(m) /\ <<l, m>> \in older)
    PROVE  Cached(m)' /\ <<l, m>> \in older'
<1>1. l \in DOMAIN table
    BY DEF Cached
<1>2. CASE m = x
    BY <1>1, <1>2, SharpTouch DEF Cached
<1>3. CASE m # x
  <2>1. m \in DOMAIN table /\ <<l, m>> \in Forget(x)
      BY <1>1, <1>3 DEF Cached, Forget
  <2> QED BY <2>1, SharpTouch DEF Cached
<1> QED BY <1>2, <1>3

Before == IF Loop.warm THEN effective_count ELSE 0

\* How many accesses have been made, and which one is next.
AccessFacts(c) ==
    /\ Before \in Nat /\ idx \in Nat /\ effective_count \in Nat
    /\ Accesses = IF /\ cmd_pc = "call"
                     /\ pc[c] = "copy_out" \/ (pc[c] = "idle" /\ out[c].status = "ok")
                    THEN idx + Before + 1 ELSE idx + Before
    /\ idx < effective_count => Access(idx + Before) = Addr

\* With one client, Accesses counts the accesses so far.
LEMMA AccessCount ==
    ASSUME SingleClient, NEW c \in Clients
    PROVE  ArgsInv /\ ReadsInv => AccessFacts(c)
<1> SUFFICES ASSUME ArgsInv, ReadsInv PROVE AccessFacts(c)
    OBVIOUS
<1>1. idx \in Nat /\ effective_count \in Nat
    BY BlocksAssumption DEF ArgsInv, effective_count
<1>2. Before \in Nat
    BY <1>1 DEF Before
<1>3. Touched <=> pc[c] = "copy_out" \/ (pc[c] = "idle" /\ out[c].status = "ok")
    BY DEF Touched, SingleClient
<1>4. Accesses = IF /\ cmd_pc = "call"
                    /\ pc[c] = "copy_out" \/ (pc[c] = "idle" /\ out[c].status = "ok")
                   THEN idx + Before + 1 ELSE idx + Before
    BY <1>1, <1>2, <1>3 DEF Accesses, Before, At
<1>5. ASSUME idx < effective_count PROVE Access(idx + Before) = Addr
    BY <1>1, <1>5 DEF Access, Addr, Before
<1> QED BY <1>1, <1>2, <1>4, <1>5 DEF AccessFacts

\* The order of the accesses does not depend on anything but the command line and
\* the pattern of the loop.
LEMMA SinceSame ==
    ASSUME UNCHANGED <<args, Accesses>>, Loop'.access = Loop.access, NEW l, NEW m, Since(l, m)'
    PROVE  Since(l, m)
BY Fixed DEF Since, Access, AddrAt

\* After one more access, its block has been accessed since any other.
LEMMA SinceNext ==
    ASSUME UNCHANGED args, Loop'.access = Loop.access, Accesses \in Nat,
           Accesses' = Accesses + 1, NEW l, NEW m, Since(l, m)'
    PROVE  l # Access(Accesses) /\ (m = Access(Accesses) \/ Since(l, m))
<1>1. \A i : Access(i)' = Access(i)
    BY Fixed DEF Access, AddrAt
<1>2. PICK j \in 0 .. Accesses : Access(j) = m /\ \A i \in j .. Accesses : Access(i) # l
    BY <1>1 DEF Since
<1>3. l # Access(Accesses)
    BY <1>2
<1>4. CASE j = Accesses
    BY <1>2, <1>3, <1>4
<1>5. CASE j # Accesses
    BY <1>2, <1>3, <1>5 DEF Since
<1> QED BY <1>4, <1>5

\* What a step does to a cached loop: it begins, its next access is made, the oldest
\* entry makes room for it, or nothing changes.
SamePattern == CachedLoop /\ UNCHANGED args /\ Loop'.access = Loop.access
Begins == Accesses' = 0
Idles == SamePattern /\ UNCHANGED <<Accesses, older>> /\ DOMAIN table' = DOMAIN table
Evicts(c) == /\ SamePattern /\ UNCHANGED Accesses
             /\ cmd_pc = "call" /\ pc[c] = "evict_remove" /\ Accesses = idx + Before
             /\ victim[c].lba \in OldestOf(DOMAIN table) /\ remove(victim[c].lba)
MakesAccess == /\ SamePattern /\ Accesses' = Accesses + 1
               /\ Accesses \in Nat /\ Access(Accesses) = Addr
               /\ touch(Addr) /\ DOMAIN table' = DOMAIN table \cup {Addr}

\* Every step is one of these.
LEMMA AccessMoves ==
    ASSUME SingleClient, NEW c \in Clients, TypeInv, ArgsInv, RequestShape, ReadsInv, CallInv,
           [CommandNext]_commandVars, ArgsInv', ReadsInv', CachedLoop'
    PROVE  Begins \/ Idles \/ Evicts(c) \/ MakesAccess
<1>1. \A d \in Clients : d = c
    BY DEF SingleClient
<1>2. AccessFacts(c)
    BY AccessCount
<1>3. AccessFacts(c)'
  <2>1. ArgsInv' /\ ReadsInv' => AccessFacts(c)'
      BY AccessCount, PTL
  <2> QED BY <2>1
<1>4. UNCHANGED <<args, phase>> => UNCHANGED <<Loop, Before, effective_count>>
    BY Fixed DEF Loop, Before
<1>5. CASE Quiet
  <2>1. UNCHANGED <<args, phase, idx, older, pc, out>> /\ DOMAIN table' = DOMAIN table
      BY <1>5 DEF Quiet
  <2>2. UNCHANGED <<Loop, Before>> /\ UNCHANGED BenchPhases
      BY <1>4, <2>1, Fixed
  <2>3. UNCHANGED cmd_pc \/ (cmd_pc = "enter" /\ cmd_pc' = "run")
    <3> SUFFICES ASSUME cmd_pc' # cmd_pc, ~(cmd_pc = "enter" /\ cmd_pc' = "run") PROVE FALSE
        OBVIOUS
    <3>1. ~Looping /\ ~AfterLoops
        BY <1>5 DEF Quiet, CachedLoop, AfterLoops, Leaving
    <3>2. phase = 1
        BY <3>1 DEF ReadsInv, Looping, AfterLoops
    <3>3. Loop.via = "direct"
        BY <2>1, <2>2, <3>2, LoopShape DEF CachedLoop
    <3> QED BY <2>2, <3>3 DEF CachedLoop
  <2>4. CachedLoop
      BY <2>1, <2>2, <2>3 DEF CachedLoop
  <2>5. UNCHANGED Accesses
      BY <1>2, <1>3, <2>1, <2>2, <2>3 DEF AccessFacts
  <2> QED BY <2>1, <2>2, <2>4, <2>5 DEF Idles, SamePattern
<1>6. CASE DirectRead /\ Returned /\ Go("run")
  <2>1. Loop.via = "direct" /\ UNCHANGED <<args, phase>>
      BY <1>6 DEF DirectRead, Returned
  <2> QED BY <1>4, <2>1 DEF CachedLoop
<1>7. CASE NextLoop
  <2>1. UNCHANGED <<args, older, table>> /\ cmd_pc = "run"
      BY <1>7, NextLoopMoves
  <2>2. /\ phase <= Len(BenchPhases) /\ idx = effective_count
        /\ cmd_pc' = "enter" /\ phase' = phase + 1 /\ idx' = 0
      BY <1>7, NextLoopMoves
  <2>3. UNCHANGED <<BenchPhases, effective_count>>
      BY <2>1, Fixed
  <2>4. Accesses' = Before'
    <3>1. cmd_pc' # "call" /\ idx' = 0
        BY <2>2
    <3> QED BY <1>3, <3>1 DEF AccessFacts
  <2>5. CASE Loop'.warm = FALSE
    <3>1. Before' = 0
        BY <2>5 DEF Before
    <3> QED BY <2>4, <3>1 DEF Begins
  <2>6. CASE Loop'.warm = TRUE
    <3>1. phase \in Nat \ {0} /\ phase + 1 \in 1 .. Len(BenchPhases) /\ Loop' = BenchPhases[phase + 1]
      <4>1. phase' <= Len(BenchPhases')
          BY DEF CachedLoop
      <4> QED BY <2>2, <2>3, <4>1, PhasesInOrder DEF Loop, ReadsInv
    <3>2. Loop.via = "cached" /\ Loop.warm = FALSE /\ Loop.access = Loop'.access
      <4>1. /\ BenchPhases[(phase + 1) - 1].via = "cached"
            /\ BenchPhases[(phase + 1) - 1].warm = FALSE
            /\ BenchPhases[(phase + 1) - 1].access = BenchPhases[phase + 1].access
          BY <2>6, <3>1, PhasesInOrder DEF InOrder
      <4>2. (phase + 1) - 1 = phase
          BY <3>1
      <4> QED BY <3>1, <4>1, <4>2 DEF Loop
    <3>3. Before = 0 /\ Before' = effective_count
        BY <2>3, <2>6, <3>2 DEF Before
    <3>4. Accesses = effective_count /\ Accesses' = effective_count
        BY <1>2, <2>1, <2>2, <2>4, <3>3 DEF AccessFacts
    <3> QED BY <2>1, <2>2, <3>2, <3>4 DEF Idles, SamePattern, CachedLoop
  <2>7. Loop'.warm \in BOOLEAN
    <3>1. phase + 1 \in 1 .. Len(BenchPhases) /\ Loop' = BenchPhases[phase + 1]
      <4>1. phase' <= Len(BenchPhases')
          BY DEF CachedLoop
      <4> QED BY <2>2, <2>3, <4>1, PhasesInOrder DEF Loop, ReadsInv
    <3>2. Loop' \in Phases
        BY <3>1, PhasesInOrder
    <3> QED BY <3>2 DEF Phases
  <2> QED BY <2>5, <2>6, <2>7
<1>8. CASE CachedReturn(c)
  <2>1. /\ UNCHANGED <<args, phase, table, older, pc, out>>
        /\ cmd_pc = "call" /\ pc[c] = "idle" /\ out[c].status = "ok"
        /\ cmd_pc' = "run" /\ idx' = idx + 1
      BY <1>8, ReturnMoves DEF CachedLoop
  <2>2. UNCHANGED <<Loop, Before>>
      BY <1>4, <2>1
  <2>3. CachedLoop
      BY <2>1 DEF CallInv, At
  <2>4. UNCHANGED Accesses
      BY <1>2, <1>3, <2>1, <2>2 DEF AccessFacts
  <2> QED BY <2>1, <2>2, <2>3, <2>4 DEF Idles, SamePattern
<1>9. CASE CachedOp(c)
  <2>1. /\ UNCHANGED <<args, phase, idx, table>> /\ cmd_pc = "run" /\ cmd_pc' = "call"
        /\ CachedLoop /\ idx < effective_count
        /\ \/ Cached(Addr) /\ pc'[c] = "copy_out" /\ touch(Addr)
           \/ pc'[c] = "alloc" /\ UNCHANGED older
      BY <1>9, OpMoves DEF InLoop
  <2>2. UNCHANGED <<Loop, Before>>
      BY <1>4, <2>1
  <2>3. CASE Cached(Addr) /\ pc'[c] = "copy_out" /\ touch(Addr)
    <3>1. Accesses' = Accesses + 1 /\ Accesses \in Nat /\ Access(Accesses) = Addr
        BY <1>2, <1>3, <2>1, <2>2, <2>3 DEF AccessFacts
    <3>2. DOMAIN table' = DOMAIN table \cup {Addr}
        BY <2>1, <2>3 DEF Cached
    <3> QED BY <2>1, <2>2, <2>3, <3>1, <3>2 DEF MakesAccess, SamePattern
  <2>4. CASE pc'[c] = "alloc" /\ UNCHANGED older
    <3>1. UNCHANGED Accesses
        BY <1>2, <1>3, <2>1, <2>2, <2>4 DEF AccessFacts
    <3> QED BY <2>1, <2>2, <2>4, <3>1 DEF Idles, SamePattern
  <2> QED BY <2>1, <2>3, <2>4
<1>10. CASE EngineStep /\ ClientStep(c)
  <2>1. /\ UNCHANGED <<args, cmd_pc, phase, idx>> /\ cmd_pc = "call" /\ pc[c] # "idle"
      BY <1>10, StepMoves
  <2>2. UNCHANGED <<Loop, Before>>
      BY <1>4, <2>1
  <2>3. CachedLoop /\ idx < effective_count
      BY <2>1 DEF CallInv, At
  <2>4. CASE /\ UNCHANGED <<table, older>>
             /\ \/ pc[c] = "copy_out" /\ pc'[c] = "idle" /\ out'[c].status = "ok"
                \/ /\ pc[c] # "copy_out" /\ pc'[c] # "copy_out"
                   /\ pc'[c] = "idle" => out'[c].status # "ok"
    <3>1. UNCHANGED Accesses
        BY <1>2, <1>3, <2>1, <2>2, <2>4 DEF AccessFacts
    <3> QED BY <2>1, <2>2, <2>3, <2>4, <3>1 DEF Idles, SamePattern
  <2>5. CASE pc[c] = "evict_remove" /\ pc'[c] = "evict_free" /\ remove(victim[c].lba)
    <3>1. UNCHANGED Accesses /\ Accesses = idx + Before
        BY <1>2, <1>3, <2>1, <2>2, <2>5 DEF AccessFacts
    <3> QED BY <2>1, <2>2, <2>3, <2>5, <3>1 DEF Evicts, SamePattern, CallInv
  <2>6. CASE /\ pc[c] = "insert" /\ pc'[c] = "copy_out"
             /\ insert(Addr, NewEntry(slot[c], FALSE))
    <3>1. Accesses' = Accesses + 1 /\ Accesses \in Nat /\ Access(Accesses) = Addr
        BY <1>2, <1>3, <2>1, <2>2, <2>3, <2>6 DEF AccessFacts
    <3>2. touch(Addr) /\ DOMAIN table' = DOMAIN table \cup {Addr}
        BY <2>6 DEF insert
    <3> QED BY <2>1, <2>2, <2>3, <3>1, <3>2 DEF MakesAccess, SamePattern
  <2> QED BY <1>10, <2>4, <2>5, <2>6, StepMoves DEF Errors
<1> QED BY <1>1, <1>5, <1>6, <1>7, <1>8, <1>9, <1>10, BenchMoves

\* The stack property of LRU, for loops of any pattern and length.
LEMMA StackStep ==
    ASSUME ~CoarseClock, SingleClient, NEW c \in Clients
    PROVE  TypeInv /\ ArgsInv /\ RequestShape /\ ReadsInv /\ CallInv /\ StackInv
             /\ ArgsInv' /\ ReadsInv' /\ [CommandNext]_commandVars => StackInv'
<1> SUFFICES ASSUME TypeInv, ArgsInv, RequestShape, ReadsInv, CallInv, StackInv,
                    ArgsInv', ReadsInv', [CommandNext]_commandVars, CachedLoop',
                    NEW l \in Lbas, NEW m \in Lbas, Cached(l)', Since(l, m)'
             PROVE  Cached(m)' /\ <<l, m>> \in older'
    BY DEF StackInv
<1>1. CASE Begins
    BY <1>1 DEF Begins, Since
<1>2. CASE Idles
  <2>1. Cached(l) /\ Since(l, m)
      BY <1>2, SinceSame DEF Idles, SamePattern, Cached
  <2> QED BY <1>2, <2>1 DEF StackInv, Idles, SamePattern, Cached
<1>3. CASE Evicts(c)
  <2>1. Since(l, m)
      BY <1>3, SinceSame DEF Evicts, SamePattern
  <2>2. Cached(l) => Cached(m) /\ <<l, m>> \in older
      BY <1>3, <2>1 DEF StackInv, Evicts, SamePattern
  <2> QED BY <1>3, <2>2, EvictKeepsOrder DEF Evicts
<1>4. CASE MakesAccess
  <2>1. l # Addr /\ (m = Addr \/ Since(l, m))
      BY <1>4, SinceNext DEF MakesAccess, SamePattern
  <2>2. m = Addr \/ (Cached(l) => Cached(m) /\ <<l, m>> \in older)
      BY <1>4, <2>1 DEF StackInv, MakesAccess, SamePattern
  <2> QED BY <1>4, <2>1, <2>2, AccessOrders DEF MakesAccess
<1> QED BY <1>1, <1>2, <1>3, <1>4, AccessMoves

\* An access is one to a block of the loop.
LEMMA AccessUsed ==
    ASSUME effective_count \in Nat, NEW i \in Nat, i < effective_count + effective_count
    PROVE  Access(i) \in Used
BY DEF Access, Used

\* The blocks of a loop are finitely many blocks of the device.
LEMMA UsedFinite ==
    ASSUME ArgsInv
    PROVE  IsFiniteSet(Used) /\ Cardinality(Used) \in Nat
<1>1. Used \in SUBSET Lbas
  <2>1. ASSUME NEW i \in 0 .. (effective_count - 1) PROVE AddrAt(i) \in Lbas
    <3>1. effective_count \in Nat
        BY BlocksAssumption DEF ArgsInv, effective_count
    <3>2. i \in Nat /\ i < effective_count
        BY <3>1
    <3> QED BY <3>2, AddrInRange
  <2> QED BY <2>1 DEF Used
<1>2. IsFiniteSet(Lbas)
    BY BlocksAssumption, FS_Interval DEF Lbas
<1> QED BY <1>1, <1>2, FS_Subset, FS_CardinalityType

\* An eviction for a loop whose blocks fit in the pool finds an entry that the loop
\* has not accessed: the table is full, and if the oldest entry were one of the
\* loop's all entries would be, beside the block that is not cached.
LEMMA EvictsOthers ==
    ASSUME TypeInv, ArgsInv, ReadsInv, CallInv, StackInv, FitInv,
           NEW c \in Clients, AccessFacts(c), LeakOne(c), Evicts(c),
           Cardinality(Used) <= Capacity,
           NEW j \in 0 .. (Accesses - 1)
    PROVE  Access(j) # victim[c].lba
<1> DEFINE v == victim[c].lba
<1> SUFFICES ASSUME Access(j) = v PROVE FALSE
    OBVIOUS
<1>1. /\ CachedLoop /\ cmd_pc = "call" /\ pc[c] = "evict_remove" /\ Accesses = idx + Before
      /\ v \in OldestOf(DOMAIN table)
    BY DEF Evicts, SamePattern
<1>2. /\ idx \in Nat /\ effective_count \in Nat /\ idx < effective_count
      /\ Before \in {0, effective_count}
    BY <1>1 DEF AccessFacts, CallInv, At, Before
<1>3. DOMAIN table \subseteq Lbas /\ v \in DOMAIN table
    BY <1>1 DEF TypeInv, TypeOK, TableTypeOK, OldestOf
<1>4. ASSUME NEW l \in DOMAIN table PROVE l \in Used
  <2> SUFFICES ASSUME l \notin Used PROVE FALSE
      OBVIOUS
  <2>1. \A i \in 0 .. (Accesses - 1) : Access(i) \in Used
    <3>1. ASSUME NEW i \in 0 .. (Accesses - 1) PROVE Access(i) \in Used
      <4>1. i \in Nat /\ i < effective_count + effective_count
          BY <1>1, <1>2
      <4> QED BY <1>2, <4>1, AccessUsed
    <3> QED BY <3>1
  <2>2. \A i \in j .. (Accesses - 1) : Access(i) # l
    <3>1. \A i \in j .. (Accesses - 1) : i \in 0 .. (Accesses - 1)
        BY <1>1, <1>2
    <3> QED BY <2>1, <3>1
  <2>3. Since(l, v)
      BY <2>2 DEF Since
  <2>4. <<l, v>> \in older
      BY <1>1, <1>3, <2>3 DEF StackInv, Cached
  <2> QED BY <1>1, <2>4 DEF OldestOf
<1>5. Addr \in Used /\ Addr \notin DOMAIN table
  <2>1. req[c].lba = Addr
      BY <1>1 DEF CallInv, At
  <2>2. Addr \notin DOMAIN table
      BY <1>1, <2>1 DEF LeakOne, MissPCs
  <2> QED BY <1>2, <2>2 DEF Addr, Used
<1>6. Capacity <= Cardinality(DOMAIN table)
    BY <1>1, FullTable DEF CallInv, Filling
<1>7. Cardinality(DOMAIN table \cup {Addr}) = Cardinality(DOMAIN table) + 1
    BY <1>5, CountFacts, FS_AddElement
<1>8. DOMAIN table \cup {Addr} \in SUBSET Used
    BY <1>4, <1>5
<1>9. Cardinality(DOMAIN table \cup {Addr}) <= Cardinality(Used)
    BY <1>8, UsedFinite, FS_Subset
<1> QED BY <1>6, <1>7, <1>9, CountFacts, UsedFinite, CapacityAssumption

\* A loop whose blocks fit keeps them.
LEMMA FitStep ==
    ASSUME SingleClient, NEW c \in Clients
    PROVE  TypeInv /\ ArgsInv /\ RequestShape /\ ReadsInv /\ CallInv /\ UnlessFailed
             /\ StackInv /\ FitInv /\ ArgsInv' /\ ReadsInv' /\ [CommandNext]_commandVars => FitInv'
<1> SUFFICES ASSUME TypeInv, ArgsInv, RequestShape, ReadsInv, CallInv, UnlessFailed,
                    StackInv, FitInv, ArgsInv', ReadsInv', [CommandNext]_commandVars, CachedLoop',
                    Cardinality(Used') <= Capacity, NEW j \in 0 .. (Accesses' - 1)
             PROVE  Access(j)' \in DOMAIN table'
    BY DEF FitInv, Cached
<1>1. CASE Begins
    BY <1>1 DEF Begins
<1>2. CASE ~Begins
  <2>1. SamePattern
      BY <1>2, AccessMoves DEF Idles, Evicts, MakesAccess
  <2>2. Access(j)' = Access(j)
      BY <2>1, Fixed DEF SamePattern, Access, AddrAt
  <2>3. Used' = Used
      BY <2>1, Fixed DEF SamePattern, Used, AddrAt
  <2>4. \A i \in 0 .. (Accesses - 1) : Cached(Access(i))
      BY <2>1, <2>3 DEF FitInv, SamePattern
  <2>5. CASE Idles
      BY <2>2, <2>4, <2>5 DEF Idles, Cached
  <2>6. CASE MakesAccess
    <3>1. j = Accesses \/ j \in 0 .. (Accesses - 1)
        BY <2>6 DEF MakesAccess
    <3> QED BY <2>2, <2>4, <2>6, <3>1 DEF MakesAccess, Cached
  <2>7. CASE Evicts(c)
    <3>1. ~Failed
        BY <2>7 DEF Failed, Evicts, Leaving, At, SingleClient
    <3>2. LeakOne(c)
        BY <3>1, LeakInvOne DEF UnlessFailed
    <3>3. j \in 0 .. (Accesses - 1)
        BY <2>7 DEF Evicts
    <3>4. AccessFacts(c)
        BY AccessCount
    <3>5. Access(j) # victim[c].lba
        BY <2>3, <2>7, <3>2, <3>3, <3>4, EvictsOthers
    <3> QED BY <2>2, <2>4, <2>7, <3>3, <3>5 DEF Evicts, remove, Cached
  <2> QED BY <1>2, <2>5, <2>6, <2>7, AccessMoves
<1> QED BY <1>1, <1>2

\* Entries of the table have blocks of their own, so there are no more of them.
LEMMA TableFits ==
    ASSUME TypeInv, OwnerInv
    PROVE  Cardinality(DOMAIN table) <= Capacity
<1> DEFINE g == [l \in DOMAIN table |-> table[l].pool_index]
<1>1. g \in Injection(DOMAIN table, Slots)
  <2>1. table \in [DOMAIN table -> CacheEntry]
      BY DEF TypeInv, TypeOK, TableTypeOK
  <2>2. g \in [DOMAIN table -> Slots]
      BY <2>1 DEF CacheEntry
  <2>3. \A k, l \in DOMAIN table : g[k] = g[l] => k = l
      BY DEF OwnerInv, OneOwner
  <2> QED BY <2>2, <2>3 DEF Injection, IsInjective
<1>2. IsFiniteSet(Slots) /\ Cardinality(Slots) = Capacity
    BY CapacityAssumption, FS_Interval DEF Slots
<1> QED BY <1>1, <1>2, FS_Injection

\* In a repeated sequential loop over more blocks than the pool has, the next block is
\* never cached: if it were, so would be all others, accessed since.
LEMMA SequentialMisses ==
    ASSUME TypeInv, OwnerInv, ArgsInv, ReadsInv, StackInv, NEW c \in Clients, AccessFacts(c),
           CachedLoop, cmd_pc = "run", idx < effective_count, Loop.warm, Loop.access = "seq",
           effective_count > Capacity
    PROVE  ~Cached(Addr)
<1> SUFFICES ASSUME Cached(Addr) PROVE FALSE
    OBVIOUS
<1> DEFINE n == effective_count
<1>1. idx \in Nat /\ n \in Nat /\ Accesses = idx + n /\ Addr = idx
    BY DEF AccessFacts, Before, Addr, AddrAt
<1>2. \A i \in Nat : Access(i) = IF i < n THEN i ELSE i - n
    BY DEF Access, AddrAt
<1>3. \A i \in 0 .. (n - 1) : i \in Lbas
    BY <1>1, AddrInRange DEF AddrAt
<1> HIDE DEF n
<1>4. ASSUME NEW m \in 0 .. (n - 1), m # idx PROVE Since(idx, m)
  <2>1. CASE m > idx
    <3>1. m \in 0 .. (Accesses - 1) /\ Access(m) = m
        BY <1>1, <1>2
    <3>2. \A i \in m .. (Accesses - 1) : Access(i) # idx
        BY <1>1, <1>2, <2>1
    <3> QED BY <3>1, <3>2 DEF Since
  <2>2. CASE m < idx
    <3>1. n + m \in 0 .. (Accesses - 1) /\ Access(n + m) = m
        BY <1>1, <1>2, <2>2
    <3>2. \A i \in (n + m) .. (Accesses - 1) : Access(i) # idx
        BY <1>1, <1>2, <2>2
    <3> QED BY <3>1, <3>2 DEF Since
  <2> QED BY <1>1, <1>4, <2>1, <2>2
<1>5. \A m \in 0 .. (n - 1) : m \in DOMAIN table
  <2>1. idx \in Lbas
      BY <1>1, <1>3 DEF n
  <2> QED BY <1>1, <1>3, <1>4, <2>1 DEF StackInv, Cached
<1>6. Cardinality(0 .. (n - 1)) = n
    BY <1>1, CapacityAssumption, FS_Interval DEF n
<1>7. 0 .. (n - 1) \in SUBSET DOMAIN table
    BY <1>5
<1>8. n <= Cardinality(DOMAIN table)
    BY <1>6, <1>7, CountFacts, FS_Subset
<1> QED BY <1>1, <1>8, TableFits, CountFacts, CapacityAssumption DEF n

\* The hits of a repeated loop are all of its operations or none.
LEMMA HitStep ==
    ASSUME SingleClient, NEW c \in Clients
    PROVE  TypeInv /\ OwnerInv /\ ArgsInv /\ RequestShape /\ ReadsInv /\ CallInv
             /\ StackInv /\ FitInv /\ HitInv /\ ReadsInv' /\ [CommandNext]_commandVars => HitInv'
<1> SUFFICES ASSUME TypeInv, OwnerInv, ArgsInv, RequestShape, ReadsInv, CallInv, StackInv,
                    FitInv, HitInv, ReadsInv', [CommandNext]_commandVars,
                    CachedLoop', Loop'.warm
             PROVE  /\ Cardinality(Used') <= Capacity =>
                         hits' = idx' + (IF At("call")' THEN 1 ELSE 0)
                    /\ Loop'.access = "seq" /\ effective_count' > Capacity => hits' = 0
    BY DEF HitInv
<1>1. AccessFacts(c)
    BY AccessCount
<1>2. \A d \in Clients : d = c
    BY DEF SingleClient
<1>3. ASSUME UNCHANGED <<args, phase>>
      PROVE  UNCHANGED <<Loop, effective_count, Used, BenchPhases>>
    BY <1>3, Fixed DEF Loop, Used, AddrAt
<1>4. CASE Quiet
  <2>1. UNCHANGED <<args, phase, idx, hits>>
      BY <1>4 DEF Quiet
  <2>2. UNCHANGED cmd_pc \/ (cmd_pc = "enter" /\ cmd_pc' = "run")
    <3> SUFFICES ASSUME cmd_pc' # cmd_pc, ~(cmd_pc = "enter" /\ cmd_pc' = "run") PROVE FALSE
        OBVIOUS
    <3>1. ~Looping /\ ~AfterLoops
        BY <1>4 DEF Quiet, CachedLoop, AfterLoops, Leaving
    <3>2. phase = 1
        BY <3>1 DEF ReadsInv, Looping, AfterLoops
    <3>3. Loop.via = "direct"
        BY <1>3, <2>1, <3>2, LoopShape DEF CachedLoop
    <3> QED BY <1>3, <2>1, <3>3 DEF CachedLoop
  <2>3. CachedLoop
      BY <1>3, <2>1, <2>2 DEF CachedLoop
  <2> QED BY <1>3, <2>1, <2>2, <2>3 DEF HitInv, At
<1>5. CASE DirectRead /\ Returned /\ Go("run")
  <2>1. Loop.via = "direct" /\ UNCHANGED <<args, phase>>
      BY <1>5 DEF DirectRead, Returned
  <2> QED BY <1>3, <2>1 DEF CachedLoop
<1>6. CASE NextLoop
  <2>1. cmd_pc' = "enter" /\ idx' = 0 /\ hits' = 0
      BY <1>6, NextLoopMoves
  <2> QED BY <2>1 DEF At
<1>7. CASE CachedReturn(c)
  <2>1. /\ UNCHANGED <<args, phase, hits>> /\ cmd_pc = "call"
        /\ cmd_pc' = "run" /\ idx' = idx + 1
      BY <1>7, ReturnMoves DEF CachedLoop
  <2>2. CachedLoop
      BY <2>1 DEF CallInv, At
  <2> QED BY <1>3, <2>1, <2>2 DEF HitInv, At
<1>8. CASE EngineStep /\ ClientStep(c)
  <2>1. UNCHANGED <<args, phase, hits, cmd_pc, idx>>
      BY <1>8, StepMoves
  <2>2. CachedLoop
      BY <1>3, <2>1 DEF CachedLoop
  <2> QED BY <1>3, <2>1, <2>2 DEF HitInv, At
<1>9. CASE CachedOp(c)
  <2>1. /\ UNCHANGED <<args, phase, idx>> /\ cmd_pc = "run" /\ cmd_pc' = "call"
        /\ CachedLoop /\ idx < effective_count
        /\ \/ Cached(Addr) /\ hits' = hits + 1
           \/ ~Cached(Addr) /\ hits' = hits
      BY <1>9, OpMoves DEF InLoop
  <2>2. Loop.warm
      BY <1>3, <2>1
  <2>3. ASSUME Cardinality(Used) <= Capacity PROVE hits' = idx' + 1
    <3>1. hits = idx + 0
        BY <2>1, <2>2, <2>3 DEF HitInv, At
    <3>2. idx \in 0 .. (Accesses - 1) /\ Access(idx) = Addr
        BY <1>1, <2>1, <2>2 DEF AccessFacts, Before, Access, Addr
    <3>3. Cached(Addr)
        BY <2>1, <2>3, <3>2 DEF FitInv
    <3> QED BY <1>1, <2>1, <3>1, <3>3 DEF AccessFacts
  <2>4. ASSUME Loop.access = "seq", effective_count > Capacity PROVE hits' = 0
    <3>1. hits = 0
        BY <2>1, <2>2, <2>4 DEF HitInv
    <3>2. ~Cached(Addr)
        BY <1>1, <2>1, <2>2, <2>4, SequentialMisses
    <3> QED BY <2>1, <3>1, <3>2
  <2> QED BY <1>3, <2>1, <2>3, <2>4 DEF At
<1> QED BY <1>2, <1>4, <1>5, <1>6, <1>7, <1>8, <1>9, BenchMoves

LoopInv == /\ TypeInv /\ OwnerInv /\ RequestShape
           /\ ArgsInv /\ ReadsInv /\ CallInv /\ UnlessFailed

BenchInv == LoopInv /\ StackInv /\ FitInv /\ HitInv

\* No loop runs and nothing is cached at first.
LEMMA LoopStarts == CommandInit => LoopInv
<1> SUFFICES ASSUME CommandInit PROVE LoopInv
    OBVIOUS
<1>1. Init /\ BenchInit /\ cmd_pc = "dispatch"
    BY DEF CommandInit
<1>2. /\ TypeInv /\ OwnerInv /\ RequestShape /\ ArgsInv /\ NoLeakInv
    BY <1>1, TypeInit, OwnerInit, ShapeInit, LeakInit, ArgsStarts
<1>3. ReadsInv
  <2>1. effective_count \in Nat
      BY <1>2, BlocksAssumption DEF ArgsInv, effective_count
  <2> QED BY <1>1, <2>1 DEF BenchInit, ReadsInv
<1>4. CallInv
    BY <1>1 DEF Init, TableInit, CallInv, At
<1> QED BY <1>2, <1>3, <1>4 DEF LoopInv, UnlessFailed

LEMMA BenchStarts == CommandInit => BenchInv
<1> SUFFICES ASSUME CommandInit PROVE BenchInv
    OBVIOUS
<1>1. ~CachedLoop
    BY DEF CommandInit, CachedLoop
<1> QED BY <1>1, LoopStarts DEF BenchInv, StackInv, FitInv, HitInv

\* Every step of the program keeps what the benchmark rests on.
LEMMA LoopStep ==
    ASSUME SingleClient
    PROVE  LoopInv /\ [CommandNext]_commandVars => LoopInv'
<1> SUFFICES ASSUME LoopInv, [CommandNext]_commandVars PROVE LoopInv'
    OBVIOUS
<1>1. [Next]_vars
    BY EngineInside
<1>2. TypeInv' /\ RequestShape'
    BY <1>1, TypeStep, ShapeStep DEF LoopInv
<1>3. OwnerInv'
    BY <1>1, OwnerStep DEF LoopInv
<1>4. ArgsInv' /\ ReadsInv' /\ CallInv'
    BY ArgsStep, ReadsStep, CallStep DEF LoopInv
<1>5. UnlessFailed'
    BY UnlessFailedStep DEF LoopInv
<1> QED BY <1>2, <1>3, <1>4, <1>5 DEF LoopInv

LEMMA BenchStepInv ==
    ASSUME ~CoarseClock, NEW main, Clients = {main}
    PROVE  BenchInv /\ [CommandNext]_commandVars => BenchInv'
<1> SUFFICES ASSUME BenchInv, [CommandNext]_commandVars PROVE BenchInv'
    OBVIOUS
<1>1. SingleClient /\ main \in Clients
    BY DEF SingleClient
<1>2. LoopInv'
    BY <1>1, LoopStep DEF BenchInv
<1>3. StackInv' /\ FitInv' /\ HitInv'
    BY <1>1, <1>2, StackStep, FitStep, HitStep DEF BenchInv, LoopInv
<1> QED BY <1>2, <1>3 DEF BenchInv

\* Only the operation that ends a benchmark can lose a block of the pool: whatever fails,
\* for every pool, device and sequence of operations, and also for a coarse clock, the
\* pool is whole before every operation and at stop().
THEOREM LeakEndsBenchmark ==
    ASSUME SingleClient
    PROVE  CommandSpec => []LostBlockEndsBench
<1>1. ASSUME LoopInv PROVE LostBlockEndsBench
  <2> SUFFICES ASSUME Built, ~At("call") PROVE NoSlotLost
      BY DEF LostBlockEndsBench
  <2>1. ~Failed
      BY DEF Built, Failed, Leaving, At
  <2> QED BY <1>1, <2>1 DEF LoopInv, UnlessFailed, NoLeakInv
<1>2. LoopInv /\ [CommandNext]_commandVars => LoopInv'
    BY LoopStep
<1> QED BY <1>1, <1>2, LoopStarts, PTL DEF CommandSpec

\* When the warm loops of a benchmark are warm, for every pool, device, block count and
\* sequence of random words, whatever fails: a repeated loop hits on all operations
\* if its blocks fit in the pool, and a longer sequential one on none.  The clock is
\* assumed to advance between two accesses, which a block is copied between.
THEOREM WarmLoopsHit ==
    ASSUME ~CoarseClock, NEW main, Clients = {main}
    PROVE  CommandSpec => []WarmHits
<1>1. ASSUME BenchInv PROVE WarmHits
  <2> SUFFICES ASSUME At("run"), phase <= Len(BenchPhases), Loop.warm, idx = effective_count
               PROVE  /\ Cardinality(Used) <= Capacity => hits = effective_count
                      /\ Loop.access = "seq" /\ effective_count > Capacity => hits = 0
      BY DEF WarmHits, Used
  <2>1. CachedLoop
      BY <1>1, LoopShape DEF BenchInv, LoopInv, CachedLoop, At
  <2>2. idx \in Nat
      BY <1>1 DEF BenchInv, LoopInv, ArgsInv
  <2> QED BY <1>1, <2>1, <2>2 DEF BenchInv, HitInv, At
<1>2. BenchInv /\ [CommandNext]_commandVars => BenchInv'
    BY BenchStepInv
<1> QED BY <1>1, <1>2, BenchStarts, PTL DEF CommandSpec
=============================================================================
