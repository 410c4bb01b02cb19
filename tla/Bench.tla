------------------------------- MODULE Bench -------------------------------
(***************************************************************************)
(* bench/runner.rs, bench/sequential.rs and bench/random.rs: the phases of *)
(* run_benchmarks, each a loop of reads or writes that goes either to the  *)
(* device through a descriptor of its own or through the engine.  The      *)
(* main thread is the engine's only client.  Timing and reports are left   *)
(* out.                                                                    *)
(***************************************************************************)
EXTENDS Setup, CacheEngine

VARIABLES phase,   \* index of the phase that runs
          idx,     \* operations of it that have returned
          hits     \* its cache hits (cached writes: updates) so far

benchVars == <<phase, idx, hits>>

BenchInit == phase = 1 /\ idx = 0 /\ hits = 0

\* The loops of one access pattern, three or five.
Suite(access) ==
    LET Loop(op, via, warm) == [access |-> access, op |-> op, via |-> via, warm |-> warm]
        reads == <<Loop("read", "direct", FALSE), Loop("read", "cached", FALSE),
                   Loop("read", "cached", TRUE)>>
        writes == <<Loop("write", "direct", FALSE), Loop("write", "cached", FALSE)>>
    IN  IF args.include_writes THEN reads \o writes ELSE reads

BenchPhases == (IF args.mode \in {"sequential", "all"} THEN Suite("seq") ELSE <<>>)
               \o (IF args.mode \in {"random", "all"} THEN Suite("rnd") ELSE <<>>)

\* Mutant: the count is not clamped to the device.
effective_count_asked == args.block_count

\* max_lba: blocks on the device, a value of args.dev_blocks.
effective_count == IF args.block_count < args.dev_blocks
                     THEN args.block_count ELSE args.dev_blocks

Loop == BenchPhases[phase]
InLoop == At("run") /\ phase <= Len(BenchPhases) /\ idx < effective_count

\* Rng::gen_range(0..n) brings a word of the generator into a range that is not
\* empty; it panics on one that is.
gen_range(w, n) == w % n

\* The address of operation i: generate_random_lbas() gives every random loop
\* the same sequence, since all use one seed.
AddrAt(i) == IF Loop.access = "seq" THEN i ELSE gen_range(args.rnd[i], args.dev_blocks)
Addr == AddrAt(idx)

\* generate_random_lbas() would draw an address from 0..0.
DrawsFromNothing == Loop.access = "rnd" /\ effective_count > 0 /\ args.dev_blocks = 0

\* The head of a loop function: the addresses, then the AlignedBuffer.
EnterLoop ==
    /\ At("enter")
    /\ phase <= Len(BenchPhases)
    /\ IF DrawsFromNothing THEN Leave("panic")
                           ELSE Go("run") \/ Fails("alloc", "Allocation")
    /\ UNCHANGED <<args, caller, fds, pool_blocks, benchVars>>
    /\ UNCHANGED vars

Returned == idx' = idx + 1 /\ UNCHANGED <<phase, hits>>

\* read_lba on the direct descriptor; past the end of the device it fails.
DirectRead ==
    /\ InLoop
    /\ Loop.via = "direct" /\ Loop.op = "read"
    /\ \/ Addr \in Lbas /\ Returned /\ Go("run")
       \/ /\ Addr \notin Lbas \/ "pread" \in Faults
          /\ Leave("Io") /\ UNCHANGED benchVars
    /\ UNCHANGED <<args, caller, fds, pool_blocks>>
    /\ UNCHANGED vars

\* write_lba on the direct descriptor, which run_benchmarks has opened with
\* O_RDONLY: the first pwrite fails.
DirectWrite ==
    /\ InLoop
    /\ Loop.via = "direct" /\ Loop.op = "write"
    /\ Leave("Io")
    /\ UNCHANGED <<args, caller, fds, pool_blocks, benchVars>>
    /\ UNCHANGED vars

\* engine.read or engine.write: the lookup decides whether it is a hit.
CachedOp(c) ==
    /\ InLoop
    /\ Loop.via = "cached"
    /\ Request(c)
    /\ req'[c].op = Loop.op /\ req'[c].lba = Addr
    /\ hits' = IF Cached(Addr) THEN hits + 1 ELSE hits
    /\ Go("call")
    /\ UNCHANGED <<phase, idx, args, caller, fds, pool_blocks>>

\* Mutant: a failed operation is counted and the loop goes on.
CachedReturnGoesOn(c) ==
    /\ At("call")
    /\ pc[c] = "idle"
    /\ Returned /\ Go("run")
    /\ UNCHANGED <<args, caller, fds, pool_blocks>>
    /\ UNCHANGED vars

\* The engine returns: Ok, or an error that ends the benchmark.
CachedReturn(c) ==
    /\ At("call")
    /\ pc[c] = "idle"
    /\ \/ out[c].status = "ok" /\ Returned /\ Go("run")
       \/ out[c].status # "ok" /\ Leave(out[c].status) /\ UNCHANGED benchVars
    /\ UNCHANGED <<args, caller, fds, pool_blocks>>
    /\ UNCHANGED vars

\* The loop is done.
NextLoop ==
    /\ At("run")
    /\ ~InLoop
    /\ phase' = phase + 1 /\ idx' = 0 /\ hits' = 0
    /\ Go("enter")
    /\ UNCHANGED <<args, caller, fds, pool_blocks>>
    /\ UNCHANGED vars

\* stop() follows the last loop.
LastLoop ==
    /\ At("enter")
    /\ phase > Len(BenchPhases)
    /\ Go("stop")
    /\ UNCHANGED <<args, caller, fds, pool_blocks, benchVars>>
    /\ UNCHANGED vars

BenchStep == EnterLoop \/ DirectRead \/ DirectWrite \/ NextLoop \/ LastLoop
             \/ \E c \in Clients : CachedOp(c) \/ CachedReturn(c)
=============================================================================
