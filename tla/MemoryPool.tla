----------------------------- MODULE MemoryPool -----------------------------
(***************************************************************************)
(* memory/pool.rs: a fixed number of equally sized blocks carved out of    *)
(* one allocation, handed out through a LIFO free list.  Only the free     *)
(* list is behind a mutex (each operator below is one critical section);   *)
(* the block memory is not behind any lock.                                *)
(***************************************************************************)
EXTENDS Blocks, Sequences

CONSTANT Capacity    \* MemoryPool::capacity, total_size / block_size

ASSUME CapacityAssumption == Capacity \in Nat \ {0}

VARIABLES free_list,   \* Vec<usize>: the indices nobody owns
          mem          \* what each block of the backing buffer holds

poolVars == <<free_list, mem>>

Slots == 0 .. (Capacity - 1)
NoSlot == -1

PoolTypeOK == /\ free_list \in Seq(Slots)
              /\ mem \in [Slots -> Contents]

\* MemoryPool::new: every block is free, the backing buffer is zeroed.
PoolInit == /\ free_list = [i \in 1 .. Capacity |-> i - 1]
            /\ mem = [s \in Slots |-> Zero]

\* allocate() fails with PoolExhausted when there is nothing to pop.
Exhausted == free_list = <<>>

\* allocate(): Vec::pop, s is the index it returns.
allocate(s) == /\ ~Exhausted
               /\ s = free_list[Len(free_list)]
               /\ free_list' = SubSeq(free_list, 1, Len(free_list) - 1)

\* deallocate(): Vec::push, with no check that the index was allocated.
deallocate(s) == free_list' = Append(free_list, s)

\* A copy or a DMA transfer into block s, through the raw pointer that
\* allocate() and get_block() hand out.
Fill(s, d) == mem' = [mem EXCEPT ![s] = d]
=============================================================================
