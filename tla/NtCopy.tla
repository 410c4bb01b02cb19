------------------------------- MODULE NtCopy -------------------------------
(***************************************************************************)
(* asm/nontemporal.rs and asm/fence.rs: nt_memcpy, the copy of a caller's  *)
(* payload into a pool block, at the grain of its stores.                  *)
(*                                                                         *)
(* Memory is counted in the 16-byte words that one MOVNTDQ stores.  Such a *)
(* store is weakly ordered: it waits in a write-combining buffer and       *)
(* reaches memory later, in any order (the processor, external).  SFENCE   *)
(* ends when every earlier store is visible.  Prefetches change nothing,   *)
(* and the source is a shared slice that nobody writes to.                 *)
(***************************************************************************)
EXTENDS Integers

CONSTANTS PoolWords,   \* words of the pool's backing buffer
          Base,        \* the word at which the destination block begins
          Len,         \* words to copy: block_size / 16
          Old          \* what memory holds before

\* CHUNK_SIZE: four words, one cache line.
ChunkWords == 4

\* validate() makes block_size a multiple of a page, so of a chunk.
ASSUME NtCopyAssumption == /\ PoolWords \in Nat /\ Base \in Nat /\ Len \in Nat
                           /\ Len % ChunkWords = 0
                           /\ Base + Len <= PoolWords
                           /\ Old \notin Nat

VARIABLES i,         \* the chunk the loop is in
          k,         \* stores of it that have been issued
          wc,        \* words written to that are still in a buffer
          words,     \* what memory holds
          copy_pc    \* "loop", "fence" or "returned"

copyVars == <<i, k, wc, words, copy_pc>>

Words == 0 .. (PoolWords - 1)
Dst == Base .. (Base + Len - 1)

\* Word w of the source, all different.
Src(w) == w

CopyTypeOK == /\ i \in Nat /\ k \in 0 .. (ChunkWords - 1)
              /\ wc \subseteq Words
              /\ words \in [Words -> Nat \cup {Old}]
              /\ copy_pc \in {"loop", "fence", "returned"}

CopyInit == /\ i = 0 /\ k = 0
            /\ wc = {}
            /\ words = [w \in Words |-> Old]
            /\ copy_pc = "loop"

num_chunks == Len \div ChunkWords

\* The word of the source, and of the block, that is stored next.
Offset == i * ChunkWords + k

\* Mutant: the loop runs for one chunk too many.
StreamInclusive ==
    /\ copy_pc = "loop"
    /\ i <= num_chunks
    /\ wc' = wc \cup {Base + Offset}
    /\ IF k = ChunkWords - 1 THEN i' = i + 1 /\ k' = 0 ELSE i' = i /\ k' = k + 1
    /\ UNCHANGED <<words, copy_pc>>

\* _mm_stream_si128 of one of the four words of chunk i.
Stream ==
    /\ copy_pc = "loop"
    /\ i < num_chunks
    /\ wc' = wc \cup {Base + Offset}
    /\ IF k = ChunkWords - 1 THEN i' = i + 1 /\ k' = 0 ELSE i' = i /\ k' = k + 1
    /\ UNCHANGED <<words, copy_pc>>

LoopEnds ==
    /\ copy_pc = "loop"
    /\ i >= num_chunks
    /\ copy_pc' = "fence"
    /\ UNCHANGED <<i, k, wc, words>>

\* A buffer is written to memory.
Drain == /\ \E w \in wc : /\ wc' = wc \ {w}
                          /\ words' = [words EXCEPT ![w] = Src(w - Base)]
         /\ UNCHANGED <<i, k, copy_pc>>

\* Mutant: the copy returns without a fence.
NoFence == /\ copy_pc = "fence"
           /\ copy_pc' = "returned"
           /\ UNCHANGED <<i, k, wc, words>>

\* store_fence(), the last step of nt_memcpy.
Fence == /\ copy_pc = "fence"
         /\ wc = {}
         /\ copy_pc' = "returned"
         /\ UNCHANGED <<i, k, wc, words>>

CopyNext == Stream \/ LoopEnds \/ Drain \/ Fence

CopySpec == CopyInit /\ [][CopyNext]_copyVars

-----------------------------------------------------------------------------
\* When nt_memcpy returns, and mark_dirty() or insert() publishes the block to the
\* flusher, every word of the block holds the payload in memory.
CopyComplete == copy_pc = "returned" => \A w \in Dst : words[w] = Src(w - Base)

\* No word outside of the block changes, then or later: the next block of the
\* pool belongs to another address.
NeighboursKept == \A w \in Words \ Dst : words[w] = Old /\ w \notin wc

\* The loop invariant: what has been stored is in memory or in a buffer, and
\* nothing else is in a buffer.
StoredSoFar ==
    /\ i <= num_chunks
    /\ i = num_chunks => k = 0
    /\ copy_pc # "loop" => i = num_chunks
    /\ copy_pc = "returned" => wc = {}
    /\ wc \subseteq Base .. (Base + Offset - 1)
    /\ \A w \in Base .. (Base + Offset - 1) : w \in wc \/ words[w] = Src(w - Base)

CopyInv == CopyTypeOK /\ StoredSoFar /\ NeighboursKept
=============================================================================
