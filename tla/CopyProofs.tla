----------------------------- MODULE CopyProofs -----------------------------
(***************************************************************************)
(* nt_memcpy copies a block of any size, at any place in the pool.         *)
(***************************************************************************)
EXTENDS NtCopy, TLAPS

\* The chunks cover the block exactly: len / CHUNK_SIZE loses nothing.
LEMMA ChunksCover == num_chunks \in Nat /\ num_chunks * 4 = Len
  BY NtCopyAssumption DEF num_chunks, ChunkWords

\* Nothing is stored or buffered before the first chunk.
LEMMA CopyInitInv == CopyInit => CopyInv
  BY ChunksCover, NtCopyAssumption
  DEF CopyInit, CopyInv, CopyTypeOK, StoredSoFar, NeighboursKept, Offset, ChunkWords,
      Words, Dst, Src

\* One more word is stored: it lies in the block, and joins the buffers.
LEMMA StreamInv == CopyInv /\ Stream => CopyInv'
<1> SUFFICES ASSUME CopyInv, Stream PROVE CopyInv'
  OBVIOUS
<1> USE ChunksCover, NtCopyAssumption DEF ChunkWords
<1>1. /\ Offset \in Nat /\ Offset < Len
      /\ Offset' = Offset + 1
  BY DEF CopyInv, CopyTypeOK, StoredSoFar, Stream, Offset
<1>2. Base + Offset \in Dst /\ Base + Offset \in Words
  BY <1>1 DEF Dst, Words
<1>3. CopyTypeOK'
  BY <1>2 DEF CopyInv, CopyTypeOK, Stream
<1>4. StoredSoFar'
  <2>1. /\ i' <= num_chunks
        /\ i' = num_chunks => k' = 0
        /\ copy_pc' = "loop"
    BY DEF CopyInv, CopyTypeOK, StoredSoFar, Stream
  <2>2. \A w \in Base .. (Base + Offset' - 1) :
           w \in Base .. (Base + Offset - 1) \/ w = Base + Offset
    BY <1>1
  <2>3. Base .. (Base + Offset - 1) \subseteq Base .. (Base + Offset' - 1)
    BY <1>1
  <2>4. Base + Offset \in Base .. (Base + Offset' - 1)
    BY <1>1
  <2>5. wc' = wc \cup {Base + Offset} /\ words' = words
    BY DEF Stream
  <2>6. wc' \subseteq Base .. (Base + Offset' - 1)
    BY <2>3, <2>4, <2>5 DEF CopyInv, StoredSoFar
  <2>7. \A w \in Base .. (Base + Offset' - 1) : w \in wc' \/ words'[w] = Src(w - Base)
    BY <2>2, <2>5 DEF CopyInv, StoredSoFar, Src
  <2>8. QED
    BY <2>1, <2>6, <2>7 DEF StoredSoFar, num_chunks, Src
<1>5. NeighboursKept'
  BY <1>2 DEF CopyInv, NeighboursKept, Stream
<1>6. QED
  BY <1>3, <1>4, <1>5 DEF CopyInv

\* A word reaches memory: it was stored for this place of the block.
LEMMA DrainInv == CopyInv /\ Drain => CopyInv'
<1> SUFFICES ASSUME CopyInv, Drain PROVE CopyInv'
  OBVIOUS
<1> USE ChunksCover, NtCopyAssumption DEF ChunkWords
<1>1. PICK w \in wc : wc' = wc \ {w} /\ words' = [words EXCEPT ![w] = Src(w - Base)]
  BY DEF Drain
<1>2. i' = i /\ k' = k /\ copy_pc' = copy_pc /\ Offset' = Offset
  BY DEF Drain, Offset
<1>3. w \in Words /\ w \in Base .. (Base + Offset - 1)
  BY DEF CopyInv, CopyTypeOK, StoredSoFar
<1>4. w \in Dst
  BY <1>3 DEF CopyInv, NeighboursKept
<1>5. w - Base \in Nat
  BY <1>3 DEF CopyInv, CopyTypeOK, Offset
<1>6. CopyTypeOK'
  BY <1>1, <1>2, <1>3, <1>5 DEF CopyInv, CopyTypeOK, Src
<1>7. StoredSoFar'
  <2>1. copy_pc' = "returned" => wc' = {}
    BY <1>1, <1>2 DEF CopyInv, StoredSoFar
  <2>2. \A v \in Words : words'[v] = IF v = w THEN Src(w - Base) ELSE words[v]
    BY <1>1, <1>3 DEF CopyInv, CopyTypeOK
  <2>3. Base .. (Base + Offset - 1) \subseteq Words
    BY DEF CopyInv, CopyTypeOK, StoredSoFar, Offset, Words
  <2>4. \A v \in Base .. (Base + Offset - 1) : v \in wc' \/ words'[v] = Src(v - Base)
    BY <1>1, <2>2, <2>3 DEF CopyInv, StoredSoFar, Src
  <2>5. QED
    BY <1>1, <1>2, <2>1, <2>4 DEF CopyInv, StoredSoFar, num_chunks, Src
<1>8. NeighboursKept'
  BY <1>1, <1>3, <1>4 DEF CopyInv, CopyTypeOK, NeighboursKept
<1>9. QED
  BY <1>6, <1>7, <1>8 DEF CopyInv

\* The inductive invariant of the loop.
LEMMA CopyNextInv == CopyInv /\ [CopyNext]_copyVars => CopyInv'
<1> SUFFICES ASSUME CopyInv, [CopyNext]_copyVars PROVE CopyInv'
  OBVIOUS
<1>1. CASE Stream
  BY <1>1, StreamInv
<1>2. CASE LoopEnds
  BY <1>2, ChunksCover DEF CopyInv, CopyTypeOK, StoredSoFar, NeighboursKept, Offset, LoopEnds, Src,
                           num_chunks
<1>3. CASE Drain
  BY <1>3, DrainInv
<1>4. CASE Fence
  BY <1>4 DEF CopyInv, CopyTypeOK, StoredSoFar, NeighboursKept, Offset, Fence, Src, num_chunks
<1>5. CASE UNCHANGED copyVars
  BY <1>5 DEF CopyInv, CopyTypeOK, StoredSoFar, NeighboursKept, Offset, copyVars, Src, num_chunks
<1>6. QED
  BY <1>1, <1>2, <1>3, <1>4, <1>5 DEF CopyNext

\* The loop invariant of nt_memcpy, for every order in which the buffers drain.
THEOREM CopyInvHolds == CopySpec => []CopyInv
  BY CopyInitInv, CopyNextInv, PTL DEF CopySpec

\* For every block size that is a multiple of 64 bytes, every word of the block is
\* in memory when nt_memcpy returns, in whatever order the buffers were drained.
THEOREM CopyIsComplete == CopySpec => []CopyComplete
<1>1. CopyInv => CopyComplete
  BY ChunksCover, NtCopyAssumption
  DEF CopyInv, CopyTypeOK, StoredSoFar, CopyComplete, Offset, Dst, ChunkWords
<1>2. QED
  BY <1>1, CopyInvHolds, PTL

\* For every place of the block in the pool, nt_memcpy never touches a word of
\* another block.
THEOREM CopyKeepsNeighbours == CopySpec => []NeighboursKept
<1>1. CopyInv => NeighboursKept
  BY DEF CopyInv
<1>2. QED
  BY <1>1, CopyInvHolds, PTL
=============================================================================
