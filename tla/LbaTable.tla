------------------------------ MODULE LbaTable ------------------------------
(***************************************************************************)
(* cache/lba_table.rs, cache/entry.rs and cache/eviction.rs: the map from  *)
(* block addresses to cache entries.  The map is behind one RwLock that    *)
(* every method takes and drops, so each operator below is one critical    *)
(* section and nothing is locked between two of them.                      *)
(*                                                                         *)
(* An entry's last_access is an Instant that is only ever compared with    *)
(* another entry's, so what is kept of the time stamps is the order they   *)
(* induce: <<k, l>> \in older says that the stamp of k is below that of l. *)
(* Entries that are not related have the same stamp, because the clock had *)
(* not advanced between them.  The stamp of a new entry is taken where it  *)
(* is inserted.  The hit counter access_count is only printed and is left  *)
(* out.                                                                    *)
(***************************************************************************)
EXTENDS MemoryPool

CONSTANT CoarseClock   \* whether two readings of Instant::now() may be equal

ASSUME ClockAssumption == CoarseClock \in BOOLEAN

VARIABLES table,   \* HashMap<u64, CacheEntry>
          older,   \* the order of the entries' last_access
          latest   \* the entries stamped with the last reading of the clock

tableVars == <<table, older, latest>>

CacheEntry == [pool_index : Slots, dirty : BOOLEAN]

TableTypeOK == /\ DOMAIN table \subseteq Lbas
               /\ table \in [DOMAIN table -> CacheEntry]
               /\ older \subseteq Lbas \X Lbas
               /\ latest \subseteq Lbas

TableInit == /\ table = [l \in {} |-> <<>>]
             /\ older = {}
             /\ latest = {}

Cached(l) == l \in DOMAIN table
Dirty(l) == Cached(l) /\ table[l].dirty

\* CacheEntry::new, and for a write mark_dirty before it is inserted.
NewEntry(s, d) == [pool_index |-> s, dirty |-> d]

Forget(l) == {p \in older : p[1] # l /\ p[2] # l}

\* CacheEntry::touch: l gets the clock's reading, which is above every stamp given
\* before unless the clock has not advanced since the last one.
touch(l) == \E tied \in IF CoarseClock THEN {{}, latest \ {l}} ELSE {{}} :
               /\ older' = Forget(l) \cup ((DOMAIN table \ (tied \cup {l})) \X {l})
               /\ latest' = tied \cup {l}

\* Mutant: a hit leaves the time stamp alone, so the order is that of insertion.
get_without_touch(l, s) == /\ Cached(l)
                           /\ s = table[l].pool_index
                           /\ UNCHANGED tableVars

\* get_and_touch() on a hit; s is the index it returns.
get_and_touch(l, s) == /\ Cached(l)
                       /\ s = table[l].pool_index
                       /\ touch(l)
                       /\ UNCHANGED table

\* insert(): an entry that was there is replaced, and every caller in the
\* engine drops the old entry that insert() returns.
insert(l, e) == /\ table' = [k \in DOMAIN table \cup {l} |->
                               IF k = l THEN e ELSE table[k]]
                /\ touch(l)

remove(l) == /\ table' = [k \in DOMAIN table \ {l} |-> table[k]]
             /\ older' = Forget(l)
             /\ latest' = latest \ {l}

SetDirty(l, d) == [table EXCEPT ![l] = NewEntry(table[l].pool_index, d)]

\* mark_dirty(): no-op if l is not cached; a touch if it is.
mark_dirty(l) == IF Cached(l)
                   THEN table' = SetDirty(l, TRUE) /\ touch(l)
                   ELSE UNCHANGED tableVars

\* Mutant: a flushed entry keeps its dirty flag.
mark_clean_noop(l) == UNCHANGED tableVars

\* Mutant: a flushed entry is dropped from the table.
mark_clean_removes(l) == remove(l)

\* mark_clean(): no-op if l is not cached.
mark_clean(l) == /\ table' = IF Cached(l) THEN SetDirty(l, FALSE) ELSE table
                 /\ UNCHANGED <<older, latest>>

\* dirty_entries(): the (lba, pool_index) pairs to write back.
dirty_entries == {<<l, table[l].pool_index>> : l \in {k \in DOMAIN table : Dirty(k)}}

\* entries_by_lru(): what may come first of the entries in S, oldest first.  The sort
\* is stable over the order of the HashMap, so any of those with the lowest stamp.
OldestOf(S) == {l \in S : \A k \in S : <<k, l>> \notin older}

\* select_eviction_candidate(): the oldest clean entry, else the oldest.
select_eviction_candidate ==
    LET clean == {l \in DOMAIN table : ~Dirty(l)}
    IN  OldestOf(IF clean # {} THEN clean ELSE DOMAIN table)
=============================================================================
