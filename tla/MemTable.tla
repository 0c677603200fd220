------------------------------ MODULE MemTable ------------------------------
(***************************************************************************)
(* The in-memory index of one region: a gap-free window of entry slots,    *)
(* each resident (the entry itself is cached) or not (only its locator,    *)
(* the EntryIndex, is kept), the byte counter of the cache, and the        *)
(* region's key/value map with the file every pair was last written to.    *)
(*                                                                         *)
(* A memtable is a value; each operation is an operator from a memtable to *)
(* the memtable after it.  The engine serialises the operations on one     *)
(* memtable with the lock of its slot.                                     *)
(*                                                                         *)
(*   slots       <<[entry, entry_index, resident], ...>> by rising index   *)
(*   cache_size  maintained by every operation, never recomputed           *)
(*   kvs         key -> [value, file_num]                                  *)
(*                                                                         *)
(* The payload of an evicted slot is 0: reading it needs the file.         *)
(***************************************************************************)
EXTENDS Integers, Sequences, SequencesExt, FiniteSets, FiniteSetsExt

new(region_id, cache_limit) ==
  [region_id |-> region_id, slots |-> <<>>, cache_size |-> 0,
   cache_limit |-> cache_limit, kvs |-> <<>>]

EntrySize(entry) == 1   \* every payload is one unit long

ResidentSize(slots) ==
  FoldLeft(LAMBDA acc, s : IF s.resident THEN acc + EntrySize(s.entry) ELSE acc,
           0, slots)

Evicted(slot) ==
  [slot EXCEPT !.resident = FALSE, !.entry.data = 0]

\* The slots, those that satisfy Old evicted; the cache counter follows.
EvictSlots(mt, Old(_)) ==
  LET slots == [p \in DOMAIN mt.slots |->
                  IF mt.slots[p].resident /\ Old(p)
                    THEN Evicted(mt.slots[p]) ELSE mt.slots[p]]
  IN  [mt EXCEPT !.slots = slots,
                 !.cache_size = @ - (ResidentSize(mt.slots) - ResidentSize(slots))]

first_index(mt) == mt.slots[1].entry_index.index
last_index(mt)  == mt.slots[Len(mt.slots)].entry_index.index

entries_count(mt) == Len(mt.slots)
entries_size(mt)  == FoldLeft(LAMBDA acc, s : acc + s.entry_index.len, 0, mt.slots)

-----------------------------------------------------------------------------
(* append *)

\* Evict the oldest resident entries until the cache is within its limit.
EvictOverLimit(mt) ==
  LET resident == {p \in DOMAIN mt.slots : mt.slots[p].resident}
      excess   == IF mt.cache_size > mt.cache_limit
                    THEN mt.cache_size - mt.cache_limit ELSE 0
  IN  EvictSlots(mt, LAMBDA p : Cardinality({q \in resident : q < p}) < excess)

\* The slots from the first new index on are cut, the new entries take
\* their place in the cache, and the cache is brought back under its limit.
append(mt, entries, entries_index) ==
  IF entries = <<>>
    THEN mt
    ELSE LET kept  == SelectSeq(mt.slots,
                        LAMBDA s : s.entry_index.index < entries[1].index)
             added == [j \in DOMAIN entries |->
                         [entry |-> entries[j], entry_index |-> entries_index[j],
                          resident |-> TRUE]]
         IN  EvictOverLimit(
               [mt EXCEPT !.slots = kept \o added,
                          !.cache_size = @ - (ResidentSize(mt.slots) - ResidentSize(kept))
                                           + ResidentSize(added)])

-----------------------------------------------------------------------------
(* key/value pairs *)

put(mt, key, value, file_num) ==
  [mt EXCEPT !.kvs = (key :> [value |-> value, file_num |-> file_num]) @@ @]

delete(mt, key) ==
  [mt EXCEPT !.kvs = [k \in DOMAIN @ \ {key} |-> @[k]]]

get(mt, key) ==
  IF key \in DOMAIN mt.kvs THEN {mt.kvs[key].value} ELSE {}

fetch_all_kvs(mt) == {<<k, mt.kvs[k].value>> : k \in DOMAIN mt.kvs}

-----------------------------------------------------------------------------
(* compaction and cache eviction *)

compact_to(mt, idx) ==
  LET kept == SelectSeq(mt.slots, LAMBDA s : s.entry_index.index >= idx)
  IN  [mt EXCEPT !.slots = kept,
                 !.cache_size = @ - (ResidentSize(mt.slots) - ResidentSize(kept))]

compact_cache_to(mt, idx) ==
  EvictSlots(mt, LAMBDA p : mt.slots[p].entry_index.index < idx)

\* Faulty: the entries leave the cache and the counter is not told.
EvictOldUncounted(mt, file_num) ==
  [mt EXCEPT !.slots = [p \in DOMAIN @ |->
     IF @[p].entry_index.file_num < file_num THEN Evicted(@[p]) ELSE @[p]]]

\* Faulty: the comparison is the wrong way round, and the newest entries go.
EvictNewFromCache(mt, file_num) ==
  EvictSlots(mt, LAMBDA p : mt.slots[p].entry_index.file_num >= file_num)

evict_old_from_cache(mt, file_num) ==
  EvictSlots(mt, LAMBDA p : mt.slots[p].entry_index.file_num < file_num)

\* The smallest file a slot or a key/value pair refers to; {} when the
\* memtable holds nothing.
ReferencedFiles(mt) ==
  {mt.slots[p].entry_index.file_num : p \in DOMAIN mt.slots}
    \cup {mt.kvs[k].file_num : k \in DOMAIN mt.kvs}

min_file_num(mt) ==
  IF ReferencedFiles(mt) = {} THEN {} ELSE {Min(ReferencedFiles(mt))}

-----------------------------------------------------------------------------
(* reads: the cached entries and, apart, the locators of the others *)

SlotsOf(mt, idxs) == SelectSeq(mt.slots, LAMBDA s : s.entry_index.index \in idxs)

Cached(slots)   == [p \in DOMAIN slots |-> slots[p].entry]
Locators(slots) == [p \in DOMAIN slots |-> slots[p].entry_index]

Fetched(slots) ==
  [entries     |-> Cached(SelectSeq(slots, LAMBDA s : s.resident)),
   entries_idx |-> Locators(SelectSeq(slots, LAMBDA s : ~s.resident))]

get_entry(mt, idx) == Fetched(SlotsOf(mt, {idx}))

fetch_all(mt) == Fetched(mt.slots)

FetchError(mt, begin, end) ==
  CASE mt.slots = <<>>           -> "EntriesUnavailable"
    [] begin < first_index(mt)   -> "EntriesCompacted"
    [] end > last_index(mt) + 1  -> "EntriesUnavailable"
    [] OTHER                     -> "None"

\* The scan of [begin, end) stops after the entry with which the size
\* read so far exceeds max_size.
fetch_entries_to(mt, begin, end, max_size) ==
  LET range == SlotsOf(mt, begin .. (end - 1))
      upto  == Min({n \in 0 .. Len(range) :
                      n = Len(range) \/ entries_size([slots |-> SubSeq(range, 1, n)]) > max_size})
  IN  Fetched(SubSeq(range, 1, upto))

=============================================================================
