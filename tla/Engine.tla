------------------------------- MODULE Engine -------------------------------
(***************************************************************************)
(* The engine of src/engine.rs: the sharded registry of memtables over the *)
(* pipe log, with the write path (append to the file, then apply to the    *)
(* memtables), compaction, cache eviction, rewrite of inactive regions,    *)
(* purge of expired files, the read path through cache or file, and        *)
(* recovery from the files after a crash or a shutdown.                    *)
(*                                                                         *)
(* The engine is shared by OS threads.  Every step of a thread below is    *)
(* one critical section of the code: what it does under one lock.  A       *)
(* thread's position between two critical sections is pc[t], and what it   *)
(* carries from one to the next is local[t].                               *)
(***************************************************************************)
EXTENDS Integers, Sequences, SequencesExt, FiniteSets, FiniteSetsExt

CONSTANTS
  Threads,                \* the threads that call the engine
  Regions,                \* region ids (numbers: the slot is id mod SLOTS_COUNT)
  Keys,                   \* keys of the key/value items
  RAFT_LOG_STATE_KEY,     \* the reserved key of put_raft_state
  SLOTS_COUNT,            \* 128 in the code
  RecoveryModes,          \* values cfg.recovery_mode may have at an open
  COMPRESSION_THRESHOLD, TARGET_FILE_SIZE, BYTES_PER_SYNC,
  REGION_SIZE, CACHE_SIZE_LIMIT, TOTAL_SIZE_LIMIT, COMPACT_THRESHOLD,
  Ops,                    \* the operations the callers use in this model
  SyncChoices,            \* values of the sync flag the callers pass
  HeaderTear,             \* a crash may lose the unsynced header of a new file
  MaxIndex,               \* bound: largest entry index appended
  MaxEntries,             \* bound: entries in one Entries item
  MaxItems,               \* bound: items in one batch
  MaxWrites,              \* bound: calls of write
  MaxFileNum,             \* bound: no rewrite starts with this active file
  MaxRestarts             \* bound: crashes and shutdowns

ASSUME /\ Regions \subseteq Nat \ {0}
       /\ RAFT_LOG_STATE_KEY \in Keys
       /\ SLOTS_COUNT \in Nat \ {0}
       /\ SyncChoices \subseteq BOOLEAN /\ HeaderTear \in BOOLEAN
       /\ {REGION_SIZE, CACHE_SIZE_LIMIT, TOTAL_SIZE_LIMIT, COMPACT_THRESHOLD,
           MaxIndex, MaxEntries, MaxItems, MaxWrites, MaxFileNum, MaxRestarts}
            \subseteq Nat

LB == INSTANCE LogBatch
PL == INSTANCE PipeLog
MT == INSTANCE MemTable

VARIABLES
  pipe_log,    \* the pipe log: files, first and active file, synced offset
  memtables,   \* slot -> (region_id -> memtable)
  pc,          \* thread -> where it is in the operation it runs
  local,       \* thread -> what the operation carries between its steps
  status,      \* "running", "down", or the panic that stopped the process
  raft_last,   \* region -> last index its Raft group has appended (0: none)
  writes,      \* calls of write so far; the next payload is writes + 1
  restarts     \* crashes and shutdowns so far

vars == <<pipe_log, memtables, pc, local, status, raft_last, writes, restarts>>

Slots == 0 .. (SLOTS_COUNT - 1)
Slot(region_id) == region_id % SLOTS_COUNT

U64_MAX == 1000000   \* stands for u64::MAX: above every file number

TolerateCorruptedTailRecords == 0
AbsoluteConsistency == 1

NoMemtables == [s \in Slots |-> <<>>]

HasMemtable(mts, region_id) == region_id \in DOMAIN mts[Slot(region_id)]

Memtables(mts) == UNION {{mts[s][r] : r \in DOMAIN mts[s]} : s \in Slots}

-----------------------------------------------------------------------------
(* apply_to_memtable: one item of a batch, under the lock of its slot *)

\* Faulty: the memtable is created with all of region_size as its cache.
or_insert_region_size(mts, region_id) ==
  IF HasMemtable(mts, region_id)
    THEN mts[Slot(region_id)][region_id]
    ELSE MT!new(region_id, REGION_SIZE)

\* memtables.entry(region_id).or_insert_with(..)
or_insert(mts, region_id) ==
  IF HasMemtable(mts, region_id)
    THEN mts[Slot(region_id)][region_id]
    ELSE MT!new(region_id, REGION_SIZE \div 2)

\* Faulty: the shard is taken from another number than the region's id.
InsertMemtableWrongShard(mts, mt) ==
  [mts EXCEPT ![Slot(mt.region_id + 1)] = (mt.region_id :> mt) @@ @]

InsertMemtable(mts, mt) ==
  [mts EXCEPT ![Slot(mt.region_id)] = (mt.region_id :> mt) @@ @]

\* Faulty: Clean empties the whole slot, not the one region.
ClearSlot(mts, region_id) == [mts EXCEPT ![Slot(region_id)] = <<>>]

RemoveMemtable(mts, region_id) ==
  [mts EXCEPT ![Slot(region_id)] = [r \in DOMAIN @ \ {region_id} |-> @[r]]]

\* What a KV or Entries item does to the memtable of its region.
ApplyToOne(mt, item, file_num) ==
  CASE item.item_type = "Entries" ->
         MT!append(mt, item.entries, item.entries_index)
    [] item.item_type = "KV" /\ item.op_type = "Put" ->
         MT!put(mt, item.key, item.value, file_num)
    [] item.item_type = "KV" /\ item.op_type = "Del" ->
         MT!delete(mt, item.key)

apply_item(mts, item, file_num) ==
  IF item.item_type = "CMD"
    THEN RemoveMemtable(mts, item.region_id)
    ELSE InsertMemtable(mts, ApplyToOne(or_insert(mts, item.region_id), item, file_num))

\* The whole batch, as recovery applies it (no other thread runs then).
apply_batch(mts, items, file_num) ==
  FoldLeft(LAMBDA acc, item : apply_item(acc, item, file_num), mts, items)

-----------------------------------------------------------------------------
(* read_entry_from_file *)

ReadFailed == [ok |-> FALSE, entry |-> [index |-> 0, data |-> 0]]
ReadOk(entry) == [ok |-> TRUE, entry |-> entry]

\* CompressionType::None: the len bytes at base_offset + offset, which are
\* an entry when an uncompressed, intact record has one starting there.
ReadPlain(file, pos) ==
  LET over == {k \in PL!RecordsOver(file, pos) :
                 /\ file.records[k].ok
                 /\ file.records[k].compression_type = "None"
                 /\ LB!HasEntryAt(file.records[k].items,
                                  pos - PL!RecordOffset(file, k))}
  IN  IF over = {} THEN ReadFailed
      ELSE LET k == CHOOSE k \in over : TRUE
           IN  ReadOk(LB!EntryAt(file.records[k].items, pos - PL!RecordOffset(file, k)))

\* Faulty: the length in the header is compared with the length read.
ReadLz4WholeLen(file, entry_index) ==
  LET at == {k \in PL!RecordsAt(file, entry_index.base_offset) :
               /\ file.records[k].batch_len = entry_index.batch_len + LB!HEADER_LEN
               /\ LB!HasEntryAt(file.records[k].items, entry_index.offset)}
  IN  IF at = {} THEN ReadFailed
      ELSE LET k == CHOOSE k \in at : TRUE
           IN  ReadOk(LB!EntryAt(file.records[k].items, entry_index.offset))

\* CompressionType::Lz4: the whole record at base_offset; its header must
\* carry batch_len, its checksum must hold, and the decompressed body must
\* have an entry at offset.
ReadLz4(file, entry_index) ==
  LET at == {k \in PL!RecordsAt(file, entry_index.base_offset) :
               /\ file.records[k].batch_len = entry_index.batch_len
               /\ file.records[k].ok
               /\ file.records[k].compression_type = "Lz4"
               /\ LB!HasEntryAt(file.records[k].items, entry_index.offset)}
  IN  IF at = {} THEN ReadFailed
      ELSE LET k == CHOOSE k \in at : TRUE
           IN  ReadOk(LB!EntryAt(file.records[k].items, entry_index.offset))

\* The entry, or ReadFailed where the code returns an error or an
\* assertion of it fails (the last one: the entry read has another index).
read_entry_from_file(pl, entry_index) ==
  IF PL!FreadFails(pl, entry_index.file_num)
    THEN ReadFailed
    ELSE LET file == pl.files[entry_index.file_num]
             read == IF entry_index.compression_type = "None"
                       THEN ReadPlain(file, entry_index.base_offset + entry_index.offset)
                       ELSE ReadLz4(file, entry_index)
         IN  IF read.ok /\ read.entry.index = entry_index.index
               THEN read ELSE ReadFailed

ReadAll(pl, entries_idx) ==
  [j \in DOMAIN entries_idx |-> read_entry_from_file(pl, entries_idx[j])]

AllOk(reads) == \A j \in DOMAIN reads : reads[j].ok

EntriesOf(reads) == [j \in DOMAIN reads |-> reads[j].entry]

NoLimit == U64_MAX   \* max_size: None

\* Faulty: the cached entries are put before those read from the files.
ReadFetchedCachedFirst(read, cached) ==
  [err |-> IF AllOk(read) THEN "None" ELSE "Corruption",
   entries |-> cached \o EntriesOf(read)]

\* The reads of fetch_entries_to: the error of the first that fails (vec
\* then holds the entries read before it), or the entries read from the
\* files followed by the cached ones.
ReadFetched(read, cached) ==
  IF AllOk(read)
    THEN [err |-> "None", entries |-> EntriesOf(read) \o cached]
    ELSE [err |-> "Corruption",
          entries |-> EntriesOf(SubSeq(read, 1, Min({j \in DOMAIN read : ~read[j].ok}) - 1))]

FetchFromFiles(pl, got) == ReadFetched(ReadAll(pl, got.entries_idx), got.entries)

\* fetch_entries_to, all of it under the read lock of the slot.
fetch_entries_to(pl, mts, region_id, begin, end, max_size) ==
  CASE ~HasMemtable(mts, region_id) -> [err |-> "None", entries |-> <<>>]
    [] OTHER ->
  CASE MT!FetchError(mts[Slot(region_id)][region_id], begin, end) # "None" ->
         [err |-> MT!FetchError(mts[Slot(region_id)][region_id], begin, end),
          entries |-> <<>>]
    [] OTHER ->
         FetchFromFiles(pl, MT!fetch_entries_to(mts[Slot(region_id)][region_id],
                                                begin, end, max_size))

-----------------------------------------------------------------------------
(* recover: FileEngine::new on the files a crash or a close has left *)

Recovered(pl, mts) == [pipe_log |-> pl, memtables |-> mts, panic |-> "None"]
Panicked(pl, reason) == [pipe_log |-> pl, memtables |-> NoMemtables, panic |-> reason]

MapMemtables(mts, F(_)) ==
  [s \in Slots |-> [r \in DOMAIN mts[s] |-> F(mts[s][r])]]

\* "Only keep latest entries in cache": after file current has been read.
KeepCacheBelowLimit(mts, current_read_file, first_file_num) ==
  LET total_files_in_cache == CACHE_SIZE_LIMIT \div TARGET_FILE_SIZE
  IN  IF /\ CACHE_SIZE_LIMIT > 0
         /\ (current_read_file - first_file_num) * TARGET_FILE_SIZE > CACHE_SIZE_LIMIT
         /\ current_read_file > total_files_in_cache
        THEN MapMemtables(mts, LAMBDA mt :
               MT!evict_old_from_cache(mt, current_read_file - total_files_in_cache))
        ELSE mts

\* Faulty: the last record that decodes is taken for the failing one.
GoodRecordsButLast(file) ==
  Max({0} \cup {n - 1 : n \in {i \in 1 .. Len(file.records) :
                                 \A k \in 1 .. i : ~LB!DecodeFails(file.records[k])}})

\* The records of a file that decode, up to the first that does not.
GoodRecords(file) ==
  Max({n \in 0 .. Len(file.records) :
         \A k \in 1 .. n : ~LB!DecodeFails(file.records[k])})

\* Faulty: offset begins at 0, not behind the header of the file.
ApplyFileNoHeader(mts, file, file_num, good) ==
  FoldLeftDomain(
    LAMBDA acc, k :
      apply_batch(acc, LB!from_bytes(file.records[k], file_num,
                                     PL!RecordOffset(file, k) - PL!FILE_HEADER_LEN),
                  file_num),
    mts, SubSeq(file.records, 1, good))

\* Faulty: current_read_file is moved on before the batch is applied.
ApplyFileNextFile(mts, file, file_num, good) ==
  FoldLeftDomain(
    LAMBDA acc, k :
      apply_batch(acc, LB!from_bytes(file.records[k], file_num,
                                     PL!RecordOffset(file, k)), file_num + 1),
    mts, SubSeq(file.records, 1, good))

\* The batches of the first good records of a file, applied in file order.
ApplyFile(mts, file, file_num, good) ==
  FoldLeftDomain(
    LAMBDA acc, k :
      apply_batch(acc, LB!from_bytes(file.records[k], file_num,
                                     PL!RecordOffset(file, k)), file_num),
    mts, SubSeq(file.records, 1, good))

\* Faulty: the torn tail is left in the file.
TruncateNothing(pl, file, good) == pl

\* Faulty: the offset is that of the last batch applied, not of its end.
TruncateLastGood(pl, file, good) ==
  PL!truncate_active_log(pl, PL!RecordOffset(file, Max({good, 1})))

\* TolerateCorruptedTailRecords: the active file is cut where the first
\* batch that does not decode begins.
TruncateTail(pl, file, good) ==
  PL!truncate_active_log(pl, PL!RecordOffset(file, good + 1))

RECURSIVE RecoverFrom(_, _, _, _)
RecoverFrom(pl, mts, current_read_file, recovery_mode) ==
  LET active  == current_read_file = pl.active_file_num
      file    == pl.files[current_read_file]
      good    == GoodRecords(file)
      corrupt == good < Len(file.records)
      applied == ApplyFile(mts, file, current_read_file, good)
  IN  CASE current_read_file > pl.active_file_num -> Recovered(pl, mts)
        [] OTHER ->
      CASE ~file.header /\ ~active -> Panicked(pl, "FileCorrupted")
        [] ~file.header /\ active  -> Recovered(PL!truncate_active_log(pl, 0), mts)
        [] file.header /\ corrupt /\ ~active -> Panicked(pl, "MiddleCorruption")
        [] file.header /\ corrupt /\ active
             /\ recovery_mode = AbsoluteConsistency -> Panicked(pl, "IncompleteBatch")
        [] OTHER ->
             RecoverFrom(
               IF corrupt THEN TruncateTail(pl, file, good) ELSE pl,
               KeepCacheBelowLimit(applied, current_read_file, pl.first_file_num),
               current_read_file + 1, recovery_mode)

recover(pl, recovery_mode) ==
  RecoverFrom(pl, NoMemtables, pl.first_file_num, recovery_mode)

\* The assertion of RecoveryMode::from.
IsRecoveryMode(i) ==
  TolerateCorruptedTailRecords <= i /\ i <= AbsoluteConsistency

\* FileEngine::new: the memtables are empty, and recover fills them.
new(pl, recovery_mode) ==
  IF IsRecoveryMode(recovery_mode)
    THEN recover(pl, recovery_mode)
    ELSE Panicked(pl, "RecoveryModeAssert")

-----------------------------------------------------------------------------
(* The callers: what Raft hands to the engine *)

EntriesFrom(first, count, data) ==
  [j \in 1 .. count |-> [index |-> first + j - 1, data |-> data]]

\* A group appends after its last entry, or over a suffix of its log (a
\* new leader's entries replace those of the old one).
FirstIndexes(last) == 1 .. (last + 1)

\* The items a batch may go on with when the groups' last indexes are
\* last; data tells the payloads of this write from those of the others.
ItemsAfter(last, data) ==
  {LB!add_entries(r, EntriesFrom(first, count, data)) :
     <<r, first, count>> \in
       {x \in Regions \X (1 .. MaxIndex) \X (1 .. MaxEntries) :
          x[2] \in FirstIndexes(last[x[1]]) /\ x[2] + x[3] - 1 <= MaxIndex}}
    \cup {LB!put(r, k, data) : r \in Regions, k \in Keys}
    \cup {LB!delete(r, k) : r \in Regions, k \in Keys}
    \cup {LB!clean_region(r) : r \in Regions}

LastAfter(last, item) ==
  CASE item.item_type = "Entries" ->
         [last EXCEPT ![item.region_id] = item.entries[Len(item.entries)].index]
    [] item.item_type = "CMD" -> [last EXCEPT ![item.region_id] = 0]
    [] OTHER -> last

RECURSIVE BatchesAfter(_, _, _)
BatchesAfter(last, data, max_items) ==
  IF max_items = 0
    THEN {<<>>}
    ELSE {<<>>} \cup
         UNION {{<<item>> \o rest :
                   rest \in BatchesAfter(LastAfter(last, item), data, max_items - 1)} :
                item \in ItemsAfter(last, data)}

RegionsOf(items) == {items[k].region_id : k \in DOMAIN items}

\* The last index of every group as the recovered memtables have it.
LastIndexes(mts) ==
  [r \in Regions |->
     IF HasMemtable(mts, r) /\ mts[Slot(r)][r].slots # <<>>
       THEN MT!last_index(mts[Slot(r)][r]) ELSE 0]

-----------------------------------------------------------------------------
(* State *)

NoEntryIndex ==
  [index |-> 0, file_num |-> 0, base_offset |-> 0, batch_len |-> 0,
   offset |-> 0, len |-> 0, compression_type |-> "None"]

\* What a thread holds when it runs no operation.
Idle ==
  [items |-> <<>>, file_num |-> 0, slot |-> 0, min_file_num |-> 0,
   inactive_file_num |-> 0, gc_file_num |-> 0, regions |-> {},
   entry_idx |-> NoEntryIndex]

Panics ==
  {"ReadEntryFailed", "RewriteReadFailed", "FileCorrupted", "MiddleCorruption",
   "IncompleteBatch", "RecoveryModeAssert"}

Running == status = "running"

Ready(t, op) == Running /\ pc[t] = "idle" /\ op \in Ops

Return(t) ==
  /\ pc' = [pc EXCEPT ![t] = "idle"]
  /\ local' = [local EXCEPT ![t] = Idle]

Goto(t, label, held) ==
  /\ pc' = [pc EXCEPT ![t] = label]
  /\ local' = [local EXCEPT ![t] = held]

\* The groups a write of another thread is under way for.
BusyRegions(t) ==
  UNION {RegionsOf(local[u].items) : u \in Threads \ {t}}

Init ==
  /\ pipe_log = PL!open
  /\ memtables = NoMemtables
  /\ pc = [t \in Threads |-> "idle"]
  /\ local = [t \in Threads |-> Idle]
  /\ status = "running"
  /\ raft_last = [r \in Regions |-> 0]
  /\ writes = 0
  /\ restarts = 0

-----------------------------------------------------------------------------
(* The write path *)

\* "0 means write nothing": an empty batch is done with the append.
post_append_to_file(t, items, file_num) ==
  IF file_num = 0
    THEN Return(t)
    ELSE Goto(t, "apply", [Idle EXCEPT !.items = items, !.file_num = file_num])

\* write: the batch goes to the pipe log, which binds its locators to the
\* place it was given; the memtables follow, item by item, each under the
\* lock of its slot (apply_to_memtable below).
write(t, items, do_sync) ==
  LET appended == PL!append_log_batch(pipe_log, items, do_sync)
      placed   == LB!BindEntriesIndex(items, appended.file_num, appended.base_offset)
  IN  /\ writes < MaxWrites
      /\ RegionsOf(items) \cap BusyRegions(t) = {}
      /\ pipe_log' = appended.pipe_log
      /\ post_append_to_file(t, placed, appended.file_num)
      /\ raft_last' = FoldLeft(LastAfter, raft_last, items)
      /\ writes' = writes + 1
      /\ UNCHANGED <<memtables, status, restarts>>

consume(t, batch, do_sync) ==
  /\ Ready(t, "consume")
  /\ write(t, batch, do_sync)

\* The two sizes consume_and_shrink is given are not used.
consume_and_shrink(t, batch, do_sync) ==
  /\ Ready(t, "consume_and_shrink")
  /\ write(t, batch, do_sync)

append(t, raft_group_id, entries) ==
  /\ Ready(t, "append")
  /\ write(t, <<LB!add_entries(raft_group_id, entries)>>, FALSE)

put_msg(t, region_id, key, m) ==
  write(t, <<LB!put(region_id, key, m)>>, FALSE)

put_raft_state(t, raft_group_id, state) ==
  /\ Ready(t, "put_raft_state")
  /\ put_msg(t, raft_group_id, RAFT_LOG_STATE_KEY, state)

apply_to_memtable(t) ==
  /\ Running /\ pc[t] = "apply"
  /\ memtables' = apply_item(memtables, Head(local[t].items), local[t].file_num)
  /\ IF Len(local[t].items) = 1
       THEN Return(t)
       ELSE Goto(t, "apply", [local[t] EXCEPT !.items = Tail(@)])
  /\ UNCHANGED <<pipe_log, status, raft_last, writes, restarts>>

sync(t) ==
  /\ Ready(t, "sync")
  /\ pipe_log' = PL!sync(pipe_log)
  /\ UNCHANGED <<memtables, pc, local, status, raft_last, writes, restarts>>

-----------------------------------------------------------------------------
(* Compaction *)

\* A memtable operation on the memtable of a region, if it has one.
OnMemtable(region_id, Op(_)) ==
  IF HasMemtable(memtables, region_id)
    THEN InsertMemtable(memtables, Op(memtables[Slot(region_id)][region_id]))
    ELSE memtables

compact_to(region_id, index) ==
  memtables' = OnMemtable(region_id, LAMBDA mt : MT!compact_to(mt, index))

compact_cache_to(region_id, index) ==
  memtables' = OnMemtable(region_id, LAMBDA mt : MT!compact_cache_to(mt, index))

\* gc compacts everything below to; from is not used.
gc(t, raft_group_id, from, to) ==
  /\ Ready(t, "gc")
  /\ compact_to(raft_group_id, to)
  /\ UNCHANGED <<pipe_log, pc, local, status, raft_last, writes, restarts>>

gc_entry_cache(t, raft_group_id, to) ==
  /\ Ready(t, "gc_entry_cache")
  /\ compact_cache_to(raft_group_id, to)
  /\ UNCHANGED <<pipe_log, pc, local, status, raft_last, writes, restarts>>

-----------------------------------------------------------------------------
(* get_entry: the lookup under the slot's lock, then the read of the file *)

Panic(reason) ==
  /\ status' = reason
  /\ UNCHANGED <<pc, local>>

get_entry(t, region_id, log_idx) ==
  LET got == IF HasMemtable(memtables, region_id)
               THEN MT!get_entry(memtables[Slot(region_id)][region_id], log_idx)
               ELSE MT!Fetched(<<>>)
  IN  /\ Ready(t, "get_entry")
      /\ IF got.entries = <<>> /\ got.entries_idx # <<>>
           THEN Goto(t, "read_file", [Idle EXCEPT !.entry_idx = got.entries_idx[1]])
           ELSE Return(t)
      /\ UNCHANGED <<pipe_log, memtables, status, raft_last, writes, restarts>>

ReadFromFile(t) ==
  /\ Running /\ pc[t] = "read_file"
  /\ IF read_entry_from_file(pipe_log, local[t].entry_idx).ok
       THEN Return(t) /\ UNCHANGED status
       ELSE Panic("ReadEntryFailed")
  /\ UNCHANGED <<pipe_log, memtables, raft_last, writes, restarts>>

-----------------------------------------------------------------------------
(* purge_expired_files: a scan of the slots, one read lock after the      *)
(* other, and then purge_to with the smallest file number seen            *)

\* The smallest file the memtables of a slot refer to, or u64::MAX.
SlotMinFileNum(slot) ==
  Min({U64_MAX} \cup UNION {MT!min_file_num(memtables[slot][r]) :
                              r \in DOMAIN memtables[slot]})

\* Faulty: the smallest file of the slots before this one is forgotten.
ScanSlotForgets(t, slot, min_file_num) ==
  /\ Goto(t, IF slot + 1 < SLOTS_COUNT THEN "purge_scan" ELSE "purge_to",
          [Idle EXCEPT !.slot = slot + 1, !.min_file_num = SlotMinFileNum(slot)])
  /\ UNCHANGED <<pipe_log, memtables, status, raft_last, writes, restarts>>

ScanSlot(t, slot, min_file_num) ==
  LET seen == Min({min_file_num, SlotMinFileNum(slot)})
  IN  /\ Goto(t, IF slot + 1 < SLOTS_COUNT THEN "purge_scan" ELSE "purge_to",
              [Idle EXCEPT !.slot = slot + 1, !.min_file_num = seen])
      /\ UNCHANGED <<pipe_log, memtables, status, raft_last, writes, restarts>>

purge_expired_files(t) ==
  /\ Ready(t, "purge_expired_files")
  /\ ScanSlot(t, 0, U64_MAX)

PurgeScan(t) ==
  /\ Running /\ pc[t] = "purge_scan"
  /\ ScanSlot(t, local[t].slot, local[t].min_file_num)

\* purge_to returns an error, and purges nothing, for a file number above
\* the active file: so it does when no memtable refers to any file.
PurgeTo(t) ==
  /\ Running /\ pc[t] = "purge_to"
  /\ pipe_log' = IF PL!PurgeFails(pipe_log, local[t].min_file_num)
                   THEN pipe_log
                   ELSE PL!purge_to(pipe_log, local[t].min_file_num)
  /\ Return(t)
  /\ UNCHANGED <<memtables, status, raft_last, writes, restarts>>

-----------------------------------------------------------------------------
(* rewrite_inactive and evict_old_from_cache: files_before, then the      *)
(* slots one write lock after the other                                   *)

BeginOverSlots(t, label) ==
  LET inactive_file_num == PL!files_before(pipe_log, CACHE_SIZE_LIMIT)
  IN  /\ IF inactive_file_num = 0
           THEN Return(t)
           ELSE Goto(t, label, [Idle EXCEPT !.inactive_file_num = inactive_file_num])
      /\ UNCHANGED <<pipe_log, memtables, status, raft_last, writes, restarts>>

\* Faulty: the loop over the slots ends after the first.
NextSlotReturns(t, label) == Return(t)

NextSlot(t, label) ==
  IF local[t].slot + 1 < SLOTS_COUNT
    THEN Goto(t, label, [local[t] EXCEPT !.slot = @ + 1])
    ELSE Return(t)

\* Faulty: the cached entries are put before those read from the files.
RewriteBatchCachedFirst(mt, read) ==
  <<LB!add_entries(mt.region_id, MT!fetch_all(mt).entries \o EntriesOf(read))>>
    \o SetToSeq({LB!put(mt.region_id, kv[1], kv[2]) : kv \in MT!fetch_all_kvs(mt)})

\* The batch that carries all of a memtable: its entries, those not in
\* the cache (as read from their files) before those in it, and its pairs.
RewriteBatch(mt, read) ==
  <<LB!add_entries(mt.region_id, EntriesOf(read) \o MT!fetch_all(mt).entries)>>
    \o SetToSeq({LB!put(mt.region_id, kv[1], kv[2]) : kv \in MT!fetch_all_kvs(mt)})

\* "Has entries in inactive files" and fewer than compact_threshold of them.
NeedsRewrite(mt, inactive_file_num) ==
  /\ \E min_file_num \in MT!min_file_num(mt) : min_file_num < inactive_file_num
  /\ MT!entries_count(mt) < COMPACT_THRESHOLD

\* Faulty: the pairs are anchored in the file that was active before the
\* batch was appended.
ApplyRewrittenOldFile(after, mt, batch, appended) ==
  [pipe_log  |-> appended.pipe_log,
   memtables |-> InsertMemtable(after.memtables,
                   FoldLeft(LAMBDA m, item : ApplyToOne(m, item, after.pipe_log.active_file_num),
                            mt, LB!BindEntriesIndex(batch, appended.file_num,
                                                    appended.base_offset))),
   panic     |-> FALSE]

\* "Apply to memtable": the items of the batch, bound to the place the
\* pipe log gave it, go to the memtable itself (the slot's lock is held).
ApplyRewritten(after, mt, batch, appended) ==
  [pipe_log  |-> appended.pipe_log,
   memtables |-> InsertMemtable(after.memtables,
                   FoldLeft(LAMBDA m, item : ApplyToOne(m, item, appended.file_num), mt,
                            LB!BindEntriesIndex(batch, appended.file_num,
                                                appended.base_offset))),
   panic     |-> FALSE]

\* "Rewrite to new log file", with sync = false.
AppendRewritten(after, mt, batch) ==
  ApplyRewritten(after, mt, batch, PL!append_log_batch(after.pipe_log, batch, FALSE))

\* "Dump all entries": a read that fails is a panic.
DumpAndRewrite(after, mt, read) ==
  IF AllOk(read)
    THEN AppendRewritten(after, mt, RewriteBatch(mt, read))
    ELSE [after EXCEPT !.panic = TRUE]

\* One memtable of the slot: after is the pipe log, the memtables and
\* whether a read has failed, as the memtables before it have left them.
RewriteMemtable(after, mt, inactive_file_num) ==
  IF after.panic \/ ~NeedsRewrite(mt, inactive_file_num)
    THEN after
    ELSE DumpAndRewrite(after, mt, ReadAll(after.pipe_log, MT!fetch_all(mt).entries_idx))

rewrite_inactive(t) ==
  /\ Ready(t, "rewrite_inactive")
  /\ pipe_log.active_file_num < MaxFileNum
  /\ BeginOverSlots(t, "rewrite")

\* The memtables of a slot come in the order of the hash map.
RewriteSlot(t) ==
  /\ Running /\ pc[t] = "rewrite"
  /\ \E order \in SetToSeqs(DOMAIN memtables[local[t].slot]) :
       LET after == FoldLeft(
                      LAMBDA acc, r : RewriteMemtable(acc, acc.memtables[local[t].slot][r],
                                                      local[t].inactive_file_num),
                      [pipe_log |-> pipe_log, memtables |-> memtables, panic |-> FALSE],
                      order)
       IN  /\ pipe_log' = after.pipe_log
           /\ memtables' = after.memtables
           /\ IF after.panic
                THEN Panic("RewriteReadFailed")
                ELSE NextSlot(t, "rewrite") /\ UNCHANGED status
  /\ UNCHANGED <<raft_last, writes, restarts>>

evict_old_from_cache(t) ==
  /\ Ready(t, "evict_old_from_cache")
  /\ BeginOverSlots(t, "evict")

EvictSlot(t) ==
  /\ Running /\ pc[t] = "evict"
  /\ memtables' = [memtables EXCEPT ![local[t].slot] =
       [r \in DOMAIN @ |-> MT!evict_old_from_cache(@[r], local[t].inactive_file_num)]]
  /\ NextSlot(t, "evict")
  /\ UNCHANGED <<pipe_log, status, raft_last, writes, restarts>>

-----------------------------------------------------------------------------
(* regions_need_force_compact: files_before for the cache and for the     *)
(* total size, then the slots one read lock after the other               *)

\* "Total size of entries for this region exceed limit", or "has entries
\* left behind too far".
NeedsForceCompact(mt, inactive_file_num, gc_file_num) ==
  \/ MT!entries_size(mt) > (REGION_SIZE * 2) \div 3
  \/ /\ inactive_file_num # 0 /\ gc_file_num # 0
     /\ \E min_file_num \in MT!min_file_num(mt) : min_file_num < gc_file_num

regions_need_force_compact(t) ==
  /\ Ready(t, "regions_need_force_compact")
  /\ Goto(t, "gc_file_num",
          [Idle EXCEPT !.inactive_file_num = PL!files_before(pipe_log, CACHE_SIZE_LIMIT)])
  /\ UNCHANGED <<pipe_log, memtables, status, raft_last, writes, restarts>>

GcFileNum(t) ==
  /\ Running /\ pc[t] = "gc_file_num"
  /\ Goto(t, "force_compact",
          [local[t] EXCEPT !.gc_file_num = PL!files_before(pipe_log, TOTAL_SIZE_LIMIT)])
  /\ UNCHANGED <<pipe_log, memtables, status, raft_last, writes, restarts>>

ForceCompactSlot(t, found) ==
  Goto(t, IF local[t].slot + 1 < SLOTS_COUNT THEN "force_compact" ELSE "force_compacted",
       [local[t] EXCEPT !.slot = @ + 1, !.regions = @ \cup found])

ForceCompactScan(t) ==
  /\ Running /\ pc[t] = "force_compact"
  /\ ForceCompactSlot(t, {r \in DOMAIN memtables[local[t].slot] :
                            NeedsForceCompact(memtables[local[t].slot][r],
                                              local[t].inactive_file_num,
                                              local[t].gc_file_num)})
  /\ UNCHANGED <<pipe_log, memtables, status, raft_last, writes, restarts>>

\* The caller has the regions.
ForceCompactReturn(t) ==
  /\ Running /\ pc[t] = "force_compacted"
  /\ Return(t)
  /\ UNCHANGED <<pipe_log, memtables, status, raft_last, writes, restarts>>

-----------------------------------------------------------------------------
(* The process: crash, shutdown, start *)

Stopped(pl) ==
  /\ pipe_log' = pl
  /\ memtables' = NoMemtables
  /\ pc' = [t \in Threads |-> "idle"]
  /\ local' = [t \in Threads |-> Idle]
  /\ status' = "down"
  /\ restarts' = restarts + 1
  /\ UNCHANGED <<raft_last, writes>>

\* The process dies, at any point of any operation, or after a panic.
Crash ==
  /\ status # "down" /\ "crash" \in Ops
  /\ restarts < MaxRestarts
  /\ \E pl \in PL!CrashImages(pipe_log, HeaderTear) : Stopped(pl)

\* The engine is dropped when no thread uses it.
Shutdown ==
  /\ Running /\ "shutdown" \in Ops
  /\ \A t \in Threads : pc[t] = "idle"
  /\ restarts < MaxRestarts
  /\ Stopped(PL!close(pipe_log))

\* FileEngine::new on the directory as it is.  Raft goes on from what the
\* engine has recovered.
Open ==
  /\ status = "down"
  /\ \E recovery_mode \in RecoveryModes :
       LET engine == new(pipe_log, recovery_mode)
       IN  /\ pipe_log' = engine.pipe_log
           /\ memtables' = engine.memtables
           /\ status' = IF engine.panic = "None" THEN "running" ELSE engine.panic
           /\ raft_last' = LastIndexes(engine.memtables)
  /\ UNCHANGED <<pc, local, writes, restarts>>

\* A process that has panicked, and is not started again, stays stopped.
Aborted ==
  /\ status \in Panics
  /\ UNCHANGED vars

-----------------------------------------------------------------------------

\* The inputs the callers offer to an operation: none while it cannot start.
Offered(t, op, inputs) == IF Ready(t, op) THEN inputs ELSE {}

\* The batches and the entries Raft may hand over next.
Batches == IF writes < MaxWrites
             THEN BatchesAfter(raft_last, writes + 1, MaxItems) ELSE {}

Appends == {item \in ItemsAfter(raft_last, writes + 1) : item.item_type = "Entries"}

Next ==
  \/ \E t \in Threads :
       \/ \E batch \in Offered(t, "consume", Batches), do_sync \in SyncChoices :
            consume(t, batch, do_sync)
       \/ \E batch \in Offered(t, "consume_and_shrink", Batches),
             do_sync \in SyncChoices :
            consume_and_shrink(t, batch, do_sync)
       \/ \E item \in Offered(t, "append", Appends) :
            append(t, item.region_id, item.entries)
       \/ \E r \in Offered(t, "put_raft_state", Regions) :
            put_raft_state(t, r, writes + 1)
       \/ apply_to_memtable(t)
       \/ sync(t)
       \/ \E r \in Offered(t, "gc", Regions), to \in 1 .. (MaxIndex + 1) :
            gc(t, r, 0, to)
       \/ \E r \in Offered(t, "gc_entry_cache", Regions), to \in 1 .. (MaxIndex + 1) :
            gc_entry_cache(t, r, to)
       \/ \E r \in Offered(t, "get_entry", Regions), log_idx \in 1 .. MaxIndex :
            get_entry(t, r, log_idx)
       \/ ReadFromFile(t)
       \/ purge_expired_files(t) \/ PurgeScan(t) \/ PurgeTo(t)
       \/ rewrite_inactive(t) \/ RewriteSlot(t)
       \/ evict_old_from_cache(t) \/ EvictSlot(t)
       \/ regions_need_force_compact(t) \/ GcFileNum(t)
       \/ ForceCompactScan(t) \/ ForceCompactReturn(t)
  \/ Crash \/ Shutdown \/ Open \/ Aborted

Spec == Init /\ [][Next]_vars

-----------------------------------------------------------------------------
(* Types *)

EntryType == [index : 0 .. MaxIndex, data : 0 .. MaxWrites]

EntryIndexType ==
  [index : 0 .. MaxIndex, file_num : Nat, base_offset : Nat, batch_len : Nat,
   offset : Nat, len : 0 .. 1, compression_type : {"None", "Lz4"}]

SlotType == [entry : EntryType, entry_index : EntryIndexType, resident : BOOLEAN]

IsMemtable(mt) ==
  /\ DOMAIN mt = {"region_id", "slots", "cache_size", "cache_limit", "kvs"}
  /\ mt.region_id \in Regions
  /\ mt.slots \in Seq(SlotType)
  /\ mt.cache_size \in Nat /\ mt.cache_limit \in Nat
  /\ DOMAIN mt.kvs \subseteq Keys
  /\ \A k \in DOMAIN mt.kvs : mt.kvs[k] \in [value : Nat, file_num : Nat]

IsItem(item) ==
  /\ item.region_id \in Regions
  /\ CASE item.item_type = "Entries" ->
            item.entries \in Seq(EntryType) /\ item.entries_index \in Seq(EntryIndexType)
       [] item.item_type = "KV" ->
            item.op_type \in {"Put", "Del"} /\ item.key \in Keys /\ item.value \in Nat
       [] item.item_type = "CMD" -> TRUE
       [] OTHER -> FALSE

IsFile(file) ==
  /\ file.header \in BOOLEAN
  /\ \A k \in DOMAIN file.records :
       /\ file.records[k].ok \in BOOLEAN
       /\ file.records[k].batch_len \in Nat
       /\ file.records[k].compression_type \in {"None", "Lz4"}
       /\ \A i \in DOMAIN file.records[k].items : IsItem(file.records[k].items[i])

\* The one type invariant of the module.
TypeOK ==
  /\ pipe_log.first_file_num \in Nat \ {0}
  /\ pipe_log.active_file_num \in Nat \ {0}
  /\ pipe_log.first_file_num <= pipe_log.active_file_num
  /\ pipe_log.synced_offset \in Nat
  /\ DOMAIN pipe_log.files = PL!FileNums(pipe_log)
  /\ \A f \in DOMAIN pipe_log.files : IsFile(pipe_log.files[f])
  /\ DOMAIN memtables = Slots
  /\ \A s \in Slots :
       /\ DOMAIN memtables[s] \subseteq {r \in Regions : Slot(r) = s}
       /\ \A r \in DOMAIN memtables[s] :
            IsMemtable(memtables[s][r]) /\ memtables[s][r].region_id = r
  /\ pc \in [Threads -> {"idle", "apply", "read_file", "purge_scan", "purge_to",
                          "rewrite", "evict", "gc_file_num", "force_compact",
                          "force_compacted"}]
  /\ \A t \in Threads :
       /\ \A i \in DOMAIN local[t].items : IsItem(local[t].items[i])
       /\ local[t].file_num \in Nat /\ local[t].slot \in 0 .. SLOTS_COUNT
       /\ local[t].min_file_num \in Nat /\ local[t].inactive_file_num \in Nat
       /\ local[t].gc_file_num \in Nat /\ local[t].regions \subseteq Regions
       /\ local[t].entry_idx \in EntryIndexType
       /\ (pc[t] = "apply") = (local[t].items # <<>>)
  /\ status \in {"running", "down"} \cup Panics
  /\ raft_last \in [Regions -> 0 .. MaxIndex]
  /\ writes \in 0 .. MaxWrites
  /\ restarts \in 0 .. MaxRestarts

-----------------------------------------------------------------------------
(* What a reader sees: the memtables read through the cache and the files *)

\* get: the value of a key, {} for None, under the read lock of the slot.
get(mts, region_id, key) ==
  IF HasMemtable(mts, region_id)
    THEN MT!get(mts[Slot(region_id)][region_id], key)
    ELSE {}

\* The payload a slot stands for; 0 when the file does not give it.
SlotData(pl, slot) ==
  IF slot.resident
    THEN slot.entry.data
    ELSE read_entry_from_file(pl, slot.entry_index).entry.data

ViewOf(pl, mts) ==
  [r \in Regions |->
     IF HasMemtable(mts, r)
       THEN LET mt == mts[Slot(r)][r]
            IN  [present |-> TRUE,
                 entries |-> {<<mt.slots[p].entry_index.index, SlotData(pl, mt.slots[p])>> :
                                p \in DOMAIN mt.slots},
                 kvs     |-> {<<k, value>> \in Keys \X (1 .. MaxWrites) :
                                value \in get(mts, r, k)}]
       ELSE [present |-> FALSE, entries |-> {}, kvs |-> {}]]

View == ViewOf(pipe_log, memtables)

Quiescent == \A t \in Threads : pc[t] # "apply"

-----------------------------------------------------------------------------
(* Properties *)

\* Every memtable holds the entries of consecutive indexes, each with the
\* locator of its own index: apply_to_memtable, recover and the batch that
\* rewrite_inactive puts together (entries read from the files before the
\* cached ones) all hand the memtable entries in index order.
WindowsGapFree ==
  \A mt \in Memtables(memtables) :
    \A p \in DOMAIN mt.slots :
      /\ mt.slots[p].entry_index.index = mt.slots[1].entry_index.index + p - 1
      /\ mt.slots[p].resident => mt.slots[p].entry.index = mt.slots[p].entry_index.index

\* The cache counter of every memtable is the size of its resident
\* entries and is within half of region_size, the limit apply_to_memtable
\* creates memtables with; and the resident entries are the newest ones,
\* on which rewrite_inactive and fetch_entries_to rely when they put the
\* entries read from files before the cached ones.
CacheBounded ==
  \A mt \in Memtables(memtables) :
    /\ mt.cache_size = MT!ResidentSize(mt.slots)
    /\ mt.cache_size <= REGION_SIZE \div 2
    /\ \A p, q \in DOMAIN mt.slots : p < q /\ mt.slots[p].resident => mt.slots[q].resident

\* Every locator of every memtable leads to its entry: the file is there
\* (purge_expired_files has not removed it), the record is where the
\* locator says (through rotation, compression and rewrite), and a cached
\* entry is the one the file holds.  So does the locator get_entry has
\* taken under the lock and reads the file with after it has let the lock
\* go, whatever other threads have written, compacted or rewritten in
\* between.  While the engine runs, get_entry and rewrite_inactive cannot
\* fail on a locator they find.
LocatorsResolve ==
  Running =>
    /\ \A mt \in Memtables(memtables) :
         \A p \in DOMAIN mt.slots :
           LET read == read_entry_from_file(pipe_log, mt.slots[p].entry_index)
           IN  /\ read.ok
               /\ mt.slots[p].resident => read.entry = mt.slots[p].entry
    /\ \A t \in Threads :
         pc[t] = "read_file" => read_entry_from_file(pipe_log, local[t].entry_idx).ok

\* The result of a fetch that has given all of [begin, end), in order.
IsRange(fetched, begin, end) ==
  /\ fetched.err = "None"
  /\ Len(fetched.entries) = end - begin
  /\ \A j \in DOMAIN fetched.entries : fetched.entries[j].index = begin + j - 1

\* fetch_entries_to gives every entry from an index of the window to its
\* end, in index order, without gap or repetition, and does not fail: the
\* entries it reads from the files are put before the cached ones, which
\* is right only as long as every eviction (append over the cache limit,
\* gc_entry_cache, evict_old_from_cache, recover) takes the oldest first.
FetchInOrder ==
  Running =>
    \A mt \in Memtables(memtables) :
      \A p \in DOMAIN mt.slots :
        IsRange(fetch_entries_to(pipe_log, memtables, mt.region_id,
                                 mt.slots[p].entry_index.index,
                                 MT!last_index(mt) + 1, NoLimit),
                mt.slots[p].entry_index.index, MT!last_index(mt) + 1)

\* When rewrite_inactive returns, no memtable with fewer entries than
\* compact_threshold refers to a file before the inactive_file_num the
\* pass began with: one pass over all the slots has moved each of them to
\* the active file, so that purge_expired_files can remove the files
\* before.  (Of one thread: a write of another that is still to be
\* applied brings its old file number with it.)
RewriteClearsInactive ==
  [][\A t \in Threads :
       pc[t] = "rewrite" /\ pc'[t] = "idle" /\ status' = "running" =>
         \A mt \in Memtables(memtables') :
           MT!entries_count(mt) < COMPACT_THRESHOLD =>
             \A file_num \in MT!min_file_num(mt) :
               file_num >= local[t].inactive_file_num]_vars

\* Every key/value pair is anchored in a file that is there and that holds
\* a record putting this value: what purge_expired_files keeps for the
\* pairs, also after rewrite_inactive has moved them.
KvsAnchored ==
  Running =>
    \A mt \in Memtables(memtables) :
      \A k \in DOMAIN mt.kvs :
        /\ mt.kvs[k].file_num \in PL!FileNums(pipe_log)
        /\ \E record \in Range(pipe_log.files[mt.kvs[k].file_num].records) :
             LB!put(mt.region_id, k, mt.kvs[k].value) \in Range(record.items)

\* Whatever a crash leaves on the disk, the engine opens again in
\* TolerateCorruptedTailRecords mode, and in AbsoluteConsistency mode it
\* refuses exactly when the active file ends in a torn record.  A crash
\* damages the tail of the active file only (rotation has fsynced the
\* files before it), and recover must leave the file such that the same is
\* true of the next crash, after more writes and rotations.
OpensAfterCrash ==
  status = "down" =>
    LET torn == \E record \in Range(pipe_log.files[pipe_log.active_file_num].records) :
                  LB!DecodeFails(record)
    IN  /\ new(pipe_log, TolerateCorruptedTailRecords).panic = "None"
        /\ new(pipe_log, AbsoluteConsistency).panic =
             IF torn THEN "IncompleteBatch" ELSE "None"

=============================================================================
