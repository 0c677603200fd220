# raft-engine: TLA+ model of the engine

This directory holds a TLA+ model of the storage engine in `src/engine.rs`
(the write-ahead log of a Raft node: entries and key/value pairs of many
regions, appended to segment files and indexed in memory), the TLC
configurations that check it, and `PROJECT.json`, which lists every run, the
source lines every definition models, the findings and the hazards.

## The system

| Part | Code | What it does |
|---|---|---|
| Log batch | `log_batch.rs` (not in the repository) | the unit of a write: a list of items (`Entries`, `KV` put/delete, `Clean` command), framed as one record with header, optional LZ4 compression and a checksum |
| Pipe log | `pipe_log.rs` (not in the repository) | segment files `first_file_num .. active_file_num`; append with rotation and an fsync policy, positional read, truncate of the active file, purge of a prefix |
| Memtable | `memtable.rs` (not in the repository) | per region: a gap-free window of entry slots (cached entry or locator only), a bounded cache, the key/value map with the file each pair was written to |
| Engine | `src/engine.rs` | 128 shards of `region_id -> MemTable`, each behind a `RwLock`; write = append to the pipe log, then apply to the memtables; reads through cache or file; compaction; cache eviction; rewrite of small regions out of old files; purge of files nothing refers to; recovery by replaying the files |

The engine is shared by OS threads. A write holds no lock between its append
and its apply, and the loops of `rewrite_inactive`, `evict_old_from_cache`,
`purge_expired_files` and `regions_need_force_compact` take one shard lock
after the other, so the operations of different threads interleave at every
lock boundary.  Only `rewrite_inactive` asks for a lock while it holds one:
the pipe log's, under the write lock of a shard.

## Modules

| Module | Models | From |
|---|---|---|
| `LogBatch` | items, record length, compression, locators (`EntryIndex`), decoding | design document |
| `PipeLog` | the pipe log as a value and its operations as operators; `CrashImages`: what of the active file a crash can leave | design document |
| `MemTable` | a memtable as a value and its operations as operators | design document |
| `Engine` | `src/engine.rs`: the state machine of the engine | source |
| `EngineLocks` | `src/engine.rs`: the locks every operation takes and releases, the threads that wait for them, and the calls that fail under a lock | source; the semantics of the locks and of poisoning are those of `std::sync` |
| `RaftLogStore` | abstract specification: what a reader of the engine may see | - |
| `EngineStore` | `Engine` implements `RaftLogStore` (refinement mapping `View`) | - |
| `EngineRecovery` | history variables for what a reader saw when the process stopped | - |
| `EngineDurability` | history variable for what a reader saw while the log was fsynced | - |
| `MCEngine`, `MCEngineStore`, `MCEngineRecovery`, `MCEngineDurability` | sets of operations and threads for the configurations | - |

The three modules "from the design document" model code that is not in this
repository; their definitions are marked `spec_modelled` in the map.  Every
definition of `Engine` and `EngineLocks` that stands for code is mapped to
its lines of `src/engine.rs`; the locks themselves (`Lock`, `Unlock`,
`InTheWay`, the pipe log's mutex) are `spec_modelled`.  Not mapped are the bookkeeping of the model (`pc`, `local`,
`Idle`, `Ready`, `Return`, `Goto`), the callers (`ItemsAfter`, `BatchesAfter`,
`FirstIndexes`, `BusyRegions`, `Offered`), the process (`Crash`, `Shutdown`,
`Stopped`, `Aborted`), the properties, and the definitions marked `Faulty:`,
which are the mutated forms the properties are tested against.

### State

| Variable | Code |
|---|---|
| `pipe_log` | `FileEngineInner::pipe_log`: `[files, first_file_num, active_file_num, synced_offset]` |
| `memtables` | `FileEngineInner::memtables`: shard -> (region -> memtable) |
| `pc`, `local` | per thread: the critical section it is to run next, and the local variables it carries there (`log_batch` and `file_num` of `write`; `min_file_num` of the purge scan; `inactive_file_num` and the shard of the loops; `gc_file_num` and `regions` of the force-compaction scan; `entry_idx` of `get_entry`) |
| `status` | `"running"`, `"down"`, or the panic that stopped the process |
| `raft_last`, `writes`, `restarts` | the callers: last index each Raft group has appended, and the counters the bounds are on |

### Steps

A step is one critical section: what the code does while it holds one lock
(or, for the pipe log, inside one call).  The code takes no second shard lock
while it holds one, and the pipe log serialises its own calls, so every
behaviour of the code is a sequence of such steps.

| Operation | Steps |
|---|---|
| `write` (`consume`, `consume_and_shrink`, `append`, `put_raft_state`) | the append (`write`), then one `apply_to_memtable` per item of the batch |
| `gc`, `gc_entry_cache`, `sync` | one |
| `get_entry` | the lookup (`get_entry`), then `ReadFromFile` when the entry is not cached |
| `purge_expired_files` | one `PurgeScan` per shard, then `PurgeTo` |
| `rewrite_inactive` | `files_before` and the early return, then one `RewriteSlot` per shard: all memtables of the shard, each read, appended and applied, under the shard's write lock |
| `evict_old_from_cache` | `files_before`, then one `EvictSlot` per shard |
| `regions_need_force_compact` | `files_before` for the cache limit, `GcFileNum` (`files_before` for the total size), one `ForceCompactScan` per shard, `ForceCompactReturn` (the caller has the set) |
| `FileEngine::new` | `Open`: the whole of `recover`, as nothing else runs |
| `fetch_entries_to`, `get` | operators on a state (one read lock); used by the properties and by `View` |

`RewriteSlot` appends the batches of several memtables in one step.  In the
code an append of another thread can fall between two of them; it then lies
after the copy of one region and before the copy of another, which for each
region is one of the two orders the model has.

### Locks (`EngineLocks`)

`Engine` cannot show a thread that waits, because a step of it is a whole
critical section.  `EngineLocks` keeps only the locks: `held` (who holds
which lock in which mode), and for every thread `todo`, the lock and unlock
instructions left of the operation it is in.  Every operation of
`FileEngineInner` is the sequence of instructions its code runs through:

| Operation | Instructions |
|---|---|
| `write` | the pipe log (append), then for every item the write lock of its region's shard |
| `sync` | the pipe log |
| `rewrite_inactive` | the pipe log (`files_before`); then for every shard its write lock, and under it the pipe log once for every read from file and every append |
| `regions_need_force_compact` | the pipe log twice, then the read lock of every shard |
| `evict_old_from_cache` | the pipe log, then the write lock of every shard |
| `purge_expired_files` | the read lock of every shard, then the pipe log (`purge_to`) |
| `compact_to`, `compact_cache_to` | the write lock of the region's shard |
| `kv_count`, `get` | the read lock of the region's shard |
| `get_entry` | the read lock of the region's shard, then the pipe log if the entry is not cached |
| `fetch_entries_to` | the read lock of the region's shard, and under it the pipe log for every entry not cached |

`Lock(t)` is enabled when nobody holds the lock against the thread (a read
lock against a writer, a write lock against anybody); the locks are not
reentrant.  The design gives the pipe log one mutex; every call of the pipe
log is taken to lock it and to release it before it returns, which is the
most a call can do.

A call of the pipe log whose `Result` the engine looks at may fail, and the
instruction that ends the call says what the code does then:

| Where | On an error |
|---|---|
| `rewrite_inactive`: `read_entry_from_file(..).unwrap_or_else(panic!)` and `append_log_batch(..).unwrap()`, under the shard's write lock | `CallPanics` |
| `get_entry`: `read_entry_from_file(..).unwrap_or_else(panic!)`, after the guard is dropped | `CallPanics` |
| `fetch_entries_to`: `read_entry_from_file(idx)?`, under the shard's read lock | `CallReturnsErr` |
| `write`: `append_log_batch(..)?` | `CallReturnsErr`, nothing is applied |

Both drop the guards of the thread (`Unwind`).  A panic also ends the thread
(`panicked`) and poisons the locks it held for writing (`poisoned`), as a
`std::sync::RwLock` does; a read guard poisons nothing.  Every
`.read().unwrap()` and `.write().unwrap()` on a poisoned lock is a panic of
the thread that asks (`LockPoisoned`).  Why a call fails is not part of this
module: `Engine` has the reads that fail (a file that purge has removed, a
record that does not decode).

### The callers

Raft appends to a group after its last entry or over a suffix of its log
(`FirstIndexes`), and does not start a write for a group while another write
for it is under way (`BusyRegions`): the engine's callers serialise the writes
of one group.  Payloads are numbered by the write that carries them, which is
what lets the properties tell an overwritten entry from the one that replaced
it.

### Lengths

Lengths are counted in units: an entry, a pair or a command is 1 unit, the
record header 1, the checksum 1, the file header 1.  A batch of body length
`>= COMPRESSION_THRESHOLD` is stored compressed, at half its length.  What the
engine depends on is kept: the offset of an entry in the uncompressed body,
the stored length of the record, the place of a record in its file, rotation
at `TARGET_FILE_SIZE`, and the fsync after `BYTES_PER_SYNC` unsynced units.

### Crashes

`Crash` may happen in any state, also between the steps of an operation and
after a panic.  The files closed by a rotation are intact; of the active file
the fsynced prefix survives, followed by any number of the complete records
written after it and possibly one torn record (`CrashImages`).  `Shutdown` is
the drop of the engine with no operation under way: the active file is
fsynced.  `Open` runs `recover` in any of `RecoveryModes`.

## Runs

Common constants: `SLOTS_COUNT = 2`, `COMPRESSION_THRESHOLD = 2`,
`REGION_SIZE = 2` (cache limit 1 entry per region; 4 and 2 entries in
`open`), `CACHE_SIZE_LIMIT = 2`,
`COMPACT_THRESHOLD = 3`, one key.  With `TARGET_FILE_SIZE = 7` a file holds
two records, with `4` one record, so that three writes reach three files.
`MaxItems` is 2 in `threads` and `refine` and 1 elsewhere.

| Run | Specification | Checks | Result |
|---|---|---|---|
| `core` | `Spec`, 1 thread, regions 1 and 2 (two shards) | `TypeOK`, `WindowsGapFree`, `CacheBounded`, `LocatorsResolve`, `KvsAnchored`, `FetchInOrder`, `RewriteClearsInactive` | pass, 303,888 states |
| `threads` | `Spec`, 2 threads (symmetric), batches of up to 2 items | `WindowsGapFree`, `LocatorsResolve` | pass, 366,277 states |
| `refine` | `StoreSpec`, regions 1 and 3 (one shard), batches of up to 2 items | `RefinesStore` | pass, 93,487 states |
| `restart` | `RecoverySpec`, shutdown and reopen | `RecoveryKeepsLog` | pass, 186,480 states |
| `crash` | `DurabilitySpec`, crash, both recovery modes, two restarts | `DurableSurvives` | pass, 98,460 states |
| `open` | `Spec`, crash and shutdown, recovery modes 0, 1 and the invalid 2, a cache of two entries | `OpensAfterCrash`, `CacheBounded`, `LocatorsResolve`, `KvsAnchored`, `FetchInOrder` | pass, 86,022 states |
| `locks` | `EngineLocks`, 3 threads, 3 operations, calls that fail | `TypeOK`, `NoWaitCycle`, `OperationsReturn`, `PoisonDoesNotSpread` | pass, 344,025 states |
| `purge_race` | `Spec`, 2 threads, writes and purge | `LocatorsResolve` | violated |
| `rewrite_race` | `RecoverySpec`, 2 threads, writes and rewrite | `RecoveryKeepsLog` | violated |
| `unsynced_rewrite` | `crash` with purge added | `DurableSurvives` | violated |
| `header_tear` | `crash` with `HeaderTear = TRUE` | `DurableSurvives` | violated |
| `determinism` | `restart` | `ReopenIsExact` | violated |

### Properties

* `WindowsGapFree`: the slots of every memtable have consecutive indexes, and
  a cached entry has the index of its slot.
* `CacheBounded`: the cache counter is the size of the cached entries, within
  the limit, and the cached entries are the newest of the window.
* `LocatorsResolve`: every locator leads, through `read_entry_from_file`, to
  the entry of its index, and to the very entry the cache holds.  This
  includes the locator a `get_entry` has taken under the shard's lock and
  has not yet read the file with: in `threads` the writes, compactions and
  rewrites of the other thread come in between.
* `KvsAnchored`: the file a pair is anchored in exists and holds a record
  that puts this value.
* `FetchInOrder`: `fetch_entries_to` returns the entries of a range in index
  order, whichever of them are cached.
* In `open`, `CacheBounded`, `LocatorsResolve`, `KvsAnchored` and
  `FetchInOrder` are checked of the memtables `recover`
  has built, and of what later writes, compactions and further crashes make
  of them: `recover` binds every entry to the file and the offset its batch
  was read at, anchors every pair in the file it was replayed from, and
  evicts by file while it replays.  A locator that is off by the header of
  the file, an anchor in the file read next, an eviction that does not tell
  the counter or that takes the newer entries are each found there, and
  nowhere else: no other run that has these properties restarts the engine.
* `RewriteClearsInactive` (action property): when `rewrite_inactive` returns,
  no memtable below `compact_threshold` refers to a file before
  `inactive_file_num`.
* `RefinesStore`: every step of the engine is a step of `RaftLogStore` or
  leaves what readers see unchanged.
* `RecoveryKeepsLog`: a stop that loses no byte, followed by `recover`, gives
  back every pair and entry, and nothing new at or above the first index seen
  before.
* `DurableSurvives`: what was read while the whole log was fsynced, and was
  still there when the process crashed, is there after `recover`.
* `OpensAfterCrash`: every disk image the model reaches opens in
  `TolerateCorruptedTailRecords` mode, and fails in `AbsoluteConsistency` mode
  exactly when the active file ends in a torn record.
* `NoWaitCycle` (`EngineLocks`): no threads wait for each other in a circle;
  of every set of threads, one waits for none of the set.
* `OperationsReturn` (`EngineLocks`, liveness): every operation that has
  begun comes to its end, by a return or by a panic; no thread is left
  waiting for a lock, also not for one whose holder has panicked.
* `PoisonDoesNotSpread` (`EngineLocks`, action property): a panic poisons no
  lock but the shard under which a call of the pipe log failed.  A thread
  that meets a poisoned shard holds nothing for writing at that moment, so
  the failure of one `rewrite_inactive` costs one shard, and neither the
  other shards nor the pipe log.  What it does cost: every later operation
  on a region of that shard panics, and so does every loop over all shards
  (`purge_expired_files`, `rewrite_inactive`, `evict_old_from_cache`,
  `regions_need_force_compact`) when it comes to it.

Every property of a passing run has a mutant in `PROJECT.json`: a `Faulty:`
definition that changes one mapped definition the way a bug would, and under
which TLC finds the property violated.

### Why the bounds are enough

* Two shards with one region each (`core`), and one shard with two regions
  (`refine`): both "another shard" and "another region of the same shard"
  occur.
* `REGION_SIZE = 2` gives a cache of one entry, so a write of two entries
  evicts, and windows with cached and uncached slots occur in every run.
  It also lets `entries_size` pass `region_size`, which the force-compaction
  scan of `core` needs.  With one cached entry, though, the order in which
  entries are evicted cannot show: whatever is cached is the newest.  `open`
  therefore has `REGION_SIZE = 4`, a cache of two entries, where the eviction
  of `recover` (by file) leaves windows whose older part is on file and whose
  newer part is cached, and a window of three entries still overflows.
* `TARGET_FILE_SIZE = 4` in `open`: every write begins a file, so that
  `recover` replays three files, evicts after the second and the third, and
  a crash tears the only record of the active file.  The torn record behind
  an intact one in the same file is the case of `crash` (`TARGET_FILE_SIZE =
  7`).
* `COMPRESSION_THRESHOLD = 2`: batches of one entry are stored plain, of two
  compressed; both read paths are taken.
* `MaxWrites = 3` with files of one or two records reaches three files, so
  that `files_before` returns 2 and 3, rewrite moves regions, and purge
  removes files.  `MaxFileNum = 3` stops rewrites (which write without
  counting as a write of the callers) once file 3 is active.
* `MaxIndex = 3` (2 with two threads, batches of two items or crashes)
  allows an append, an overwrite of a suffix and a compaction in the middle
  of a window.
* `MaxRestarts = 2` in `crash` and `open`: the second recovery reads what the
  first one has truncated and what was written after it.
* `MaxItems = 2` in `threads` and `refine` (with `MaxWrites = 2` and
  `MaxEntries = 1` to pay for it): a batch of two items is applied in two
  steps, with the other thread in between, and a reader sees the first item
  without the second.  The other runs have batches of one item and up to
  three writes of up to two entries.
* `TOTAL_SIZE_LIMIT = 3` in `core`: `files_before` of it returns 2 once the
  log has ten units, so that the force-compaction scan takes both branches
  of `NeedsForceCompact`: memtables left behind in file 1, and those over
  the size limit of a region.
* `locks`: two shards, two regions (one per shard), batches of up to two
  items, at most one call of the pipe log under a shard lock, three threads
  and `MaxCalls = 3` operations.  Every operation releases all its locks
  before it returns, so a state in which threads wait for each other is
  reached by as many operations as there are threads; three threads allow a
  cycle through a shard, the pipe log and a second shard.  The spread of
  poison needs two operations, one that panics under a shard and one that
  meets the shard while it holds another lock, and the third thread is the
  one that would find the second lock poisoned.

### Fairness

`EngineLocks!Spec` has weak fairness of `Step(t)`, the next instruction of
the thread (a lock, an unlock, or the end of a call of the pipe log, whether
it has failed or not), for every thread.  A thread inside an operation is an OS
thread under a preemptive scheduler: when it can go on and stays able to, it
does.  Nothing more is assumed.  Neither `std::sync::RwLock` nor the mutex
promises a waiting thread the lock before others that ask later, so no strong
fairness is assumed for `Lock`, and nothing is assumed about the start of
operations: `OperationsReturn` holds because the callers begin a bounded
number of operations (`MaxCalls`) and every holder of a lock releases it
without waiting for a lock that can stay taken.  It says that the engine
has no deadlock and no livelock among its locks; it does not say that a
writer is never starved by readers that keep coming, which depends on the
lock and not on this code.  When all operations have returned and the callers
have no more, the behaviour goes on stuttering (`Finished`), so that TLC's
deadlock check stays on and reports every state in which the threads are
stuck.

The runs of `Engine` check safety only and assume no fairness.

### History variables

`EngineStore`, `EngineRecovery` and `EngineDurability` add variables that the
engine never reads: `store` (the `View` of the state the last step began in),
`stopped`, `opened` and `durable`.  They are assigned from unprimed
expressions, so they lag one step behind; the properties are stated
accordingly.

## Findings

1. **Purge races with a write** (`purge_race`).  Between the append and the
   apply of a write no memtable refers to the file the batch went to.
   `purge_expired_files` of another thread can remove that file; the apply
   then installs locators that lead nowhere, and `get_entry` panics on them.
   The same purge removes the file of a locator that `get_entry` has taken
   under the shard's lock and reads after it has let the lock go, once the
   entry has been overwritten or rewritten in between: with `get_entry`
   beside `purge_expired_files` the last conjunct of `LocatorsResolve` fails
   in the same way.
2. **Rewrite races with a write** (`rewrite_race`).  A write appended before
   and applied after the rewrite of its region is lost at the next recovery,
   which replays the rewrite's older copy after it.
3. **Rewrite is not synced before the original is purged**
   (`unsynced_rewrite`).  `rewrite_inactive` appends with `sync = false`;
   after `purge_expired_files` a crash loses data that had been fsynced.
4. **A file without header stays in use** (`header_tear`).  After a crash
   that lost the header of a new active file, `recover` truncates to 0 and
   the engine appends to a file with no header; the next open discards what
   was written, fsynced or not.  (The behaviour of `truncate_active_log` is
   taken from the design document.)
5. **Compaction is not recorded** (`determinism`).  `gc` changes the
   memtable only; closing and reopening brings the compacted entries back,
   against the design's "recovery determinism".

6. **The lock order is the reverse of the documented one** (`locks`).  The
   design gives "pipe-log mutex, then memtable shard lock; never reverse".
   The code never holds the pipe log while it asks for a shard, and
   `rewrite_inactive` asks for the pipe log while it holds a shard.  The
   order of the code is free of deadlock (`NoWaitCycle`, `OperationsReturn`);
   a write that kept the pipe log over its apply, which the documented order
   allows, would deadlock with `rewrite_inactive`.

`purge_expired_files`, `rewrite_inactive` and `evict_old_from_cache` are
`#[allow(dead_code)]` in this snapshot: findings 1 to 3 concern the callers
they are written for.

## Not modelled

* **Locks and data together.**  `Engine` has the data with whole critical
  sections as steps, `EngineLocks` has the locks without the data; the two
  are not composed.  In `Engine` the first panic stops the process
  (`status`), as it does when the thread that panics is the last one or the
  program aborts on a panic; what the other threads meet when the process
  goes on is in `EngineLocks`, where a failure is a choice and not the
  outcome of a read.
* **Two writes of one group at a time.**  The callers do not start them
  (`BusyRegions`); the engine would append them in one order and might apply
  them in the other.  With the guard taken out, `threads` has 561,654 states
  in which `WindowsGapFree` and `LocatorsResolve` still hold, and
  `RecoveryKeepsLog` fails after two writes and a reopen, the memtable having
  the write that was appended first and the log the other; the run needs more
  than half as long again as `threads` and is not among the runs kept.
* **The caller of `regions_need_force_compact`**, which is to compact the
  regions returned, is not in the repository.  The scan itself is modelled
  step by step (`GcFileNum`, `ForceCompactScan`, `ForceCompactReturn`), and
  no property is stated of its result.  With one thread the result is what
  `NeedsForceCompact` says of the state, which leaves nothing to check.
  With two threads it can be stale: a write appended to an old file before
  the scan and applied after the scan has read its shard leaves a memtable
  behind `gc_file_num` that is missing from the set until the next scan.
  The design does not say what a stale result must still satisfy.
* **The assertions of `read_entry_from_file`** (`assert_eq!` at lines 539
  and 551) are panics in the code.  `read_entry_from_file` of the model
  returns a failed read in their place, so `fetch_entries_to` of the model
  returns an error where the program aborts.  The properties speak of reads
  that succeed and of `LocatorsResolve`, which says that no read fails, so
  none of them tells the two apart.
* **A failure of `PipeLog::open`** in `Engine::new` (lines 641-646, a
  panic) and the panics of `read_next_file` in `recover` (lines 74-84): the
  pipe log of the model opens and reads whatever the files hold.
* **Cache statistics** (`SharedCacheStats`, `flush_stats`): three atomic
  counters that no operation of the engine reads.  They are added to inside
  `MemTable`, whose code is not in the repository, and `flush_stats` swaps
  each of them to zero on its own, so no count is lost and the three values
  it returns need not be of one moment.  No property of the engine depends
  on them.
* **What `vec` holds after `fetch_entries_to` has failed**: the entries read
  before the failing one (`ReadFetched` has them); the design does not say
  what a caller may expect, so nothing is checked about it.
* **I/O errors** of the pipe log (`append_log_batch`, `read_next_file`,
  `purge_to` failing for reasons of the file system).  `purge_to` with a file
  number above the active file, which the engine can cause, is modelled.
* **Bytes**: varints, CRC32, LZ4 and protobuf are lengths and verdicts;
  `get_msg` and `get_raft_state` decode what `get` returns.
* **Metrics and logging.**

## Running

    tlc -workers 2 -config core.cfg MCEngine

and likewise for every run in `PROJECT.json` (`module`, `cfg`).  Each run
finishes within three minutes on two cores.
