---------------------------- MODULE EngineLocks ----------------------------
(***************************************************************************)
(* The locks of the engine, and nothing else: which locks every operation  *)
(* of FileEngineInner takes, in which order, and which it still holds when *)
(* it asks for the next.  Module Engine takes the section under a shard    *)
(* lock as one step and so cannot show a thread that waits; here a thread  *)
(* waits whenever the lock it asks for is held against it.                 *)
(*                                                                         *)
(* There is one reader-writer lock for every slot of `memtables` and one   *)
(* mutex in the pipe log.  Every call of the pipe log is taken to lock the *)
(* mutex and to let it go before it returns: append_log_batch does, and    *)
(* for the others this is the most they can do.  An operation is the       *)
(* sequence of lock and unlock instructions its code runs through; what it *)
(* does to the memtables in between is in Engine.                          *)
(*                                                                         *)
(* A call whose result is unwrapped may panic, and a read that fails in    *)
(* fetch_entries_to returns its error: the guards of the thread are        *)
(* dropped, a write guard dropped in a panic poisons its lock, and whoever *)
(* takes a poisoned lock unwraps the error it gets and panics too.         *)
(*                                                                         *)
(*   held      the locks held: [thread, lock, mode]                        *)
(*   todo      for every thread the instructions left of its operation     *)
(*   calls     the operations begun so far                                 *)
(*   poisoned  the locks a thread held for writing when it panicked        *)
(*   panicked  the threads a panic has ended                               *)
(***************************************************************************)
EXTENDS Integers, Sequences, SequencesExt

CONSTANTS
  Threads,       \* the OS threads that share the engine
  Regions,       \* the region ids in use, naturals
  SLOTS_COUNT,   \* the number of shards of the memtables
  MaxItems,      \* bound: the items of one log batch
  MaxPipeCalls,  \* bound: the calls of the pipe log under one shard lock
  MaxCalls       \* bound: the operations begun in one behaviour

VARIABLES held, todo, calls, poisoned, panicked

vars == <<held, todo, calls, poisoned, panicked>>

Slots == 0 .. SLOTS_COUNT - 1

PipeLogMutex == -1

Locks == Slots \cup {PipeLogMutex}

\* Faulty: the region id itself indexes the shards.
SlotOutOfRange(region_id) == region_id

Slot(region_id) == region_id % SLOTS_COUNT

-----------------------------------------------------------------------------
(* The operations, as the lock instructions they run through *)

\* A guard lives from its lock to the end of its block.
Locked(mode, lock, inside) ==
  <<[op |-> mode, lock |-> lock]>> \o inside \o <<[op |-> "unlock", lock |-> lock]>>

\* A call of the pipe log: append_log_batch, sync, purge_to, files_before,
\* or fread in read_entry_from_file.
PipeLogCall == Locked("write", PipeLogMutex, <<>>)

PipeLogCalls(n) == FlattenSeq([k \in 1 .. n |-> PipeLogCall])

\* n calls of the pipe log that return a Result: the mutex is let go, and
\* on an error "unwrap" panics and "try" (the ? operator) returns it.
Checked(n, how) ==
  FlattenSeq([k \in 1 .. n |-> <<[op |-> "write", lock |-> PipeLogMutex],
                                 [op |-> how, lock |-> PipeLogMutex]>>])

\* One section under the lock of every slot, slot 0 first.
EverySlot(mode) ==
  FlattenSeq([s \in 1 .. SLOTS_COUNT |-> Locked(mode, s - 1, <<>>)])

\* Every item is applied under the write lock of its region's slot.
apply_to_memtable(regions) ==
  FlattenSeq([k \in DOMAIN regions |-> Locked("write", Slot(regions[k]), <<>>)])

post_append_to_file(regions) ==
  IF regions = <<>> THEN <<>> ELSE apply_to_memtable(regions)

\* Faulty: the batch is applied before the pipe log is let go.
write_under_mutex(regions) ==
  Locked("write", PipeLogMutex, post_append_to_file(regions))

\* An append that fails is returned and nothing is applied.
write(regions) == Checked(1, "try") \o post_append_to_file(regions)

sync == PipeLogCall

\* Faulty: the rewritten batch goes through apply_to_memtable, which locks
\* the slot of its region.
rewrite_inactive_by_apply(inactive, calls_in) ==
  PipeLogCall \o
    IF ~inactive
      THEN <<>>
      ELSE FlattenSeq([s \in 1 .. SLOTS_COUNT |->
             Locked("write", s - 1,
               IF calls_in[s] = 0
                 THEN <<>>
                 ELSE Checked(calls_in[s], "unwrap") \o Locked("write", s - 1, <<>>))])

\* files_before, then every slot under its write lock: calls_in[s] are the
\* reads from file and the appends for the memtables of slot s - 1 that are
\* rewritten, every one unwrapped, and the batch is applied without another
\* lock.
rewrite_inactive(inactive, calls_in) ==
  PipeLogCall \o
    IF ~inactive
      THEN <<>>
      ELSE FlattenSeq([s \in 1 .. SLOTS_COUNT |->
             Locked("write", s - 1, Checked(calls_in[s], "unwrap"))])

\* files_before twice, then every slot under its read lock.
regions_need_force_compact == PipeLogCalls(2) \o EverySlot("read")

evict_old_from_cache(inactive) ==
  PipeLogCall \o IF ~inactive THEN <<>> ELSE EverySlot("write")

\* purge_to is called when no shard is locked any more.
purge_expired_files == EverySlot("read") \o PipeLogCall

compact_to(region_id) == Locked("write", Slot(region_id), <<>>)

compact_cache_to(region_id) == Locked("write", Slot(region_id), <<>>)

kv_count(region_id) == Locked("read", Slot(region_id), <<>>)

get(region_id) == Locked("read", Slot(region_id), <<>>)

\* An entry that is not cached is read from file after the guard is
\* dropped, and a read that fails is a panic.
get_entry(region_id, cached) ==
  Locked("read", Slot(region_id), <<>>) \o Checked(IF cached THEN 0 ELSE 1, "unwrap")

\* The entries that are not cached are read from file under the guard; a
\* read that fails returns its error.
fetch_entries_to(region_id, reads) ==
  Locked("read", Slot(region_id), Checked(reads, "try"))

-----------------------------------------------------------------------------
(* The locks *)

\* The holders that keep a thread from taking the lock in this mode.
InTheWay(mode, lock) ==
  {h \in held : h.lock = lock /\ "write" \in {h.mode, mode}}

At(t, ops) == todo[t] # <<>> /\ Head(todo[t]).op \in ops

Waiting(t) == At(t, {"read", "write"})

CanLock(t) == Waiting(t) /\ InTheWay(Head(todo[t]).op, Head(todo[t]).lock) = {}

\* The operation ends where it is and its guards are dropped.
Unwind(t) ==
  /\ held' = {h \in held : h.thread # t}
  /\ todo' = [todo EXCEPT ![t] = <<>>]
  /\ UNCHANGED calls

\* The guards a panic or an error at the instruction finds alive: not the
\* lock of the instruction, which the call that failed has let go.
Guards(t) == {h \in held : h.thread = t /\ h.lock # Head(todo[t]).lock}

\* The thread panics: the locks it holds for writing are poisoned.
Panic(t) ==
  /\ Unwind(t)
  /\ poisoned' = poisoned \cup {h.lock : h \in {g \in Guards(t) : g.mode = "write"}}
  /\ panicked' = panicked \cup {t}

\* .read().unwrap() and .write().unwrap() on a lock that is not poisoned.
Lock(t) ==
  /\ CanLock(t) /\ Head(todo[t]).lock \notin poisoned
  /\ held' = held \cup {[thread |-> t, lock |-> Head(todo[t]).lock,
                         mode |-> Head(todo[t]).op]}
  /\ todo' = [todo EXCEPT ![t] = Tail(@)]
  /\ UNCHANGED <<calls, poisoned, panicked>>

\* The same on a poisoned lock: the thread gets it, and an error to unwrap.
LockPoisoned(t) == CanLock(t) /\ Head(todo[t]).lock \in poisoned /\ Panic(t)

\* The end of a block, or of a call of the pipe log that returns Ok.
Unlock(t) ==
  /\ At(t, {"unlock", "unwrap", "try"})
  /\ held' = {h \in held : ~(h.thread = t /\ h.lock = Head(todo[t]).lock)}
  /\ todo' = [todo EXCEPT ![t] = Tail(@)]
  /\ UNCHANGED <<calls, poisoned, panicked>>

\* The call has returned an error, which is unwrapped,
CallPanics(t) == At(t, {"unwrap"}) /\ Panic(t)

\* or handed to the caller.
CallReturnsErr(t) == At(t, {"try"}) /\ Unwind(t) /\ UNCHANGED <<poisoned, panicked>>

\* A thread that is in no operation begins one.
Call(t, instructions) ==
  /\ todo[t] = <<>> /\ t \notin panicked
  /\ calls < MaxCalls
  /\ todo' = [todo EXCEPT ![t] = instructions]
  /\ calls' = calls + 1
  /\ UNCHANGED <<held, poisoned, panicked>>

\* Every operation has returned and the callers have no more, or no thread
\* is left.
Finished ==
  /\ calls = MaxCalls \/ panicked = Threads
  /\ \A t \in Threads : todo[t] = <<>>
  /\ UNCHANGED vars

-----------------------------------------------------------------------------

Init ==
  /\ held = {}
  /\ todo = [t \in Threads |-> <<>>]
  /\ calls = 0
  /\ poisoned = {}
  /\ panicked = {}

\* The regions of the items of a batch, in the order of the items.
BatchRegions == UNION {[1 .. n -> Regions] : n \in 0 .. MaxItems}

Step(t) ==
  \/ Lock(t) \/ LockPoisoned(t) \/ Unlock(t)
  \/ CallPanics(t) \/ CallReturnsErr(t)

Next ==
  \/ \E t \in Threads :
       \/ Step(t)
       \/ \E regions \in BatchRegions : Call(t, write(regions))
       \/ Call(t, sync)
       \/ \E inactive \in BOOLEAN, calls_in \in [1 .. SLOTS_COUNT -> 0 .. MaxPipeCalls] :
            Call(t, rewrite_inactive(inactive, calls_in))
       \/ Call(t, regions_need_force_compact)
       \/ \E inactive \in BOOLEAN : Call(t, evict_old_from_cache(inactive))
       \/ Call(t, purge_expired_files)
       \/ \E region_id \in Regions :
            \/ Call(t, compact_to(region_id))
            \/ Call(t, compact_cache_to(region_id))
            \/ Call(t, kv_count(region_id))
            \/ Call(t, get(region_id))
            \/ \E cached \in BOOLEAN : Call(t, get_entry(region_id, cached))
            \/ \E reads \in 0 .. MaxPipeCalls :
                 Call(t, fetch_entries_to(region_id, reads))
  \/ Finished

\* A thread that can go on does: it is an OS thread, and the scheduler is
\* preemptive.  Nothing is assumed of who gets a lock several threads ask
\* for.
Spec == Init /\ [][Next]_vars /\ \A t \in Threads : WF_vars(Step(t))

-----------------------------------------------------------------------------
(* Properties *)

Instruction == [op : {"read", "write", "unlock", "unwrap", "try"}, lock : Locks]

\* The variables have their types: every lock asked for is the lock of a
\* slot of `memtables` or the mutex of the pipe log (the index
\* region_id % SLOTS_COUNT of every operation on one region).
TypeOK ==
  /\ held \subseteq [thread : Threads, lock : Locks, mode : {"read", "write"}]
  /\ todo \in [Threads -> Seq(Instruction)]
  /\ calls \in 0 .. MaxCalls
  /\ poisoned \subseteq Locks
  /\ panicked \subseteq Threads

\* t waits for u: t asks for a lock that u holds against it.
WaitsFor(t, u) ==
  /\ Waiting(t)
  /\ \E h \in InTheWay(Head(todo[t]).op, Head(todo[t]).lock) : h.thread = u

\* No threads wait for each other in a circle (of any set of threads, one
\* waits for none of the set): rewrite_inactive
\* asks for the pipe log while it holds a shard, so no thread may ask for a
\* shard while it holds the pipe log (write lets the pipe log go before
\* apply_to_memtable), and nobody asks for a shard it holds (rewrite_inactive
\* applies its batch itself instead of calling apply_to_memtable).
NoWaitCycle ==
  \A circle \in SUBSET Threads \ {{}} :
    \E t \in circle : \A u \in circle : ~WaitsFor(t, u)

\* A panic poisons no lock but the shard under which a call of the pipe
\* log failed: a thread that finds a lock poisoned holds nothing for
\* writing when it asks for it, so the failure of one rewrite_inactive
\* takes one shard out of use and neither the other shards nor the pipe
\* log with it.
PoisonDoesNotSpread ==
  [][\A t \in panicked' \ panicked :
       poisoned' # poisoned =>
         /\ At(t, {"unwrap"})
         /\ poisoned' \ poisoned \subseteq Slots]_vars

\* Every operation comes to its end, by a return or by a panic: whatever
\* the callers begin, in whatever order the threads get the locks, and
\* whichever calls fail, no thread waits forever.
OperationsReturn ==
  \A t \in Threads : []<>(todo[t] = <<>>)

=============================================================================
