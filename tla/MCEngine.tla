------------------------------ MODULE MCEngine ------------------------------
(***************************************************************************)
(* The engine instantiated for model checking: the values of the constants *)
(* that are not plain numbers, and the symmetry of the threads.            *)
(***************************************************************************)
EXTENDS Engine, TLC

CONSTANTS t1, t2

\* Every operation of the engine.
AllOps ==
  {"consume", "consume_and_shrink", "append", "put_raft_state", "sync", "gc",
   "gc_entry_cache",
   "get_entry", "purge_expired_files", "rewrite_inactive",
   "evict_old_from_cache", "regions_need_force_compact", "crash", "shutdown"}

\* The operations of a process that neither crashes nor is closed.  The
\* other entries to write (consume_and_shrink, append, put_raft_state) are
\* left to OpenOps.
LiveOps ==
  {"consume", "gc", "gc_entry_cache", "get_entry", "purge_expired_files",
   "rewrite_inactive", "evict_old_from_cache", "regions_need_force_compact"}

\* The operations that change, or could change, what a reader sees.
StoreOps ==
  {"consume", "gc", "purge_expired_files", "rewrite_inactive"}

\* A process that is closed and opened again, with space reclaimed.
RestartOps ==
  {"consume", "gc", "rewrite_inactive", "purge_expired_files", "shutdown"}

\* A process that may crash at any point.
CrashOps == {"consume", "sync", "gc", "rewrite_inactive", "crash"}

\* A process that may crash while space is reclaimed.
CrashPurgeOps == CrashOps \cup {"purge_expired_files"}

\* A process that is stopped and started in every way.
OpenOps ==
  {"consume_and_shrink", "append", "put_raft_state", "sync", "gc", "crash",
   "shutdown"}

\* Threads that write and remove files.
PurgeOps == {"consume", "purge_expired_files"}

\* Threads that write and rewrite in a process that is closed and opened.
RewriteOps == {"consume", "gc", "rewrite_inactive", "shutdown"}

\* Threads that write, compact, read and rewrite, and remove no file.
ThreadOps == {"consume", "gc", "get_entry", "rewrite_inactive"}

OneThread == {t1}
TwoThreads == {t1, t2}

ThreadSymmetry == Permutations(TwoThreads)

=============================================================================
