--------------------------- MODULE EngineRecovery ---------------------------
(***************************************************************************)
(* The engine across a stop and the next FileEngine::new: what a reader    *)
(* saw before the process stopped, against what recover rebuilds from the  *)
(* files.  Two history variables record what the properties compare; the   *)
(* engine does not read them.                                              *)
(*                                                                         *)
(*   stopped   when the process is down or has just been opened: what a    *)
(*             reader saw when it stopped, whether no write was under way  *)
(*             then, and whether the stop has left the files intact        *)
(*   opened    the last step was the FileEngine::new that follows a stop   *)
(***************************************************************************)
EXTENDS Engine

VARIABLES stopped, opened

history == <<stopped, opened>>

\* What a reader sees, as facts: <<region, index, payload>> of the entries
\* and <<region, key, value>> of the pairs.
Facts(view) ==
  [entries |-> UNION {{<<r, e[1], e[2]>> : e \in view[r].entries} : r \in Regions},
   kvs     |-> UNION {{<<r, kv[1], kv[2]>> : kv \in view[r].kvs} : r \in Regions}]

NoFacts == [entries |-> {}, kvs |-> {}]

NotStopped == [facts |-> NoFacts, quiescent |-> FALSE, intact |-> FALSE]

Stops == status # "down" /\ status' = "down"

RecoveryInit ==
  /\ Init
  /\ stopped = NotStopped
  /\ opened = FALSE

RecoveryNext ==
  /\ Next
  /\ stopped' = CASE Stops -> [facts     |-> Facts(View),
                               quiescent |-> Running /\ Quiescent,
                               intact    |-> pipe_log'.files = pipe_log.files]
                  [] status = "down" -> stopped
                  [] OTHER -> NotStopped
  /\ opened' = (status = "down")

RecoverySpec == RecoveryInit /\ [][RecoveryNext]_<<vars, history>>

-----------------------------------------------------------------------------
(* Properties *)

Indexes(entries, region_id) == {e[2] : e \in {f \in entries : f[1] = region_id}}

\* A stop that loses no byte of the files (a drop of the engine, or a crash
\* with everything on the disk) and the recover of the next start give
\* back the log a reader saw before: every pair, every entry, and from the
\* first index the reader saw on nothing else.  Entries below that index
\* may come back, because gc compacts the memtable only.  This is what
\* recover replaying the files in order, after rewrite_inactive has copied
\* memtables and purge_expired_files has removed files, has to preserve.
RecoveryKeepsLog ==
  opened /\ Running /\ stopped.intact /\ stopped.quiescent =>
    LET now == Facts(View) IN
      /\ now.kvs = stopped.facts.kvs
      /\ stopped.facts.entries \subseteq now.entries
      /\ \A e \in now.entries \ stopped.facts.entries :
           \A i \in Indexes(stopped.facts.entries, e[1]) : e[2] < i

\* Recovery determinism, as the design states it: closing and reopening
\* gives a memtable set that every public read finds identical.  gc
\* (compact_to) changes the memtable and writes nothing to the log, so
\* this speaks of what recover makes of entries that were compacted.
ReopenIsExact ==
  opened /\ Running /\ stopped.intact /\ stopped.quiescent =>
    Facts(View) = stopped.facts

=============================================================================
