---------------------------- MODULE EngineStore ----------------------------
(***************************************************************************)
(* The engine implements the store of RaftLogStore.  The refinement        *)
(* mapping is View of module Engine: every group's memtable read through   *)
(* the cache and the files.                                                *)
(*                                                                         *)
(* The variable store is a history variable: it holds the View of the      *)
(* state the last step started from.  Its values along a behaviour are     *)
(* the Views of that behaviour's states, one step late, and every state    *)
(* of the engine has a successor, so the behaviours of store are those of  *)
(* View.  (TLC evaluates View in the current state much faster than in     *)
(* the next one.)                                                          *)
(***************************************************************************)
EXTENDS Engine

VARIABLE store

StoreInit == Init /\ store = View

StoreNext == Next /\ store' = View

StoreSpec == StoreInit /\ [][StoreNext]_<<vars, store>>

Abstract == INSTANCE RaftLogStore
              WITH Indexes <- 1 .. MaxIndex, Payloads <- 1 .. MaxWrites

\* A write is the application of its items to the store one by one, each
\* in a step of apply_to_memtable; gc is a compaction of the store; and
\* nothing else (cache eviction, rewrite_inactive, purge_expired_files,
\* sync, the reads) changes what a reader of the engine sees.
RefinesStore == Abstract!Spec

=============================================================================
