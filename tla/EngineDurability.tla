-------------------------- MODULE EngineDurability --------------------------
(***************************************************************************)
(* The engine across a crash: what had been fsynced against what recover   *)
(* finds.  To the history variables of EngineRecovery this module adds     *)
(*                                                                         *)
(*   durable   the entries and pairs that a reader has seen while every    *)
(*             byte of the log was fsynced and no write was under way      *)
(***************************************************************************)
EXTENDS EngineRecovery

VARIABLE durable

AllSynced == pipe_log.synced_offset = PL!active_write_offset(pipe_log)

DurabilityInit == RecoveryInit /\ durable = NoFacts

DurabilityNext ==
  /\ RecoveryNext
  /\ durable' = IF Running /\ Quiescent /\ AllSynced
                  THEN [entries |-> durable.entries \cup Facts(View).entries,
                        kvs     |-> durable.kvs \cup Facts(View).kvs]
                  ELSE durable

DurabilitySpec == DurabilityInit /\ [][DurabilityNext]_<<vars, history, durable>>

\* What a reader has seen while the log was fsynced, and still saw when
\* the process crashed, is there after recover: a crash loses unsynced
\* bytes only, and recover in TolerateCorruptedTailRecords mode truncates
\* no more than the torn tail.
DurableSurvives ==
  opened /\ Running /\ stopped.quiescent =>
    /\ durable.entries \cap stopped.facts.entries \subseteq Facts(View).entries
    /\ durable.kvs \cap stopped.facts.kvs \subseteq Facts(View).kvs

=============================================================================
