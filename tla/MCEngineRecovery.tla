-------------------------- MODULE MCEngineRecovery --------------------------
(***************************************************************************)
(* The engine with the history variables of EngineRecovery, instantiated   *)
(* for model checking with the constants of MCEngine.                      *)
(***************************************************************************)
EXTENDS EngineRecovery, MCEngine

=============================================================================
