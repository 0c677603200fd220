------------------------- MODULE MCEngineDurability -------------------------
(***************************************************************************)
(* The engine with the history variables of EngineDurability, instantiated *)
(* for model checking with the constants of MCEngine.                      *)
(***************************************************************************)
EXTENDS EngineDurability, MCEngine

=============================================================================
