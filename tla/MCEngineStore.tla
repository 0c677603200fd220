--------------------------- MODULE MCEngineStore ---------------------------
(***************************************************************************)
(* The engine with the variable of the refinement mapping, instantiated    *)
(* for model checking with the constants of MCEngine.                      *)
(***************************************************************************)
EXTENDS EngineStore, MCEngine

=============================================================================
