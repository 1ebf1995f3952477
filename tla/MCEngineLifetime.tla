-------------------------- MODULE MCEngineLifetime --------------------------
(***************************************************************************)
(* Two modules, of which the application holds up to two objects each.     *)
(***************************************************************************)
EXTENDS EngineLifetime, TLC

Symmetry == Permutations(Module)
=============================================================================
