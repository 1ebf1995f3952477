----------------------------- MODULE MCObjectPool -----------------------------
(***************************************************************************)
(* Two threads that share objects of a class and of a class derived from   *)
(* it, with fewer places in a bucket than there are objects.               *)
(***************************************************************************)
EXTENDS ObjectPool, TLC

CONSTANTS base, derived

MCBases == (base :> {base}) @@ (derived :> {base, derived})
OneType == (base :> {base})
Symmetry == Permutations(Thread) \cup Permutations(Cell)
=============================================================================
