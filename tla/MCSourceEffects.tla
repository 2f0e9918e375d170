-------------------------- MODULE MCSourceEffects --------------------------
(* The calls are interchangeable. *)
EXTENDS SourceEffects, TLC

Symmetry == Permutations(Calls)
=============================================================================
