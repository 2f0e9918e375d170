-------------------------- MODULE MCContractIntake --------------------------
(* Two packages that share a document; one brings a judge of its own.      *)
EXTENDS ContractIntake, TLC

CONSTANTS r1, r2

Packages == (r1 :> <<"doc", "judge">>) @@ (r2 :> <<"doc">>)

Symmetry == Permutations(Procs)
=============================================================================
