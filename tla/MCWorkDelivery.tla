--------------------------- MODULE MCWorkDelivery ---------------------------
(* An acceptance with the source request that follows it, a source request *)
(* that the Platform refuses, an evidence admission, two endpoints.        *)
EXTENDS WorkDelivery, TLC

Kinds   == [r \in Requests |-> CASE r = "accept" -> "acceptance"
                                 [] r = "evidence" -> "evidence"
                                 [] OTHER -> "source"]
Sources == [r \in Requests |-> "source"]
Froms   == [k \in Transitions |-> IF k = "k1" THEN "u1" ELSE "u2"]
Tos     == [k \in Transitions |-> IF k = "k1" THEN "u2" ELSE "u1"]

Symmetry == Permutations(Callers)

=============================================================================
