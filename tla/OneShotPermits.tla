--------------------------- MODULE OneShotPermits ---------------------------
(***************************************************************************)
(* What a call admission promises: a permit is used for one run or becomes *)
(* void, and neither is ever undone.                                       *)
(***************************************************************************)
CONSTANT Permits
VARIABLE permit

Init == permit = [c \in Permits |-> "open"]

Turn(c, to) ==
    /\ permit[c] = "open"
    /\ permit' = [permit EXCEPT ![c] = to]

Next == \E c \in Permits : Turn(c, "run") \/ Turn(c, "void")

Spec == Init /\ [][Next]_permit

=============================================================================
