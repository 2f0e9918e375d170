-------------------------- MODULE PackageDecisions --------------------------
(***************************************************************************)
(* What the intake of packages promises: one attempt at a time is before   *)
(* the owner, who approves or cancels it, once; an approval can only be    *)
(* completed; an attempt goes when it is completed or cancelled; and a     *)
(* package is approved in one attempt at most.                             *)
(***************************************************************************)
EXTENDS Naturals

CONSTANTS Packages, Nothing

VARIABLES
    current,   \* the attempt before the owner, or Nothing
    decisions  \* what was ever signed

vars == <<current, decisions>>

Decision(s) == [review |-> current.review, try |-> current.try, stage |-> s]

Init == current = Nothing /\ decisions = {}

Begin ==
    /\ current = Nothing
    /\ current' \in [review : Packages, try : Nat]
    /\ \A d \in decisions : d.try # current'.try
    /\ UNCHANGED decisions

Decide(s) ==
    /\ current # Nothing
    /\ \A d \in decisions : d.try # current.try
    /\ s = "approved" =>
           \A d \in decisions : d.review = current.review => d.stage = "cancelled"
    /\ decisions' = decisions \cup {Decision(s)}
    /\ UNCHANGED current

Complete ==
    /\ current # Nothing
    /\ Decision("approved") \in decisions
    /\ decisions' = decisions \cup {Decision("completed")}
    /\ UNCHANGED current

Close ==
    /\ current # Nothing
    /\ \E s \in {"completed", "cancelled"} : Decision(s) \in decisions
    /\ current' = Nothing
    /\ UNCHANGED decisions

Next == Begin \/ Decide("approved") \/ Decide("cancelled") \/ Complete \/ Close

Spec == Init /\ [][Next]_vars
=============================================================================
