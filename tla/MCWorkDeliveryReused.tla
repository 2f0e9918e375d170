------------------------ MODULE MCWorkDeliveryReused ------------------------
(* The instance of MCWorkDelivery with a history of what was configured    *)
(* when a request was queued, and of all that the fences named when a sync *)
(* read them.                                                              *)
EXTENDS MCWorkDelivery

VARIABLES
    under,  \* the endpoint configured when a request was queued
    named   \* the entries in a fence when a sync read the fences

UnderInit ==
    /\ Init
    /\ under = [r \in Requests |-> NoEndpoint] /\ named = [p \in Callers |-> {}]
UnderNext ==
    /\ Next
    /\ under' = [r \in Requests |-> IF r \in queued' \ queued THEN url ELSE under[r]]
    /\ named' = [p \in Callers |->
                    CASE pc'[p] = "idle" -> {}
                      [] pc[p] = "read" /\ pc'[p] = "checked" -> UNION {fenced[h] : h \in fences}
                      [] OTHER -> named[p]]
UnderSpec == UnderInit /\ [][UnderNext]_<<vars, under, named>>

\* What was queued under a generation that has been disconnected is not
\* sent under another (RFP-047, CSD-6).
NeverReused ==
    [][\A r \in accepted' \ accepted :
          under[r] \in fences => \E p \in Callers : r \in todo[p] /\ gen[p] = under[r]]_<<vars, under>>

\* A sync posts nothing that a fence named when it read the fences.  It reads
\* what is pending before, and what is queued in between is in no list of its.
FencesHoldAll == \A p \in Callers : Posting(p) => todo[p] \cap named[p] = {}

=============================================================================
