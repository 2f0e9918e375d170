---------------------------- MODULE OutboxPromise ----------------------------
(***************************************************************************)
(* What the outbox of governed work promises: a request that was put into  *)
(* it stays until it has had its effect, and what follows from it is in    *)
(* the outbox, or until another of its kind stands in for it, which was    *)
(* settled by an effect of its own; no request has an effect that was not  *)
(* put into the outbox; and nothing of this is ever undone.                *)
(***************************************************************************)
CONSTANTS
    Requests,
    KindOf,   \* KindOf[r]: what sort of request it is
    Follows   \* Follows[r]: the requests that have to follow from it

VARIABLES outbox, effective, settled

vars == <<outbox, effective, settled>>

Init == outbox = {} /\ effective = {} /\ settled = {}

Put(r) ==
    /\ outbox' = outbox \cup {r}
    /\ UNCHANGED <<effective, settled>>

Work(r) ==
    /\ r \in outbox
    /\ effective' = effective \cup {r}
    /\ UNCHANGED <<outbox, settled>>

Fulfilled(r) == r \in effective /\ Follows[r] \subseteq outbox

StandsIn(s, r) == s \in settled \ {r} /\ Fulfilled(s) /\ KindOf[s] = KindOf[r]

Settle(r) ==
    /\ r \in outbox
    /\ Fulfilled(r) \/ \E s \in Requests : StandsIn(s, r)
    /\ settled' = settled \cup {r}
    /\ UNCHANGED <<outbox, effective>>

Next == \E r \in Requests : Put(r) \/ Work(r) \/ Settle(r)

Spec == Init /\ [][Next]_vars
=============================================================================
