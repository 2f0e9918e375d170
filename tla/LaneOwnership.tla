--------------------------- MODULE LaneOwnership ---------------------------
(***************************************************************************)
(* What a session lane promises: at most one governed session owns it, a   *)
(* session owns it once, and a session gives the lane up before another    *)
(* takes it (docs/RFP-036, src/apatch/runtime/session.py).  Return and     *)
(* Take are what may happen beside the promise; Next is without them.      *)
(***************************************************************************)
CONSTANTS Sessions, NoSession

VARIABLES
    owner,  \* the session that owns the lane, or NoSession
    used    \* sessions that have ever owned it

vars == <<owner, used>>

Init == owner = NoSession /\ used = {}

Open(s) ==
    /\ owner = NoSession
    /\ s \notin used
    /\ owner' = s
    /\ used' = used \cup {s}

Close ==
    /\ owner # NoSession
    /\ owner' = NoSession
    /\ UNCHANGED used

\* Back to a session that had the lane before, or to none.
Return ==
    /\ owner' \in used \cup {NoSession}
    /\ UNCHANGED used

\* A new session takes the lane from its owner.
Take(s) ==
    /\ owner # NoSession
    /\ s \notin used
    /\ owner' = s
    /\ used' = used \cup {s}

Next == Close \/ \E s \in Sessions : Open(s)

Spec == Init /\ [][Next]_vars
=============================================================================
