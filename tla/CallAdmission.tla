--------------------------- MODULE CallAdmission ---------------------------
(***************************************************************************)
(* Admission of MCP tool calls (src/apatch/mcp/call_admission.py).  A      *)
(* server issues a challenge for one call, the holder of the caller's      *)
(* passport answers it, and the answer is checked against the public       *)
(* registry and claimed before the tool is invoked.  Challenges and the    *)
(* markers of used ones are files that the servers of a namespace share    *)
(* under one file lock, so an answer may be given to another server, or to *)
(* several, and a server may die anywhere.                                 *)
(*                                                                         *)
(* Signatures, commitments and policies are either right or refused, which *)
(* is left open.  Time is a clock that the servers share; it may pass      *)
(* between any two steps, also while a call waits for the lock.            *)
(***************************************************************************)
EXTENDS Naturals, FiniteSets

CONSTANTS
    Procs,
    Challenges,  \* challenge ids, drawn at random and never reused
    NoProc, NoChallenge,
    Lifetime,    \* of a challenge
    Limit,       \* challenges that may be pending at a time
    Horizon,     \* bound on the clock
    MaxFaults    \* bound on deaths and on exceptions

ASSUME AdmissionConstants ==
    /\ NoProc \notin Procs /\ NoChallenge \notin Challenges
    /\ Lifetime \in Nat \ {0} /\ Limit \in Nat
    /\ Horizon \in Nat /\ MaxFaults \in Nat

VARIABLES
    now,
    revoked,    \* the registry has revoked the holder
    record,     \* challenges/<id>.json; a server that dies leaves it torn
    expires,    \* when a challenge expires
    used,       \* used/<id>.json
    lock,       \* the server in the namespace lock
    admitted, denied, receipts, unpublished, \* admission.jsonl
    pc,         \* where the call of a server stands
    chal,       \* the challenge of that call
    stale,      \* history: the holder was revoked when the answer came
    runs,       \* history: invocations of the tool, counted to two
    faults

journal == <<admitted, denied, receipts, unpublished>>
vars == <<now, revoked, record, expires, used, lock, journal, pc, chal, stale, runs, faults>>

Points == {"idle", "issue", "validate", "recheck", "claim", "claimed", "burn",
           "journal", "invoke", "complete", "publish", "deny"}

----------------------------------------------------------------------------
(* Helpers *)

Live(c) == now < expires[c]

\* Fault: the registry is not asked again for an answer.
PassportAtIssue == TRUE

\* The holder's passport in a snapshot of the public registry.
Passport == ~revoked

\* Fault: the marker of a used challenge is not looked for.
AvailableWhole(c) == record[c] = "whole"

\* The record of a challenge can be read, and it was not used.
Available(c) == record[c] = "whole" /\ c \notin used

Goto(p, point) ==
    /\ pc' = [pc EXCEPT ![p] = point]
    /\ chal' = [chal EXCEPT ![p] = IF point = "idle" THEN NoChallenge ELSE @]
    /\ stale' = [stale EXCEPT ![p] = point # "idle" /\ @]

Fault == faults < MaxFaults /\ faults' = faults + 1

----------------------------------------------------------------------------
(* Environment *)

Tick ==
    /\ now < Horizon
    /\ now' = now + 1
    /\ UNCHANGED <<revoked, record, expires, used, lock, journal, pc, chal, stale, runs, faults>>

Revoke ==
    /\ ~revoked
    /\ revoked' = TRUE
    /\ UNCHANGED <<now, record, expires, used, lock, journal, pc, chal, stale, runs, faults>>

----------------------------------------------------------------------------
(* issue *)

Expired == {c \in Challenges : record[c] = "whole" /\ ~Live(c)}
Pending == {c \in Challenges : record[c] = "whole" /\ Live(c)}

\* Every record is read: a torn one stops the issue, expired ones are
\* unlinked, the others count.
Torn == \E c \in Challenges : record[c] = "torn"

\* An issue that is refused has unlinked what it came across.
IssueRefused(p) ==
    /\ pc[p] = "idle" /\ lock = NoProc /\ Passport
    /\ Torn \/ Cardinality(Pending) >= Limit
    /\ \E gone \in SUBSET Expired :
          /\ ~Torn => gone = Expired
          /\ record' = [k \in Challenges |-> IF k \in gone THEN "none" ELSE record[k]]
    /\ UNCHANGED <<now, revoked, expires, used, lock, journal, pc, chal, stale, runs, faults>>

\* With the limit not reached the record of the new challenge is created,
IssueOpen(p, c) ==
    /\ pc[p] = "idle" /\ lock = NoProc /\ Passport
    /\ expires[c] = 0
    /\ ~Torn /\ Cardinality(Pending) < Limit
    /\ record' = [k \in Challenges |-> IF k = c THEN "torn"
                                       ELSE IF k \in Expired THEN "none" ELSE record[k]]
    /\ expires' = [expires EXCEPT ![c] = now + Lifetime]
    /\ lock' = p
    /\ pc' = [pc EXCEPT ![p] = "issue"] /\ chal' = [chal EXCEPT ![p] = c]
    /\ UNCHANGED <<now, revoked, used, journal, stale, runs, faults>>

\* and written.
IssueWrite(p) ==
    /\ pc[p] = "issue"
    /\ record' = [record EXCEPT ![chal[p]] = "whole"]
    /\ lock' = NoProc
    /\ Goto(p, "idle")
    /\ UNCHANGED <<now, revoked, expires, used, journal, runs, faults>>

----------------------------------------------------------------------------
(* accept *)

\* Fault: the challenge that the answer names is not kept.
AnswerUnnamed(p, c) ==
    /\ pc[p] = "idle" /\ expires[c] # 0
    /\ lock = NoProc
    /\ pc' = [pc EXCEPT ![p] = IF Available(c) THEN "validate" ELSE "deny"]
    /\ UNCHANGED <<now, revoked, record, expires, used, lock, journal, chal, stale, runs, faults>>

\* An answer comes, to any server, as often as it is sent.
Answer(p, c) ==
    /\ pc[p] = "idle" /\ expires[c] # 0
    /\ lock = NoProc
    /\ pc' = [pc EXCEPT ![p] = IF Available(c) THEN "validate" ELSE "deny"]
    /\ chal' = [chal EXCEPT ![p] = c]
    /\ stale' = [stale EXCEPT ![p] = revoked]
    /\ UNCHANGED <<now, revoked, record, expires, used, lock, journal, runs, faults>>

\* The challenge is live, and the holder and the permission are good in a
\* snapshot of the registry taken for this answer.
Validate(p) ==
    /\ pc[p] = "validate" /\ Live(chal[p]) /\ Passport
    /\ Goto(p, "recheck")
    /\ UNCHANGED <<now, revoked, record, expires, used, lock, journal, runs, faults>>

\* The permission may have had to be waited for: revocations are fetched
\* once more.
Recheck(p) ==
    /\ pc[p] = "recheck" /\ Live(chal[p]) /\ Passport
    /\ Goto(p, "claim")
    /\ UNCHANGED <<now, revoked, record, expires, used, lock, journal, runs, faults>>

\* Anything else, a network that fails included, refuses the answer.
Refuse(p) ==
    /\ pc[p] \in {"validate", "recheck"}
    /\ Goto(p, "burn")
    /\ UNCHANGED <<now, revoked, record, expires, used, lock, journal, runs, faults>>

\* _claim creates the marker in the lock, whatever comes after it,
Claim(p) ==
    /\ pc[p] = "claim" /\ lock = NoProc
    /\ Available(chal[p])
    /\ used' = used \cup {chal[p]}
    /\ lock' = p
    /\ Goto(p, "claimed")
    /\ UNCHANGED <<now, revoked, record, expires, journal, runs, faults>>

ClaimFails(p) ==
    /\ pc[p] \in {"claim", "burn"} /\ lock = NoProc
    /\ ~Available(chal[p])
    /\ Goto(p, "deny")
    /\ UNCHANGED <<now, revoked, record, expires, used, lock, journal, runs, faults>>

\* Fault: the admission is not journaled before the tool is invoked.
ClaimCheckInvokes(p) ==
    /\ pc[p] = "claimed"
    /\ lock' = NoProc
    /\ Goto(p, IF Live(chal[p]) THEN "invoke" ELSE "deny")
    /\ UNCHANGED <<now, revoked, record, expires, used, journal, runs, faults>>

\* and then looks whether the challenge has expired.
ClaimCheck(p) ==
    /\ pc[p] = "claimed"
    /\ lock' = NoProc
    /\ Goto(p, IF Live(chal[p]) THEN "journal" ELSE "deny")
    /\ UNCHANGED <<now, revoked, record, expires, used, journal, runs, faults>>

\* A refused answer uses up its challenge too.
Burn(p) ==
    /\ pc[p] = "burn" /\ lock = NoProc
    /\ Available(chal[p])
    /\ used' = used \cup {chal[p]}
    /\ Goto(p, "deny")
    /\ UNCHANGED <<now, revoked, record, expires, lock, journal, runs, faults>>

----------------------------------------------------------------------------
(* dispatch and completed *)

Admit(p) ==
    /\ pc[p] = "journal"
    /\ admitted' = admitted \cup {chal[p]}
    /\ Goto(p, "invoke")
    /\ UNCHANGED <<now, revoked, record, expires, used, lock, denied, receipts, unpublished, runs, faults>>

AdmitFails(p) ==
    /\ pc[p] = "journal" /\ Fault
    /\ Goto(p, "deny")
    /\ UNCHANGED <<now, revoked, record, expires, used, lock, journal, runs>>

Deny(p) ==
    /\ pc[p] = "deny"
    /\ denied' = denied \cup {chal[p]}
    /\ Goto(p, "idle")
    /\ UNCHANGED <<now, revoked, record, expires, used, lock, admitted, receipts, unpublished, runs, faults>>

\* A tool that raises leaves no receipt.
Invoke(p) ==
    /\ pc[p] = "invoke"
    /\ runs' = [runs EXCEPT ![chal[p]] = IF @ < 2 THEN @ + 1 ELSE 2]
    /\ \/ Goto(p, "complete") /\ UNCHANGED faults
       \/ Goto(p, "idle") /\ Fault
    /\ UNCHANGED <<now, revoked, record, expires, used, lock, journal>>

Complete(p) ==
    /\ pc[p] = "complete"
    /\ receipts' = receipts \cup {chal[p]}
    /\ Goto(p, "publish")
    /\ UNCHANGED <<now, revoked, record, expires, used, lock, admitted, denied, unpublished, runs, faults>>

\* A publication that fails is journaled as pending.
Publish(p) ==
    /\ pc[p] = "publish"
    /\ \/ UNCHANGED <<unpublished, faults>>
       \/ unpublished' = unpublished \cup {chal[p]} /\ Fault
    /\ Goto(p, "idle")
    /\ UNCHANGED <<now, revoked, record, expires, used, lock, admitted, denied, receipts, runs>>

\* Fault: the lock is a file that outlives the server that made it.
DieLocked(p) ==
    /\ pc[p] # "idle" /\ Fault
    /\ Goto(p, "idle")
    /\ UNCHANGED <<now, revoked, record, expires, used, lock, journal, runs>>

\* The kernel takes the file lock from a server that dies.
Die(p) ==
    /\ pc[p] # "idle" /\ Fault
    /\ lock' = IF lock = p THEN NoProc ELSE lock
    /\ Goto(p, "idle")
    /\ UNCHANGED <<now, revoked, record, expires, used, journal, runs>>

----------------------------------------------------------------------------
(* Specification *)

Init ==
    /\ now = 1 /\ revoked = FALSE
    /\ record = [c \in Challenges |-> "none"]
    /\ expires = [c \in Challenges |-> 0]
    /\ used = {} /\ lock = NoProc
    /\ admitted = {} /\ denied = {} /\ receipts = {} /\ unpublished = {}
    /\ pc = [p \in Procs |-> "idle"]
    /\ chal = [p \in Procs |-> NoChallenge]
    /\ stale = [p \in Procs |-> FALSE]
    /\ runs = [c \in Challenges |-> 0]
    /\ faults = 0

Step(p) ==
    \/ IssueWrite(p)
    \/ Validate(p) \/ Recheck(p) \/ Refuse(p)
    \/ Claim(p) \/ ClaimFails(p) \/ ClaimCheck(p) \/ Burn(p)
    \/ Admit(p) \/ Deny(p) \/ Invoke(p) \/ Complete(p) \/ Publish(p)

Next ==
    \/ Tick \/ Revoke
    \/ \E p \in Procs :
          \/ Step(p) \/ IssueRefused(p) \/ AdmitFails(p) \/ Die(p)
          \/ \E c \in Challenges : IssueOpen(p, c) \/ Answer(p, c)

Spec == Init /\ [][Next]_vars

\* A call that has begun goes on; it gets the lock in the end.
FairSpec == Spec /\ \A p \in Procs : SF_vars(Step(p))

----------------------------------------------------------------------------
(* Properties *)

\* Every variable stays in its type.
TypeOK ==
    /\ now \in Nat /\ revoked \in BOOLEAN
    /\ record \in [Challenges -> {"none", "torn", "whole"}]
    /\ expires \in [Challenges -> Nat]
    /\ used \subseteq Challenges /\ lock \in Procs \cup {NoProc}
    /\ admitted \subseteq Challenges /\ denied \subseteq Challenges
    /\ receipts \subseteq Challenges /\ unpublished \subseteq Challenges
    /\ pc \in [Procs -> Points]
    /\ chal \in [Procs -> Challenges \cup {NoChallenge}]
    /\ \A p \in Procs : pc[p] # "idle" => chal[p] \in Challenges
    /\ stale \in [Procs -> BOOLEAN]
    /\ runs \in [Challenges -> 0..2]
    /\ faults \in 0..MaxFaults

Claiming(p, c) == chal[p] = c /\ pc[p] \in {"claimed", "journal", "invoke"}

\* What the files and the calls say of a challenge, as a permit.
PermitOf(c) ==
    IF runs[c] = 1 THEN "run"
    ELSE IF runs[c] > 1 THEN "run again"
    ELSE IF c \in used /\ ~\E p \in Procs : Claiming(p, c) THEN "void"
    ELSE "open"

OneShot == INSTANCE OneShotPermits
    WITH Permits <- Challenges, permit <- [c \in Challenges |-> PermitOf(c)]

\* To however many servers an answer is sent, and whichever of them die: a
\* challenge admits one run or becomes void, for good.
RunOrVoid == OneShot!Spec

\* No tool runs before its admission is in the journal, and a receipt is
\* of a run.
RunsAdmitted ==
    /\ \A c \in Challenges : runs[c] > 0 => c \in admitted
    /\ \A c \in receipts : runs[c] > 0
    /\ admitted \subseteq used

\* No answer is run of a holder who was revoked when it came.
RevokedNeverRuns == \A p \in Procs : stale[p] => ~Claiming(p, chal[p])

\* Whoever dies, in the lock or out of it, every call comes to its end.
Ends == \A p \in Procs : pc[p] # "idle" ~> pc[p] = "idle"

=============================================================================
