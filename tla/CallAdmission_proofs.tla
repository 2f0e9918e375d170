------------------------ MODULE CallAdmission_proofs ------------------------
(***************************************************************************)
(* For any number of servers, challenges and faults: a challenge is one    *)
(* run of its tool or none, for good, and the run is in the journal before *)
(* it begins.                                                              *)
(***************************************************************************)
EXTENDS CallAdmission, TLAPS

\* Who has claimed a challenge is alone with it, and has not run it yet.
ClaimsSound ==
    \A p \in Procs : \A c \in Challenges : Claiming(p, c) =>
        /\ c \in used /\ runs[c] = 0
        /\ pc[p] = "invoke" => c \in admitted
        /\ \A q \in Procs : Claiming(q, c) => q = p

RunsSound ==
    /\ \A c \in Challenges : runs[c] <= 1
    /\ \A p \in Procs : pc[p] \in {"complete", "publish"} => runs[chal[p]] > 0

\* The answer of a revoked holder gets no further than the first snapshot.
StaleStopped ==
    \A p \in Procs : stale[p] =>
        revoked /\ pc[p] \notin {"recheck", "claim", "claimed", "journal", "invoke"}

Rest == ClaimsSound /\ RunsSound /\ RunsAdmitted /\ StaleStopped
IInv == TypeOK /\ Rest

----------------------------------------------------------------------------

THEOREM Initially == Init => IInv
<1> SUFFICES ASSUME Init PROVE TypeOK /\ Rest
  BY DEF IInv
<1>1. TypeOK
  <2>1. /\ now \in Nat /\ revoked \in BOOLEAN /\ faults \in 0..MaxFaults
        /\ expires \in [Challenges -> Nat] /\ runs \in [Challenges -> 0..2]
    <3>1. now \in Nat /\ faults \in 0..MaxFaults
      BY AdmissionConstants DEF Init
    <3>2. revoked \in BOOLEAN
      BY DEF Init
    <3>3. expires \in [Challenges -> Nat] /\ runs \in [Challenges -> 0..2]
      BY DEF Init
    <3> QED
      BY <3>1, <3>2, <3>3
  <2>2. /\ record \in [Challenges -> {"none", "torn", "whole"}]
        /\ pc \in [Procs -> Points] /\ stale \in [Procs -> BOOLEAN]
    BY DEF Init, Points
  <2>3. chal \in [Procs -> Challenges \cup {NoChallenge}]
    BY DEF Init
  <2>4. \A p \in Procs : pc[p] # "idle" => chal[p] \in Challenges
    BY DEF Init
  <2>5. /\ used \subseteq Challenges /\ lock \in Procs \cup {NoProc}
        /\ admitted \subseteq Challenges /\ denied \subseteq Challenges
        /\ receipts \subseteq Challenges /\ unpublished \subseteq Challenges
    BY DEF Init
  <2> QED
    BY <2>1, <2>2, <2>3, <2>4, <2>5 DEF TypeOK
<1>2. \A p \in Procs : pc[p] = "idle" /\ ~stale[p]
  BY DEF Init
<1>3. \A p \in Procs : \A c \in Challenges : ~Claiming(p, c)
  BY <1>2 DEF Claiming
<1>4. \A c \in Challenges : runs[c] = 0
  BY DEF Init
<1>5. ClaimsSound /\ RunsSound /\ StaleStopped
  BY <1>2, <1>3, <1>4 DEF ClaimsSound, RunsSound, StaleStopped
<1>6. RunsAdmitted
  BY <1>4 DEF RunsAdmitted, Init
<1> QED
  BY <1>1, <1>5, <1>6 DEF Rest

LEMMA TypeStep ==
    ASSUME TypeOK, [Next]_vars
    PROVE  TypeOK'
<1> USE AdmissionConstants DEF TypeOK, Points
<1>1. CASE Tick
  BY <1>1 DEF Tick, journal
<1>2. CASE Revoke
  BY <1>2 DEF Revoke, journal
<1>3. ASSUME NEW p \in Procs, IssueWrite(p) PROVE TypeOK'
  BY <1>3 DEF IssueWrite, Goto, journal
<1>4. ASSUME NEW p \in Procs, Validate(p) PROVE TypeOK'
  BY <1>4 DEF Validate, Goto, Passport, journal
<1>5. ASSUME NEW p \in Procs, Recheck(p) PROVE TypeOK'
  BY <1>5 DEF Recheck, Goto, Passport, journal
<1>6. ASSUME NEW p \in Procs, Refuse(p) PROVE TypeOK'
  BY <1>6 DEF Refuse, Goto, journal
<1>7. ASSUME NEW p \in Procs, Claim(p) PROVE TypeOK'
  BY <1>7 DEF Claim, Goto, Available, journal
<1>8. ASSUME NEW p \in Procs, ClaimFails(p) PROVE TypeOK'
  BY <1>8 DEF ClaimFails, Goto, journal
<1>9. ASSUME NEW p \in Procs, ClaimCheck(p) PROVE TypeOK'
  BY <1>9 DEF ClaimCheck, Goto, journal
<1>10. ASSUME NEW p \in Procs, Burn(p) PROVE TypeOK'
  BY <1>10 DEF Burn, Goto, Available, journal
<1>11. ASSUME NEW p \in Procs, Admit(p) PROVE TypeOK'
  BY <1>11 DEF Admit, Goto
<1>12. ASSUME NEW p \in Procs, Deny(p) PROVE TypeOK'
  BY <1>12 DEF Deny, Goto
<1>13. ASSUME NEW p \in Procs, Invoke(p) PROVE TypeOK'
  <2>1. chal[p] \in Challenges
    BY <1>13 DEF Invoke
  <2>2. runs' \in [Challenges -> 0..2]
    BY <1>13, <2>1 DEF Invoke
  <2>3. faults' \in 0..MaxFaults
    BY <1>13 DEF Invoke, Fault
  <2> QED
    BY <1>13, <2>1, <2>2, <2>3 DEF Invoke, Goto, journal
<1>14. ASSUME NEW p \in Procs, Complete(p) PROVE TypeOK'
  BY <1>14 DEF Complete, Goto
<1>15. ASSUME NEW p \in Procs, Publish(p) PROVE TypeOK'
  BY <1>15 DEF Publish, Goto, Fault
<1>16. ASSUME NEW p \in Procs, IssueRefused(p) PROVE TypeOK'
  BY <1>16 DEF IssueRefused, journal
<1>17. ASSUME NEW p \in Procs, AdmitFails(p) PROVE TypeOK'
  BY <1>17 DEF AdmitFails, Goto, Fault, journal
<1>18. ASSUME NEW p \in Procs, Die(p) PROVE TypeOK'
  BY <1>18 DEF Die, Goto, Fault, journal
<1>19. ASSUME NEW p \in Procs, NEW c \in Challenges, IssueOpen(p, c) PROVE TypeOK'
  BY <1>19 DEF IssueOpen, journal
<1>20. ASSUME NEW p \in Procs, NEW c \in Challenges, Answer(p, c) PROVE TypeOK'
  BY <1>20 DEF Answer, Available, journal
<1>21. CASE UNCHANGED vars
  BY <1>21 DEF vars, journal
<1> QED
  BY <1>1, <1>2, <1>3, <1>4, <1>5, <1>6, <1>7, <1>8, <1>9, <1>10, <1>11,
     <1>12, <1>13, <1>14, <1>15, <1>16, <1>17, <1>18, <1>19, <1>20, <1>21 DEF
     Next, Step

LEMMA RestStep ==
    ASSUME IInv, TypeOK', [Next]_vars
    PROVE  Rest'
<1> USE AdmissionConstants DEF IInv, TypeOK, Rest, ClaimsSound, RunsSound, RunsAdmitted,
            StaleStopped, Claiming
<1>1. CASE Tick
  BY <1>1 DEF Tick, journal
<1>2. CASE Revoke
  BY <1>2 DEF Revoke, journal
<1>3. ASSUME NEW p \in Procs, IssueWrite(p) PROVE Rest'
  BY <1>3 DEF IssueWrite, Goto, journal
<1>4. ASSUME NEW p \in Procs, Validate(p) PROVE Rest'
  BY <1>4 DEF Validate, Goto, Passport, journal
<1>5. ASSUME NEW p \in Procs, Recheck(p) PROVE Rest'
  BY <1>5 DEF Recheck, Goto, Passport, journal
<1>6. ASSUME NEW p \in Procs, Refuse(p) PROVE Rest'
  BY <1>6 DEF Refuse, Goto, journal
<1>7. ASSUME NEW p \in Procs, Claim(p) PROVE Rest'
  BY <1>7 DEF Claim, Goto, Available, journal
<1>8. ASSUME NEW p \in Procs, ClaimFails(p) PROVE Rest'
  BY <1>8 DEF ClaimFails, Goto, journal
<1>9. ASSUME NEW p \in Procs, ClaimCheck(p) PROVE Rest'
  BY <1>9 DEF ClaimCheck, Goto, journal
<1>10. ASSUME NEW p \in Procs, Burn(p) PROVE Rest'
  BY <1>10 DEF Burn, Goto, Available, journal
<1>11. ASSUME NEW p \in Procs, Admit(p) PROVE Rest'
  BY <1>11 DEF Admit, Goto
<1>12. ASSUME NEW p \in Procs, Deny(p) PROVE Rest'
  BY <1>12 DEF Deny, Goto
<1>13. ASSUME NEW p \in Procs, Invoke(p) PROVE Rest'
  BY <1>13 DEF Invoke, Goto, Fault, journal
<1>14. ASSUME NEW p \in Procs, Complete(p) PROVE Rest'
  BY <1>14 DEF Complete, Goto
<1>15. ASSUME NEW p \in Procs, Publish(p) PROVE Rest'
  BY <1>15 DEF Publish, Goto, Fault
<1>16. ASSUME NEW p \in Procs, IssueRefused(p) PROVE Rest'
  BY <1>16 DEF IssueRefused, journal
<1>17. ASSUME NEW p \in Procs, AdmitFails(p) PROVE Rest'
  BY <1>17 DEF AdmitFails, Goto, Fault, journal
<1>18. ASSUME NEW p \in Procs, Die(p) PROVE Rest'
  BY <1>18 DEF Die, Goto, Fault, journal
<1>19. ASSUME NEW p \in Procs, NEW c \in Challenges, IssueOpen(p, c) PROVE Rest'
  BY <1>19 DEF IssueOpen, journal
<1>20. ASSUME NEW p \in Procs, NEW c \in Challenges, Answer(p, c) PROVE Rest'
  BY <1>20 DEF Answer, Available, journal
<1>21. CASE UNCHANGED vars
  BY <1>21 DEF vars, journal
<1> QED
  BY <1>1, <1>2, <1>3, <1>4, <1>5, <1>6, <1>7, <1>8, <1>9, <1>10, <1>11,
     <1>12, <1>13, <1>14, <1>15, <1>16, <1>17, <1>18, <1>19, <1>20, <1>21 DEF
     Next, Step

LEMMA Inductive == Spec => []IInv
<1>1. IInv /\ [Next]_vars => IInv'
  BY TypeStep, RestStep DEF IInv
<1> QED BY Initially, <1>1, PTL DEF Spec

----------------------------------------------------------------------------

\* The records, the journal and the calls keep their types.
THEOREM TypeCorrect == Spec => []TypeOK
BY Inductive, PTL DEF IInv

\* A run is admitted in the journal first, and a receipt is of a run.
THEOREM Admitted == Spec => []RunsAdmitted
BY Inductive, PTL DEF IInv, Rest

\* The answer of a holder who was revoked when it came is not run.
THEOREM Revoked == Spec => []RevokedNeverRuns
<1>1. IInv => RevokedNeverRuns
  BY DEF IInv, Rest, StaleStopped, RevokedNeverRuns, Claiming
<1> QED BY Inductive, <1>1, PTL

----------------------------------------------------------------------------
(* A challenge is a one-shot permit. *)

permits == [c \in Challenges |-> PermitOf(c)]

\* The permit of a challenge is untouched by what does not touch its use.
Untouched(c) ==
    /\ c \in used' <=> c \in used
    /\ runs'[c] = runs[c]
    /\ \A p \in Procs : Claiming(p, c)' <=> Claiming(p, c)

LEMMA PermitKept ==
    ASSUME NEW c \in Challenges, Untouched(c)
    PROVE  PermitOf(c)' = PermitOf(c)
BY DEF Untouched, PermitOf

LEMMA Stutters ==
    ASSUME \A c \in Challenges : Untouched(c)
    PROVE  UNCHANGED permits
BY PermitKept DEF permits

LEMMA Turns ==
    ASSUME NEW c \in Challenges, NEW to \in {"run", "void"},
           PermitOf(c) = "open", PermitOf(c)' = to,
           \A d \in Challenges \ {c} : Untouched(d)
    PROVE  permits[c] = "open" /\ permits' = [permits EXCEPT ![c] = to]
BY PermitKept DEF permits

\* One who has claimed a challenge and lets go of it without a run.
LEMMA Voids ==
    ASSUME IInv, NEW p \in Procs, Claiming(p, chal[p]), chal[p] \in Challenges,
           pc'[p] \notin {"claimed", "journal", "invoke"}, UNCHANGED <<used, runs>>,
           \A q \in Procs \ {p} : pc'[q] = pc[q] /\ chal'[q] = chal[q]
    PROVE  \E c \in Challenges : c = chal[p] /\ PermitOf(c) = "open" /\ PermitOf(c)' = "void"
<1> DEFINE c == chal[p]
<1>1. c \in used /\ runs[c] = 0 /\ \A q \in Procs : Claiming(q, c) => q = p
  BY DEF IInv, Rest, ClaimsSound
<1>2. PermitOf(c) = "open"
  BY <1>1 DEF PermitOf
<1>3. PICK d \in Challenges : d = c
  OBVIOUS
<1>4. \A q \in Procs : ~Claiming(q, d)'
  BY <1>1, <1>3 DEF Claiming
<1>5. PermitOf(d)' = "void"
  BY <1>1, <1>3, <1>4 DEF PermitOf
<1> QED BY <1>2, <1>3, <1>5

Turned(c, to) == permits[c] = "open" /\ permits' = [permits EXCEPT ![c] = to]

Permitted ==
    UNCHANGED permits \/ \E c \in Challenges : Turned(c, "run") \/ Turned(c, "void")

LEMMA PermitStep ==
    ASSUME IInv, [Next]_vars
    PROVE  Permitted
<1>1. CASE Tick
  <2>1. \A c \in Challenges : Untouched(c)
    BY <1>1 DEF Tick, Untouched, Claiming, IInv, TypeOK
  <2> QED BY <2>1, Stutters DEF Permitted
<1>2. CASE Revoke
  <2>1. \A c \in Challenges : Untouched(c)
    BY <1>2 DEF Revoke, Untouched, Claiming, IInv, TypeOK
  <2> QED BY <2>1, Stutters DEF Permitted
<1>3. ASSUME NEW p \in Procs, IssueWrite(p) PROVE Permitted
  <2>1. \A c \in Challenges : Untouched(c)
    BY <1>3 DEF IssueWrite, Goto, Untouched, Claiming, IInv, TypeOK
  <2> QED BY <2>1, Stutters DEF Permitted
<1>4. ASSUME NEW p \in Procs, Validate(p) PROVE Permitted
  <2>1. \A c \in Challenges : Untouched(c)
    BY <1>4 DEF Validate, Goto, Untouched, Claiming, IInv, TypeOK
  <2> QED BY <2>1, Stutters DEF Permitted
<1>5. ASSUME NEW p \in Procs, Recheck(p) PROVE Permitted
  <2>1. \A c \in Challenges : Untouched(c)
    BY <1>5 DEF Recheck, Goto, Untouched, Claiming, IInv, TypeOK
  <2> QED BY <2>1, Stutters DEF Permitted
<1>6. ASSUME NEW p \in Procs, Refuse(p) PROVE Permitted
  <2>1. \A c \in Challenges : Untouched(c)
    BY <1>6 DEF Refuse, Goto, Untouched, Claiming, IInv, TypeOK
  <2> QED BY <2>1, Stutters DEF Permitted
<1>7. ASSUME NEW p \in Procs, Claim(p) PROVE Permitted
  <2>1. PICK c \in Challenges : c = chal[p] /\ c \notin used
    BY <1>7 DEF Claim, Available, IInv, TypeOK
  <2>2. \A d \in Challenges \ {c} : Untouched(d)
    BY <1>7, <2>1 DEF Claim, Goto, Untouched, Claiming, IInv, TypeOK
  <2>3. runs[c] = 0 /\ runs' = runs
    BY <1>7, <2>1 DEF Claim, IInv, TypeOK, Rest, RunsAdmitted
  <2>4. Claiming(p, c)'
    BY <1>7, <2>1 DEF Claim, Goto, Claiming, IInv, TypeOK
  <2>5. PermitOf(c)' = PermitOf(c)
    BY <2>1, <2>3, <2>4 DEF PermitOf
  <2> QED BY <2>2, <2>5, PermitKept DEF Permitted, permits
<1>8. ASSUME NEW p \in Procs, ClaimFails(p) PROVE Permitted
  <2>1. \A c \in Challenges : Untouched(c)
    BY <1>8 DEF ClaimFails, Goto, Untouched, Claiming, IInv, TypeOK
  <2> QED BY <2>1, Stutters DEF Permitted
<1>9. ASSUME NEW p \in Procs, ClaimCheck(p) PROVE Permitted
  <2>1. PICK c \in Challenges : c = chal[p]
    BY <1>9 DEF ClaimCheck, IInv, TypeOK
  <2>2. \A d \in Challenges \ {c} : Untouched(d)
    BY <1>9, <2>1, AdmissionConstants DEF ClaimCheck, Goto, Untouched, Claiming, IInv, TypeOK
  <2>3. Claiming(p, c)
    BY <1>9, <2>1 DEF ClaimCheck, Claiming
  <2>4. CASE Live(c)
    <3>1. Untouched(c)
      BY <1>9, <2>1, <2>3, <2>4 DEF ClaimCheck, Goto, Untouched, Claiming, IInv, TypeOK
    <3> QED BY <2>2, <3>1, Stutters DEF Permitted
  <2>5. CASE ~Live(c)
    <3>1. pc'[p] \notin {"claimed", "journal", "invoke"}
      BY <1>9, <2>1, <2>3, <2>5 DEF ClaimCheck, Goto, IInv, TypeOK
    <3>2. \A q \in Procs \ {p} : pc'[q] = pc[q] /\ chal'[q] = chal[q]
      BY <1>9 DEF ClaimCheck, Goto, IInv, TypeOK
    <3>3. PermitOf(c) = "open" /\ PermitOf(c)' = "void"
      BY <1>9, <2>1, <2>1, <2>3, <2>5, <3>1, <3>2, Voids DEF ClaimCheck
    <3> QED BY <2>1, <2>2, <3>3, Turns DEF Permitted, Turned
  <2> QED BY <2>4, <2>5
<1>10. ASSUME NEW p \in Procs, Burn(p) PROVE Permitted
  <2>1. PICK c \in Challenges : c = chal[p]
    BY <1>10 DEF Burn, IInv, TypeOK
  <2>2. \A d \in Challenges \ {c} : Untouched(d)
    BY <1>10, <2>1, AdmissionConstants DEF Burn, Goto, Untouched, Claiming, IInv, TypeOK
  <2>3. c \notin used /\ c \in used' /\ runs' = runs
    BY <1>10, <2>1 DEF Burn, Available
  <2>4. \A q \in Procs : ~Claiming(q, c)
    BY <2>1, <2>3 DEF IInv, Rest, ClaimsSound
  <2>5. \A q \in Procs : ~Claiming(q, c)'
    BY <1>10, <2>1, <2>4 DEF Burn, Goto, Claiming, IInv, TypeOK
  <2>6. runs[c] = 0
    BY <2>1, <2>3 DEF IInv, TypeOK, Rest, RunsAdmitted
  <2>7. PermitOf(c) = "open" /\ PermitOf(c)' = "void"
    BY <2>3, <2>5, <2>6 DEF PermitOf
  <2> QED BY <2>1, <2>2, <2>7, Turns DEF Permitted, Turned
<1>11. ASSUME NEW p \in Procs, Admit(p) PROVE Permitted
  <2>1. \A c \in Challenges : Untouched(c)
    BY <1>11 DEF Admit, Goto, Untouched, Claiming, IInv, TypeOK
  <2> QED BY <2>1, Stutters DEF Permitted
<1>12. ASSUME NEW p \in Procs, Deny(p) PROVE Permitted
  <2>1. \A c \in Challenges : Untouched(c)
    BY <1>12 DEF Deny, Goto, Untouched, Claiming, IInv, TypeOK
  <2> QED BY <2>1, Stutters DEF Permitted
<1>13. ASSUME NEW p \in Procs, Invoke(p) PROVE Permitted
  <2>1. PICK c \in Challenges : c = chal[p]
    BY <1>13 DEF Invoke, IInv, TypeOK
  <2>2. \A d \in Challenges \ {c} : Untouched(d)
    BY <1>13, <2>1, AdmissionConstants DEF Invoke, Goto, Untouched, Claiming, IInv, TypeOK
  <2>3. Claiming(p, c) /\ runs[c] = 0
    BY <1>13, <2>1 DEF Invoke, Claiming, IInv, Rest, ClaimsSound
  <2>4. runs'[c] = 1
    BY <1>13, <2>1, <2>3 DEF Invoke, IInv, TypeOK
  <2>5. PermitOf(c) = "open" /\ PermitOf(c)' = "run"
    BY <2>3, <2>4 DEF PermitOf
  <2> QED BY <2>1, <2>2, <2>5, Turns DEF Permitted, Turned
<1>14. ASSUME NEW p \in Procs, Complete(p) PROVE Permitted
  <2>1. \A c \in Challenges : Untouched(c)
    BY <1>14 DEF Complete, Goto, Untouched, Claiming, IInv, TypeOK
  <2> QED BY <2>1, Stutters DEF Permitted
<1>15. ASSUME NEW p \in Procs, Publish(p) PROVE Permitted
  <2>1. \A c \in Challenges : Untouched(c)
    BY <1>15 DEF Publish, Goto, Untouched, Claiming, IInv, TypeOK
  <2> QED BY <2>1, Stutters DEF Permitted
<1>16. ASSUME NEW p \in Procs, IssueRefused(p) PROVE Permitted
  <2>1. \A c \in Challenges : Untouched(c)
    BY <1>16 DEF IssueRefused, Untouched, Claiming, IInv, TypeOK
  <2> QED BY <2>1, Stutters DEF Permitted
<1>17. ASSUME NEW p \in Procs, AdmitFails(p) PROVE Permitted
  <2>1. PICK c \in Challenges : c = chal[p]
    BY <1>17 DEF AdmitFails, IInv, TypeOK
  <2>2. \A d \in Challenges \ {c} : Untouched(d)
    BY <1>17, <2>1, AdmissionConstants DEF AdmitFails, Goto, Untouched, Claiming, IInv, TypeOK
  <2>3. Claiming(p, c)
    BY <1>17, <2>1 DEF AdmitFails, Claiming
  <2>4. Permitted
    <3>1. pc'[p] \notin {"claimed", "journal", "invoke"}
      BY <1>17, <2>3 DEF AdmitFails, Goto, IInv, TypeOK
    <3>2. \A q \in Procs \ {p} : pc'[q] = pc[q] /\ chal'[q] = chal[q]
      BY <1>17 DEF AdmitFails, Goto, IInv, TypeOK
    <3>3. PermitOf(c) = "open" /\ PermitOf(c)' = "void"
      BY <1>17, <2>1, <2>3, <3>1, <3>2, Voids DEF AdmitFails
    <3> QED BY <2>1, <2>2, <3>3, Turns DEF Permitted, Turned
  <2> QED BY <2>4
<1>18. ASSUME NEW p \in Procs, Die(p) PROVE Permitted
  <2>1. PICK c \in Challenges : c = chal[p]
    BY <1>18 DEF Die, IInv, TypeOK
  <2>2. \A d \in Challenges \ {c} : Untouched(d)
    BY <1>18, <2>1, AdmissionConstants DEF Die, Goto, Untouched, Claiming, IInv, TypeOK
  <2>3. CASE Claiming(p, c)
    <3>1. pc'[p] \notin {"claimed", "journal", "invoke"}
      BY <1>18, <2>3 DEF Die, Goto, IInv, TypeOK
    <3>2. \A q \in Procs \ {p} : pc'[q] = pc[q] /\ chal'[q] = chal[q]
      BY <1>18 DEF Die, Goto, IInv, TypeOK
    <3>3. PermitOf(c) = "open" /\ PermitOf(c)' = "void"
      BY <1>18, <2>1, <2>3, <3>1, <3>2, Voids DEF Die
    <3> QED BY <2>1, <2>2, <3>3, Turns DEF Permitted, Turned
  <2>4. CASE ~Claiming(p, c)
    <3>1. Untouched(c)
      BY <1>18, <2>1, <2>4, AdmissionConstants DEF Die, Goto, Untouched, Claiming, IInv, TypeOK
    <3> QED BY <2>2, <3>1, Stutters DEF Permitted
  <2> QED BY <2>3, <2>4
<1>19. ASSUME NEW p \in Procs, NEW c \in Challenges, IssueOpen(p, c) PROVE Permitted
  <2>1. \A d \in Challenges : Untouched(d)
    BY <1>19 DEF IssueOpen, Untouched, Claiming, IInv, TypeOK
  <2> QED BY <2>1, Stutters DEF Permitted
<1>20. ASSUME NEW p \in Procs, NEW c \in Challenges, Answer(p, c) PROVE Permitted
  <2>1. \A d \in Challenges : Untouched(d)
    BY <1>20 DEF Answer, Untouched, Claiming, IInv, TypeOK
  <2> QED BY <2>1, Stutters DEF Permitted
<1>21. CASE UNCHANGED vars
  BY <1>21 DEF vars, permits, PermitOf, Claiming, Permitted
<1> QED
  BY <1>1, <1>2, <1>3, <1>4, <1>5, <1>6, <1>7, <1>8, <1>9, <1>10, <1>11,
     <1>12, <1>13, <1>14, <1>15, <1>16, <1>17, <1>18, <1>19, <1>20, <1>21 DEF
     Next, Step

\* Every behaviour of the admission is one of one-shot permits.
THEOREM OneShotRefined == Spec => RunOrVoid
<1>1. Init => OneShot!Init
  BY DEF Init, OneShot!Init, PermitOf
<1>2. IInv /\ [Next]_vars => [OneShot!Next]_permits
  BY PermitStep DEF Permitted, Turned, OneShot!Next, OneShot!Turn, permits
<1> QED BY <1>1, <1>2, Inductive, PTL DEF Spec, RunOrVoid, OneShot!Spec, permits

=============================================================================
