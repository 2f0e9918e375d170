--------------------------- MODULE SpecRun_proofs ---------------------------
(***************************************************************************)
(* For any number of requirements, chunks, failures and deaths: the saved  *)
(* run stays within the spec, a call writes only for the requirement whose *)
(* session is open, a session that says it was rolled back was, and a run  *)
(* that stops at its first failure says done over attested requirements.   *)
(***************************************************************************)
EXTENDS SpecRun, FiniteSetTheorems, WellFoundedInduction, TLAPS

\* The points of a call at which the session is that of its requirement.
Within == {"cursor", "check", "noop", "drop", "needles", "chunks", "verify",
           "undo", "attest", "close"}

\* The requirement of a call is the one its index names; the session is its own.
Bound ==
    /\ call.pc \notin {"idle", "next"} =>
            call.q = call.idx /\ call.idx <= N /\ call.left > 0
    /\ call.pc \in Within => sess.rk = call.q
    /\ cur.mine => cur.rk = sess.rk /\ sess.rk # 0

\* What a step takes the first or the last of is there.
Batches ==
    /\ call.pc = "chunks" => cur.todo # {}
    /\ call.pc = "undo" => cur.mine /\ call.undo # {} /\ call.undo \subseteq cur.ckpts
    /\ call.pc = "failing" /\ call.why = "chunk" => cur.ckpts # {}
    /\ call.pc = "verify" /\ ~call.retry => cur.mine /\ cur.ckpts # {}
    /\ call.pc \in {"attest", "close"} /\ ~call.retry /\ call.q \notin VerifyOnly =>
            cur.ckpts # {}
    /\ call.pc = "noop" => call.q \in VerifyOnly

Clean(S) == \A c \in S : disk[cur.rk][c] = cur.base[c]

\* A rollback goes through the batch; the answer and the session say it did.
Unwound ==
    /\ call.pc = "undo" => Clean(cur.ckpts \ call.undo)
    /\ call.pc \in {"failing", "report"} /\ call.why = "rolled" => Clean(cur.ckpts)
    /\ RolledBackClean

IInv == TypeOK /\ Bound /\ Batches /\ Unwound

----------------------------------------------------------------------------

\* The strict order on the subsets of the chunks has no infinite descent.
LEMMA ChunksWellFounded ==
    IsWellFoundedOn(StrictSubsetOrdering(Parts), SUBSET Parts)
<1>1. IsFiniteSet(Parts)
  <2>1. 1 \in Int /\ Chunks \in Int
    BY SpecRunAssumption
  <2> QED BY <2>1, FS_Interval DEF Parts
<1>2. FiniteSubsetsOf(Parts) = SUBSET Parts
  BY <1>1, FS_FiniteSubsetsOfFinite
<1> QED BY <1>2, FS_StrictSubsetOrderingWellFounded

LEMMA MaxIsPart ==
    ASSUME NEW S, S \subseteq Parts, S # {}
    PROVE  Max(S) \in S /\ Max(S) \in Parts
<1> DEFINE T == {x..Chunks : x \in S}
<1>1. T \subseteq SUBSET Parts /\ T # {}
  <2>1. ASSUME NEW x \in S PROVE x..Chunks \in SUBSET Parts
    BY SpecRunAssumption DEF Parts
  <2>2. PICK x \in S : TRUE
    OBVIOUS
  <2>3. x..Chunks \in T
    BY <2>2
  <2> QED BY <2>1, <2>3
<1>2. PICK t \in T : \A u \in T : <<u, t>> \notin StrictSubsetOrdering(Parts)
  BY <1>1, ChunksWellFounded, WFMin, Zenon
<1>3. PICK m \in S : t = m..Chunks
  BY <1>2
<1>4. ASSUME NEW y \in S, y > m PROVE FALSE
  <2>1. /\ y..Chunks \in T
        /\ y..Chunks \subseteq m..Chunks /\ m \in m..Chunks /\ m \notin y..Chunks
    BY <1>3, <1>4, SpecRunAssumption DEF Parts
  <2>2. <<y..Chunks, t>> \in StrictSubsetOrdering(Parts)
    BY <1>1, <1>3, <2>1 DEF StrictSubsetOrdering
  <2> QED BY <1>2, <2>1, <2>2
<1>5. \A y \in S : m >= y
  BY <1>4, SpecRunAssumption DEF Parts
<1> QED BY <1>5 DEF Max

LEMMA MinIsPart ==
    ASSUME NEW S, S \subseteq Parts, S # {}
    PROVE  Min(S) \in S /\ Min(S) \in Parts
<1> DEFINE T == {1..x : x \in S}
<1>1. T \subseteq SUBSET Parts /\ T # {}
  <2>1. ASSUME NEW x \in S PROVE 1..x \in SUBSET Parts
    BY SpecRunAssumption DEF Parts
  <2>2. PICK x \in S : TRUE
    OBVIOUS
  <2>3. 1..x \in T
    BY <2>2
  <2> QED BY <2>1, <2>3
<1>2. PICK t \in T : \A u \in T : <<u, t>> \notin StrictSubsetOrdering(Parts)
  BY <1>1, ChunksWellFounded, WFMin, Zenon
<1>3. PICK m \in S : t = 1..m
  BY <1>2
<1>4. ASSUME NEW y \in S, y < m PROVE FALSE
  <2>1. /\ 1..y \in T
        /\ 1..y \subseteq 1..m /\ m \in 1..m /\ m \notin 1..y
    BY <1>3, <1>4, SpecRunAssumption DEF Parts
  <2>2. <<1..y, t>> \in StrictSubsetOrdering(Parts)
    BY <1>1, <1>3, <2>1 DEF StrictSubsetOrdering
  <2> QED BY <1>2, <2>1, <2>2
<1>5. \A y \in S : m <= y
  BY <1>4, SpecRunAssumption DEF Parts
<1> QED BY <1>5 DEF Min

----------------------------------------------------------------------------
(* Types *)

LEMMA StartTypes ==
    /\ NoRun \in RunType /\ [NoRun EXCEPT !.on = TRUE] \in RunType
    /\ Idle \in CallType
    /\ NoCur \in CurType
    /\ \A r \in 0..N : [NoSess EXCEPT !.rk = r] \in SessType
    /\ NoSess \in SessType
<1> USE SpecRunAssumption
<1>1. NoRun \in RunType /\ [NoRun EXCEPT !.on = TRUE] \in RunType
  <2>1. <<>> \in Marks
    BY DEF Marks
  <2>2. 1 \in 1..(N + 1) /\ {} \subseteq Reqs
    BY DEF Reqs
  <2> QED BY <2>1, <2>2 DEF NoRun, RunType
<1>2. Idle \in CallType
  BY DEF Idle, CallType, Points, Reasons, Marks, Reqs, Parts
<1>3. NoCur \in CurType
  BY DEF NoCur, CurType, Bases, Contents, Parts
<1>4. NoSess \in SessType /\ \A r \in 0..N : [NoSess EXCEPT !.rk = r] \in SessType
  <2>1. /\ "draft" \in Lives /\ "none" \in Jobs /\ 0 \in 0..N
        /\ FALSE \in BOOLEAN
    BY DEF Lives, Jobs
  <2> QED BY <2>1 DEF NoSess, SessType
<1> QED BY <1>1, <1>2, <1>3, <1>4

LEMMA MarkTyped ==
    ASSUME TypeOK, NEW r \in Reqs, cur.ckpts # {}
    PROVE  Checkpoint(r) \in Marks
<1>1. cur.ckpts \subseteq Parts /\ cur.base \in [Parts -> Contents]
  BY DEF TypeOK, CurType, Bases
<1>2. Max(cur.ckpts) \in Parts
  BY <1>1, MaxIsPart
<1> QED BY <1>1, <1>2 DEF Checkpoint, Marks

LEMMA ReconciledTyped ==
    ASSUME TypeOK
    PROVE  Reconciled \in Lives
BY DEF TypeOK, SessType, Jobs, Lives, Reconciled

LEMMA CallMoves ==
    ASSUME call \in CallType
    PROVE  /\ \A p \in Points : [call EXCEPT !.pc = p] \in CallType
           /\ \A w \in Reasons : [call EXCEPT !.pc = "failing", !.why = w] \in CallType
BY DEF CallType, Points

\* The loop goes on with the next requirement.
LEMMA CallAdvances ==
    ASSUME call \in CallType, More, NEW f \in SUBSET Reqs, NEW l \in Marks
    PROVE  /\ [call EXCEPT !.idx = @ + 1, !.left = @ - 1] \in CallType
           /\ [call EXCEPT !.pc = "next", !.idx = @ + 1, !.left = @ - 1,
                 !.last = l] \in CallType
           /\ [call EXCEPT !.pc = "next", !.failed = f, !.last = l, !.idx = @ + 1,
                 !.left = @ - 1] \in CallType
           /\ [call EXCEPT !.pc = "report", !.failed = f, !.last = l] \in CallType
<1>1. call.idx + 1 \in 1..(N + 1) /\ call.left - 1 \in 0..N
  BY SpecRunAssumption DEF More, CallType
<1>2. "next" \in Points /\ "report" \in Points
  BY DEF Points
<1> QED BY <1>1, <1>2 DEF CallType

LEMMA SessMoves ==
    ASSUME sess \in SessType
    PROVE  /\ \A l \in Lives : /\ [sess EXCEPT !.life = l, !.rolled = FALSE] \in SessType
                              /\ [sess EXCEPT !.life = l] \in SessType
                              /\ [sess EXCEPT !.signed = TRUE, !.life = l,
                                             !.rolled = FALSE] \in SessType
           /\ \A b \in BOOLEAN : [sess EXCEPT !.life = "failed", !.rolled = b] \in SessType
           /\ \A v \in Jobs : /\ [sess EXCEPT !.job = v] \in SessType
                             /\ [sess EXCEPT !.life = "verifying", !.job = v,
                                             !.rolled = FALSE] \in SessType
BY DEF SessType, Lives

\* One chunk written, whichever comes after it.
LEMMA ChunkTypes ==
    ASSUME TypeOK, Bound, call.pc \in Within, cur.mine, cur.todo # {},
           NEW d \in {"check", "verify"}, NEW m \in {"check", "chunks"}, ApplyChunk(d, m)
    PROVE  /\ sess' \in SessType /\ cur' \in CurType /\ call' \in CallType
           /\ disk' \in [Reqs -> Bases] /\ green' \in BOOLEAN /\ faults' \in 0..MaxFaults
<1> USE SpecRunAssumption
<1> DEFINE c == Min(cur.todo)
<1>1. /\ cur \in CurType /\ sess \in SessType /\ call \in CallType
      /\ disk \in [Reqs -> Bases] /\ faults \in 0..MaxFaults
      /\ cur.todo \subseteq Parts /\ c \in Parts /\ cur.rk \in Reqs
  BY MinIsPart DEF TypeOK, CurType, SessType, Bound, Reqs
<1>2. PICK out \in Contents : WriteChunk(out, d, m)
  BY DEF ApplyChunk
<1>3. sess' \in SessType
  BY <1>1, <1>2, SessMoves DEF WriteChunk, LifeTo, Lives
<1>4. cur' \in CurType
  BY <1>1, <1>2 DEF WriteChunk, CurType
<1>5. call' \in CallType
  <2>1. {d, m, "verify"} \subseteq Points /\ "chunk" \in Reasons
    BY DEF Points, Reasons
  <2> QED BY <1>1, <1>2, <2>1, CallMoves DEF WriteChunk, Goto, Blocked
<1>6. disk' \in [Reqs -> Bases]
  BY <1>1, <1>2 DEF WriteChunk, Bases
<1>7. green' \in BOOLEAN
  BY <1>2, Zenon DEF WriteChunk
<1>8. faults' \in 0..MaxFaults
  BY <1>1, <1>2 DEF WriteChunk, Fine, Fault
<1> QED BY <1>3, <1>4, <1>5, <1>6, <1>7, <1>8

LEMMA ResumeTypes ==
    ASSUME TypeOK, Bound, call.pc \in Within, cur.todo # {},
           NEW d \in {"check", "verify"}, NEW m \in {"check", "chunks"}, Resumes(d, m)
    PROVE  /\ sess' \in SessType /\ cur' \in CurType /\ call' \in CallType
           /\ disk' \in [Reqs -> Bases] /\ green' \in BOOLEAN /\ faults' \in 0..MaxFaults
<1>1. CASE LogIsOwn /\ MayApply
  BY <1>1, ChunkTypes DEF Resumes, LogIsOwn
<1>2. CASE ~(LogIsOwn /\ MayApply)
  <2>1. UNCHANGED <<cur, disk, green, faults>> /\ Blocked("guard")
    BY <1>2 DEF Resumes, Refuse
  <2>2. sess' = sess \/ LifeTo(Reconciled)
    BY <1>2 DEF Resumes, Refuse
  <2>3. call' \in CallType
    BY <2>1, CallMoves DEF Blocked, TypeOK, Reasons
  <2>4. sess' \in SessType
    BY <2>2, SessMoves, ReconciledTyped DEF LifeTo, TypeOK
  <2> QED BY <2>1, <2>3, <2>4 DEF TypeOK
<1> QED BY <1>1, <1>2

\* What the types of the state say, with the shapes of the records left closed.
LEMMA TypesApart ==
    TypeOK <=>
        /\ run \in RunType /\ sess \in SessType /\ cur \in CurType
        /\ disk \in [Reqs -> Bases] /\ att \subseteq Reqs /\ green \in BOOLEAN
        /\ call \in CallType /\ answer \in {"none", "more", "done", "blocked"}
        /\ faults \in 0..MaxFaults /\ crashes \in 0..MaxCrashes
BY DEF TypeOK

LEMMA TypeProgram ==
    ASSUME TypeOK, Bound, Batches, Program
    PROVE  TypeOK'
<1> USE SpecRunAssumption
<1>t. /\ run \in RunType /\ sess \in SessType /\ cur \in CurType /\ call \in CallType
  BY DEF TypeOK
<1>l. /\ \A l \in {"draft", "applying", "verifying", "committed", "failed"} : l \in Lives
      /\ \A v \in {"running", "passed", "failed"} : v \in Jobs
      /\ TRUE \in BOOLEAN /\ FALSE \in BOOLEAN
  BY DEF Lives, Jobs
<1>c. /\ call.idx \in 1..(N + 1) /\ call.left \in 0..N /\ call.failed \subseteq Reqs
      /\ call.last \in Marks /\ call.q \in 0..N
      /\ call.undo \subseteq Parts /\ cur.ckpts \subseteq Parts
      /\ cur.base \in Bases
  BY <1>t DEF CallType, CurType
<1>m. call.pc \notin {"idle", "next"} => More /\ call.q \in Reqs
  BY <1>c DEF Bound, More, Reqs
<1>p. /\ \A p \in {"next", "session", "cursor", "check", "noop", "drop", "needles",
                   "chunks", "verify", "undo", "attest", "close"} : p \in Points
      /\ \A w \in {"guard", "work", "chunk", "rolled"} : w \in Reasons
  BY DEF Points, Reasons
<1>s. Saved \in RunType
  BY <1>c DEF Saved, RunType
<1>1. CASE Skip
  <2>1. call' \in CallType
    BY <1>1, <1>t, <1>c, CallAdvances DEF Skip
  <2> QED BY <1>1, <2>1 DEF Skip, TypeOK
<1>2. CASE Take
  <2>1. call' \in CallType
    <3>1. /\ call.idx \in 0..N /\ (call.idx \in call.failed) \in BOOLEAN
          /\ call.failed \ {call.idx} \subseteq Reqs
          /\ "session" \in Points /\ "none" \in Reasons
      BY <1>2, <1>c DEF Take, More, Points, Reasons
    <3> QED BY <1>2, <1>t, <3>1 DEF Take, CallType
  <2> QED BY <1>2, <2>1 DEF Take, TypeOK
<1>3. CASE Finish
  <2>1. run' \in RunType
    BY <1>3, <1>s, StartTypes DEF Finish
  <2>2. sess' \in SessType
    BY <1>3, <1>t, <1>l, SessMoves DEF Finish, LifeTo
  <2>3. call' \in CallType /\ answer' \in {"none", "more", "done", "blocked"}
    BY <1>3, StartTypes DEF Finish
  <2> QED BY <1>3, <2>1, <2>2, <2>3 DEF Finish, TypeOK
<1>4. CASE SaveFailed
  <2> DEFINE last == IF call.why = "chunk" THEN Checkpoint(call.q) ELSE call.last
  <2>1. last \in Marks
    BY <1>4, <1>c, <1>m, MarkTyped DEF SaveFailed, Batches
  <2>2. call.failed \cup {call.q} \subseteq Reqs
    BY <1>4, <1>c, <1>m DEF SaveFailed
  <2>3. call' \in CallType
    BY <1>4, <1>t, <1>m, <2>1, <2>2, CallAdvances DEF SaveFailed
  <2>4. run' \in RunType
    BY <1>4, <1>s, <2>1, <2>2 DEF SaveFailed, RunType
  <2> QED BY <1>4, <2>3, <2>4 DEF SaveFailed, TypeOK
<1>5. CASE Report
  <2>1. sess' = sess \/ \E b \in BOOLEAN : sess' = [sess EXCEPT !.life = "failed", !.rolled = b]
    BY <1>5, Zenon DEF Report
  <2>2. sess' \in SessType
    BY <1>t, <2>1, SessMoves
  <2> QED BY <1>5, <2>2, StartTypes DEF Report, TypeOK
<1>6. CASE OpenSession
  <2>1. sess' \in SessType
    BY <1>6, <1>t, <1>c, StartTypes DEF OpenSession
  <2>2. call' \in CallType
    BY <1>6, <1>t, <1>p, CallMoves DEF OpenSession, Goto, Blocked
  <2>3. green' \in BOOLEAN
    BY <1>6, Zenon DEF OpenSession, TypeOK
  <2> QED BY <1>6, <2>1, <2>2, <2>3 DEF OpenSession, TypeOK
<1>7. CASE FirstChunk
  <2>1. CASE Pending
    BY <1>7, <2>1, ResumeTypes DEF FirstChunk, Pending, Within, TypeOK
  <2>2. CASE ~Pending
    BY <1>7, <2>2, <1>t, <1>p, CallMoves DEF FirstChunk, Goto, TypeOK
  <2> QED BY <2>1, <2>2
<1>8. CASE Precheck
  <2>1. PICK v \in BOOLEAN : Judges(v) /\ Route(v)
    BY <1>8 DEF Precheck
  <2>2. faults' \in 0..MaxFaults
    BY <2>1 DEF Judges, Fine, Fault, TypeOK
  <2>3. green' \in BOOLEAN
    BY <2>1, Zenon DEF Route, TypeOK
  <2>4. call' \in CallType
    <3>1. CASE call.q \in VerifyOnly
      BY <2>1, <3>1, <1>t, <1>p, CallMoves DEF Route, Goto
    <3>2. CASE call.q \notin VerifyOnly
      <4>1. (call.retry /\ v) \in BOOLEAN
        BY <2>1, Zenon
      <4>2. \E b \in BOOLEAN, x \in Points : call' = [call EXCEPT !.retry = b, !.pc = x]
        BY <2>1, <3>2, <4>1, <1>p DEF Route
      <4> QED BY <4>2, <1>t DEF CallType
    <3> QED BY <3>1, <3>2
  <2> QED BY <1>8, <2>2, <2>3, <2>4 DEF Precheck, TypeOK
<1>9. CASE Drop
  <2>1. call' \in CallType /\ sess' \in SessType
    BY <1>9, <1>t, <1>p, CallMoves, StartTypes DEF Drop, Blocked, CloseSession
  <2>2. cur' \in CurType
    BY <1>9, <1>t DEF Drop, CloseSession, CurType
  <2> QED BY <1>9, <2>1, <2>2 DEF Drop, TypeOK
<1>10. CASE NoopAttest
  <2>1. call' \in CallType
    BY <1>10, <1>t, <1>p, CallMoves DEF NoopAttest, Goto
  <2>4. sess' \in SessType
    <3>1. SignSession => sess' \in SessType
      BY <1>t DEF SignSession, SessType, Lives
    <3>2. LifeTo("failed") => sess' \in SessType
      BY <1>t, <1>l, SessMoves DEF LifeTo
    <3> QED BY <1>10, <3>1, <3>2 DEF NoopAttest
  <2>2. faults' \in 0..MaxFaults
    BY <1>10 DEF NoopAttest, Fine, Fault, TypeOK
  <2>3. att' \subseteq Reqs
    BY <1>10, <1>m DEF NoopAttest, TypeOK
  <2> QED BY <1>10, <2>1, <2>2, <2>3, <2>4 DEF NoopAttest, TypeOK
<1>11. CASE Needles
  <2>1. CASE Pending
    BY <1>11, <2>1, ResumeTypes DEF Needles, Pending, Within, TypeOK
  <2>2. CASE ~Pending
    <3>1. PlanNeedles /\ UNCHANGED <<disk, green>>
      BY <1>11, <2>2 DEF Needles
    <3>2. call' \in CallType
      BY <3>1, <1>t, <1>p, CallMoves DEF PlanNeedles, Goto, Blocked
    <3>3. sess' \in SessType
      BY <3>1, <1>t, <1>l, SessMoves DEF PlanNeedles, LifeTo
    <3>4. cur' \in CurType
      <4>1. [rk |-> call.q, todo |-> {c \in Parts : disk[call.q][c] # "whole"}, ckpts |-> {},
             base |-> disk[call.q], mine |-> TRUE] \in CurType
        BY <1>11, <1>m, <1>c DEF Needles, CurType, TypeOK
      <4> QED BY <3>1, <4>1, <1>t, StartTypes DEF PlanNeedles
    <3>5. faults' \in 0..MaxFaults
      BY <3>1 DEF PlanNeedles, Fine, Fault, TypeOK
    <3> QED BY <1>11, <3>1, <3>2, <3>3, <3>4, <3>5 DEF Needles, TypeOK
  <2> QED BY <2>1, <2>2
<1>12. CASE MoreChunks
  BY <1>12, ResumeTypes DEF MoreChunks, Batches, Within, TypeOK
<1>13. CASE Verify
  <2>1. CASE MayVerify /\ Promote
    BY <1>13, <2>1, <1>t, <1>l, <1>p, CallMoves, SessMoves DEF Verify, Promote, Goto, Fine, TypeOK
  <2>2. ASSUME NEW v \in BOOLEAN, Judges(v), InPlace(v) PROVE TypeOK'
    <3>1. faults' \in 0..MaxFaults
      BY <2>2 DEF Judges, Fine, Fault, TypeOK
    <3>2. green' \in BOOLEAN
      BY <2>2, Zenon DEF InPlace
    <3>3. sess' \in SessType
      BY <2>2, <1>t, <1>l, SessMoves DEF InPlace, LifeTo
    <3>4. call' \in CallType
      <4>1. [call EXCEPT !.pc = "undo", !.undo = cur.ckpts] \in CallType
        BY <1>t, <1>c, <1>p DEF CallType
      <4> QED BY <2>2, <4>1, <1>t, <1>p, CallMoves DEF InPlace, Goto, Blocked
    <3> QED BY <1>13, <3>1, <3>2, <3>3, <3>4 DEF Verify, TypeOK
  <2>3. CASE Refuse /\ UNCHANGED <<green, faults>>
    <3>1. call' \in CallType
      BY <2>3, <1>t, <1>p, CallMoves DEF Refuse, Blocked
    <3>2. sess' \in SessType
      BY <2>3, <1>t, SessMoves, ReconciledTyped DEF Refuse, LifeTo
    <3> QED BY <1>13, <2>3, <3>1, <3>2 DEF Verify, TypeOK
  <2> QED BY <1>13, <2>1, <2>2, <2>3 DEF Verify
<1>14. CASE Undo
  <2> DEFINE c == Max(call.undo)
  <2>1. c \in Parts /\ call.q \in Reqs /\ cur.base[c] \in Contents
    BY <1>14, <1>c, <1>m, MaxIsPart DEF Undo, Batches, Bases
  <2>2. disk' \in [Reqs -> Bases]
    BY <1>14, <2>1 DEF Undo, Bases, TypeOK
  <2>3. call' \in CallType
    <3>1. [call EXCEPT !.undo = @ \ {c}] \in CallType
      BY <1>t, <1>c DEF CallType
    <3> QED BY <1>14, <3>1, <1>t, <1>p, CallMoves DEF Undo, Blocked
  <2>4. sess' \in SessType
    BY <1>14, <1>t, <1>l, SessMoves DEF Undo, LifeTo
  <2>5. green' \in BOOLEAN
    BY <1>14 DEF Undo, TypeOK
  <2>6. faults' \in 0..MaxFaults
    BY <1>14 DEF Undo, Fine, Fault, TypeOK
  <2> QED BY <1>14, <2>2, <2>3, <2>4, <2>5, <2>6 DEF Undo, TypeOK
<1>15. CASE Attest
  <2>1. call' \in CallType
    BY <1>15, <1>t, <1>p, CallMoves DEF Attest, Refuse, Blocked, Goto
  <2>2. sess' \in SessType
    BY <1>15, <1>t, <1>l, SessMoves, ReconciledTyped DEF Attest, SignSession, Refuse, LifeTo
  <2>3. faults' \in 0..MaxFaults
    BY <1>15 DEF Attest, Fine, Fault, TypeOK
  <2>4. att' \subseteq Reqs
    BY <1>15, <1>m DEF Attest, TypeOK
  <2> QED BY <1>15, <2>1, <2>2, <2>3, <2>4 DEF Attest, TypeOK
<1>16. CASE Close
  <2> DEFINE last == IF call.retry \/ call.q \in VerifyOnly THEN call.last ELSE Checkpoint(call.q)
  <2>1. last \in Marks
    BY <1>16, <1>c, <1>m, MarkTyped DEF Close, Batches
  <2>2. call' \in CallType
    BY <1>16, <1>t, <1>m, <1>c, <2>1, CallAdvances DEF Close
  <2>3. sess' \in SessType /\ cur' \in CurType
    BY <1>16, <1>t, StartTypes DEF Close, CloseSession, CurType
  <2> QED BY <1>16, <2>2, <2>3 DEF Close, TypeOK
<1> QED
  BY <1>1, <1>2, <1>3, <1>4, <1>5, <1>6, <1>7, <1>8, <1>9, <1>10, <1>11, <1>12,
     <1>13, <1>14, <1>15, <1>16 DEF Program

LEMMA TypeOthers ==
    ASSUME TypeOK, Client \/ JobEnds \/ Crash
    PROVE  TypeOK'
<1> USE SpecRunAssumption
<1>t. /\ run \in RunType /\ sess \in SessType /\ cur \in CurType /\ call \in CallType
      /\ disk \in [Reqs -> Bases]
  BY DEF TypeOK
<1>l. /\ \A l \in {"draft", "applying", "verifying", "committed", "failed"} : l \in Lives
      /\ \A v \in {"running", "passed", "failed"} : v \in Jobs
  BY DEF Lives, Jobs
<1>c. /\ cur.ckpts \subseteq Parts /\ cur.base \in [Parts -> Contents] /\ cur.rk \in 0..N
  BY <1>t DEF CurType, Bases
<1>1. ASSUME NEW left \in {1, N}, NEW reset \in BOOLEAN, Begin(left, reset) PROVE TypeOK'
  <2> DEFINE old == IF run.on /\ ~reset THEN run ELSE [NoRun EXCEPT !.on = TRUE]
  <2>1. old \in RunType
    BY <1>t, StartTypes
  <2>2. run' \in RunType
    BY <1>1, <2>1, StartTypes DEF Begin
  <2>3. sess' \in SessType
    BY <1>1, <1>t, <1>l, SessMoves DEF Begin, LifeTo
  <2>4. call' \in CallType
    <3>1. /\ old.idx \in 1..(N + 1) /\ old.failed \subseteq Reqs /\ old.last \in Marks
          /\ left \in 0..N
      BY <1>1, <2>1 DEF RunType
    <3>2. "next" \in Points
      BY DEF Points
    <3>3. {r \in Reqs : Attested(r)} \subseteq Reqs
      OBVIOUS
    <3>4. [Idle EXCEPT !.pc = "next", !.left = left, !.idx = old.idx,
             !.failed = old.failed, !.last = old.last,
             !.skip = {r \in Reqs : Attested(r)}] \in CallType
      BY <3>1, <3>2, <3>3, StartTypes DEF CallType
    <3> QED BY <1>1, <1>t, <3>4 DEF Begin
  <2> QED BY <1>1, <2>2, <2>3, <2>4 DEF Begin, TypeOK
<1>2. CASE Resume
  <2>1. sess' \in SessType
    BY <1>2, <1>t, <1>l, SessMoves DEF Resume, LifeTo
  <2> QED BY <1>2, <2>1 DEF Resume, TypeOK
<1>3. CASE EndSession
  <2>1. sess' \in SessType /\ cur' \in CurType
    BY <1>3, <1>t, StartTypes DEF EndSession, CloseSession, CurType
  <2> QED BY <1>3, <2>1 DEF EndSession, TypeOK
<1>4. CASE Rollback
  <2>1. PICK c \in cur.ckpts : disk' = [disk EXCEPT ![cur.rk][c] = cur.base[c]]
    BY <1>4 DEF Rollback
  <2>2. disk' \in [Reqs -> Bases]
    BY <1>4, <2>1, <1>t, <1>c DEF Rollback, Own, Reqs, Bases
  <2>3. sess' \in SessType
    BY <1>4, <1>t, <1>l, SessMoves DEF Rollback, LifeTo
  <2> QED BY <1>4, <2>2, <2>3 DEF Rollback, TypeOK
<1>5. CASE Abort
  <2>1. sess' \in SessType
    BY <1>5, <1>t, <1>l, SessMoves DEF Abort, LifeTo
  <2>2. disk' \in [Reqs -> Bases]
    <3>1. run.last \in Marks
      BY <1>t DEF RunType
    <3>2. CASE run.last = <<>>
      BY <1>5, <3>2, <1>t DEF Abort
    <3>3. CASE run.last # <<>>
      <4>1. /\ run.last[1] \in Reqs /\ run.last[2] \in Parts
            /\ run.last[3] \in Contents
        BY <3>1, <3>3 DEF Marks
      <4> QED BY <1>5, <3>3, <4>1, <1>t DEF Abort, Bases
    <3> QED BY <3>2, <3>3
  <2>3. green' \in BOOLEAN
    BY <1>5, Zenon DEF Abort
  <2> QED BY <1>5, <2>1, <2>2, <2>3, StartTypes DEF Abort, TypeOK
<1>6. CASE ApplyAbort
  <2>1. sess' \in SessType
    BY <1>6, <1>t, <1>l, SessMoves DEF ApplyAbort, LifeTo
  <2>2. disk' \in [Reqs -> Bases]
    <3>1. CASE cur.ckpts = {}
      BY <1>6, <3>1, <1>t DEF ApplyAbort
    <3>2. CASE cur.ckpts # {}
      <4>1. Max(cur.ckpts) \in Parts /\ cur.rk \in Reqs
        BY <1>6, <3>2, <1>c, MaxIsPart DEF ApplyAbort, Reqs
      <4> QED BY <1>6, <3>2, <4>1, <1>c, <1>t DEF ApplyAbort, Bases
    <3> QED BY <3>1, <3>2
  <2>3. green' \in BOOLEAN
    BY <1>6, Zenon DEF ApplyAbort
  <2> QED BY <1>6, <2>1, <2>2, <2>3, StartTypes DEF ApplyAbort, TypeOK
<1>7. CASE JobEnds
  <2>1. PICK v \in {"passed", "failed"} : /\ sess' = [sess EXCEPT !.job = v]
                                         /\ green' = (green \/ v = "passed")
    BY <1>7 DEF JobEnds
  <2>2. sess' \in SessType
    BY <2>1, <1>t, <1>l, SessMoves
  <2>3. green' \in BOOLEAN
    BY <2>1, Zenon
  <2> QED BY <1>7, <2>2, <2>3 DEF JobEnds, TypeOK
<1>8. CASE Crash
  BY <1>8, StartTypes DEF Crash, TypeOK
<1> QED BY <1>1, <1>2, <1>3, <1>4, <1>5, <1>6, <1>7, <1>8 DEF Client

----------------------------------------------------------------------------
(* The session is the call's own, and the batch is there *)

\* The fields of a call that only the loop changes.
Same == /\ call'.q = call.q /\ call'.idx = call.idx /\ call'.left = call.left
        /\ call'.skip = call.skip

LEMMA Reads ==
    ASSUME TypeOK
    PROVE  /\ \A p : Goto(p) => call'.pc = p /\ Same /\ call'.retry = call.retry
           /\ \A w : Blocked(w) => call'.pc = "failing" /\ call'.why = w /\ Same
           /\ \A l : LifeTo(l) => sess'.rk = sess.rk /\ sess'.rolled = FALSE
           /\ Refuse => /\ call'.pc = "failing" /\ call'.why = "guard" /\ Same
                        /\ sess'.rk = sess.rk
                        /\ sess' = sess \/ sess'.rolled = FALSE
<1>t. sess \in SessType /\ call \in CallType
  BY DEF TypeOK
<1>1. \A p : Goto(p) => call'.pc = p /\ Same /\ call'.retry = call.retry
  BY <1>t DEF Goto, Same, CallType
<1>2. \A w : Blocked(w) => call'.pc = "failing" /\ call'.why = w /\ Same
  BY <1>t DEF Blocked, Same, CallType
<1>3. \A l : LifeTo(l) => sess'.rk = sess.rk /\ sess'.rolled = FALSE
  BY <1>t DEF LifeTo, SessType
<1>4. ASSUME Refuse
      PROVE  /\ call'.pc = "failing" /\ call'.why = "guard" /\ Same
             /\ sess'.rk = sess.rk
             /\ sess' = sess \/ sess'.rolled = FALSE
  BY <1>2, <1>3, <1>4 DEF Refuse
<1> QED BY <1>1, <1>2, <1>3, <1>4

\* One chunk of the cursor, or a refusal.
LEMMA ResumeReads ==
    ASSUME TypeOK, cur.todo # {}, NEW d, NEW m, Resumes(d, m)
    PROVE  /\ Same /\ sess'.rk = sess.rk /\ cur'.rk = cur.rk /\ cur'.mine = cur.mine
           /\ \/ /\ call'.pc = "failing" /\ call'.why = "guard"
                 /\ disk' = disk /\ cur' = cur
                 /\ (sess' = sess \/ sess'.rolled = FALSE)
              \/ /\ cur.mine /\ cur'.ckpts # {} /\ sess'.rolled = FALSE
                 /\ \A r \in Reqs : disk'[r] # disk[r] => r = cur.rk
                 /\ \/ call'.pc = "failing" /\ call'.why = "chunk"
                    \/ call'.pc = d /\ call'.retry = call.retry
                    \/ call'.pc = m /\ call'.retry = call.retry /\ cur'.todo # {}
<1>t. cur \in CurType /\ disk \in [Reqs -> Bases]
  BY DEF TypeOK
<1>1. CASE LogIsOwn /\ MayApply
  <2> DEFINE c == Min(cur.todo)
  <2>1. PICK out \in Contents : WriteChunk(out, d, m)
    BY <1>1 DEF Resumes, ApplyChunk
  <2>2. cur' = [cur EXCEPT !.todo = @ \ {c}, !.ckpts = @ \cup {c}]
    BY <2>1 DEF WriteChunk
  <2>3. /\ cur'.rk = cur.rk /\ cur'.mine = cur.mine /\ cur'.ckpts # {}
        /\ cur'.todo = cur.todo \ {c}
    BY <1>t, <2>2 DEF CurType
  <2>4. disk' = disk \/ \E x : disk' = [disk EXCEPT ![cur.rk][c] = x]
    BY <2>1 DEF WriteChunk
  <2>5. \A r \in Reqs : disk'[r] # disk[r] => r = cur.rk
    BY <1>t, <2>4
  <2>6. sess'.rk = sess.rk /\ sess'.rolled = FALSE
    BY <2>1, Reads DEF WriteChunk
  <2>7. cur.todo # {c} => cur.todo \ {c} # {}
    OBVIOUS
  <2>8. /\ Same
        /\ \/ call'.pc = "failing" /\ call'.why = "chunk"
           \/ call'.pc = d /\ call'.retry = call.retry
           \/ call'.pc = m /\ call'.retry = call.retry /\ cur'.todo # {}
    BY <2>1, <2>3, <2>7, Reads DEF WriteChunk
  <2> QED BY <1>1, <2>3, <2>5, <2>6, <2>8 DEF LogIsOwn
<1>2. CASE ~(LogIsOwn /\ MayApply)
  <2>1. /\ UNCHANGED <<cur, disk>>
        /\ Refuse \/ (Blocked("guard") /\ UNCHANGED sess)
    BY <1>2 DEF Resumes
  <2>2. /\ Same /\ sess'.rk = sess.rk /\ (sess' = sess \/ sess'.rolled = FALSE)
        /\ call'.pc = "failing" /\ call'.why = "guard"
    BY <2>1, Reads
  <2> QED BY <2>1, <2>2
<1> QED BY <1>1, <1>2

LEMMA PlanReads ==
    ASSUME TypeOK, PlanNeedles
    PROVE  /\ Same /\ sess'.rk = sess.rk /\ (sess' = sess \/ sess'.rolled = FALSE)
           /\ \/ /\ call'.pc = "chunks" /\ cur'.todo # {} /\ cur'.ckpts = {}
                 /\ cur'.rk = call.q
              \/ /\ call'.pc = "failing" /\ call'.why \in {"work", "guard"}
                 /\ cur' = cur \/ cur' = NoCur
<1>1. /\ Goto("chunks") \/ Blocked("work") \/ Blocked("guard")
      /\ sess' = sess \/ LifeTo("failed") \/ LifeTo("applying")
  BY DEF PlanNeedles
<1>2. Same /\ sess'.rk = sess.rk /\ (sess' = sess \/ sess'.rolled = FALSE)
  BY <1>1, Reads
<1>3. \/ Goto("chunks") /\ cur'.todo # {} /\ cur'.ckpts = {} /\ cur'.rk = call.q
      \/ Blocked("work") \/ Blocked("guard")
  BY DEF PlanNeedles
<1> QED BY <1>2, <1>3, Reads DEF PlanNeedles

LEMMA PrecheckReads ==
    ASSUME TypeOK, Precheck
    PROVE  /\ Same
           /\ \/ call'.pc = "noop" /\ call.q \in VerifyOnly
              \/ call'.pc \in {"drop", "needles"}
              \/ call'.pc = "verify" /\ call'.retry
<1>t. call \in CallType
  BY DEF TypeOK
<1>1. PICK v \in BOOLEAN : Route(v)
  BY DEF Precheck
<1>2. CASE call.q \in VerifyOnly
  BY <1>1, <1>2, Reads DEF Route
<1>3. CASE call.q \notin VerifyOnly
  <2>1. call' = [call EXCEPT !.retry = call.retry /\ v,
                   !.pc = IF v /\ call.retry THEN "verify" ELSE "needles"]
    BY <1>1, <1>3 DEF Route
  <2>2. Same /\ call'.pc = IF v /\ call.retry THEN "verify" ELSE "needles"
    BY <1>t, <2>1 DEF CallType, Same
  <2>3. call'.retry = (call.retry /\ v)
    BY <1>t, <2>1 DEF CallType
  <2> QED BY <2>2, <2>3, Zenon
<1> QED BY <1>2, <1>3

LEMMA VerifyReads ==
    ASSUME TypeOK, Verify
    PROVE  /\ Same /\ sess'.rk = sess.rk /\ (sess' = sess \/ sess'.rolled = FALSE)
           /\ \/ call'.pc = "failing" /\ call'.why \in {"guard", "work"}
              \/ call'.pc = "attest" /\ call'.retry = call.retry
              \/ call'.pc = "undo" /\ call'.undo = cur.ckpts /\ ~call.retry
<1>t. call \in CallType /\ sess \in SessType
  BY DEF TypeOK
<1>1. CASE Refuse
  BY <1>1, Reads
<1>2. CASE Promote
  <2>1. sess'.rk = sess.rk /\ sess'.rolled = FALSE
    BY <1>2, <1>t DEF Promote, SessType
  <2> QED BY <1>2, <2>1, Reads DEF Promote
<1>3. ASSUME NEW v \in BOOLEAN, InPlace(v)
      PROVE  /\ Same /\ sess'.rk = sess.rk /\ sess'.rolled = FALSE
             /\ \/ call'.pc = "failing" /\ call'.why \in {"guard", "work"}
                \/ call'.pc = "attest" /\ call'.retry = call.retry
                \/ call'.pc = "undo" /\ call'.undo = cur.ckpts /\ ~call.retry
  <2>1. sess'.rk = sess.rk /\ sess'.rolled = FALSE
    BY <1>3, Reads DEF InPlace
  <2>2. CASE v
    BY <1>3, <2>1, <2>2, Reads DEF InPlace
  <2>3. CASE ~v /\ call.retry
    BY <1>3, <2>1, <2>3, Reads DEF InPlace
  <2>4. CASE ~v /\ ~call.retry
    BY <1>3, <1>t, <2>1, <2>4 DEF InPlace, Same, CallType
  <2> QED BY <2>2, <2>3, <2>4
<1> QED BY <1>1, <1>2, <1>3 DEF Verify

LEMMA UndoReads ==
    ASSUME TypeOK, Bound, Batches, Undo, NEW c, c = Max(call.undo)
    PROVE  /\ Same /\ sess'.rk = sess.rk /\ sess'.rolled = FALSE
           /\ call'.pc = "failing" => call'.why = "rolled" \/ disk' = disk
           /\ \/ /\ call'.pc = "failing" /\ call'.why = "work" /\ disk' = disk
              \/ /\ disk' = [disk EXCEPT ![call.q][c] = cur.base[c]]
                 /\ \/ /\ call.undo = {c}
                       /\ call'.pc = "failing" /\ call'.why = "rolled"
                    \/ /\ call.undo \ {c} # {}
                       /\ call'.pc = "undo" /\ call'.undo = call.undo \ {c}
<1>t. call \in CallType /\ call.undo # {} /\ c \in call.undo
  BY MaxIsPart DEF TypeOK, Batches, Undo, CallType
<1>1. CASE LifeTo("failed") /\ Blocked("work") /\ UNCHANGED disk
  BY <1>1, Reads
<1>2. CASE /\ disk' = [disk EXCEPT ![call.q][c] = cur.base[c]]
           /\ LifeTo("draft") /\ Blocked("rolled") /\ call.undo = {c}
  BY <1>2, Reads
<1>3. CASE /\ disk' = [disk EXCEPT ![call.q][c] = cur.base[c]]
           /\ LifeTo("draft") /\ call.undo # {c}
           /\ call' = [call EXCEPT !.undo = @ \ {c}]
  <2>1. Same /\ call'.pc = call.pc /\ call'.undo = call.undo \ {c}
    BY <1>3, <1>t DEF CallType, Same
  <2>2. call.undo \ {c} # {}
    BY <1>3, <1>t
  <2> QED BY <1>3, <2>1, <2>2, Reads DEF Undo
<1> QED BY <1>1, <1>2, <1>3 DEF Undo

LEMMA AttestReads ==
    ASSUME TypeOK, Attest
    PROVE  /\ Same /\ sess'.rk = sess.rk /\ (sess' = sess \/ sess'.rolled = FALSE)
           /\ \/ call'.pc = "failing" /\ call'.why \in {"guard", "work"} /\ att' = att
              \/ call'.pc = "close" /\ call'.retry = call.retry /\ att' = att \cup {call.q}
<1>t. sess \in SessType
  BY DEF TypeOK
<1>1. CASE Refuse /\ UNCHANGED att
  BY <1>1, Reads
<1>2. CASE LifeTo("failed") /\ Blocked("work") /\ UNCHANGED att
  BY <1>2, Reads
<1>3. CASE /\ att' = att \cup {call.q} /\ Goto("close")
           /\ SignSession
  <2>1. sess'.rk = sess.rk /\ sess'.rolled = FALSE
    BY <1>3, <1>t DEF SignSession, SessType
  <2> QED BY <1>3, <2>1, Reads
<1> QED BY <1>1, <1>2, <1>3 DEF Attest

LEMMA BoundStep ==
    ASSUME TypeOK, Bound, Batches, Next
    PROVE  Bound'
<1> USE SpecRunAssumption DEF Bound, Within
<1>t. sess \in SessType /\ cur \in CurType /\ call \in CallType
  BY DEF TypeOK
<1>1. CASE Skip
  BY <1>1, <1>t DEF Skip, SessType, CurType, CallType
<1>2. CASE Take
  BY <1>2, <1>t DEF Take, More, SessType, CurType, CallType
<1>3. CASE Finish
  BY <1>3, <1>t DEF Finish, LifeTo, Idle, SessType, CurType, CallType
<1>4. CASE SaveFailed
  BY <1>4, <1>t DEF SaveFailed, SessType, CurType, CallType
<1>5. CASE Report
  BY <1>5, <1>t DEF Report, Idle, SessType, CurType, CallType
<1>6. CASE OpenSession
  <2>1. call'.pc \in {"cursor", "failing"} /\ Same /\ (call'.pc = "failing" => call'.why = "guard")
    BY <1>6, Reads DEF OpenSession
  <2>2. sess.rk = 0 => sess'.rk = call.q
    BY <1>6 DEF OpenSession, NoSess
  <2>3. sess.rk # 0 => sess' = sess /\ (call'.pc = "cursor" => sess.rk = call.q)
    BY <1>6, Reads DEF OpenSession
  <2> QED BY <1>6, <2>1, <2>2, <2>3 DEF OpenSession, Same
<1>7. CASE FirstChunk
  <2>1. CASE Pending
    <3>1. /\ Same /\ sess'.rk = sess.rk /\ cur'.rk = cur.rk /\ cur'.mine = cur.mine
          /\ \/ call'.pc = "failing" /\ call'.why = "guard"
             \/ /\ cur.mine /\ cur'.ckpts # {}
                /\ \/ call'.pc = "failing" /\ call'.why = "chunk"
                   \/ call'.pc = "check"
                   \/ call'.pc = "check" /\ cur'.todo # {}
      BY <1>7, <2>1, ResumeReads DEF FirstChunk, Pending
    <3> QED BY <1>7, <3>1 DEF FirstChunk, Same
  <2>2. CASE ~Pending
    BY <1>7, <2>2, Reads DEF FirstChunk, Same
  <2> QED BY <2>1, <2>2
<1>8. CASE Precheck
  BY <1>8, PrecheckReads DEF Precheck, Same
<1>9. CASE Drop
  BY <1>9, <1>t DEF Drop, CloseSession, Blocked, SessType, CurType, CallType
<1>10. CASE NoopAttest
  BY <1>10, <1>t DEF NoopAttest, SignSession, LifeTo, Goto, SessType, CurType, CallType
<1>11. CASE Needles
  <2>1. CASE Pending
    <3>1. /\ Same /\ sess'.rk = sess.rk /\ cur'.rk = cur.rk /\ cur'.mine = cur.mine
          /\ \/ call'.pc = "failing" /\ call'.why = "guard"
             \/ /\ cur.mine /\ cur'.ckpts # {}
                /\ \/ call'.pc = "failing" /\ call'.why = "chunk"
                   \/ call'.pc = "verify"
                   \/ call'.pc = "chunks" /\ cur'.todo # {}
      BY <1>11, <2>1, ResumeReads DEF Needles, Pending
    <3> QED BY <1>11, <3>1 DEF Needles, Same
  <2>2. CASE ~Pending
    <3>1. call.idx > 0
      BY <1>t DEF CallType
    <3> QED BY <1>11, <2>2, <3>1, PlanReads DEF Needles, NoCur, Same
  <2> QED BY <2>1, <2>2
<1>12. CASE MoreChunks
  <2>1. /\ Same /\ sess'.rk = sess.rk /\ cur'.rk = cur.rk /\ cur'.mine = cur.mine
        /\ \/ call'.pc = "failing" /\ call'.why = "guard"
           \/ /\ cur.mine /\ cur'.ckpts # {}
              /\ \/ call'.pc = "failing" /\ call'.why = "chunk"
                 \/ call'.pc = "verify"
                 \/ call'.pc = "chunks" /\ cur'.todo # {}
    BY <1>12, ResumeReads DEF MoreChunks, Batches
  <2> QED BY <1>12, <2>1 DEF MoreChunks, Same
<1>13. CASE Verify
  BY <1>13, VerifyReads DEF Verify, Same
<1>14. CASE Undo
  BY <1>14, UndoReads DEF Undo, Same
<1>15. CASE Attest
  BY <1>15, AttestReads DEF Attest, Same
<1>16. CASE Close
  BY <1>16, <1>t DEF Close, CloseSession, SessType, CurType, CallType
<1>17. ASSUME NEW left \in {1, N}, NEW reset \in BOOLEAN, Begin(left, reset) PROVE Bound'
  <2>1. call'.pc \in {"idle", "next"} /\ cur' = cur /\ sess'.rk = sess.rk
    BY <1>17, Reads DEF Begin, Idle
  <2> QED BY <2>1
<1>18. CASE Resume
  BY <1>18, <1>t DEF Resume, LifeTo, SessType, CurType, CallType
<1>19. CASE EndSession
  BY <1>19, <1>t DEF EndSession, CloseSession, NoSess, AtRest, SessType, CurType, CallType
<1>20. CASE Rollback
  BY <1>20, <1>t DEF Rollback, LifeTo, AtRest, SessType, CurType, CallType
<1>21. CASE Abort
  BY <1>21, <1>t DEF Abort, LifeTo, AtRest, SessType, CurType, CallType
<1>22. CASE ApplyAbort
  BY <1>22, <1>t DEF ApplyAbort, NoCur, LifeTo, AtRest, SessType, CurType, CallType
<1>23. CASE JobEnds
  BY <1>23, <1>t DEF JobEnds, SessType, CurType, CallType
<1>24. CASE Crash
  BY <1>24, <1>t DEF Crash, Idle, SessType, CurType, CallType
<1> QED BY <1>1, <1>2, <1>3, <1>4, <1>5, <1>6, <1>7, <1>8, <1>9, <1>10, <1>11, <1>12, <1>13, <1>14, <1>15, <1>16, <1>17, <1>18, <1>19, <1>20, <1>21, <1>22, <1>23, <1>24
  DEF Next, Program, Client

LEMMA BatchesStep ==
    ASSUME TypeOK, Bound, Batches, Next
    PROVE  Batches'
<1> USE SpecRunAssumption DEF Bound, Batches, Within
<1>t. sess \in SessType /\ cur \in CurType /\ call \in CallType
  BY DEF TypeOK
<1>1. CASE Skip
  BY <1>1, <1>t DEF Skip, SessType, CurType, CallType
<1>2. CASE Take
  BY <1>2, <1>t DEF Take, More, SessType, CurType, CallType
<1>3. CASE Finish
  BY <1>3, <1>t DEF Finish, LifeTo, Idle, SessType, CurType, CallType
<1>4. CASE SaveFailed
  BY <1>4, <1>t DEF SaveFailed, SessType, CurType, CallType
<1>5. CASE Report
  BY <1>5, <1>t DEF Report, Idle, SessType, CurType, CallType
<1>6. CASE OpenSession
  <2>1. call'.pc \in {"cursor", "failing"} /\ Same /\ (call'.pc = "failing" => call'.why = "guard")
    BY <1>6, Reads DEF OpenSession
  <2>2. sess.rk = 0 => sess'.rk = call.q
    BY <1>6 DEF OpenSession, NoSess
  <2>3. sess.rk # 0 => sess' = sess /\ (call'.pc = "cursor" => sess.rk = call.q)
    BY <1>6, Reads DEF OpenSession
  <2> QED BY <1>6, <2>1, <2>2, <2>3 DEF OpenSession, Same
<1>7. CASE FirstChunk
  <2>1. CASE Pending
    <3>1. /\ Same /\ sess'.rk = sess.rk /\ cur'.rk = cur.rk /\ cur'.mine = cur.mine
          /\ \/ call'.pc = "failing" /\ call'.why = "guard"
             \/ /\ cur.mine /\ cur'.ckpts # {}
                /\ \/ call'.pc = "failing" /\ call'.why = "chunk"
                   \/ call'.pc = "check"
                   \/ call'.pc = "check" /\ cur'.todo # {}
      BY <1>7, <2>1, ResumeReads DEF FirstChunk, Pending
    <3> QED BY <1>7, <3>1 DEF FirstChunk, Same
  <2>2. CASE ~Pending
    BY <1>7, <2>2, Reads DEF FirstChunk, Same
  <2> QED BY <2>1, <2>2
<1>8. CASE Precheck
  BY <1>8, PrecheckReads DEF Precheck, Same
<1>9. CASE Drop
  BY <1>9, <1>t DEF Drop, CloseSession, Blocked, SessType, CurType, CallType
<1>10. CASE NoopAttest
  BY <1>10, <1>t DEF NoopAttest, SignSession, LifeTo, Goto, SessType, CurType, CallType
<1>11. CASE Needles
  <2>1. CASE Pending
    <3>1. /\ Same /\ sess'.rk = sess.rk /\ cur'.rk = cur.rk /\ cur'.mine = cur.mine
          /\ \/ call'.pc = "failing" /\ call'.why = "guard"
             \/ /\ cur.mine /\ cur'.ckpts # {}
                /\ \/ call'.pc = "failing" /\ call'.why = "chunk"
                   \/ call'.pc = "verify"
                   \/ call'.pc = "chunks" /\ cur'.todo # {}
      BY <1>11, <2>1, ResumeReads DEF Needles, Pending
    <3> QED BY <1>11, <3>1 DEF Needles, Same
  <2>2. CASE ~Pending
    BY <1>11, <2>2, PlanReads DEF Needles, NoCur, Same
  <2> QED BY <2>1, <2>2
<1>12. CASE MoreChunks
  <2>1. /\ Same /\ sess'.rk = sess.rk /\ cur'.rk = cur.rk /\ cur'.mine = cur.mine
        /\ \/ call'.pc = "failing" /\ call'.why = "guard"
           \/ /\ cur.mine /\ cur'.ckpts # {}
              /\ \/ call'.pc = "failing" /\ call'.why = "chunk"
                 \/ call'.pc = "verify"
                 \/ call'.pc = "chunks" /\ cur'.todo # {}
    BY <1>12, ResumeReads DEF MoreChunks
  <2> QED BY <1>12, <2>1 DEF MoreChunks, Same
<1>13. CASE Verify
  BY <1>13, VerifyReads DEF Verify, Same
<1>14. CASE Undo
  BY <1>14, UndoReads DEF Undo, Same
<1>15. CASE Attest
  BY <1>15, AttestReads DEF Attest, Same
<1>16. CASE Close
  BY <1>16, <1>t DEF Close, CloseSession, SessType, CurType, CallType
<1>17. ASSUME NEW left \in {1, N}, NEW reset \in BOOLEAN, Begin(left, reset) PROVE Batches'
  <2>1. call'.pc \in {"idle", "next"} /\ cur' = cur /\ sess'.rk = sess.rk
    BY <1>17, Reads DEF Begin, Idle
  <2> QED BY <2>1
<1>18. CASE Resume
  BY <1>18, <1>t DEF Resume, LifeTo, SessType, CurType, CallType
<1>19. CASE EndSession
  BY <1>19, <1>t DEF EndSession, CloseSession, NoSess, AtRest, SessType, CurType, CallType
<1>20. CASE Rollback
  BY <1>20, <1>t DEF Rollback, LifeTo, AtRest, SessType, CurType, CallType
<1>21. CASE Abort
  BY <1>21, <1>t DEF Abort, LifeTo, AtRest, SessType, CurType, CallType
<1>22. CASE ApplyAbort
  BY <1>22, <1>t DEF ApplyAbort, NoCur, LifeTo, AtRest, SessType, CurType, CallType
<1>23. CASE JobEnds
  BY <1>23, <1>t DEF JobEnds, SessType, CurType, CallType
<1>24. CASE Crash
  BY <1>24, <1>t DEF Crash, Idle, SessType, CurType, CallType
<1> QED BY <1>1, <1>2, <1>3, <1>4, <1>5, <1>6, <1>7, <1>8, <1>9, <1>10, <1>11, <1>12, <1>13, <1>14, <1>15, <1>16, <1>17, <1>18, <1>19, <1>20, <1>21, <1>22, <1>23, <1>24
  DEF Next, Program, Client

\* Most steps leave the files and the cursor's checkpoints alone.
LEMMA StaysUnwound ==
    ASSUME Unwound, UNCHANGED <<disk, cur>>,
           \/ call'.pc \notin {"undo", "failing", "report"}
           \/ call'.pc \in {"failing", "report"} /\ call'.why # "rolled",
           \/ sess' = sess \/ sess'.rolled = FALSE \/ sess'.rk = 0
           \/ sess'.rolled = sess.rolled /\ sess'.rk = sess.rk
    PROVE  Unwound'
BY DEF Unwound, RolledBackClean, Clean, Own

LEMMA ResumeUnwound ==
    ASSUME TypeOK, Unwound, cur.todo # {},
           NEW d \in {"check", "verify"}, NEW m \in {"check", "chunks"}, Resumes(d, m)
    PROVE  Unwound'
<1>1. \/ /\ call'.pc = "failing" /\ call'.why = "guard"
         /\ disk' = disk /\ cur' = cur
         /\ sess' = sess \/ sess'.rolled = FALSE
      \/ /\ sess'.rolled = FALSE
         /\ \/ call'.pc = "failing" /\ call'.why = "chunk"
            \/ call'.pc = d \/ call'.pc = m
  BY ResumeReads
<1>2. CASE /\ call'.pc = "failing" /\ call'.why = "guard"
           /\ disk' = disk /\ cur' = cur
           /\ sess' = sess \/ sess'.rolled = FALSE
  BY <1>2, StaysUnwound
<1>3. CASE /\ sess'.rolled = FALSE
           /\ \/ call'.pc = "failing" /\ call'.why = "chunk"
              \/ call'.pc = d \/ call'.pc = m
  BY <1>3 DEF Unwound, RolledBackClean
<1> QED BY <1>1, <1>2, <1>3

LEMMA UnwoundStep ==
    ASSUME TypeOK, Bound, Batches, Unwound, Next
    PROVE  Unwound'
<1>t. sess \in SessType /\ cur \in CurType /\ call \in CallType /\ disk \in [Reqs -> Bases]
  BY DEF TypeOK
<1>1. CASE Skip
  BY <1>1, <1>t, StaysUnwound DEF Skip, CallType
<1>2. CASE Take
  BY <1>2, <1>t, StaysUnwound DEF Take, CallType
<1>3. CASE Finish
  BY <1>3, <1>t, StaysUnwound DEF Finish, LifeTo, Idle, SessType
<1>4. CASE SaveFailed
  <2>1. /\ UNCHANGED <<sess, cur, disk>> /\ call'.why = call.why
        /\ call'.pc \in {"report", "next"}
    BY <1>4, <1>t DEF SaveFailed, CallType
  <2> QED BY <1>4, <2>1 DEF SaveFailed, Unwound, RolledBackClean, Clean, Own
<1>5. CASE Report
  <2>1. call'.pc = "idle" /\ UNCHANGED <<cur, disk>>
    BY <1>5 DEF Report, Idle
  <2>2. CASE call.why = "rolled"
    BY <1>5, <2>1, <2>2 DEF Report, Unwound, RolledBackClean, Clean, Own
  <2>3. CASE call.why # "rolled"
    <3>1. sess' = sess \/ sess'.rolled = (call.why = "rolled")
      BY <1>5, <1>t DEF Report, SessType
    <3> QED BY <2>1, <2>3, <3>1, StaysUnwound
  <2> QED BY <2>2, <2>3
<1>6. CASE OpenSession
  <2>1. /\ call'.pc = "cursor" \/ (call'.pc = "failing" /\ call'.why = "guard")
        /\ UNCHANGED <<cur, disk>>
    BY <1>6, Reads DEF OpenSession
  <2>2. sess' = sess \/ sess'.rolled = FALSE
    BY <1>6 DEF OpenSession, NoSess
  <2> QED BY <2>1, <2>2, StaysUnwound
<1>7. CASE FirstChunk
  <2>1. CASE Pending
    BY <1>7, <2>1, ResumeUnwound DEF FirstChunk, Pending
  <2>2. CASE ~Pending
    BY <1>7, <2>2, Reads, StaysUnwound DEF FirstChunk
  <2> QED BY <2>1, <2>2
<1>8. CASE Precheck
  BY <1>8, PrecheckReads, StaysUnwound DEF Precheck
<1>9. CASE Drop
  <2>1. call'.pc = "failing" /\ call'.why = "work" /\ sess'.rk = 0
    BY <1>9, Reads DEF Drop, CloseSession, NoSess
  <2> QED BY <2>1 DEF Unwound, RolledBackClean
<1>10. CASE NoopAttest
  <2>1. call'.pc \in {"close", "drop"} /\ UNCHANGED <<cur, disk>>
    BY <1>10, Reads DEF NoopAttest
  <2>2. sess'.rolled = FALSE
    BY <1>10, <1>t DEF NoopAttest, SignSession, LifeTo, SessType
  <2> QED BY <2>1, <2>2, StaysUnwound
<1>11. CASE Needles
  <2>1. CASE Pending
    BY <1>11, <2>1, ResumeUnwound DEF Needles, Pending
  <2>2. CASE ~Pending
    <3>1. PlanNeedles /\ disk' = disk
      BY <1>11, <2>2 DEF Needles
    <3>2. CASE call'.pc = "chunks" /\ cur'.ckpts = {}
      BY <3>2 DEF Unwound, RolledBackClean
    <3>3. CASE call'.pc = "failing" /\ call'.why \in {"work", "guard"} /\ cur' = cur
      BY <3>1, <3>3, PlanReads, StaysUnwound
    <3>4. CASE call'.pc = "failing" /\ call'.why \in {"work", "guard"} /\ cur' = NoCur
      BY <3>4 DEF Unwound, RolledBackClean, Own, NoCur
    <3> QED BY <3>1, <3>2, <3>3, <3>4, PlanReads
  <2> QED BY <2>1, <2>2
<1>12. CASE MoreChunks
  BY <1>12, ResumeUnwound DEF MoreChunks, Batches
<1>13. CASE Verify
  <2>1. UNCHANGED <<cur, disk>> /\ (sess' = sess \/ sess'.rolled = FALSE)
    BY <1>13, VerifyReads DEF Verify
  <2>2. CASE call'.pc = "undo"
    BY <1>13, <2>1, <2>2, VerifyReads DEF Unwound, RolledBackClean, Own, Clean
  <2>3. CASE call'.pc # "undo"
    BY <1>13, <2>1, <2>3, VerifyReads, StaysUnwound
  <2> QED BY <2>2, <2>3
<1>14. CASE Undo
  <2> DEFINE c == Max(call.undo)
  <2>1. sess'.rolled = FALSE /\ cur' = cur
    BY <1>14, UndoReads DEF Undo
  <2>2. CASE call'.pc = "failing" /\ call'.why = "work"
    BY <2>1, <2>2 DEF Unwound, RolledBackClean
  <2>3. CASE disk' = [disk EXCEPT ![call.q][c] = cur.base[c]]
    <3>1. /\ call.q \in Reqs /\ cur.rk = call.q /\ cur.ckpts \subseteq Parts
          /\ call.undo \subseteq cur.ckpts /\ c \in Parts
      <4>1. call.undo # {} /\ call.undo \subseteq Parts
        BY <1>14, <1>t DEF Undo, Batches, CallType
      <4> QED BY <1>14, <1>t, <4>1, MaxIsPart
              DEF Undo, Batches, Bound, Within, CallType, CurType, Reqs
    <3>2. \A x \in cur.ckpts \ call.undo : disk[cur.rk][x] = cur.base[x]
      BY <1>14 DEF Undo, Unwound, Clean
    <3>3. \A x \in cur.ckpts \ (call.undo \ {c}) : disk'[cur.rk][x] = cur.base[x]
      <4>1. disk[call.q] \in [Parts -> Contents]
        BY <1>t, <3>1 DEF Bases
      <4>2. disk'[call.q] = [disk[call.q] EXCEPT ![c] = cur.base[c]]
        BY <2>3, <1>t, <3>1
      <4> QED BY <3>1, <3>2, <4>1, <4>2
    <3> QED BY <1>14, <2>1, <3>3, UndoReads DEF Unwound, RolledBackClean, Clean
  <2> QED BY <1>14, <2>2, <2>3, UndoReads
<1>15. CASE Attest
  BY <1>15, AttestReads, StaysUnwound DEF Attest
<1>16. CASE Close
  BY <1>16, <1>t DEF Close, CloseSession, NoSess, Unwound, RolledBackClean, CallType
<1>17. ASSUME NEW left \in {1, N}, NEW reset \in BOOLEAN, Begin(left, reset) PROVE Unwound'
  <2>1. call'.pc \in {"idle", "next"} /\ UNCHANGED <<cur, disk>>
    BY <1>17 DEF Begin, Idle
  <2>2. sess' = sess \/ sess'.rolled = FALSE
    BY <1>17, Reads DEF Begin
  <2> QED BY <2>1, <2>2, StaysUnwound
<1>18. CASE Resume
  BY <1>18, Reads, StaysUnwound DEF Resume, AtRest
<1>19. CASE EndSession
  BY <1>19 DEF EndSession, CloseSession, NoSess, AtRest, Unwound, RolledBackClean
<1>20. CASE Rollback
  BY <1>20, Reads DEF Rollback, AtRest, Unwound, RolledBackClean
<1>21. CASE Abort
  BY <1>21, Reads DEF Abort, AtRest, Unwound, RolledBackClean
<1>22. CASE ApplyAbort
  BY <1>22 DEF ApplyAbort, NoCur, AtRest, Unwound, RolledBackClean, Own
<1>23. CASE JobEnds
  <2>1. sess'.rolled = sess.rolled /\ sess'.rk = sess.rk
    BY <1>23, <1>t DEF JobEnds, SessType
  <2> QED BY <1>23, <2>1 DEF JobEnds, Unwound, RolledBackClean, Clean, Own
<1>24. CASE Crash
  BY <1>24, StaysUnwound DEF Crash, Idle
<1> QED BY <1>1, <1>2, <1>3, <1>4, <1>5, <1>6, <1>7, <1>8, <1>9, <1>10, <1>11, <1>12,
           <1>13, <1>14, <1>15, <1>16, <1>17, <1>18, <1>19, <1>20, <1>21, <1>22,
           <1>23, <1>24 DEF Next, Program, Client

----------------------------------------------------------------------------
(* Theorems *)

THEOREM Inductive == Spec => []IInv
<1>1. Init => IInv
  <2> SUFFICES ASSUME Init PROVE IInv
    OBVIOUS
  <2>1. /\ disk \in [Reqs -> Bases] /\ green \in BOOLEAN
        /\ answer \in {"none", "more", "done", "blocked"}
        /\ faults \in 0..MaxFaults /\ crashes \in 0..MaxCrashes /\ att \subseteq Reqs
    <3>1. [c \in Parts |-> "none"] \in Bases
      BY DEF Bases, Contents
    <3>2. disk \in [Reqs -> Bases]
      BY <3>1 DEF Init
    <3>3. green \in BOOLEAN /\ answer \in {"none", "more", "done", "blocked"} /\ att \subseteq Reqs
      BY DEF Init
    <3>4. faults \in 0..MaxFaults /\ crashes \in 0..MaxCrashes
      BY SpecRunAssumption DEF Init
    <3> QED BY <3>2, <3>3, <3>4
  <2>2. TypeOK
    BY <2>1, StartTypes DEF Init, TypeOK
  <2>3. Bound /\ Batches /\ Unwound
    BY DEF Init, Idle, NoSess, NoCur, Bound, Batches, Unwound, RolledBackClean, Within
  <2> QED BY <2>2, <2>3 DEF IInv
<1>2. IInv /\ [Next]_vars => IInv'
  <2>1. ASSUME IInv, Next PROVE IInv'
    BY <2>1, TypeProgram, TypeOthers, BoundStep, BatchesStep, UnwoundStep DEF IInv, Next
  <2>2. ASSUME IInv, UNCHANGED vars PROVE IInv'
    <3> USE <2>2 DEF vars, IInv
    <3>1. TypeOK'
      BY DEF TypeOK
    <3>2. Bound' /\ Batches'
      BY DEF Bound, Batches, Within
    <3>3. Unwound'
      BY DEF Unwound, RolledBackClean, Own, Clean
    <3> QED BY <3>1, <3>2, <3>3
  <2> QED BY <2>1, <2>2
<1> QED BY <1>1, <1>2, PTL DEF Spec

\* The run, the session, the cursor and the call keep their types, and the run
\* never points past the end of the spec (spec_run.py:1309-1490).
THEOREM TypeCorrect == Spec => []TypeOK
<1>1. IInv => TypeOK
  BY DEF IInv
<1> QED BY <1>1, Inductive, PTL

\* A session that carries rollback_performed had its whole batch taken back,
\* whatever was resumed, ended, aborted or cut off since (spec_run.py:826-850).
THEOREM RollbackHolds == Spec => []RolledBackClean
<1>1. IInv => RolledBackClean
  BY DEF IInv, Unwound
<1> QED BY <1>1, Inductive, PTL

LEMMA WritesOwn ==
    ASSUME IInv, Next, NEW r \in Reqs, call.pc # "idle", disk'[r] # disk[r]
    PROVE  sess.rk = r
<1>t. disk \in [Reqs -> Bases] /\ TypeOK /\ Bound /\ Batches
  BY DEF IInv, TypeOK
<1>1. \/ FirstChunk \/ Needles \/ MoreChunks \/ Undo
  BY DEF Next, Program, Client, Skip, Take, Finish, SaveFailed, Report, OpenSession,
         Precheck, Drop, NoopAttest, Verify, Attest, Close, Begin, Resume,
         EndSession, Rollback, Abort, ApplyAbort, JobEnds, Crash, AtRest
<1>2. ASSUME NEW d, NEW m, cur.todo # {}, Resumes(d, m) PROVE sess.rk = r
  <2>1. cur.mine /\ r = cur.rk
    BY <1>t, <1>2, ResumeReads
  <2> QED BY <1>t, <2>1 DEF Bound
<1>3. CASE FirstChunk
  BY <1>2, <1>3 DEF FirstChunk, Pending
<1>4. CASE Needles
  BY <1>2, <1>4 DEF Needles, Pending
<1>5. CASE MoreChunks
  BY <1>t, <1>2, <1>5 DEF MoreChunks, Batches
<1>6. CASE Undo
  <2>1. disk' = disk \/ disk' = [disk EXCEPT ![call.q][Max(call.undo)] = cur.base[Max(call.undo)]]
    BY <1>t, <1>6, UndoReads
  <2>2. r = call.q
    BY <1>t, <2>1
  <2> QED BY <1>t, <1>6, <2>2 DEF Undo, Bound, Within
<1> QED BY <1>1, <1>3, <1>4, <1>5, <1>6

\* A call writes and takes back chunks only for the requirement whose session
\* is open, with any cursor an earlier session left (apply_session.py:299,
\* session_binding.py:316).
THEOREM WorkIsOwn == Spec => OwnWork
<1>1. IInv /\ [Next]_vars =>
        [\A r \in Reqs : call.pc # "idle" /\ disk'[r] # disk[r] => sess.rk = r]_vars
  <2>1. ASSUME IInv, Next
        PROVE  \A r \in Reqs : call.pc # "idle" /\ disk'[r] # disk[r] => sess.rk = r
    BY <2>1, WritesOwn
  <2> QED BY <2>1
<1> QED BY <1>1, Inductive, PTL DEF Spec, OwnWork

----------------------------------------------------------------------------
(* A run that stops at its first failure *)

\* The index, saved or in a call, has passed only attested requirements.
Progress ==
    /\ \A r \in Reqs : r < run.idx => r \in att
    /\ call.pc # "idle" => /\ \A r \in Reqs : r < call.idx => r \in att
                           /\ call.skip \subseteq att
    /\ call.pc = "close" => call.q \in att
    /\ DoneMeansAttested

LEMMA StaysInProgress ==
    ASSUME Progress, att \subseteq att', att' \subseteq Reqs,
           run' = run, answer' = answer \/ answer' # "done",
           \/ call'.pc = "idle"
           \/ /\ call.pc # "idle" /\ call'.pc # "idle"
              /\ call'.idx = call.idx /\ call'.skip = call.skip
              /\ call'.pc = "close" => call'.q \in att'
    PROVE  Progress'
BY DEF Progress, DoneMeansAttested

LEMMA ProgressStep ==
    ASSUME StopOnFirst, TypeOK, TypeOK', Bound, Batches, Progress, Next
    PROVE  Progress'
<1> USE SpecRunAssumption
<1>t. /\ call \in CallType /\ att \subseteq Reqs /\ att' \subseteq Reqs
      /\ call.idx \in 1..(N + 1)
  BY DEF TypeOK, CallType
<1>1. CASE Skip
  <2>1. /\ call'.pc = "next" /\ call'.idx = call.idx + 1 /\ call'.skip = call.skip
        /\ call.idx \in att
    BY <1>1, <1>t DEF Skip, CallType, Progress
  <2> QED BY <1>1, <1>t, <2>1 DEF Skip, Progress, DoneMeansAttested, Reqs
<1>2. CASE Take
  <2>1. call'.pc = "session" /\ call'.idx = call.idx /\ call'.skip = call.skip
    BY <1>2, <1>t DEF Take, CallType
  <2> QED BY <1>2, <1>t, <2>1, StaysInProgress DEF Take
<1>3. CASE Finish
  <2> DEFINE done == call.idx > N \/ \A r \in Reqs : Attested(r)
  <2>1. done => att = Reqs
    <3>1. call.pc = "next" /\ \A r \in Reqs : r < call.idx => r \in att
      BY <1>3 DEF Finish, Progress
    <3>2. call.idx > N => \A r \in Reqs : r \in att
      BY <1>t, <3>1 DEF Reqs
    <3>3. (\A r \in Reqs : Attested(r)) => \A r \in Reqs : r \in att
      BY DEF Attested
    <3> QED BY <1>t, <3>2, <3>3
  <2>2. run'.idx = 1 \/ run'.idx = call.idx
    BY <1>3 DEF Finish, NoRun, Saved
  <2> QED BY <1>3, <1>t, <2>1, <2>2 DEF Finish, Idle, Progress, DoneMeansAttested, Reqs
<1>4. CASE SaveFailed
  <2>1. run'.idx = call.idx
    BY <1>4 DEF SaveFailed, Saved
  <2>2. call'.pc = "report" /\ call'.idx = call.idx /\ call'.skip = call.skip
    BY <1>4, <1>t DEF SaveFailed, CallType
  <2> QED BY <1>4, <2>1, <2>2 DEF SaveFailed, Progress, DoneMeansAttested
<1>5. CASE Report
  BY <1>5, <1>t, StaysInProgress DEF Report, Idle
<1>6. CASE OpenSession
  BY <1>6, <1>t, Reads, StaysInProgress DEF OpenSession, Same
<1>7. CASE FirstChunk
  <2>1. Same /\ call'.pc \in {"failing", "check"}
    BY <1>7, Reads, ResumeReads DEF FirstChunk, Pending
  <2> QED BY <1>7, <1>t, <2>1, StaysInProgress DEF FirstChunk, Same
<1>8. CASE Precheck
  BY <1>8, <1>t, PrecheckReads, StaysInProgress DEF Precheck, Same
<1>9. CASE Drop
  BY <1>9, <1>t, Reads, StaysInProgress DEF Drop, Same
<1>10. CASE NoopAttest
  <2>1. \/ call'.pc = "close" /\ att' = att \cup {call.q}
        \/ call'.pc = "drop" /\ att' = att
    BY <1>10, Reads DEF NoopAttest
  <2>2. Same
    BY <1>10, Reads DEF NoopAttest
  <2> QED BY <1>10, <1>t, <2>1, <2>2, StaysInProgress DEF NoopAttest, Same
<1>11. CASE Needles
  <2>1. Same /\ call'.pc \in {"failing", "verify", "chunks"}
    <3>1. CASE Pending
      BY <1>11, <3>1, ResumeReads DEF Needles, Pending
    <3>2. CASE ~Pending
      BY <1>11, <3>2, PlanReads DEF Needles
    <3> QED BY <3>1, <3>2
  <2> QED BY <1>11, <1>t, <2>1, StaysInProgress DEF Needles, Same
<1>12. CASE MoreChunks
  <2>1. Same /\ call'.pc \in {"failing", "verify", "chunks"}
    BY <1>12, ResumeReads DEF MoreChunks, Batches
  <2> QED BY <1>12, <1>t, <2>1, StaysInProgress DEF MoreChunks, Same
<1>13. CASE Verify
  BY <1>13, <1>t, VerifyReads, StaysInProgress DEF Verify, Same
<1>14. CASE Undo
  BY <1>14, <1>t, UndoReads, StaysInProgress DEF Undo, Same
<1>15. CASE Attest
  BY <1>15, <1>t, AttestReads, StaysInProgress DEF Attest, Same
<1>16. CASE Close
  <2>1. /\ call'.pc = "next" /\ call'.idx = call.idx + 1 /\ call'.skip = call.skip
        /\ call.idx \in att
    BY <1>16, <1>t DEF Close, CallType, Progress, Bound
  <2> QED BY <1>16, <1>t, <2>1 DEF Close, Progress, DoneMeansAttested, Reqs
<1>17. ASSUME NEW left \in {1, N}, NEW reset \in BOOLEAN, Begin(left, reset) PROVE Progress'
  <2>1. CASE \A r \in Reqs : Attested(r)
    BY <1>17, <1>t, <2>1 DEF Begin, Attested, NoRun, Progress, DoneMeansAttested
  <2>2. CASE ~\A r \in Reqs : Attested(r)
    <3>1. /\ run'.idx \in {1, run.idx} /\ call'.idx = run'.idx
          /\ call'.pc = "next" /\ call'.skip = {r \in Reqs : Attested(r)}
      <4> DEFINE old == IF run.on /\ ~reset THEN run ELSE [NoRun EXCEPT !.on = TRUE]
      <4>1. old.idx \in {1, run.idx}
        BY DEF NoRun
      <4>2. run' = old
        BY <1>17, <2>2 DEF Begin
      <4>3. call' = [Idle EXCEPT !.pc = "next", !.left = left, !.idx = old.idx,
                       !.failed = old.failed, !.last = old.last,
                       !.skip = {r \in Reqs : Attested(r)}]
        BY <1>17, <2>2 DEF Begin
      <4>4. /\ call'.idx = old.idx /\ call'.pc = "next"
            /\ call'.skip = {r \in Reqs : Attested(r)}
        BY <4>3 DEF Idle
      <4> QED BY <4>1, <4>2, <4>4
    <3>2. \A r \in Reqs : r < run'.idx => r \in att
      BY <3>1 DEF Progress, Reqs
    <3> QED BY <1>17, <2>2, <3>1, <3>2 DEF Begin, Progress, DoneMeansAttested, Attested
  <2> QED BY <2>1, <2>2
<1>18. CASE Resume \/ EndSession \/ Rollback \/ JobEnds
  BY <1>18 DEF Resume, EndSession, Rollback, JobEnds, Progress, DoneMeansAttested
<1>19. CASE Abort \/ ApplyAbort
  BY <1>19 DEF Abort, ApplyAbort, NoRun, Reqs, AtRest, Progress, DoneMeansAttested
<1>20. CASE Crash
  BY <1>20, <1>t, StaysInProgress DEF Crash, Idle
<1> QED BY <1>1, <1>2, <1>3, <1>4, <1>5, <1>6, <1>7, <1>8, <1>9, <1>10, <1>11, <1>12,
           <1>13, <1>14, <1>15, <1>16, <1>17, <1>18, <1>19, <1>20
        DEF Next, Program, Client

\* With stop_on_first_failure a run answers done only over attested
\* requirements, however it was cut off and taken up (spec_run.py:1463-1490).
THEOREM DoneHolds ==
    ASSUME StopOnFirst
    PROVE  Spec => []DoneMeansAttested
<1>1. Init => Progress
  BY SpecRunAssumption DEF Init, NoRun, Idle, Reqs, Progress, DoneMeansAttested
<1>2. ASSUME IInv, IInv', Progress, [Next]_vars PROVE Progress'
  <2>1. CASE Next
    BY <1>2, <2>1, ProgressStep DEF IInv
  <2>2. CASE UNCHANGED vars
    BY <1>2, <2>2 DEF vars, Progress, DoneMeansAttested
  <2> QED BY <1>2, <2>1, <2>2
<1>3. Progress => DoneMeansAttested
  BY DEF Progress
<1> QED BY <1>1, <1>2, <1>3, Inductive, PTL DEF Spec
=============================================================================
