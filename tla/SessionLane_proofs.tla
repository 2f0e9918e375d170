------------------------- MODULE SessionLane_proofs -------------------------
(***************************************************************************)
(* Theorems about SessionLane, for every set of processes, sessions and    *)
(* tokens, whichever calls the processes serve, and however often.         *)
(***************************************************************************)
EXTENDS SessionLane, TLAPS

\* The variables that only record history.
USE DEF History

----------------------------------------------------------------------------
(* Type correctness *)

\* A call under way is about a session, except one that opens a session, which
\* has drawn no id yet, and an answer, which may name none.
Settled(m, point) ==
    /\ \/ m.session \in Sessions
       \/ point \in {"idle", "open"}
       \/ point = "overwrite" /\ m.then = "idle"
    /\ point = "register" => m.token \in Tokens

Local ==
    /\ pc \in [Procs -> Points]
    /\ mem \in [Procs -> Memory]
    /\ \A p \in Procs : Settled(mem[p], pc[p])

Typed == TypeOK /\ Local

LEMMA EmptyTyped == NoState \in State /\ Empty \in Memory
BY DEF NoState, State, Empty, Memory, Phases, AllOps, FinSteps

LEMMA LocalMove ==
    ASSUME Local, NEW p \in Procs, NEW point \in Points, NEW m \in Memory,
           Settled(m, point), Goto(p, point), Hold(p, m)
    PROVE  Local'
<1>1. pc' \in [Procs -> Points] /\ mem' \in [Procs -> Memory]
  BY DEF Local, Goto, Hold
<1>2. pc'[p] = point /\ mem'[p] = m
  BY DEF Local, Goto, Hold
<1>3. ASSUME NEW q \in Procs, q # p PROVE pc'[q] = pc[q] /\ mem'[q] = mem[q]
  BY <1>3 DEF Local, Goto, Hold
<1>4. ASSUME NEW q \in Procs PROVE Settled(mem'[q], pc'[q])
  BY <1>2, <1>3 DEF Local
<1> QED BY <1>1, <1>4 DEF Local, Settled

LEMMA LocalStay ==
    ASSUME Local, NEW p \in Procs, NEW point \in Points,
           Settled(mem[p], point), Goto(p, point), UNCHANGED mem
    PROVE  Local'
BY DEF Local, Goto, Settled

LEMMA LocalReturn ==
    ASSUME Local, NEW p \in Procs, Return(p)
    PROVE  Local'
BY EmptyTyped, LocalMove DEF Return, Points, Settled

LEMMA LocalEnded ==
    ASSUME Local, NEW p \in Procs, mem[p].session \in Sessions, Ended(p)
    PROVE  Local'
<1>1. CASE mem[p].then = "reload"
  <2> DEFINE m == [Empty EXCEPT !.session = mem[p].session]
  <2>1. m \in Memory /\ m.session = mem[p].session
    BY EmptyTyped DEF Local, Memory
  <2>2. Hold(p, m) /\ Goto(p, "reload")
    BY <1>1 DEF Ended
  <2> HIDE DEF m
  <2> QED BY <2>1, <2>2, LocalMove DEF Points, Settled
<1>2. CASE mem[p].then # "reload"
  BY <1>2, LocalReturn DEF Ended
<1> QED BY <1>1, <1>2

LEMMA SaveTyped ==
    ASSUME state \in State, NEW st \in State, Save(st)
    PROVE  state' \in State
BY DEF State, Save

LEMMA CallTyped ==
    ASSUME TypeOK, NEW p \in Procs, NEW c, Call(p, c)
    PROVE  calls' \in [Procs -> Nat] /\ pc[p] = "idle"
BY DEF TypeOK, Call

LEMMA FaultTyped ==
    ASSUME TypeOK, Fault
    PROVE  faults' \in Nat
BY DEF TypeOK, Fault

LEMMA StoreTyped ==
    ASSUME Typed, NEW p \in Procs, NEW b \in BOOLEAN, NEW n \in SUBSET FinSteps,
           Store(p, b, n)
    PROVE  journal' \in [Sessions -> Record \cup {None}]
BY DEF Typed, Local, TypeOK, Store, Record, Memory

LEMMA TypeStart ==
    ASSUME Typed, NEW p \in Procs,
           StartLoad(p) \/ StartReload(p) \/ StartSave(p) \/ StartRegister(p)
    PROVE  Typed'
<1> USE DEF Typed
<1>1. CASE StartLoad(p)
  <2>1. CASE Active(state)
    <3> DEFINE m == [Empty EXCEPT !.session = state.session, !.then = "reload"]
    <3>1. m \in Memory /\ m.session \in Sessions
      BY <2>1, EmptyTyped DEF TypeOK, Memory, State, Active
    <3>2. Goto(p, "end") /\ Hold(p, m)
      BY <1>1, <2>1 DEF StartLoad
    <3> HIDE DEF m
    <3>3. Local'
      BY <3>1, <3>2, LocalMove DEF Points, Settled
    <3> QED BY <1>1, <3>3, CallTyped DEF StartLoad, TypeOK, Local
  <2>2. CASE ~Active(state)
    <3> DEFINE m == [Empty EXCEPT !.copy = state]
    <3>1. m \in Memory
      BY EmptyTyped DEF TypeOK, Memory
    <3>2. Goto(p, "open") /\ Hold(p, m)
      BY <1>1, <2>2 DEF StartLoad
    <3> HIDE DEF m
    <3>3. Local'
      BY <3>1, <3>2, LocalMove DEF Points, Settled
    <3> QED BY <1>1, <3>3, CallTyped DEF StartLoad, TypeOK, Local
  <2> QED BY <2>1, <2>2
<1>2. CASE StartReload(p)
  <2>1. CASE Reaches(mem[p].session)
    <3> DEFINE m == [mem[p] EXCEPT !.copy = state]
    <3>1. m \in Memory
      BY DEF TypeOK, Memory
    <3>2. Goto(p, "open") /\ Hold(p, m)
      BY <1>2, <2>1 DEF StartReload
    <3> HIDE DEF m
    <3>3. Local'
      BY <3>1, <3>2, LocalMove DEF Points, Settled
    <3> QED BY <1>2, <3>3 DEF StartReload, TypeOK, Local
  <2>2. CASE ~Reaches(mem[p].session)
    BY <1>2, <2>2, LocalReturn DEF StartReload, TypeOK, Local
  <2> QED BY <2>1, <2>2
<1>3. CASE StartSave(p)
  <2>1. CASE Unchanged(mem[p].copy.session, mem[p].copy.rev)
    <3>1. PICK s \in Sessions \ opened, t \in Tokens \ drawn : StartSaved(p, s, t)
      BY <1>3, <2>1 DEF StartSave
    <3> DEFINE m == [Empty EXCEPT !.session = s, !.token = t]
    <3>2. m \in Memory /\ m.session \in Sessions /\ m.token \in Tokens
      BY EmptyTyped DEF Memory
    <3>3. Goto(p, "register") /\ Hold(p, m)
      BY <3>1 DEF StartSaved
    <3> HIDE DEF m
    <3>4. Local'
      BY <3>2, <3>3, LocalMove DEF Points, Settled
    <3>5. state' \in State
      BY <3>1 DEF StartSaved, TypeOK, State, Phases
    <3> QED BY <1>3, <3>1, <3>4, <3>5 DEF StartSave, StartSaved, TypeOK, Local
  <2>2. CASE ~Unchanged(mem[p].copy.session, mem[p].copy.rev)
    BY <1>3, <2>2, LocalReturn DEF StartSave, TypeOK, Local
  <2> QED BY <2>1, <2>2
<1>4. CASE StartRegister(p)
  <2>1. Local'
    BY <1>4, LocalReturn DEF StartRegister
  <2>2. mem[p].session \in Sessions /\ mem[p].token \in Tokens
    BY <1>4 DEF StartRegister, Local, Settled
  <2>3. row' \in [session : Sessions \cup {NoSession}, active : BOOLEAN]
    BY <1>4, <2>2 DEF StartRegister
  <2>4. issued' \subseteq Cap
    BY <1>4, <2>2 DEF StartRegister, TypeOK, Cap
  <2> QED BY <1>4, <2>1, <2>3, <2>4 DEF StartRegister, TypeOK, Local
<1> QED BY <1>1, <1>2, <1>3, <1>4

LEMMA ReconciledTyped ==
    ASSUME state \in State, NEW st \in Reconciled(state)
    PROVE  st \in State
<1>1. [state EXCEPT !.phase = "blocked"] \in State
  BY DEF State, Phases
<1>2. [state EXCEPT !.attested = TRUE, !.phase = "complete", !.failed = FALSE] \in State
  BY DEF State, Phases
<1>3. \A ph \in Phases : [state EXCEPT !.phase = ph, !.failed = FALSE] \in State
  BY DEF State
<1>4. {"apply", "verify", "complete"} \subseteq Phases
  BY DEF Phases
<1> QED BY <1>1, <1>2, <1>3, <1>4 DEF Reconciled

LEMMA OutcomesTyped ==
    ASSUME state \in State, NEW p \in Procs, NEW st \in Outcomes(p)
    PROVE  st \in State
<1>1. \A ph \in Phases : [state EXCEPT !.phase = ph, !.failed = FALSE] \in State
  BY DEF State
<1>2. [state EXCEPT !.phase = "blocked", !.failed = TRUE] \in State
  BY DEF State, Phases
<1>3. [[state EXCEPT !.phase = "complete", !.failed = FALSE] EXCEPT !.attested = TRUE] \in State
  BY DEF State, Phases
<1>4. Phases = {"idle", "apply", "verify", "complete", "blocked"}
  BY DEF Phases
<1> QED BY <1>1, <1>2, <1>3, <1>4 DEF Outcomes

LEMMA TypeOp ==
    ASSUME Typed, NEW p \in Procs,
           \/ OpBegin(p) \/ OpAdmit(p) \/ OpCheck(p) \/ OpCapture(p)
           \/ AttestRead(p) \/ AttestCommit(p) \/ ApplyBlocked(p) \/ OpFinish(p)
    PROVE  Typed'
<1> USE DEF Typed
<1>1. CASE OpBegin(p)
  <2>1. PICK c \in issued, o \in WorkOps :
            Goto(p, "admit")
            /\ Hold(p, [Empty EXCEPT !.op = o, !.session = c.session, !.token = c.token])
    BY <1>1 DEF OpBegin
  <2> DEFINE m == [Empty EXCEPT !.op = o, !.session = c.session, !.token = c.token]
  <2>2. c \in Cap /\ o \in AllOps
    BY LaneConstants DEF TypeOK
  <2>3. m \in Memory /\ m.session \in Sessions
    BY <2>2, EmptyTyped DEF Memory, Cap
  <2>4. Goto(p, "admit") /\ Hold(p, m)
    BY <2>1
  <2> HIDE DEF m
  <2>5. Local'
    BY <2>3, <2>4, LocalMove DEF Points, Settled
  <2> QED BY <1>1, <2>5, CallTyped DEF OpBegin, TypeOK, Local
<1>2. CASE OpAdmit(p)
  <2>1. Local'
    BY <1>2, LocalStay, LocalReturn DEF OpAdmit, Local, Settled, Points
  <2>2. state' \in State
    BY <1>2, SaveTyped, ReconciledTyped DEF OpAdmit, TypeOK
  <2> QED BY <1>2, <2>1, <2>2 DEF OpAdmit, TypeOK, Local
<1>3. CASE OpCheck(p)
  <2>1. Local'
    BY <1>3, LocalStay, LocalReturn DEF OpCheck, Local, Settled, Points
  <2> QED BY <1>3, <2>1 DEF OpCheck, TypeOK, Local
<1>4. CASE OpCapture(p)
  <2>1. CASE Bound(mem[p].session, mem[p].token)
    <3> DEFINE m == [mem[p] EXCEPT !.rev = state.rev]
               point == IF mem[p].op = "attest" THEN "read" ELSE "work"
    <3>0. mem[p] \in Memory /\ state.rev \in Nat
      BY DEF TypeOK, State
    <3>1. m \in Memory /\ m.session = mem[p].session
      BY <3>0 DEF Memory
    <3>2. Goto(p, point) /\ Hold(p, m)
      BY <1>4, <2>1 DEF OpCapture
    <3>3. mem[p].session \in Sessions
      BY <1>4 DEF OpCapture, Local, Settled
    <3>4. point \in Points /\ point # "register"
      BY DEF Points
    <3> HIDE DEF m, point
    <3>5. Local'
      BY <3>1, <3>2, <3>3, <3>4, LocalMove DEF Settled
    <3> QED BY <1>4, <3>5 DEF OpCapture, TypeOK, Local
  <2>2. CASE ~Bound(mem[p].session, mem[p].token)
    BY <1>4, <2>2, LocalReturn DEF OpCapture, TypeOK, Local
  <2> QED BY <2>1, <2>2
<1>5. CASE AttestRead(p)
  <2> DEFINE copy == IF Reaches(mem[p].session) THEN state ELSE NoState
             m == [mem[p] EXCEPT !.copy = copy]
  <2>1. m \in Memory /\ m.session = mem[p].session
    BY EmptyTyped DEF TypeOK, Memory
  <2>2. Goto(p, "commit") /\ Hold(p, m)
    BY <1>5 DEF AttestRead
  <2>3. mem[p].session \in Sessions
    BY <1>5 DEF AttestRead, Local, Settled
  <2> HIDE DEF m
  <2>4. Local'
    BY <2>1, <2>2, <2>3, LocalMove DEF Points, Settled
  <2> QED BY <1>5, <2>4 DEF AttestRead, TypeOK, Local
<1>6. CASE AttestCommit(p)
  <2>1. Local'
    BY <1>6, LocalStay DEF AttestCommit, Local, Settled, Points
  <2>2. ledger' \subseteq Sessions
    BY <1>6 DEF AttestCommit, TypeOK, Memory, State
  <2> QED BY <1>6, <2>1, <2>2 DEF AttestCommit, TypeOK, Local
<1>7. CASE ApplyBlocked(p)
  <2>1. mem[p].session \in Sessions
    BY <1>7 DEF ApplyBlocked, Local, Settled
  <2>2. Local'
    BY <1>7, <2>1, LocalStay DEF ApplyBlocked, Settled, Points
  <2> QED BY <1>7, <2>1, <2>2 DEF ApplyBlocked, TypeOK, Local
<1>8. CASE OpFinish(p)
  <2>1. Local'
    BY <1>8, LocalReturn DEF OpFinish, Finish
  <2>2. state' \in State
    BY <1>8, SaveTyped, OutcomesTyped DEF OpFinish, Finish, TypeOK
  <2> QED BY <1>8, <2>1, <2>2 DEF OpFinish, Finish, TypeOK, Local
<1> QED BY <1>1, <1>2, <1>3, <1>4, <1>5, <1>6, <1>7, <1>8

LEMMA RotatedTyped ==
    ASSUME state \in State, NEW t \in Tokens, NEW st \in Rotated(t)
    PROVE  st \in State
<1>1. \A ph \in Phases : [state EXCEPT !.token = t, !.phase = ph, !.failed = FALSE] \in State
  BY DEF State
<1>2. [state EXCEPT !.token = t, !.phase = "blocked"] \in State
  BY DEF State, Phases
<1>3. {"apply", "verify"} \subseteq Phases
  BY DEF Phases
<1> QED BY <1>1, <1>2, <1>3 DEF Rotated

LEMMA TypeOther ==
    ASSUME Typed, NEW p \in Procs,
           \/ ResetBegin(p) \/ ResetLoad(p) \/ ResetCheck(p) \/ AnswerLoad(p)
           \/ Overwrite(p) \/ Resume(p) \/ ResumeCapture(p) \/ ResumeRotate(p)
    PROVE  Typed'
<1> USE DEF Typed
<1>0. CASE ResetBegin(p)
  <2> DEFINE m(c) == [Empty EXCEPT !.op = "apply", !.session = c.session, !.token = c.token]
  <2>1. PICK c \in issued : Goto(p, "reset") /\ Hold(p, m(c))
    BY <1>0 DEF ResetBegin
  <2>2. m(c) \in Memory /\ m(c).session \in Sessions
    BY EmptyTyped DEF TypeOK, Memory, Cap, AllOps
  <2> HIDE DEF m
  <2>3. Local'
    BY <2>1, <2>2, LocalMove DEF Points, Settled
  <2> QED BY <1>0, <2>3, CallTyped DEF ResetBegin, TypeOK, Local
<1>1. CASE ResetLoad(p)
  <2>0. mem[p].session \in Sessions
    BY <1>1 DEF ResetLoad, Local, Settled
  <2>1. CASE Reaches(mem[p].session) /\ Active(state)
    <3> DEFINE copy == [state EXCEPT !.phase = "apply", !.failed = FALSE]
               m == [mem[p] EXCEPT !.copy = copy, !.then = "admit"]
    <3>1. Goto(p, "cursor") /\ Hold(p, m)
      BY <1>1, <2>1 DEF ResetLoad
    <3>2. copy \in State
      BY DEF TypeOK, State, Phases
    <3> HIDE DEF copy
    <3>3. m \in Memory /\ m.session = mem[p].session
      BY <3>2 DEF Local, Memory
    <3> HIDE DEF m
    <3>4. Local'
      BY <2>0, <3>1, <3>3, LocalMove DEF Points, Settled
    <3> QED BY <1>1, <3>4 DEF ResetLoad, TypeOK, Local
  <2>2. CASE ~(Reaches(mem[p].session) /\ Active(state))
    <3>1. Local'
      BY <1>1, <2>0, <2>2, LocalStay DEF ResetLoad, Settled, Points
    <3> QED BY <1>1, <3>1 DEF ResetLoad, TypeOK, Local
  <2> QED BY <2>1, <2>2
<1>2. CASE ResetCheck(p)
  <2>1. mem[p].session \in Sessions
    BY <1>2 DEF ResetCheck, Local, Settled
  <2>2. Local'
    BY <1>2, <2>1, LocalStay DEF ResetCheck, Settled, Points
  <2> QED BY <1>2, <2>2 DEF ResetCheck, TypeOK, Local
<1>3. CASE AnswerLoad(p)
  <2> DEFINE merged(ph) == [state EXCEPT !.phase = ph, !.failed = ph = "blocked"]
             m(s, ph) == [Empty EXCEPT !.session = s, !.copy = merged(ph)]
  <2>1. PICK s \in {row.session, NoSession}, ph \in Phases :
            Goto(p, "overwrite") /\ Hold(p, m(s, ph))
    BY <1>3 DEF AnswerLoad
  <2>2. merged(ph) \in State
    BY DEF TypeOK, State
  <2>3. s \in Sessions \cup {NoSession}
    BY DEF TypeOK
  <2> HIDE DEF merged
  <2>4. m(s, ph) \in Memory /\ m(s, ph).then = "idle"
    BY <2>2, <2>3, EmptyTyped DEF Memory, Empty
  <2> HIDE DEF m
  <2>5. Local'
    BY <2>1, <2>4, LocalMove DEF Points, Settled
  <2> QED BY <1>3, <2>5, CallTyped DEF AnswerLoad, TypeOK, Local
<1>4. CASE Overwrite(p)
  <2>1. state' \in State
    BY <1>4, SaveTyped DEF Overwrite, TypeOK, Memory
  <2>2. CASE mem[p].then = "admit"
    <3> DEFINE m == [mem[p] EXCEPT !.copy = NoState, !.then = "idle"]
    <3>1. m \in Memory /\ m.session = mem[p].session
      BY EmptyTyped DEF TypeOK, Memory
    <3>2. Goto(p, "admit") /\ Hold(p, m)
      BY <1>4, <2>2 DEF Overwrite
    <3>3. mem[p].session \in Sessions
      BY <1>4, <2>2 DEF Overwrite, Local, Settled
    <3> HIDE DEF m
    <3>4. Local'
      BY <3>1, <3>2, <3>3, LocalMove DEF Points, Settled
    <3> QED BY <1>4, <2>1, <3>4 DEF Overwrite, TypeOK, Local
  <2>3. CASE mem[p].then # "admit"
    BY <1>4, <2>1, <2>3, LocalReturn DEF Overwrite, TypeOK, Local
  <2> QED BY <2>2, <2>3
<1>5. CASE Resume(p)
  <2> DEFINE m(s) == [Empty EXCEPT !.session = s, !.rev = state.rev]
  <2>1. PICK s \in opened : Goto(p, "rotate") /\ Hold(p, m(s))
    BY <1>5 DEF Resume
  <2>2. s \in Sessions /\ state.rev \in Nat
    BY DEF TypeOK, State
  <2>3. m(s) \in Memory /\ m(s).session \in Sessions
    BY <2>2, EmptyTyped DEF Memory
  <2> HIDE DEF m
  <2>4. Local'
    BY <2>1, <2>3, LocalMove DEF Points, Settled
  <2> QED BY <1>5, <2>4, CallTyped DEF Resume, TypeOK, Local
<1>6. CASE ResumeRotate(p)
  <2>1. Local'
    BY <1>6, LocalReturn DEF ResumeRotate
  <2>2. CASE Reaches(mem[p].session) /\ Unchanged(mem[p].session, mem[p].rev)
    <3>1. PICK t \in Tokens \ drawn : \E st \in Rotated(t) :
              /\ drawn' = drawn \cup {t}
              /\ Save(st)
              /\ issued' = issued \cup {[session |-> mem[p].session, token |-> t]}
      BY <1>6, <2>2 DEF ResumeRotate
    <3>2. state' \in State
      BY <3>1, SaveTyped, RotatedTyped DEF TypeOK
    <3>3. mem[p].session \in Sessions
      BY <1>6 DEF ResumeRotate, Local, Settled
    <3>4. issued' \subseteq Cap
      BY <3>1, <3>3 DEF TypeOK, Cap
    <3> QED BY <1>6, <2>1, <3>1, <3>2, <3>4 DEF ResumeRotate, TypeOK, Local
  <2>3. CASE ~(Reaches(mem[p].session) /\ Unchanged(mem[p].session, mem[p].rev))
    BY <1>6, <2>1, <2>3 DEF ResumeRotate, TypeOK, Local
  <2> QED BY <2>2, <2>3
<1>7. CASE ResumeCapture(p)
  <2>1. mem[p].session \in Sessions
    BY <1>7 DEF ResumeCapture, Local, Settled
  <2>2. CASE Bound(mem[p].session, NoToken)
    <3> DEFINE m == [mem[p] EXCEPT !.rev = state.rev]
    <3>0. mem[p] \in Memory /\ state.rev \in Nat
      BY DEF TypeOK, State
    <3>1. m \in Memory /\ m.session = mem[p].session
      BY <3>0 DEF Memory
    <3>2. Goto(p, "rotate") /\ Hold(p, m)
      BY <1>7, <2>2 DEF ResumeCapture
    <3> HIDE DEF m
    <3>3. Local'
      BY <2>1, <3>1, <3>2, LocalMove DEF Points, Settled
    <3> QED BY <1>7, <3>3 DEF ResumeCapture, TypeOK, Local
  <2>3. CASE ~Bound(mem[p].session, NoToken)
    BY <1>7, <2>3, LocalReturn DEF ResumeCapture, TypeOK, Local
  <2> QED BY <2>2, <2>3
<1> QED BY <1>0, <1>1, <1>2, <1>3, <1>4, <1>5, <1>6, <1>7

\* What a finalizer takes over from a record in the journal.
LEMMA TakenTyped ==
    ASSUME TypeOK, NEW s \in Sessions, journal[s] # None, NEW m \in Memory, m.session = s
    PROVE  LET n == [m EXCEPT !.token = journal[s].token, !.steps = journal[s].steps]
           IN n \in Memory /\ n.session = s
<1>1. journal[s] \in Record
  BY DEF TypeOK
<1>2. journal[s].token \in Tokens \cup {NoToken} /\ journal[s].steps \in SUBSET FinSteps
  BY <1>1 DEF Record
<1> QED BY <1>2 DEF Memory

LEMMA TakeUpLocal ==
    ASSUME TypeOK, Local, NEW p \in Procs, NEW s \in Sessions, TakeUp(p, s)
    PROVE  Local'
<1> DEFINE base == [Empty EXCEPT !.session = s]
           m == [base EXCEPT !.token = journal[s].token, !.steps = journal[s].steps]
<1>1. base \in Memory /\ base.session = s
  BY EmptyTyped DEF Memory
<1>2. journal[s] # None /\ Goto(p, "heal") /\ Hold(p, m)
  BY EmptyTyped DEF TakeUp, Memory
<1>3. m \in Memory /\ m.session = s
  BY <1>1, <1>2, TakenTyped
<1> HIDE DEF m
<1> QED BY <1>2, <1>3, LocalMove DEF Points, Settled

LEMMA TypeEnd ==
    ASSUME Typed, NEW p \in Procs,
           \/ End(p) \/ EndLookup(p) \/ CliEnd(p) \/ RecoverBegun(p)
           \/ RecoverOpen(p) \/ \E s \in Sessions : RecoverAgain(p, s)
    PROVE  Typed'
<1> USE DEF Typed
<1>1. CASE End(p)
  <2> DEFINE m(c) == [Empty EXCEPT !.session = c.session, !.token = c.token]
  <2>1. PICK c \in issued : Goto(p, "end") /\ Hold(p, m(c))
    BY <1>1 DEF End
  <2>2. c \in Cap
    BY DEF TypeOK
  <2>3. m(c) \in Memory /\ m(c).session \in Sessions
    BY <2>2, EmptyTyped DEF Memory, Cap
  <2> HIDE DEF m
  <2>4. Local'
    BY <2>1, <2>3, LocalMove DEF Points, Settled
  <2> QED BY <1>1, <2>4, CallTyped DEF End, TypeOK, Local
<1>2. CASE EndLookup(p)
  <2> DEFINE s == mem[p].session
  <2>1. s \in Sessions /\ mem[p] \in Memory
    BY <1>2 DEF EndLookup, Local, Settled
  <2>2. CASE Ended(p)
    BY <1>2, <2>1, <2>2, LocalEnded DEF EndLookup, TypeOK, Local
  <2>3. CASE /\ journal[s] # None
             /\ Goto(p, "heal")
             /\ Hold(p, [mem[p] EXCEPT !.token = journal[s].token, !.steps = journal[s].steps])
    <3> DEFINE m == [mem[p] EXCEPT !.token = journal[s].token, !.steps = journal[s].steps]
    <3>1. m \in Memory /\ m.session = s
      BY <2>1, <2>3, TakenTyped
    <3>2. Goto(p, "heal") /\ Hold(p, m)
      BY <2>3
    <3> HIDE DEF m
    <3>3. Local'
      BY <2>1, <3>1, <3>2, LocalMove DEF Points, Settled
    <3> QED BY <1>2, <3>3 DEF EndLookup, TypeOK, Local
  <2>4. CASE Goto(p, "begin") /\ Hold(p, [mem[p] EXCEPT !.token = state.token])
    <3> DEFINE m == [mem[p] EXCEPT !.token = state.token]
    <3>1. state.token \in Tokens \cup {NoToken}
      BY DEF TypeOK, State
    <3>2. m \in Memory /\ m.session = s
      BY <2>1, <3>1 DEF Memory
    <3>3. Goto(p, "begin") /\ Hold(p, m)
      BY <2>4
    <3> HIDE DEF m
    <3>4. Local'
      BY <2>1, <3>2, <3>3, LocalMove DEF Points, Settled
    <3> QED BY <1>2, <3>4 DEF EndLookup, TypeOK, Local
  <2> QED BY <1>2, <2>2, <2>3, <2>4 DEF EndLookup
<1>3. CASE CliEnd(p)
  <2> DEFINE m == [Empty EXCEPT !.session = state.session, !.token = state.token]
  <2>1. state.session \in Sessions /\ state.token \in Tokens \cup {NoToken}
    BY <1>3 DEF CliEnd, Active, TypeOK, State
  <2>2. m \in Memory /\ m.session \in Sessions
    BY <2>1, EmptyTyped DEF Memory
  <2>3. Goto(p, "begin") /\ Hold(p, m)
    BY <1>3 DEF CliEnd
  <2> HIDE DEF m
  <2>4. Local'
    BY <2>2, <2>3, LocalMove DEF Points, Settled
  <2> QED BY <1>3, <2>4, CallTyped DEF CliEnd, TypeOK, Local
<1>4. CASE RecoverBegun(p)
  <2>1. Local'
    BY <1>4, TakeUpLocal DEF RecoverBegun, TypeOK
  <2> QED BY <1>4, <2>1, CallTyped DEF RecoverBegun, TypeOK, Local
<1>5. CASE RecoverOpen(p)
  <2>1. PICK s \in opened :
            IF state.ended \/ state.attested \/ state.phase = "complete"
            THEN Goto(p, "begin")
                 /\ Hold(p, [Empty EXCEPT !.session = s, !.token = state.token])
            ELSE Goto(p, "resume") /\ Hold(p, [Empty EXCEPT !.session = s])
    BY <1>5 DEF RecoverOpen
  <2> DEFINE m == [Empty EXCEPT !.session = s, !.token = state.token]
             n == [Empty EXCEPT !.session = s]
  <2>2. s \in Sessions /\ state.token \in Tokens \cup {NoToken}
    BY DEF TypeOK, State
  <2>3. m \in Memory /\ m.session = s /\ n \in Memory /\ n.session = s
    BY <2>2, EmptyTyped DEF Memory
  <2>4. (Goto(p, "begin") /\ Hold(p, m)) \/ (Goto(p, "resume") /\ Hold(p, n))
    BY <2>1
  <2> HIDE DEF m, n
  <2>5. Local'
    BY <2>2, <2>3, <2>4, LocalMove DEF Points, Settled
  <2> QED BY <1>5, <2>5, CallTyped DEF RecoverOpen, TypeOK, Local
<1>6. CASE \E s \in Sessions : RecoverAgain(p, s)
  <2>1. Local'
    BY <1>6, TakeUpLocal DEF RecoverAgain
  <2> QED BY <1>6, <2>1 DEF RecoverAgain, TypeOK, Local
<1> QED BY <1>1, <1>2, <1>3, <1>4, <1>5, <1>6

LEMMA TypeFin ==
    ASSUME Typed, NEW p \in Procs,
           \/ FinBegin(p) \/ FinStore(p) \/ FinHeal(p) \/ FinHealed(p) \/ FinStep(p)
           \/ FinRecord(p) \/ FinRaised(p) \/ FinComplete(p) \/ Crash(p)
    PROVE  Typed'
<1> USE DEF Typed
<1>0. mem[p] \in Memory /\ mem[p].steps \in SUBSET FinSteps
  BY DEF Local, Memory
<1>1. CASE FinBegin(p)
  <2> DEFINE s == mem[p].session
             m == [mem[p] EXCEPT !.token = journal[s].token, !.steps = journal[s].steps]
  <2>1. s \in Sessions
    BY <1>1 DEF FinBegin, Local, Settled
  <2>2. CASE journal[s] # None
    <3>1. m \in Memory /\ m.session = s
      BY <1>0, <2>1, <2>2, TakenTyped
    <3>2. Goto(p, "heal") /\ Hold(p, m)
      BY <1>1, <2>2 DEF FinBegin
    <3> HIDE DEF m
    <3>3. Local'
      BY <2>1, <3>1, <3>2, LocalMove DEF Points, Settled
    <3> QED BY <1>1, <3>3 DEF FinBegin, TypeOK, Local
  <2>3. CASE journal[s] = None
    <3>1. Local'
      BY <1>1, <2>1, <2>3, LocalStay DEF FinBegin, Points, Settled
    <3> QED BY <1>1, <3>1 DEF FinBegin, TypeOK, Local
  <2> QED BY <2>2, <2>3
<1>2. CASE FinStore(p)
  <2>1. Local'
    BY <1>2, LocalStay DEF FinStore, Points, Local, Settled
  <2>2. journal' \in [Sessions -> Record \cup {None}]
    BY <1>2, StoreTyped DEF FinStore
  <2> QED BY <1>2, <2>1, <2>2 DEF FinStore, TypeOK, Local
<1>3. CASE FinHeal(p)
  <2> DEFINE m == [mem[p] EXCEPT !.steps = @ \ {"state_ended"}]
  <2>1. mem[p].session \in Sessions
    BY <1>3 DEF FinHeal, Local, Settled
  <2>2. m \in Memory /\ m.session = mem[p].session
    BY <1>0 DEF Memory
  <2>3. (Goto(p, "healed") /\ Hold(p, m)) \/ (Goto(p, "step") /\ UNCHANGED mem)
    BY <1>3 DEF FinHeal
  <2> HIDE DEF m
  <2>4. Local'
    BY <2>1, <2>2, <2>3, LocalMove, LocalStay DEF Points, Settled
  <2> QED BY <1>3, <2>4 DEF FinHeal, TypeOK, Local
<1>4. CASE FinHealed(p)
  <2>1. Local'
    BY <1>4, LocalStay DEF FinHealed, Points, Local, Settled
  <2>2. journal' \in [Sessions -> Record \cup {None}]
    BY <1>0, <1>4, StoreTyped DEF FinHealed
  <2> QED BY <1>4, <2>1, <2>2 DEF FinHealed, TypeOK, Local
<1>5. CASE FinStep(p)
  <2>1. mem[p].session \in Sessions
    BY <1>5 DEF FinStep, Local, Settled
  <2>2. Local'
    BY <1>5, <2>1, LocalStay DEF FinStep, EndState, Clean, Unregister, Points, Settled
  <2>3. [state EXCEPT !.ended = TRUE] \in State
    BY DEF TypeOK, State
  <2>4. state' \in State
    BY <1>5, <2>3, SaveTyped DEF FinStep, EndState, Clean, Unregister, TypeOK
  <2>5. row' \in [session : Sessions \cup {NoSession}, active : BOOLEAN]
    BY <1>5 DEF FinStep, EndState, Clean, Unregister, TypeOK
  <2>6. faults' \in Nat
    BY <1>5, FaultTyped DEF FinStep, EndState, Clean, Unregister, TypeOK
  <2>7. restored' \in BOOLEAN /\ late' \in BOOLEAN
    BY <1>5 DEF FinStep, EndState, Clean, Unregister, TypeOK
  <2>8. UNCHANGED <<journal, ledger, unsigned, issued, opened, drawn, calls>>
    BY <1>5 DEF FinStep
  <2> QED BY <2>2, <2>4, <2>5, <2>6, <2>7, <2>8 DEF TypeOK, Local
<1>6. CASE FinRecord(p)
  <2> DEFINE steps == mem[p].steps \cup {NextStep(p)}
             m == [mem[p] EXCEPT !.steps = steps]
  <2>1. mem[p].session \in Sessions
    BY <1>6 DEF FinRecord, Local, Settled
  <2>2. steps \in SUBSET FinSteps
    BY <1>0 DEF NextStep, FinSteps
  <2>3. Goto(p, "step") /\ Hold(p, m) /\ Store(p, FALSE, steps)
    BY <1>6 DEF FinRecord
  <2> HIDE DEF steps
  <2>4. m \in Memory /\ m.session = mem[p].session
    BY <1>0, <2>2 DEF Memory
  <2> HIDE DEF m
  <2>5. Local'
    BY <2>1, <2>3, <2>4, LocalMove DEF Points, Settled
  <2>6. journal' \in [Sessions -> Record \cup {None}]
    BY <2>2, <2>3, StoreTyped
  <2> QED BY <1>6, <2>5, <2>6 DEF FinRecord, TypeOK, Local
<1>7. CASE FinRaised(p)
  <2>1. mem[p].session \in Sessions
    BY <1>7 DEF FinRaised, Local, Settled
  <2>2. journal' \in [Sessions -> Record \cup {None}]
    BY <1>0, <1>7, StoreTyped DEF FinRaised
  <2>3. Local'
    BY <1>7, <2>1, LocalEnded DEF FinRaised
  <2> QED BY <1>7, <2>2, <2>3 DEF FinRaised, TypeOK, Local
<1>8. CASE FinComplete(p)
  <2>1. mem[p].session \in Sessions
    BY <1>8 DEF FinComplete, Local, Settled
  <2>2. journal' \in [Sessions -> Record \cup {None}]
    BY <1>0, <1>8, StoreTyped DEF FinComplete
  <2>3. Local'
    BY <1>8, <2>1, LocalEnded DEF FinComplete
  <2> QED BY <1>8, <2>2, <2>3 DEF FinComplete, TypeOK, Local
<1>9. CASE Crash(p)
  <2>1. Local'
    BY <1>9, LocalReturn DEF Crash
  <2> QED BY <1>9, <2>1, FaultTyped DEF Crash, TypeOK, Local
<1> QED BY <1>1, <1>2, <1>3, <1>4, <1>5, <1>6, <1>7, <1>8, <1>9

LEMMA TypeInit == Init => Typed
<1> SUFFICES ASSUME Init PROVE Typed
  OBVIOUS
<1>1. state \in State /\ row \in [session : Sessions \cup {NoSession}, active : BOOLEAN]
  BY EmptyTyped DEF Init
<1>2. Local
  BY EmptyTyped DEF Init, Local, Settled, Points
<1> QED BY <1>1, <1>2 DEF Init, Typed, TypeOK, Local, Points

LEMMA TypeStep == Typed /\ [Next]_vars => Typed'
<1> SUFFICES ASSUME Typed, [Next]_vars PROVE Typed'
  OBVIOUS
<1>1. CASE UNCHANGED vars
  BY <1>1 DEF vars, Typed, TypeOK, Local, Settled
<1>2. ASSUME NEW p \in Procs, Arrive(p) \/ Proceed(p) \/ Crash(p) PROVE Typed'
  BY <1>2, TypeStart, TypeOp, TypeOther, TypeEnd, TypeFin DEF Arrive, Proceed
<1> QED BY <1>1, <1>2 DEF Next

\* Whatever calls interleave, crash and retry, the files and what the calls hold
\* stay well formed: no phase without a lifecycle, no record without a session.
THEOREM TypeCorrect == Spec => []TypeOK
<1>1. Typed => TypeOK
  BY DEF Typed
<1> QED BY <1>1, TypeInit, TypeStep, PTL DEF Spec

----------------------------------------------------------------------------
(* What a step of a call changes *)

Step(p) == Arrive(p) \/ Proceed(p) \/ Crash(p)

\* A step is one of a single call.
LEMMA StepLocal ==
    ASSUME Typed, NEW p \in Procs, Step(p), NEW q \in Procs, q # p
    PROVE  pc'[q] = pc[q] /\ mem'[q] = mem[q]
<1>1. ASSUME NEW point, NEW m, Goto(p, point), Hold(p, m) \/ UNCHANGED mem
      PROVE  pc'[q] = pc[q] /\ mem'[q] = mem[q]
  BY <1>1 DEF Goto, Hold, Typed, Local
<1>2. Return(p) \/ Ended(p) => pc'[q] = pc[q] /\ mem'[q] = mem[q]
  BY <1>1 DEF Return, Ended
<1>3. CASE \/ StartLoad(p) \/ StartReload(p) \/ StartSave(p) \/ StartRegister(p)
  BY <1>1, <1>2, <1>3 DEF StartLoad, StartReload, StartSave, StartSaved, StartRegister
<1>4. CASE \/ OpBegin(p) \/ OpAdmit(p) \/ OpCheck(p) \/ OpCapture(p)
           \/ AttestRead(p) \/ AttestCommit(p) \/ ApplyBlocked(p) \/ OpFinish(p)
  BY <1>1, <1>2, <1>4 DEF OpBegin, OpAdmit, OpCheck, OpCapture, AttestRead,
                          AttestCommit, ApplyBlocked, OpFinish, Finish
<1>5. CASE \/ ResetBegin(p) \/ ResetLoad(p) \/ ResetCheck(p) \/ AnswerLoad(p)
           \/ Overwrite(p) \/ Resume(p) \/ ResumeCapture(p) \/ ResumeRotate(p)
  BY <1>1, <1>2, <1>5 DEF ResetBegin, ResetLoad, ResetCheck, AnswerLoad, Overwrite,
                          Resume, ResumeCapture, ResumeRotate
<1>6. CASE \/ End(p) \/ EndLookup(p) \/ CliEnd(p) \/ RecoverBegun(p)
           \/ RecoverOpen(p) \/ \E s \in Sessions : RecoverAgain(p, s)
  BY <1>1, <1>2, <1>6 DEF End, EndLookup, CliEnd, RecoverBegun, RecoverOpen,
                          RecoverAgain, TakeUp
<1>7. CASE \/ FinBegin(p) \/ FinStore(p) \/ FinHeal(p) \/ FinHealed(p) \/ FinStep(p)
           \/ FinRecord(p) \/ FinRaised(p) \/ FinComplete(p) \/ Crash(p)
  BY <1>1, <1>2, <1>7 DEF FinBegin, FinStore, FinHeal, FinHealed, FinStep, EndState, Clean,
                          Unregister, FinRecord, FinRaised, FinComplete, Crash
<1> QED BY <1>3, <1>4, <1>5, <1>6, <1>7 DEF Step, Arrive, Proceed

\* The state is left as it is, or replaced at the next revision.
LEMMA StepState ==
    ASSUME Typed, NEW p \in Procs, Step(p)
    PROVE  state' = state \/ state'.rev = state.rev + 1
<1>0. state \in State
  BY DEF Typed, TypeOK
<1>1. ASSUME NEW st \in State, Save(st) PROVE state'.rev = state.rev + 1
  BY <1>1 DEF Save, State
<1>2. CASE StartSave(p)
  <2>1. ASSUME NEW s, NEW t, StartSaved(p, s, t) PROVE state'.rev = state.rev + 1
    BY <2>1 DEF StartSaved
  <2> QED BY <1>2, <2>1 DEF StartSave
<1>3. CASE OpAdmit(p)
  BY <1>0, <1>1, <1>3, ReconciledTyped DEF OpAdmit
<1>4. CASE OpFinish(p)
  BY <1>0, <1>1, <1>4, OutcomesTyped DEF OpFinish, Finish
<1>5. CASE Overwrite(p)
  BY <1>1, <1>5 DEF Overwrite, Typed, Local, Memory
<1>6. CASE ResumeRotate(p)
  BY <1>0, <1>1, <1>6, RotatedTyped DEF ResumeRotate
<1>7. CASE FinStep(p)
  <2>1. [state EXCEPT !.ended = TRUE] \in State
    BY <1>0 DEF State
  <2> QED BY <1>1, <1>7, <2>1 DEF FinStep, EndState, Clean, Unregister
<1>8. CASE Arrive(p)
  BY <1>8 DEF Arrive, StartLoad, OpBegin, ResetBegin, AnswerLoad, Resume, End, CliEnd,
              RecoverBegun, RecoverOpen, RecoverAgain
<1>9. CASE \/ StartReload(p) \/ StartRegister(p) \/ OpCheck(p) \/ OpCapture(p)
           \/ AttestRead(p) \/ AttestCommit(p) \/ ApplyBlocked(p)
           \/ ResetLoad(p) \/ ResetCheck(p) \/ ResumeCapture(p) \/ EndLookup(p)
           \/ FinBegin(p) \/ FinStore(p)
           \/ FinHeal(p) \/ FinHealed(p)
           \/ FinRecord(p) \/ FinRaised(p) \/ FinComplete(p) \/ Crash(p)
  BY <1>9 DEF StartReload, StartRegister, OpCheck, OpCapture, AttestRead, AttestCommit,
              ApplyBlocked, ResetLoad, ResetCheck, ResumeCapture, EndLookup, FinBegin, FinStore, FinHeal,
              FinHealed, FinRecord, FinRaised, FinComplete, Crash
<1> QED BY <1>2, <1>3, <1>4, <1>5, <1>6, <1>7, <1>8, <1>9 DEF Step, Proceed

\* Only the three writers of these files change them.
LEMMA StepFiles ==
    ASSUME Typed, NEW p \in Procs, Step(p)
    PROVE  /\ ledger' = ledger \/ AttestCommit(p)
           /\ issued' = issued \/ StartRegister(p) \/ ResumeRotate(p)
           /\ opened' = opened \/ StartSave(p)
           /\ row'.session = row.session \/ StartRegister(p)
<1>1. CASE Arrive(p)
  BY <1>1 DEF Arrive, StartLoad, OpBegin, ResetBegin, AnswerLoad, Resume, End, CliEnd,
              RecoverBegun, RecoverOpen, RecoverAgain
<1>2. CASE \/ StartReload(p) \/ StartSave(p) \/ StartRegister(p) \/ OpAdmit(p)
           \/ OpCheck(p) \/ OpCapture(p) \/ AttestRead(p) \/ AttestCommit(p)
           \/ ApplyBlocked(p) \/ OpFinish(p) \/ ResetLoad(p) \/ ResetCheck(p)
           \/ Overwrite(p) \/ ResumeCapture(p) \/ ResumeRotate(p)
  BY <1>2 DEF StartReload, StartSave, StartRegister, OpAdmit, OpCheck, OpCapture,
              AttestRead, AttestCommit, ApplyBlocked, OpFinish, Finish, ResetLoad,
              ResetCheck, Overwrite, ResumeCapture, ResumeRotate
<1>3. CASE FinStep(p)
  <2>1. [row EXCEPT !.active = FALSE].session = row.session
    BY DEF Typed, TypeOK
  <2> QED BY <1>3, <2>1 DEF FinStep, EndState, Clean, Unregister
<1>4. CASE \/ EndLookup(p) \/ FinBegin(p) \/ FinStore(p) \/ FinHeal(p) \/ FinHealed(p)
           \/ FinRecord(p) \/ FinRaised(p) \/ FinComplete(p) \/ Crash(p)
  BY <1>4 DEF EndLookup, FinBegin, FinStore, FinHeal, FinHealed, FinRecord, FinRaised,
              FinComplete, Crash
<1> QED BY <1>1, <1>2, <1>3, <1>4 DEF Step, Proceed

----------------------------------------------------------------------------
(* A capability that was replaced writes nothing *)

Captured == {"read", "commit", "work", "sealed", "unsealed"}
Calling  == {"admit", "check", "capture", "reset", "cursor"}

OnBehalf(p) == pc[p] \in Calling \/ (pc[p] = "overwrite" /\ mem[p].then = "admit")

\* A call acts for a caller that has presented a token.
Presented == \A p \in Procs : OnBehalf(p) => mem[p].token \in Tokens

\* As long as the revision is the one captured, so are the session and its token.
Fenced ==
    \A p \in Procs :
        pc[p] \in Captured =>
            /\ mem[p].rev <= state.rev
            /\ mem[p].rev = state.rev =>
                   state.session = mem[p].session /\ state.token = mem[p].token

\* Where the steps of an operation lead, and that no other step leads there.
LEMMA StepCaptured ==
    ASSUME Typed, NEW p \in Procs, Step(p), pc'[p] \in Captured
    PROVE  \/ OpCapture(p) /\ Bound(mem[p].session, mem[p].token)
           \/ AttestRead(p) \/ AttestCommit(p) \/ ApplyBlocked(p)
<1>1. ASSUME NEW point, Goto(p, point) PROVE pc'[p] = point
  BY <1>1 DEF Goto, Typed, Local
<1>2. Return(p) => pc'[p] = "idle"
  BY <1>1 DEF Return
<1>3. Ended(p) => pc'[p] \in {"idle", "reload"}
  BY <1>1, <1>2 DEF Ended
<1> USE DEF Captured
<1>4. ~(StartLoad(p) \/ StartReload(p) \/ StartSave(p) \/ StartRegister(p))
  BY <1>1, <1>2 DEF StartLoad, StartReload, StartSave, StartSaved, StartRegister
<1>5. ~(OpBegin(p) \/ OpAdmit(p) \/ OpCheck(p) \/ OpFinish(p))
  BY <1>1, <1>2 DEF OpBegin, OpAdmit, OpCheck, OpFinish, Finish
<1>6. OpCapture(p) => Bound(mem[p].session, mem[p].token)
  BY <1>2 DEF OpCapture
<1>7. ~(ResetBegin(p) \/ ResetLoad(p) \/ ResetCheck(p) \/ AnswerLoad(p) \/ Overwrite(p))
  BY <1>1, <1>2 DEF ResetBegin, ResetLoad, ResetCheck, AnswerLoad, Overwrite
<1>8. ~(Resume(p) \/ ResumeCapture(p) \/ ResumeRotate(p))
  BY <1>1, <1>2 DEF Resume, ResumeCapture, ResumeRotate
<1>9. ~(End(p) \/ EndLookup(p) \/ CliEnd(p))
  BY <1>1, <1>3 DEF End, EndLookup, CliEnd
<1>10. ~(RecoverBegun(p) \/ RecoverOpen(p) \/ \E s \in Sessions : RecoverAgain(p, s))
  BY <1>1 DEF RecoverBegun, RecoverOpen, RecoverAgain, TakeUp
<1>11. ~(FinBegin(p) \/ FinStore(p) \/ FinHeal(p) \/ FinHealed(p))
  BY <1>1 DEF FinBegin, FinStore, FinHeal, FinHealed
<1>12. ~FinStep(p)
  BY <1>1 DEF FinStep, EndState, Clean, Unregister
<1>13. ~(FinRecord(p) \/ FinRaised(p) \/ FinComplete(p) \/ Crash(p))
  BY <1>1, <1>2, <1>3 DEF FinRecord, FinRaised, FinComplete, Crash
<1> QED BY <1>4, <1>5, <1>6, <1>7, <1>8, <1>9, <1>10, <1>11, <1>12, <1>13
        DEF Step, Arrive, Proceed

LEMMA StepOnBehalf ==
    ASSUME Typed, NEW p \in Procs, Step(p), OnBehalf(p)'
    PROVE  \/ OpBegin(p) \/ ResetBegin(p)
           \/ /\ OnBehalf(p)
              /\ mem'[p].session = mem[p].session
              /\ mem'[p].token = mem[p].token
<1>1. ASSUME NEW point, Goto(p, point) PROVE pc'[p] = point
  BY <1>1 DEF Goto, Typed, Local
<1>2. Return(p) => pc'[p] = "idle"
  BY <1>1 DEF Return
<1>3. Ended(p) => pc'[p] \in {"idle", "reload"}
  BY <1>1, <1>2 DEF Ended
<1>4. pc'[p] \in {"admit", "check", "capture", "reset", "cursor", "overwrite"}
  BY DEF OnBehalf, Calling
<1>5. ~(StartLoad(p) \/ StartReload(p) \/ StartSave(p) \/ StartRegister(p))
  BY <1>1, <1>2, <1>4 DEF StartLoad, StartReload, StartSave, StartSaved, StartRegister
<1>6. OpAdmit(p) \/ OpCheck(p) => OnBehalf(p) /\ UNCHANGED mem
  BY <1>1, <1>2, <1>4 DEF OpAdmit, OpCheck, OnBehalf, Calling
<1>17. ASSUME ResetLoad(p)
       PROVE  /\ OnBehalf(p)
              /\ mem'[p].session = mem[p].session
              /\ mem'[p].token = mem[p].token
  <2> DEFINE copy == [state EXCEPT !.phase = "apply", !.failed = FALSE]
  <2>1. mem[p] \in Memory
    BY DEF Typed, Local
  <2>2. Hold(p, [mem[p] EXCEPT !.copy = copy, !.then = "admit"]) \/ UNCHANGED mem
    BY <1>17 DEF ResetLoad
  <2> HIDE DEF copy
  <2>3. mem'[p] = [mem[p] EXCEPT !.copy = copy, !.then = "admit"] \/ mem'[p] = mem[p]
    BY <2>2 DEF Hold, Typed, Local
  <2> QED BY <1>17, <2>1, <2>3 DEF ResetLoad, OnBehalf, Calling, Memory
<1>7. ~(OpCapture(p) \/ AttestRead(p) \/ AttestCommit(p) \/ ApplyBlocked(p) \/ OpFinish(p))
  BY <1>1, <1>2, <1>4
     DEF OpCapture, AttestRead, AttestCommit, ApplyBlocked, OpFinish, Finish
<1>8. ResetCheck(p) => OnBehalf(p) /\ UNCHANGED mem
  BY DEF ResetCheck, OnBehalf, Calling
<1>9. ~AnswerLoad(p)
  <2> SUFFICES ASSUME AnswerLoad(p) PROVE FALSE
    OBVIOUS
  <2>1. PICK s \in {row.session, NoSession}, ph \in Phases :
            /\ Goto(p, "overwrite")
            /\ Hold(p, [Empty EXCEPT !.session = s,
                            !.copy = [state EXCEPT !.phase = ph, !.failed = ph = "blocked"]])
    BY DEF AnswerLoad
  <2>2. mem'[p].then = "idle" /\ pc'[p] = "overwrite"
    BY <2>1, <1>1 DEF Hold, Typed, Local, Empty
  <2> QED BY <2>2 DEF OnBehalf, Calling
<1>10. ASSUME Overwrite(p)
       PROVE  /\ OnBehalf(p)
              /\ mem'[p].session = mem[p].session
              /\ mem'[p].token = mem[p].token
  <2>1. OnBehalf(p) /\ mem[p].then = "admit"
    BY <1>1, <1>2, <1>4, <1>10 DEF Overwrite, OnBehalf
  <2>2. Hold(p, [mem[p] EXCEPT !.copy = NoState, !.then = "idle"])
    BY <1>10, <2>1 DEF Overwrite
  <2>3. mem[p] \in Memory
    BY DEF Typed, Local
  <2> QED BY <2>1, <2>2, <2>3 DEF Hold, Typed, Local, Memory
<1>11. ~(Resume(p) \/ ResumeCapture(p) \/ ResumeRotate(p))
  BY <1>1, <1>2, <1>4 DEF Resume, ResumeCapture, ResumeRotate
<1>12. ~(End(p) \/ EndLookup(p) \/ CliEnd(p))
  BY <1>1, <1>3, <1>4 DEF End, EndLookup, CliEnd
<1>13. ~(RecoverBegun(p) \/ RecoverOpen(p) \/ \E s \in Sessions : RecoverAgain(p, s))
  BY <1>1, <1>4 DEF RecoverBegun, RecoverOpen, RecoverAgain, TakeUp
<1>14. ~(FinBegin(p) \/ FinStore(p) \/ FinHeal(p) \/ FinHealed(p))
  BY <1>1, <1>4 DEF FinBegin, FinStore, FinHeal, FinHealed
<1>15. ~FinStep(p)
  BY <1>1, <1>4 DEF FinStep, EndState, Clean, Unregister
<1>16. ~(FinRecord(p) \/ FinRaised(p) \/ FinComplete(p) \/ Crash(p))
  BY <1>1, <1>2, <1>3, <1>4 DEF FinRecord, FinRaised, FinComplete, Crash
<1> QED BY <1>5, <1>6, <1>7, <1>8, <1>9, <1>10, <1>11, <1>12, <1>13, <1>14, <1>15,
           <1>16, <1>17
        DEF Step, Arrive, Proceed

LEMMA PresentedStep ==
    ASSUME Typed, Presented, NEW p \in Procs, Step(p)
    PROVE  Presented'
<1> SUFFICES ASSUME NEW q \in Procs, OnBehalf(q)' PROVE mem'[q].token \in Tokens
  BY DEF Presented
<1>1. CASE q # p
  BY <1>1, StepLocal DEF OnBehalf, Presented
<1>2. CASE q = p
  <2>1. CASE OpBegin(p)
    <3>1. PICK c \in issued, o \in WorkOps :
              Hold(p, [Empty EXCEPT !.op = o, !.session = c.session, !.token = c.token])
      BY <2>1 DEF OpBegin
    <3>2. mem'[p].token = c.token
      BY <3>1 DEF Hold, Typed, Local, Empty
    <3> QED BY <1>2, <3>2 DEF Typed, TypeOK, Cap
  <2>2. CASE ResetBegin(p)
    <3>1. PICK c \in issued :
              Hold(p, [Empty EXCEPT !.op = "apply", !.session = c.session, !.token = c.token])
      BY <2>2 DEF ResetBegin
    <3>2. mem'[p].token = c.token
      BY <3>1 DEF Hold, Typed, Local, Empty
    <3> QED BY <1>2, <3>2 DEF Typed, TypeOK, Cap
  <2>3. CASE OnBehalf(p) /\ mem'[p].token = mem[p].token
    BY <1>2, <2>3 DEF Presented
  <2> QED BY <1>2, <2>1, <2>2, <2>3, StepOnBehalf
<1> QED BY <1>1, <1>2

\* What a captured call goes on with: the session, the token and the revision
\* that it captured.
LEMMA CapturedKeeps ==
    ASSUME Typed, NEW p \in Procs, AttestRead(p) \/ AttestCommit(p) \/ ApplyBlocked(p)
    PROVE  /\ pc[p] \in Captured
           /\ state' = state
           /\ mem'[p].session = mem[p].session
           /\ mem'[p].token = mem[p].token
           /\ mem'[p].rev = mem[p].rev
<1>1. CASE AttestRead(p)
  <2> DEFINE copy == IF Reaches(mem[p].session) THEN state ELSE NoState
  <2>1. Hold(p, [mem[p] EXCEPT !.copy = copy])
    BY <1>1 DEF AttestRead
  <2>2. mem[p] \in Memory
    BY DEF Typed, Local
  <2> HIDE DEF copy
  <2>3. mem'[p] = [mem[p] EXCEPT !.copy = copy]
    BY <2>1 DEF Hold, Typed, Local
  <2> QED BY <1>1, <2>2, <2>3 DEF AttestRead, Memory, Captured
<1>2. CASE AttestCommit(p) \/ ApplyBlocked(p)
  BY <1>2 DEF AttestCommit, ApplyBlocked, Captured
<1> QED BY <1>1, <1>2

\* What a call captures: the session, its token and the revision of the state.
LEMMA CaptureTakes ==
    ASSUME Typed, Presented, NEW p \in Procs, OpCapture(p),
           Bound(mem[p].session, mem[p].token)
    PROVE  /\ state' = state
           /\ row' = row
           /\ state.session = mem[p].session
           /\ row.session = mem[p].session
           /\ state.token = mem[p].token
           /\ mem'[p].session = mem[p].session
           /\ mem'[p].token = mem[p].token
           /\ mem'[p].rev = state.rev
<1>1. mem[p] \in Memory /\ mem[p].token \in Tokens
  BY DEF Typed, Local, Presented, OnBehalf, Calling, OpCapture
<1>2. mem'[p] = [mem[p] EXCEPT !.rev = state.rev]
  BY DEF OpCapture, Hold, Typed, Local
<1>3. mem'[p].session = mem[p].session /\ mem'[p].token = mem[p].token
      /\ mem'[p].rev = state.rev
  BY <1>1, <1>2 DEF Memory
<1> QED BY <1>1, <1>3, LaneConstants DEF OpCapture, Bound

LEMMA FencedStep ==
    ASSUME Typed, Presented, Fenced, NEW p \in Procs, Step(p)
    PROVE  Fenced'
<1> SUFFICES ASSUME NEW q \in Procs, pc'[q] \in Captured
             PROVE  /\ mem'[q].rev <= state'.rev
                    /\ mem'[q].rev = state'.rev =>
                           state'.session = mem'[q].session /\ state'.token = mem'[q].token
  BY DEF Fenced
<1>1. state.rev \in Nat /\ mem[q].rev \in Nat
  BY DEF Typed, TypeOK, Local, State, Memory
<1>2. CASE q # p
  BY <1>1, <1>2, StepLocal, StepState DEF Fenced
<1>3. CASE q = p
  <2>1. CASE OpCapture(p) /\ Bound(mem[p].session, mem[p].token)
    BY <1>1, <1>3, <2>1, CaptureTakes
  <2>2. CASE AttestRead(p) \/ AttestCommit(p) \/ ApplyBlocked(p)
    BY <1>3, <2>2, CapturedKeeps DEF Fenced
  <2> QED BY <1>3, <2>1, <2>2, StepCaptured
<1> QED BY <1>2, <1>3

\* The one step in which a captured call writes the state.
LEMMA CapturedWrites ==
    ASSUME Typed, Fenced, NEW p \in Procs, Step(p), NEW q \in Procs,
           pc[q] \in {"work", "sealed", "unsealed"}, pc'[q] # pc[q], state' # state
    PROVE  state.session = mem[q].session /\ state.token = mem[q].token
<1>1. q = p
  BY StepLocal
<1>2. CASE OpFinish(p)
  BY <1>1, <1>2 DEF OpFinish, Finish, Unchanged, Fenced, Captured
<1>3. CASE ApplyBlocked(p) \/ Crash(p)
  BY <1>3 DEF ApplyBlocked, Crash
<1>4. OpFinish(p) \/ ApplyBlocked(p) \/ Crash(p)
  <2>1. ~Arrive(p)
    BY <1>1 DEF Arrive, StartLoad, OpBegin, ResetBegin, AnswerLoad, Resume, End, CliEnd,
                RecoverBegun, RecoverOpen, RecoverAgain, Call
  <2>2. ~(StartReload(p) \/ StartSave(p) \/ StartRegister(p) \/ OpAdmit(p) \/ OpCheck(p)
          \/ OpCapture(p) \/ AttestRead(p) \/ AttestCommit(p) \/ ResetLoad(p)
          \/ ResetCheck(p) \/ Overwrite(p) \/ ResumeCapture(p) \/ ResumeRotate(p))
    BY <1>1 DEF StartReload, StartSave, StartRegister, OpAdmit, OpCheck, OpCapture,
                AttestRead, AttestCommit, ResetLoad, ResetCheck, Overwrite,
                ResumeCapture, ResumeRotate
  <2>3. ~(EndLookup(p) \/ FinBegin(p) \/ FinStore(p) \/ FinHeal(p) \/ FinHealed(p)
          \/ FinStep(p) \/ FinRecord(p) \/ FinRaised(p) \/ FinComplete(p))
    BY <1>1 DEF EndLookup, FinBegin, FinStore, FinHeal, FinHealed, FinStep, FinRecord,
                FinRaised, FinComplete
  <2> QED BY <2>1, <2>2, <2>3 DEF Step, Proceed
<1> QED BY <1>2, <1>3, <1>4

FencedInv == Typed /\ Presented /\ Fenced

LEMMA FencedInit == Init => FencedInv
BY TypeInit DEF FencedInv, Init, Presented, OnBehalf, Fenced, Calling, Captured

LEMMA FencedNext == FencedInv /\ [Next]_vars => FencedInv'
<1> SUFFICES ASSUME FencedInv, [Next]_vars PROVE FencedInv'
  OBVIOUS
<1>1. Typed'
  BY TypeStep DEF FencedInv
<1>2. CASE UNCHANGED vars
  BY <1>1, <1>2 DEF FencedInv, vars, Presented, OnBehalf, Fenced
<1>3. CASE \E p \in Procs : Step(p)
  BY <1>1, <1>3, PresentedStep, FencedStep DEF FencedInv
<1> QED BY <1>2, <1>3 DEF Next, Step

\* The save that ends an operation is done only while the caller's token is the
\* session's: once resume_session has replaced it, the save is refused, whatever
\* else interleaves (runtime.py _finish).
THEOREM RevokedIsRefused == Spec => RevokedNeverFinishes
<1>1. ASSUME FencedInv, [Next]_vars, NEW q \in Procs,
             pc[q] \in {"work", "sealed", "unsealed"}, pc'[q] # pc[q], state' # state
      PROVE  state.session = mem[q].session /\ state.token = mem[q].token
  <2>1. CASE UNCHANGED vars
    BY <1>1, <2>1 DEF vars
  <2>2. CASE \E p \in Procs : Step(p)
    BY <1>1, <2>2, CapturedWrites DEF FencedInv
  <2> QED BY <1>1, <2>1, <2>2 DEF Next, Step
<1>2. FencedInv /\ [Next]_vars =>
          [\A p \in Procs :
               /\ pc[p] \in {"work", "sealed", "unsealed"}
               /\ pc'[p] # pc[p]
               /\ state' # state
               => state.session = mem[p].session /\ state.token = mem[p].token]_vars
  BY <1>1
<1> QED BY <1>2, FencedInit, FencedNext, PTL DEF Spec, RevokedNeverFinishes

----------------------------------------------------------------------------
(* A session that counts as attested is in the ledger *)

\* A session being registered is new: the lane has never named it, no caller
\* knows it, and no other call registers it.
Fresh ==
    /\ row.session \in opened \cup {NoSession}
    /\ \A c \in issued : c.session \in opened
    /\ \A p \in Procs :
           pc[p] = "register" =>
               /\ mem[p].session \in opened
               /\ row.session # mem[p].session
               /\ \A c \in issued : c.session # mem[p].session
               /\ \A q \in Procs \ {p} :
                      pc[q] = "register" => mem[q].session # mem[p].session

\* A bound call works on a session whose capability was handed out.
Bidden ==
    \A p \in Procs :
        pc[p] \in Captured \/ OnBehalf(p) => \E c \in issued : c.session = mem[p].session

LEMMA StepRegister ==
    ASSUME Typed, NEW p \in Procs, Step(p), pc'[p] = "register"
    PROVE  \E s \in Sessions \ opened, t \in Tokens \ drawn : StartSaved(p, s, t)
<1>1. ASSUME NEW point, Goto(p, point) PROVE pc'[p] = point
  BY <1>1 DEF Goto, Typed, Local
<1>2. Return(p) => pc'[p] = "idle"
  BY <1>1 DEF Return
<1>3. Ended(p) => pc'[p] \in {"idle", "reload"}
  BY <1>1, <1>2 DEF Ended
<1>4. StartSave(p) => \E s \in Sessions \ opened, t \in Tokens \ drawn : StartSaved(p, s, t)
  BY <1>2 DEF StartSave
<1>5. ~(StartLoad(p) \/ StartReload(p) \/ StartRegister(p))
  BY <1>1, <1>2 DEF StartLoad, StartReload, StartRegister
<1>6. ~(OpBegin(p) \/ OpAdmit(p) \/ OpCheck(p) \/ OpFinish(p) \/ OpCapture(p)
        \/ AttestRead(p) \/ AttestCommit(p) \/ ApplyBlocked(p))
  BY <1>1, <1>2 DEF OpBegin, OpAdmit, OpCheck, OpFinish, Finish, OpCapture, AttestRead,
                    AttestCommit, ApplyBlocked
<1>7. ~(ResetBegin(p) \/ ResetLoad(p) \/ ResetCheck(p) \/ AnswerLoad(p) \/ Overwrite(p))
  BY <1>1, <1>2 DEF ResetBegin, ResetLoad, ResetCheck, AnswerLoad, Overwrite
<1>8. ~(Resume(p) \/ ResumeCapture(p) \/ ResumeRotate(p))
  BY <1>1, <1>2 DEF Resume, ResumeCapture, ResumeRotate
<1>9. ~(End(p) \/ EndLookup(p) \/ CliEnd(p))
  BY <1>1, <1>3 DEF End, EndLookup, CliEnd
<1>10. ~(RecoverBegun(p) \/ RecoverOpen(p) \/ \E s \in Sessions : RecoverAgain(p, s))
  BY <1>1 DEF RecoverBegun, RecoverOpen, RecoverAgain, TakeUp
<1>11. ~(FinBegin(p) \/ FinStore(p) \/ FinHeal(p) \/ FinHealed(p))
  BY <1>1 DEF FinBegin, FinStore, FinHeal, FinHealed
<1>12. ~FinStep(p)
  BY <1>1 DEF FinStep, EndState, Clean, Unregister
<1>13. ~(FinRecord(p) \/ FinRaised(p) \/ FinComplete(p) \/ Crash(p))
  BY <1>1, <1>2, <1>3 DEF FinRecord, FinRaised, FinComplete, Crash
<1> QED BY <1>4, <1>5, <1>6, <1>7, <1>8, <1>9, <1>10, <1>11, <1>12, <1>13
        DEF Step, Arrive, Proceed

\* Opening, registering and resuming: how the sessions that are known grow.
LEMMA Growth ==
    ASSUME Typed, Fresh, NEW p \in Procs, Step(p)
    PROVE  /\ opened \subseteq opened'
           /\ issued \subseteq issued'
           /\ \A c \in issued' \ issued :
                  c.session = mem[p].session
                  /\ (StartRegister(p) \/ (ResumeRotate(p) /\ row.session = mem[p].session))
<1>1. opened \subseteq opened'
  BY StepFiles DEF StartSave, StartSaved
<1>2. CASE StartRegister(p)
  BY <1>1, <1>2 DEF StartRegister
<1>3. CASE ResumeRotate(p)
  BY <1>1, <1>3 DEF ResumeRotate, Reaches
<1>4. CASE issued' = issued
  BY <1>1, <1>4
<1> QED BY <1>2, <1>3, <1>4, StepFiles

LEMMA FreshStep ==
    ASSUME Typed, Fresh, NEW p \in Procs, Step(p)
    PROVE  Fresh'
<1>1. row'.session \in opened' \cup {NoSession}
  <2>1. StartRegister(p) => row'.session = mem[p].session /\ pc[p] = "register"
    BY DEF StartRegister
  <2> QED BY <2>1, Growth, StepFiles DEF Fresh
<1>2. \A c \in issued' : c.session \in opened'
  <2>1. ASSUME NEW c \in issued' \ issued PROVE c.session \in opened
    <3>1. CASE StartRegister(p)
      BY <2>1, <3>1, Growth DEF Fresh, StartRegister
    <3>2. CASE ResumeRotate(p) /\ row.session = mem[p].session
      <4>1. mem[p].session \in Sessions
        BY <3>2 DEF ResumeRotate, Typed, Local, Settled
      <4> QED BY <2>1, <3>2, <4>1, Growth, LaneConstants DEF Fresh
    <3> QED BY <2>1, <3>1, <3>2, Growth
  <2> QED BY <2>1, Growth DEF Fresh
<1>3. ASSUME NEW q \in Procs, pc'[q] = "register"
      PROVE  /\ mem'[q].session \in opened'
             /\ row'.session # mem'[q].session
             /\ \A c \in issued' : c.session # mem'[q].session
  <2>1. CASE q = p
    <3>1. PICK s \in Sessions \ opened, t \in Tokens \ drawn : StartSaved(p, s, t)
      BY <1>3, <2>1, StepRegister
    <3>2. mem'[p].session = s /\ opened' = opened \cup {s}
      BY <3>1 DEF StartSaved, Hold, Typed, Local, Empty
    <3>3. pc'[p] # "idle"
      BY <1>3, <2>1
    <3>4. ~StartRegister(p) /\ ~ResumeRotate(p)
      BY <3>3 DEF StartRegister, ResumeRotate, Return, Goto, Typed, Local
    <3>5. row'.session = row.session /\ issued' = issued
      BY <3>4, StepFiles
    <3> QED BY <2>1, <3>1, <3>2, <3>5, LaneConstants DEF Fresh
  <2>2. CASE q # p
    <3>1. pc[q] = "register" /\ mem'[q] = mem[q]
      BY <1>3, <2>2, StepLocal
    <3>2. row'.session # mem[q].session
      BY <2>2, <3>1, StepFiles DEF Fresh, StartRegister
    <3>3. ASSUME NEW c \in issued' \ issued PROVE c.session # mem[q].session
      BY <2>2, <3>1, <3>3, Growth DEF Fresh, StartRegister
    <3> QED BY <3>1, <3>2, <3>3, Growth DEF Fresh
  <2> QED BY <2>1, <2>2
<1>4. ASSUME NEW q \in Procs, NEW r \in Procs, q # r,
             pc'[q] = "register", pc'[r] = "register"
      PROVE  mem'[q].session # mem'[r].session
  <2>1. ASSUME NEW x \in Procs, x # p, pc'[x] = "register", pc'[p] = "register"
        PROVE  mem'[x].session # mem'[p].session
    <3>1. PICK s \in Sessions \ opened, t \in Tokens \ drawn : StartSaved(p, s, t)
      BY <2>1, StepRegister
    <3>2. mem'[p].session = s
      BY <3>1 DEF StartSaved, Hold, Typed, Local, Empty
    <3> QED BY <2>1, <3>1, <3>2, StepLocal DEF Fresh
  <2>2. CASE q # p /\ r # p
    BY <1>4, <2>2, StepLocal DEF Fresh
  <2> QED BY <1>4, <2>1, <2>2
<1> QED BY <1>1, <1>2, <1>3, <1>4 DEF Fresh

LEMMA BiddenStep ==
    ASSUME Typed, Presented, Fresh, Bidden, NEW p \in Procs, Step(p)
    PROVE  Bidden'
<1> SUFFICES ASSUME NEW q \in Procs, pc'[q] \in Captured \/ OnBehalf(q)'
             PROVE  \E c \in issued' : c.session = mem'[q].session
  BY DEF Bidden
<1>1. CASE q # p
  BY <1>1, StepLocal, Growth DEF Bidden, OnBehalf
<1>2. CASE q = p /\ pc'[p] \in Captured
  <2>1. CASE OpCapture(p) /\ Bound(mem[p].session, mem[p].token)
    BY <1>2, <2>1, CaptureTakes, Growth DEF Bidden, OnBehalf, Calling, OpCapture
  <2>2. CASE AttestRead(p) \/ AttestCommit(p) \/ ApplyBlocked(p)
    BY <1>2, <2>2, CapturedKeeps, Growth DEF Bidden
  <2> QED BY <1>2, <2>1, <2>2, StepCaptured
<1>3. CASE q = p /\ OnBehalf(p)'
  <2>1. CASE OpBegin(p)
    <3>1. PICK c \in issued, o \in WorkOps :
              Hold(p, [Empty EXCEPT !.op = o, !.session = c.session, !.token = c.token])
      BY <2>1 DEF OpBegin
    <3>2. mem'[p].session = c.session
      BY <3>1 DEF Hold, Typed, Local, Empty
    <3> QED BY <1>3, <3>2, Growth
  <2>2. CASE ResetBegin(p)
    <3>1. PICK c \in issued :
              Hold(p, [Empty EXCEPT !.op = "apply", !.session = c.session, !.token = c.token])
      BY <2>2 DEF ResetBegin
    <3>2. mem'[p].session = c.session
      BY <3>1 DEF Hold, Typed, Local, Empty
    <3> QED BY <1>3, <3>2, Growth
  <2>3. CASE OnBehalf(p) /\ mem'[p].session = mem[p].session
    BY <1>3, <2>3, Growth DEF Bidden
  <2> QED BY <1>3, <2>1, <2>2, <2>3, StepOnBehalf
<1> QED BY <1>1, <1>2, <1>3

\* Of a call that attests: the state it read is its session's, or the state has
\* moved on since it was captured, or the lane has, for good.
Signed ==
    \A p \in Procs :
        /\ pc[p] = "commit" => \/ mem[p].copy.session = mem[p].session
                               \/ mem[p].rev < state.rev
                               \/ row.session # mem[p].session
        /\ pc[p] = "sealed" => \/ mem[p].session \in ledger
                               \/ mem[p].rev < state.rev
                               \/ row.session # mem[p].session

LEMMA LedgerGrows ==
    ASSUME Typed, NEW p \in Procs, Step(p)
    PROVE  ledger \subseteq ledger'
BY StepFiles DEF AttestCommit

LEMMA RowStaysAway ==
    ASSUME Typed, Fresh, Bidden, NEW p \in Procs, Step(p), NEW q \in Procs,
           pc[q] \in Captured, row.session # mem[q].session
    PROVE  row'.session # mem[q].session
BY StepFiles DEF Bidden, Fresh, StartRegister

LEMMA SignedStep ==
    ASSUME FencedInv, Fresh, Bidden, Signed, NEW p \in Procs, Step(p)
    PROVE  Signed'
<1> USE DEF FencedInv
<1>0. \A q \in Procs : mem[q].rev \in Nat /\ state.rev \in Nat
  BY DEF Typed, TypeOK, Local, State, Memory
<1>1. ASSUME NEW q \in Procs, q # p, pc'[q] \in {"commit", "sealed"}
      PROVE  /\ pc[q] = pc'[q] /\ mem[q] = mem'[q]
             /\ mem[q].rev < state.rev => mem'[q].rev < state'.rev
             /\ row.session # mem[q].session => row'.session # mem'[q].session
             /\ ledger \subseteq ledger'
  BY <1>0, <1>1, StepLocal, StepState, RowStaysAway, LedgerGrows DEF Captured
<1>2. ASSUME pc'[p] = "commit"
      PROVE  \/ mem'[p].copy.session = mem'[p].session
             \/ mem'[p].rev < state'.rev
             \/ row'.session # mem'[p].session
  <2>1. AttestRead(p)
    <3>1. ~OpCapture(p) /\ ~AttestCommit(p) /\ ~ApplyBlocked(p)
      BY <1>2 DEF OpCapture, AttestCommit, ApplyBlocked, Goto, Return, Typed, Local
    <3> QED BY <1>2, <3>1, StepCaptured DEF Captured
  <2> DEFINE copy == IF Reaches(mem[p].session) THEN state ELSE NoState
  <2>2. mem'[p].copy = copy
    BY <2>1 DEF AttestRead, Hold, Typed, Local, Memory
  <2>3. pc[p] = "read" /\ state' = state /\ row' = row
    BY <2>1 DEF AttestRead
  <2>4. mem'[p].session = mem[p].session /\ mem'[p].rev = mem[p].rev
    BY <2>1, CapturedKeeps
  <2>5. CASE Reaches(mem[p].session)
    BY <1>0, <2>2, <2>3, <2>4, <2>5 DEF Fenced, Captured
  <2>6. CASE ~Reaches(mem[p].session)
    BY <2>3, <2>4, <2>6 DEF Reaches
  <2> QED BY <2>5, <2>6
<1>3. ASSUME pc'[p] = "sealed"
      PROVE  \/ mem'[p].session \in ledger'
             \/ mem'[p].rev < state'.rev
             \/ row'.session # mem'[p].session
  <2>1. AttestCommit(p)
    <3>1. ~OpCapture(p) /\ ~AttestRead(p) /\ ~ApplyBlocked(p)
      BY <1>3 DEF OpCapture, AttestRead, ApplyBlocked, Goto, Return, Typed, Local
    <3> QED BY <1>3, <3>1, StepCaptured DEF Captured
  <2>2. ledger' = ledger \cup ({mem[p].copy.session} \ {NoSession})
    BY <1>3, <2>1 DEF AttestCommit, Goto, Typed, Local
  <2>3. pc[p] = "commit" /\ state' = state /\ row' = row /\ mem' = mem
    BY <2>1 DEF AttestCommit
  <2>4. mem[p].session \in Sessions
    BY <2>3 DEF Typed, Local, Settled
  <2> QED BY <2>2, <2>3, <2>4, LaneConstants DEF Signed
<1> QED BY <1>1, <1>2, <1>3 DEF Signed

Backed(st) == st.attested => st.session \in ledger

AllBacked == Backed(state) /\ \A p \in Procs : Backed(mem[p].copy)

\* A copy of the state that a call holds is empty, or of the same session and
\* attested like it.
LEMMA StepCopy ==
    ASSUME Typed, NEW p \in Procs, Step(p)
    PROVE  \/ mem'[p].copy = NoState
           \/ /\ mem'[p].copy.session = state.session
              /\ mem'[p].copy.attested = state.attested
           \/ mem'[p].copy = mem[p].copy
<1> DEFINE Goal == \/ mem'[p].copy = NoState
                   \/ /\ mem'[p].copy.session = state.session
                      /\ mem'[p].copy.attested = state.attested
                   \/ mem'[p].copy = mem[p].copy
<1>0. mem[p] \in Memory /\ mem \in [Procs -> Memory] /\ state \in State
  BY DEF Typed, TypeOK, Local
<1>1. ASSUME NEW m, Hold(p, m) PROVE mem'[p] = m
  BY <1>0, <1>1 DEF Hold
<1>2. ASSUME NEW m, Hold(p, m), m.copy = NoState PROVE Goal
  BY <1>1, <1>2 DEF NoState
<1>3. Return(p) => Goal
  BY <1>2 DEF Return, Empty
<1>4. Ended(p) => Goal
  BY <1>2, <1>3 DEF Ended, Empty
<1>5. CASE StartLoad(p) \/ StartReload(p) \/ StartSave(p) \/ StartRegister(p)
  <2>1. CASE StartLoad(p)
    BY <1>1, <1>2, <2>1 DEF StartLoad, Empty
  <2>2. CASE StartReload(p)
    <3>1. [mem[p] EXCEPT !.copy = state].copy = state
      BY <1>0 DEF Memory
    <3> QED BY <1>1, <1>3, <2>2, <3>1 DEF StartReload
  <2>3. CASE StartSave(p)
    BY <1>2, <1>3, <2>3 DEF StartSave, StartSaved, Empty
  <2>4. CASE StartRegister(p)
    BY <1>3, <2>4 DEF StartRegister
  <2> QED BY <1>5, <2>1, <2>2, <2>3, <2>4
<1>6. CASE \/ OpBegin(p) \/ OpAdmit(p) \/ OpCheck(p) \/ OpCapture(p)
           \/ AttestRead(p) \/ AttestCommit(p) \/ ApplyBlocked(p) \/ OpFinish(p)
  <2>1. CASE OpBegin(p)
    BY <1>2, <2>1 DEF OpBegin, Empty
  <2>2. CASE OpCapture(p)
    <3>1. [mem[p] EXCEPT !.rev = state.rev].copy = mem[p].copy
      BY <1>0 DEF Memory
    <3> QED BY <1>1, <1>3, <2>2, <3>1 DEF OpCapture
  <2>3. CASE AttestRead(p)
    <3> DEFINE copy == IF Reaches(mem[p].session) THEN state ELSE NoState
    <3>1. [mem[p] EXCEPT !.copy = copy].copy = copy
      BY <1>0 DEF Memory
    <3>2. Hold(p, [mem[p] EXCEPT !.copy = copy])
      BY <2>3 DEF AttestRead
    <3>3. mem'[p].copy = copy
      <4> HIDE DEF copy
      <4> QED BY <1>1, <3>1, <3>2
    <3>4. CASE Reaches(mem[p].session)
      BY <3>3, <3>4
    <3>5. CASE ~Reaches(mem[p].session)
      BY <3>3, <3>5 DEF NoState
    <3> QED BY <3>4, <3>5
  <2>4. CASE OpAdmit(p) \/ OpCheck(p) \/ AttestCommit(p) \/ ApplyBlocked(p) \/ OpFinish(p)
    BY <1>3, <2>4 DEF OpAdmit, OpCheck, AttestCommit, ApplyBlocked, OpFinish, Finish
  <2> QED BY <1>6, <2>1, <2>2, <2>3, <2>4
<1>7. CASE \/ ResetBegin(p) \/ ResetLoad(p) \/ ResetCheck(p) \/ AnswerLoad(p)
           \/ Overwrite(p) \/ Resume(p) \/ ResumeCapture(p) \/ ResumeRotate(p)
  <2>1. CASE ResetLoad(p)
    <3> DEFINE copy == [state EXCEPT !.phase = "apply", !.failed = FALSE]
               m == [mem[p] EXCEPT !.copy = copy, !.then = "admit"]
    <3>1. Hold(p, m) \/ UNCHANGED mem
      BY <2>1 DEF ResetLoad
    <3>2. copy.session = state.session /\ copy.attested = state.attested
      BY <1>0 DEF State
    <3> HIDE DEF copy
    <3>3. m.copy = copy
      BY <1>0 DEF Memory
    <3> HIDE DEF m
    <3> QED BY <1>1, <3>1, <3>2, <3>3
  <2>2. CASE AnswerLoad(p)
    <3> DEFINE merged(ph) == [state EXCEPT !.phase = ph, !.failed = ph = "blocked"]
               m(s, ph) == [Empty EXCEPT !.session = s, !.copy = merged(ph)]
    <3>1. PICK s \in {row.session, NoSession}, ph \in Phases : Hold(p, m(s, ph))
      BY <2>2 DEF AnswerLoad
    <3>2. merged(ph).session = state.session /\ merged(ph).attested = state.attested
      BY <1>0 DEF State
    <3> HIDE DEF merged
    <3>3. m(s, ph).copy = merged(ph)
      BY DEF Empty
    <3> HIDE DEF m
    <3> QED BY <1>1, <3>1, <3>2, <3>3
  <2>3. CASE Overwrite(p)
    <3>1. [mem[p] EXCEPT !.copy = NoState, !.then = "idle"].copy = NoState
      BY <1>0 DEF Memory
    <3> QED BY <1>2, <1>3, <2>3, <3>1 DEF Overwrite
  <2>4. CASE ResetBegin(p) \/ ResetCheck(p) \/ Resume(p) \/ ResumeRotate(p)
    BY <1>2, <1>3, <2>4 DEF ResetBegin, ResetCheck, Resume, ResumeRotate, Empty
  <2>5. CASE ResumeCapture(p)
    <3>1. [mem[p] EXCEPT !.rev = state.rev].copy = mem[p].copy
      BY <1>0 DEF Memory
    <3> QED BY <1>1, <1>3, <2>5, <3>1 DEF ResumeCapture
  <2> QED BY <1>7, <2>1, <2>2, <2>3, <2>4, <2>5
<1>8. CASE \/ End(p) \/ EndLookup(p) \/ CliEnd(p) \/ RecoverBegun(p)
           \/ RecoverOpen(p) \/ \E s \in Sessions : RecoverAgain(p, s)
  <2>1. [mem[p] EXCEPT !.token = state.token].copy = mem[p].copy
    BY <1>0 DEF Memory
  <2>2. \A s : [mem[p] EXCEPT !.token = journal[s].token, !.steps = journal[s].steps].copy
                   = mem[p].copy
    BY <1>0 DEF Memory
  <2>3. CASE EndLookup(p)
    <3> DEFINE s == mem[p].session
               taken == [mem[p] EXCEPT !.token = journal[s].token, !.steps = journal[s].steps]
               begun == [mem[p] EXCEPT !.token = state.token]
    <3>1. Ended(p) \/ Hold(p, taken) \/ Hold(p, begun)
      BY <2>3 DEF EndLookup
    <3>2. taken.copy = mem[p].copy /\ begun.copy = mem[p].copy
      BY <2>1, <2>2
    <3> HIDE DEF taken, begun
    <3> QED BY <1>1, <1>4, <3>1, <3>2
  <2>4. CASE ~EndLookup(p)
    BY <1>2, <1>8, <2>4 DEF End, CliEnd, RecoverBegun, RecoverOpen, RecoverAgain, TakeUp, Empty
  <2> QED BY <2>3, <2>4
<1>9. CASE \/ FinBegin(p) \/ FinStore(p) \/ FinHeal(p) \/ FinHealed(p) \/ FinStep(p)
           \/ FinRecord(p) \/ FinRaised(p) \/ FinComplete(p) \/ Crash(p)
  <2>1. \A s : [mem[p] EXCEPT !.token = journal[s].token, !.steps = journal[s].steps].copy
                   = mem[p].copy
    BY <1>0 DEF Memory
  <2>2. \A n : [mem[p] EXCEPT !.steps = n].copy = mem[p].copy
    BY <1>0 DEF Memory
  <2>3. CASE FinBegin(p)
    BY <1>1, <2>1, <2>3 DEF FinBegin
  <2>4. CASE FinHeal(p)
    BY <1>1, <2>2, <2>4 DEF FinHeal
  <2>5. CASE FinRecord(p)
    BY <1>1, <2>2, <2>5 DEF FinRecord
  <2>6. CASE FinStore(p) \/ FinHealed(p) \/ FinStep(p)
    BY <2>6 DEF FinStore, FinHealed, FinStep
  <2>7. CASE FinRaised(p) \/ FinComplete(p) \/ Crash(p)
    BY <1>3, <1>4, <2>7 DEF FinRaised, FinComplete, Crash
  <2> QED BY <1>9, <2>3, <2>4, <2>5, <2>6, <2>7
<1> QED BY <1>5, <1>6, <1>7, <1>8, <1>9 DEF Step, Arrive, Proceed

\* A new state is a new session's, or of the session that one of the states
\* already there is of, and attested like it or because the ledger says so.
LEMMA BackedState ==
    ASSUME FencedInv, Signed, AllBacked, NEW p \in Procs, Step(p)
    PROVE  state'.attested => state'.session \in ledger
<1> USE DEF FencedInv
<1>0. state \in State /\ mem[p] \in Memory /\ mem[p].copy \in State
  BY DEF Typed, TypeOK, Local, Memory
<1>1. ASSUME NEW st \in State, Save(st)
      PROVE  state'.attested = st.attested /\ state'.session = st.session
  BY <1>1 DEF Save, State
<1>2. CASE state' = state
  BY <1>2 DEF AllBacked, Backed
<1>3. CASE StartSave(p)
  <2>1. ASSUME NEW s, NEW t, StartSaved(p, s, t) PROVE ~state'.attested
    BY <2>1 DEF StartSaved
  <2> QED BY <1>2, <1>3, <2>1 DEF StartSave
<1>4. CASE OpAdmit(p)
  <2>1. ASSUME NEW st \in Reconciled(state)
        PROVE  st.attested => st.session \in ledger
    BY <1>0, <2>1 DEF Reconciled, State, AllBacked, Backed
  <2>2. \A st \in Reconciled(state) : st \in State
    BY <1>0, ReconciledTyped
  <2> QED BY <1>1, <1>2, <1>4, <2>1, <2>2 DEF OpAdmit
<1>5. CASE OpFinish(p)
  <2> SUFFICES ASSUME state' # state PROVE state'.attested => state'.session \in ledger
    BY <1>2
  <2>1. PICK st \in Outcomes(p) : Save(st)
    BY <1>5 DEF OpFinish, Finish
  <2>2. Unchanged(mem[p].session, mem[p].rev) /\ Reaches(mem[p].session)
    BY <1>5 DEF OpFinish, Finish
  <2>3. st \in State
    BY <1>0, OutcomesTyped
  <2>4. st.session = state.session
    BY <1>0 DEF Outcomes, State
  <2>5. CASE pc[p] = "sealed"
    <3>1. mem[p].rev = state.rev /\ state.rev \in Nat
      BY <1>0, <2>2 DEF Unchanged, State
    <3>2. mem[p].session \in ledger
      BY <2>2, <2>5, <3>1 DEF Signed, Reaches
    <3> QED BY <1>1, <2>1, <2>2, <2>3, <2>4, <3>2 DEF Unchanged
  <2>6. CASE pc[p] # "sealed"
    <3>1. st.attested = state.attested
      BY <1>0, <2>6 DEF Outcomes, State
    <3> QED BY <1>1, <2>1, <2>3, <2>4, <3>1 DEF AllBacked, Backed
  <2> QED BY <2>5, <2>6
<1>6. CASE Overwrite(p)
  BY <1>0, <1>1, <1>2, <1>6 DEF Overwrite, AllBacked, Backed
<1>7. CASE ResumeRotate(p)
  <2>1. \A t \in Tokens : \A st \in Rotated(t) :
            st \in State /\ st.session = state.session /\ st.attested = state.attested
    BY <1>0, RotatedTyped DEF Rotated, State
  <2> QED BY <1>1, <1>2, <1>7, <2>1 DEF ResumeRotate, AllBacked, Backed
<1>8. CASE FinStep(p)
  <2> DEFINE st == [state EXCEPT !.ended = TRUE]
  <2>1. st \in State /\ st.session = state.session /\ st.attested = state.attested
    BY <1>0 DEF State
  <2>2. state' = state \/ Save(st)
    BY <1>8 DEF FinStep, EndState, Clean, Unregister
  <2> HIDE DEF st
  <2> QED BY <1>1, <1>2, <2>1, <2>2 DEF AllBacked, Backed
<1>9. CASE Arrive(p)
  BY <1>2, <1>9 DEF Arrive, StartLoad, OpBegin, ResetBegin, AnswerLoad, Resume, End, CliEnd,
              RecoverBegun, RecoverOpen, RecoverAgain
<1>10. CASE \/ StartReload(p) \/ StartRegister(p) \/ OpCheck(p) \/ OpCapture(p)
            \/ AttestRead(p) \/ AttestCommit(p) \/ ApplyBlocked(p)
            \/ ResetLoad(p) \/ ResetCheck(p) \/ ResumeCapture(p) \/ EndLookup(p)
            \/ FinBegin(p) \/ FinStore(p)
           \/ FinHeal(p) \/ FinHealed(p)
            \/ FinRecord(p) \/ FinRaised(p) \/ FinComplete(p) \/ Crash(p)
  BY <1>2, <1>10 DEF StartReload, StartRegister, OpCheck, OpCapture, AttestRead,
              AttestCommit, ApplyBlocked, ResetLoad, ResetCheck, ResumeCapture, EndLookup, FinBegin, FinStore,
              FinHeal, FinHealed, FinRecord, FinRaised, FinComplete, Crash
<1> QED BY <1>3, <1>4, <1>5, <1>6, <1>7, <1>8, <1>9, <1>10 DEF Step, Proceed

LEMMA BackedStep ==
    ASSUME FencedInv, Signed, AllBacked, NEW p \in Procs, Step(p)
    PROVE  AllBacked'
<1>1. ledger \subseteq ledger'
  BY LedgerGrows DEF FencedInv
<1>2. Backed(state)'
  BY <1>1, BackedState DEF Backed
<1>3. ASSUME NEW q \in Procs PROVE Backed(mem[q].copy)'
  <2>1. CASE q = p
    BY <1>1, <2>1, StepCopy DEF FencedInv, AllBacked, Backed, NoState
  <2>2. CASE q # p
    BY <1>1, <2>2, StepLocal DEF FencedInv, AllBacked, Backed
  <2> QED BY <2>1, <2>2
<1> QED BY <1>2, <1>3 DEF AllBacked

BackedInv == FencedInv /\ Fresh /\ Bidden /\ Signed /\ AllBacked

LEMMA BackedInit == Init => BackedInv
BY FencedInit
   DEF Init, BackedInv, Fresh, Bidden, Signed, AllBacked, Backed, OnBehalf, Captured,
       Calling, NoState, Empty

LEMMA BackedNext == BackedInv /\ [Next]_vars => BackedInv'
<1> SUFFICES ASSUME BackedInv, [Next]_vars PROVE BackedInv'
  OBVIOUS
<1>1. FencedInv'
  BY FencedNext DEF BackedInv
<1>2. CASE UNCHANGED vars
  BY <1>1, <1>2 DEF BackedInv, vars, Fresh, Bidden, Signed, AllBacked, Backed, OnBehalf
<1>3. CASE \E p \in Procs : Step(p)
  BY <1>1, <1>3, FreshStep, BiddenStep, SignedStep, BackedStep DEF BackedInv, FencedInv
<1> QED BY <1>2, <1>3 DEF Next, Step

\* No crash between a signature and the state, no retry and no stale copy makes
\* a session count as attested without an attestation of it in the ledger.
THEOREM AttestationBacked == Spec => []AttestedBacked
<1>1. BackedInv => AttestedBacked
  BY DEF BackedInv, AllBacked, Backed, AttestedBacked
<1> QED BY <1>1, BackedInit, BackedNext, PTL DEF Spec

----------------------------------------------------------------------------
(* A finalization *)

\* The points of a call that ends a session, before and after there is a record.
Ending     == {"end", "begin", "store"}
Finalizing == {"heal", "healed", "step", "record", "raised"}

\* Which steps lead to a point of a start, an overwrite or a finalization.
LEMMA StepTo ==
    ASSUME Typed, NEW p \in Procs, Step(p)
    PROVE  /\ pc'[p] = "open" => StartLoad(p) \/ StartReload(p)
           /\ pc'[p] = "register" => StartSave(p)
           /\ pc'[p] = "reload" => EndLookup(p) \/ FinRaised(p) \/ FinComplete(p)
           /\ pc'[p] \in {"reset", "cursor", "overwrite"} =>
                  ResetBegin(p) \/ ResetLoad(p) \/ ResetCheck(p) \/ AnswerLoad(p)
           /\ pc'[p] = "end" => StartLoad(p) \/ End(p)
           /\ pc'[p] = "begin" => EndLookup(p) \/ CliEnd(p) \/ RecoverOpen(p)
           /\ pc'[p] = "store" => FinBegin(p)
           /\ pc'[p] = "heal" =>
                  \/ EndLookup(p) \/ FinBegin(p) \/ FinStore(p)
                  \/ RecoverBegun(p) \/ \E s \in Sessions : RecoverAgain(p, s)
           /\ pc'[p] = "healed" => FinHeal(p)
           /\ pc'[p] = "step" => FinHeal(p) \/ FinHealed(p) \/ FinRecord(p)
           /\ pc'[p] \in {"record", "raised"} => FinStep(p)
<1>1. ASSUME NEW point, Goto(p, point) PROVE pc'[p] = point
  BY <1>1 DEF Goto, Typed, Local
<1>2. Return(p) => pc'[p] = "idle"
  BY <1>1 DEF Return
<1>3. Ended(p) => pc'[p] \in {"idle", "reload"}
  BY <1>1, <1>2 DEF Ended
<1>4. CASE StartLoad(p) \/ StartReload(p) \/ StartSave(p) \/ StartRegister(p)
  BY <1>1, <1>2, <1>4 DEF StartLoad, StartReload, StartSave, StartSaved, StartRegister
<1>5. CASE \/ OpBegin(p) \/ OpAdmit(p) \/ OpCheck(p) \/ OpFinish(p) \/ OpCapture(p)
           \/ AttestRead(p) \/ AttestCommit(p) \/ ApplyBlocked(p)
  BY <1>1, <1>2, <1>5 DEF OpBegin, OpAdmit, OpCheck, OpFinish, Finish, OpCapture,
                          AttestRead, AttestCommit, ApplyBlocked
<1>6. CASE ResetBegin(p) \/ ResetLoad(p) \/ ResetCheck(p) \/ AnswerLoad(p) \/ Overwrite(p)
  BY <1>1, <1>2, <1>6 DEF ResetBegin, ResetLoad, ResetCheck, AnswerLoad, Overwrite
<1>7. CASE Resume(p) \/ ResumeCapture(p) \/ ResumeRotate(p)
  BY <1>1, <1>2, <1>7 DEF Resume, ResumeCapture, ResumeRotate
<1>8. CASE End(p) \/ EndLookup(p) \/ CliEnd(p)
  BY <1>1, <1>3, <1>8 DEF End, EndLookup, CliEnd
<1>9. CASE RecoverBegun(p) \/ RecoverOpen(p) \/ \E s \in Sessions : RecoverAgain(p, s)
  BY <1>1, <1>9 DEF RecoverBegun, RecoverOpen, RecoverAgain, TakeUp
<1>10. CASE FinBegin(p) \/ FinStore(p) \/ FinHeal(p) \/ FinHealed(p)
  BY <1>1, <1>10 DEF FinBegin, FinStore, FinHeal, FinHealed
<1>11. CASE FinStep(p)
  BY <1>1, <1>11 DEF FinStep, EndState, Clean, Unregister
<1>12. CASE FinRecord(p) \/ FinRaised(p) \/ FinComplete(p) \/ Crash(p)
  BY <1>1, <1>2, <1>3, <1>12 DEF FinRecord, FinRaised, FinComplete, Crash
<1> QED BY <1>4, <1>5, <1>6, <1>7, <1>8, <1>9, <1>10, <1>11, <1>12
        DEF Step, Arrive, Proceed

\* How a session comes to the points before its record: a start finds it failed, a
\* caller was handed it, it is bound, named on a terminal, or recovered.
LEMMA StepEnding ==
    ASSUME Typed, NEW p \in Procs, Step(p), pc'[p] \in Ending
    PROVE  /\ UNCHANGED <<state, row, journal, opened, issued>>
           /\ mem'[p].steps = {} \/ (pc[p] \in Ending /\ mem'[p].steps = mem[p].steps)
           /\ \/ /\ StartLoad(p) /\ Active(state)
                 /\ pc'[p] = "end" /\ mem'[p].session = state.session
                 /\ mem'[p].token = NoToken /\ mem'[p].then = "reload"
              \/ /\ pc'[p] = "end" /\ mem'[p].then = "idle"
                 /\ \E c \in issued : mem'[p].session = c.session
              \/ /\ EndLookup(p) /\ pc'[p] = "begin"
                 /\ Bound(mem[p].session, mem[p].token)
                 /\ mem'[p].session = mem[p].session
                 /\ mem'[p].steps = mem[p].steps /\ mem'[p].then = mem[p].then
              \/ /\ CliEnd(p) /\ Active(state)
                 /\ mem'[p].session = state.session /\ mem'[p].then = "idle"
              \/ /\ pc'[p] = "begin" /\ mem'[p].then = "idle"
                 /\ row.session = mem'[p].session /\ mem'[p].session \in opened
              \/ /\ FinBegin(p) /\ pc'[p] = "store" /\ UNCHANGED mem
<1>0. mem[p] \in Memory /\ mem \in [Procs -> Memory]
  BY DEF Typed, TypeOK, Local
<1>1. ASSUME NEW m, Hold(p, m) PROVE mem'[p] = m
  BY <1>0, <1>1 DEF Hold
<1>2. ASSUME NEW point, Goto(p, point) PROVE pc'[p] = point
  BY <1>2 DEF Goto, Typed, Local
<1>3. CASE StartLoad(p)
  BY <1>1, <1>2, <1>3 DEF StartLoad, Ending, Empty
<1>4. CASE End(p)
  BY <1>1, <1>2, <1>4 DEF End, Ending, Empty
<1>5. CASE EndLookup(p)
  <2>1. ~Ended(p) /\ pc'[p] # "heal"
    BY <1>2 DEF Ended, Return, Ending
  <2>2. /\ Bound(mem[p].session, mem[p].token)
        /\ pc'[p] = "begin"
        /\ Hold(p, [mem[p] EXCEPT !.token = state.token])
    BY <1>2, <1>5, <2>1 DEF EndLookup
  <2>3. mem'[p] = [mem[p] EXCEPT !.token = state.token]
    BY <1>1, <2>2
  <2> QED BY <1>0, <1>5, <2>2, <2>3 DEF EndLookup, Ending, Memory
<1>6. CASE CliEnd(p)
  BY <1>1, <1>2, <1>6 DEF CliEnd, Ending, Empty
<1>7. CASE RecoverOpen(p)
  BY <1>1, <1>2, <1>7 DEF RecoverOpen, Ending, Empty
<1>8. CASE FinBegin(p)
  BY <1>2, <1>8 DEF FinBegin, Ending
<1> QED BY <1>3, <1>4, <1>5, <1>6, <1>7, <1>8, StepTo DEF Ending

\* A finalization takes up a record, or begins one, and goes through its steps.
LEMMA StepFinalizing ==
    ASSUME Typed, NEW p \in Procs, Step(p), pc'[p] \in Finalizing
    PROVE  \/ /\ pc'[p] = "heal"
              /\ mem'[p].session \in Sessions
              /\ journal[mem'[p].session] # None
              /\ mem'[p].steps = journal[mem'[p].session].steps
              /\ \/ mem'[p].then = "idle"
                 \/ /\ pc[p] \in Ending
                    /\ mem'[p].session = mem[p].session /\ mem'[p].then = mem[p].then
              /\ UNCHANGED <<state, row, journal, opened>>
           \/ FinStore(p) /\ pc'[p] = "heal"
           \/ /\ FinHeal(p) /\ pc'[p] \in {"healed", "step"}
              /\ mem'[p].session = mem[p].session /\ mem'[p].then = mem[p].then
              /\ mem'[p].steps \subseteq mem[p].steps
              /\ mem[p].steps \ {"state_ended"} \subseteq mem'[p].steps
              /\ \/ "state_ended" \notin mem[p].steps
                 \/ state.session = mem[p].session /\ ~state.ended
                 \/ mem'[p].steps = mem[p].steps
           \/ FinHealed(p) /\ pc'[p] = "step"
           \/ FinStep(p) /\ pc'[p] \in {"record", "raised"}
           \/ /\ FinRecord(p) /\ pc'[p] = "step"
              /\ mem'[p].session = mem[p].session /\ mem'[p].then = mem[p].then
              /\ mem'[p].steps = mem[p].steps \cup {NextStep(p)}
<1>0. mem[p] \in Memory /\ mem \in [Procs -> Memory]
  BY DEF Typed, TypeOK, Local
<1>1. ASSUME NEW m, Hold(p, m) PROVE mem'[p] = m
  BY <1>0, <1>1 DEF Hold
<1>2. ASSUME NEW point, Goto(p, point) PROVE pc'[p] = point
  BY <1>2 DEF Goto, Typed, Local
<1>3. ASSUME NEW s,
             Hold(p, [mem[p] EXCEPT !.token = journal[s].token, !.steps = journal[s].steps])
      PROVE  /\ mem'[p].session = mem[p].session /\ mem'[p].then = mem[p].then
             /\ mem'[p].steps = journal[s].steps
  <2>1. mem'[p] = [mem[p] EXCEPT !.token = journal[s].token, !.steps = journal[s].steps]
    BY <1>1, <1>3
  <2> QED BY <1>0, <2>1 DEF Memory
<1>4. CASE EndLookup(p)
  <2>1. ~Ended(p) /\ pc'[p] # "begin"
    BY <1>2 DEF Ended, Return, Finalizing
  <2>2. /\ journal[mem[p].session] # None
        /\ pc'[p] = "heal"
        /\ Hold(p, [mem[p] EXCEPT !.token = journal[mem[p].session].token,
                                  !.steps = journal[mem[p].session].steps])
    BY <1>2, <1>4, <2>1 DEF EndLookup
  <2>3. pc[p] = "end" /\ mem[p].session \in Sessions
    BY <1>4 DEF EndLookup, Typed, Local, Settled
  <2> QED BY <1>3, <1>4, <2>2, <2>3 DEF EndLookup, Ending
<1>5. CASE FinBegin(p)
  <2>1. pc[p] = "begin" /\ mem[p].session \in Sessions
    BY <1>5 DEF FinBegin, Typed, Local, Settled
  <2> QED BY <1>2, <1>3, <1>5, <2>1 DEF FinBegin, Ending, Finalizing
<1>6. ASSUME NEW s \in Sessions, TakeUp(p, s), UNCHANGED <<state, row, journal, opened>>
      PROVE  /\ pc'[p] = "heal" /\ mem'[p].then = "idle"
             /\ mem'[p].session = s /\ journal[s] # None
             /\ mem'[p].steps = journal[s].steps
  BY <1>1, <1>2, <1>6 DEF TakeUp, Empty
<1>7. CASE RecoverBegun(p)
  BY <1>6, <1>7 DEF RecoverBegun, Typed, TypeOK
<1>8. CASE \E s \in Sessions : RecoverAgain(p, s)
  BY <1>6, <1>8 DEF RecoverAgain
<1>9. CASE FinHeal(p)
  <2>1. mem'[p] = mem[p] \/ mem'[p] = [mem[p] EXCEPT !.steps = @ \ {"state_ended"}]
    BY <1>1, <1>9 DEF FinHeal
  <2> QED BY <1>0, <1>2, <1>9, <2>1 DEF FinHeal, Memory
<1>10. CASE FinRecord(p)
  <2>1. mem'[p] = [mem[p] EXCEPT !.steps = mem[p].steps \cup {NextStep(p)}]
    BY <1>1, <1>10 DEF FinRecord
  <2> QED BY <1>0, <1>2, <1>10, <2>1 DEF FinRecord, Memory
<1>11. CASE FinStore(p) \/ FinHealed(p) \/ FinStep(p)
  BY <1>2, <1>11 DEF FinStore, FinHealed, FinStep, EndState, Clean, Unregister
<1> QED BY <1>4, <1>5, <1>7, <1>8, <1>9, <1>10, <1>11, StepTo DEF Finalizing

\* Only the session of the call has its record stored, as the call holds it.
LEMMA StepJournal ==
    ASSUME Typed, NEW p \in Procs, Step(p), NEW s \in Sessions, journal'[s] # journal[s]
    PROVE  /\ s = mem[p].session
           /\ UNCHANGED <<state, row, opened>>
           /\ \/ FinStore(p) /\ ~journal'[s].complete /\ journal'[s].steps = {}
              \/ /\ pc[p] = "record"
                 /\ ~journal'[s].complete
                 /\ journal'[s].steps = mem[p].steps \cup {NextStep(p)}
              \/ /\ pc[p] \in {"healed", "raised"}
                 /\ ~journal'[s].complete
                 /\ journal'[s].steps = mem[p].steps
              \/ /\ pc[p] = "step"
                 /\ mem[p].steps = FinSteps
                 /\ journal'[s].steps = FinSteps
<1>1. ASSUME NEW b, NEW n, Store(p, b, n)
      PROVE  s = mem[p].session /\ journal'[s].complete = b /\ journal'[s].steps = n
  BY <1>1 DEF Store, Typed, TypeOK
<1>2. CASE Arrive(p)
  BY <1>2 DEF Arrive, StartLoad, OpBegin, ResetBegin, AnswerLoad, Resume, End, CliEnd,
              RecoverBegun, RecoverOpen, RecoverAgain
<1>3. CASE \/ StartReload(p) \/ StartSave(p) \/ StartRegister(p) \/ OpAdmit(p)
           \/ OpCheck(p) \/ OpCapture(p) \/ AttestRead(p) \/ AttestCommit(p)
           \/ ApplyBlocked(p) \/ OpFinish(p) \/ ResetLoad(p) \/ ResetCheck(p)
           \/ Overwrite(p) \/ ResumeCapture(p) \/ ResumeRotate(p)
  BY <1>3 DEF StartReload, StartSave, StartRegister, OpAdmit, OpCheck, OpCapture,
              AttestRead, AttestCommit, ApplyBlocked, OpFinish, Finish, ResetLoad,
              ResetCheck, Overwrite, ResumeCapture, ResumeRotate
<1>4. CASE EndLookup(p) \/ FinBegin(p) \/ FinHeal(p) \/ FinStep(p) \/ Crash(p)
  BY <1>4 DEF EndLookup, FinBegin, FinHeal, FinStep, Crash
<1>5. CASE FinStore(p) \/ FinHealed(p) \/ FinRecord(p) \/ FinRaised(p) \/ FinComplete(p)
  BY <1>1, <1>5 DEF FinStore, FinHealed, FinRecord, FinRaised, FinComplete
<1> QED BY <1>2, <1>3, <1>4, <1>5 DEF Step, Proceed

----------------------------------------------------------------------------
(* A complete finalization is true of the state *)

Open(s) == state.session = s /\ ~state.ended

\* A session that was open; it is so no more, and will not be again unless a
\* state read while it was open is written back.
Gone(s) == s \in opened /\ (Open(s) => restored)

\* What a call that ends a session holds is true of the state.
EndsTruly(p) ==
    /\ pc[p] \in Ending => mem[p].session \in opened /\ mem[p].steps = {}
    /\ pc[p] \in Finalizing => mem[p].session \in opened
    /\ pc[p] \in Finalizing /\ "state_ended" \in mem[p].steps => Gone(mem[p].session)
    /\ pc[p] = "record" => Gone(mem[p].session)

\* So is its record.
RecordTrue(s) ==
    journal[s] # None =>
        /\ s \in opened
        /\ "state_ended" \in journal[s].steps => Gone(s)
        /\ journal[s].complete => journal[s].steps = FinSteps

\* The state, and each copy of it, is of a session that was opened, or of none.
Known(st) == st.session \in opened \cup {NoSession}

EndedTruly ==
    /\ Known(state)
    /\ \A p \in Procs : Known(mem[p].copy)
    /\ \A s \in Sessions : RecordTrue(s)
    /\ \A p \in Procs : EndsTruly(p)

\* An open session stays the lane's until it is ended; one that takes its place is
\* new, or is brought back by a write that compares nothing.
LEMMA StepOwner ==
    ASSUME Typed, NEW p \in Procs, Step(p)
    PROVE  \/ /\ state'.session = state.session /\ state'.ended = state.ended
              /\ UNCHANGED <<opened, restored>>
           \/ /\ FinStep(p)
              /\ state'.session = state.session /\ state'.ended
              /\ UNCHANGED opened
           \/ /\ StartSave(p)
              /\ Unchanged(mem[p].copy.session, mem[p].copy.rev)
              /\ pc'[p] = "register"
              /\ state'.session \in Sessions \ opened
              /\ ~state'.ended
              /\ opened' = opened \cup {state'.session}
           \/ /\ Overwrite(p) /\ pc'[p] # "overwrite"
              /\ state'.session = mem[p].copy.session
              /\ UNCHANGED opened
              /\ restored' = (Active(state') /\ (restored \/ Reopens))
<1>0. state \in State /\ mem[p] \in Memory
  BY DEF Typed, TypeOK, Local
<1>1. ASSUME NEW st \in State, Save(st)
      PROVE  state'.session = st.session /\ state'.ended = st.ended
  BY <1>1 DEF Save, State
<1>2. CASE StartSave(p)
  <2>1. ASSUME NEW s \in Sessions \ opened, NEW t, StartSaved(p, s, t)
        PROVE  /\ state'.session = s /\ ~state'.ended /\ opened' = opened \cup {s}
               /\ pc'[p] = "register"
    BY <2>1 DEF StartSaved, Goto, Typed, Local
  <2> QED BY <1>2, <2>1 DEF StartSave
<1>3. CASE OpAdmit(p)
  <2>1. ASSUME NEW st \in Reconciled(state)
        PROVE  st \in State /\ st.session = state.session /\ st.ended = state.ended
    BY <1>0, <2>1, ReconciledTyped DEF Reconciled, State
  <2> QED BY <1>1, <1>3, <2>1 DEF OpAdmit
<1>4. CASE OpFinish(p)
  <2>1. ASSUME NEW st \in Outcomes(p)
        PROVE  st \in State /\ st.session = state.session /\ st.ended = state.ended
    BY <1>0, <2>1, OutcomesTyped DEF Outcomes, State
  <2> QED BY <1>1, <1>4, <2>1 DEF OpFinish, Finish
<1>5. CASE Overwrite(p)
  <2>1. pc'[p] # "overwrite" /\ mem[p].copy \in State /\ UNCHANGED opened
    BY <1>0, <1>5 DEF Overwrite, Return, Goto, Typed, Local, Memory
  <2>2. CASE UNCHANGED <<state, restored>>
    BY <2>1, <2>2
  <2>3. CASE Save(mem[p].copy) /\ restored' = (Active(state') /\ (restored \/ Reopens))
    BY <1>1, <1>5, <2>1, <2>3
  <2> QED BY <1>5, <2>2, <2>3 DEF Overwrite
<1>6. CASE ResumeRotate(p)
  <2>1. ASSUME NEW t \in Tokens, NEW st \in Rotated(t)
        PROVE  st \in State /\ st.session = state.session /\ st.ended = state.ended
    BY <1>0, <2>1, RotatedTyped DEF Rotated, State
  <2> QED BY <1>1, <1>6, <2>1 DEF ResumeRotate
<1>7. CASE FinStep(p)
  <2> DEFINE st == [state EXCEPT !.ended = TRUE]
  <2>1. st \in State /\ st.session = state.session /\ st.ended
    BY <1>0 DEF State
  <2>2. \/ UNCHANGED <<state, restored>>
        \/ state' = state /\ state.ended
        \/ Save(st)
    BY <1>7 DEF FinStep, EndState, Clean, Unregister
  <2> HIDE DEF st
  <2> QED BY <1>1, <1>7, <2>1, <2>2 DEF FinStep
<1>8. CASE Arrive(p)
  BY <1>8 DEF Arrive, StartLoad, OpBegin, ResetBegin, AnswerLoad, Resume, End, CliEnd,
              RecoverBegun, RecoverOpen, RecoverAgain
<1>9. CASE \/ StartReload(p) \/ StartRegister(p) \/ OpCheck(p) \/ OpCapture(p)
           \/ AttestRead(p) \/ AttestCommit(p) \/ ApplyBlocked(p)
           \/ ResetLoad(p) \/ ResetCheck(p) \/ ResumeCapture(p) \/ EndLookup(p)
           \/ FinBegin(p) \/ FinStore(p)
           \/ FinHeal(p) \/ FinHealed(p)
           \/ FinRecord(p) \/ FinRaised(p) \/ FinComplete(p) \/ Crash(p)
  BY <1>9 DEF StartReload, StartRegister, OpCheck, OpCapture, AttestRead, AttestCommit,
              ApplyBlocked, ResetLoad, ResetCheck, ResumeCapture, EndLookup, FinBegin, FinStore, FinHeal,
              FinHealed, FinRecord, FinRaised, FinComplete, Crash
<1> QED BY <1>2, <1>3, <1>4, <1>5, <1>6, <1>7, <1>8, <1>9 DEF Step, Proceed

LEMMA GoneStays ==
    ASSUME Typed, NEW p \in Procs, Step(p), NEW s, Gone(s)
    PROVE  Gone(s)'
<1>1. s \in Sessions /\ s # NoSession
  BY LaneConstants DEF Gone, Typed, TypeOK
<1>2. opened \subseteq opened'
  BY StepOwner
<1>3. ASSUME Open(s)' PROVE restored'
  <2>1. CASE /\ state'.session = state.session /\ state'.ended = state.ended
             /\ UNCHANGED restored
    BY <1>3, <2>1 DEF Gone, Open
  <2>2. CASE restored' = (Active(state') /\ (restored \/ Reopens))
    <3>1. Active(state') /\ state'.session = s
      BY <1>1, <1>3 DEF Open, Active
    <3>2. CASE Active(state) /\ state.session = s
      BY <2>2, <3>1, <3>2 DEF Gone, Open, Active
    <3>3. CASE ~(Active(state) /\ state.session = s)
      BY <2>2, <3>1, <3>3 DEF Reopens
    <3> QED BY <3>2, <3>3
  <2>3. ~state'.ended /\ state'.session = s
    BY <1>3 DEF Open
  <2>4. state'.session \notin Sessions \ opened
    BY <2>3 DEF Gone
  <2> QED BY <2>1, <2>2, <2>3, <2>4, StepOwner
<1> QED BY <1>2, <1>3 DEF Gone

LEMMA KnownStep ==
    ASSUME Typed, EndedTruly, NEW p \in Procs, Step(p)
    PROVE  Known(state)' /\ \A q \in Procs : Known(mem[q].copy)'
<1>1. opened \subseteq opened'
  BY StepOwner
<1>2. Known(state)'
  BY <1>1, StepOwner DEF EndedTruly, Known
<1>3. ASSUME NEW q \in Procs PROVE Known(mem[q].copy)'
  <2>1. CASE q # p
    BY <1>1, <2>1, StepLocal DEF EndedTruly, Known
  <2>2. CASE q = p
    BY <1>1, <2>2, StepCopy DEF EndedTruly, Known, NoState
  <2> QED BY <2>1, <2>2
<1> QED BY <1>2, <1>3

LEMMA EndsTrulyStep ==
    ASSUME Typed, Fresh, EndedTruly, NEW p \in Procs, Step(p)
    PROVE  EndsTruly(p)'
<1>0. opened \subseteq opened'
  BY StepOwner
<1>1. CASE pc'[p] \in Ending
  <2>1. mem'[p].steps = {}
    BY <1>1, StepEnding DEF EndedTruly, EndsTruly
  <2>2. mem'[p].session \in opened
    <3>1. ASSUME Active(state) PROVE state.session \in opened
      BY <3>1 DEF EndedTruly, Known, Active
    <3> QED BY <1>1, <3>1, StepEnding DEF EndedTruly, EndsTruly, EndLookup, FinBegin, Fresh, Ending
  <2> QED BY <1>0, <1>1, <2>1, <2>2 DEF EndsTruly, Ending, Finalizing
<1>2. CASE pc'[p] \in Finalizing
  <2>1. CASE /\ pc'[p] = "heal"
             /\ mem'[p].session \in Sessions
             /\ journal[mem'[p].session] # None
             /\ mem'[p].steps = journal[mem'[p].session].steps
    BY <1>0, <2>1, GoneStays DEF EndedTruly, RecordTrue, EndsTruly, Ending
  <2>2. CASE FinStore(p) /\ pc'[p] = "heal"
    BY <1>0, <2>2 DEF FinStore, EndedTruly, EndsTruly, Ending
  <2>3. CASE /\ FinHeal(p) /\ pc'[p] \in {"healed", "step"}
             /\ mem'[p].session = mem[p].session
             /\ mem'[p].steps \subseteq mem[p].steps
    BY <1>0, <2>3, GoneStays DEF FinHeal, EndedTruly, EndsTruly, Finalizing, Ending
  <2>4. CASE FinHealed(p) /\ pc'[p] = "step"
    BY <1>0, <2>4, GoneStays DEF FinHealed, EndedTruly, EndsTruly, Finalizing, Ending
  <2>5. CASE FinStep(p) /\ pc'[p] \in {"record", "raised"}
    <3>1. mem' = mem /\ pc[p] = "step" /\ opened' = opened
      BY <2>5 DEF FinStep
    <3>2. mem[p].session \in opened /\ ("state_ended" \in mem[p].steps => Gone(mem[p].session))
      BY <3>1 DEF EndedTruly, EndsTruly, Finalizing
    <3>3. ASSUME pc'[p] = "record", "state_ended" \notin mem[p].steps
          PROVE  Gone(mem[p].session)'
      <4>1. NextStep(p) = "state_ended"
        BY <3>3 DEF NextStep
      <4>2. ~Goto(p, "raised")
        BY <3>3 DEF Goto, Typed, Local
      <4>3. EndState(p) /\ state.session = mem[p].session
        BY <2>5, <4>1, <4>2 DEF FinStep, EndState, Clean, Unregister
      <4>4. state'.ended
        BY <2>5, <4>3 DEF FinStep, EndState, Save, Typed, TypeOK, State
      <4> QED BY <3>1, <3>2, <4>4 DEF Gone, Open
    <3> QED BY <1>0, <2>5, <3>1, <3>2, <3>3, GoneStays DEF EndsTruly, Ending
  <2>6. CASE /\ FinRecord(p) /\ pc'[p] = "step"
             /\ mem'[p].session = mem[p].session
    BY <1>0, <2>6, GoneStays DEF FinRecord, EndedTruly, EndsTruly, Finalizing, Ending
  <2> QED BY <1>2, <2>1, <2>2, <2>3, <2>4, <2>5, <2>6, StepFinalizing
<1> QED BY <1>1, <1>2 DEF EndsTruly, Finalizing

LEMMA RecordTrueStep ==
    ASSUME Typed, EndedTruly, NEW p \in Procs, Step(p), NEW s \in Sessions
    PROVE  RecordTrue(s)'
<1>0. opened \subseteq opened'
  BY StepOwner
<1>1. CASE journal'[s] = journal[s]
  BY <1>0, <1>1, GoneStays DEF EndedTruly, RecordTrue
<1>2. CASE journal'[s] # journal[s]
  <2>1. EndsTruly(p) /\ s = mem[p].session
    BY <1>2, StepJournal DEF EndedTruly
  <2> QED BY <1>0, <1>2, <2>1, StepJournal, GoneStays
          DEF EndsTruly, RecordTrue, Finalizing, Ending, FinStore, FinSteps
<1> QED BY <1>1, <1>2

LEMMA EndedTrulyStep ==
    ASSUME Typed, Fresh, EndedTruly, NEW p \in Procs, Step(p)
    PROVE  EndedTruly'
<1>1. ASSUME NEW q \in Procs, q # p PROVE EndsTruly(q)'
  <2>1. pc'[q] = pc[q] /\ mem'[q] = mem[q] /\ EndsTruly(q)
    BY <1>1, StepLocal DEF EndedTruly
  <2> QED BY <2>1, StepOwner, GoneStays DEF EndsTruly
<1>2. ASSUME NEW q \in Procs PROVE EndsTruly(q)'
  BY <1>1, EndsTrulyStep
<1> QED BY <1>2, KnownStep, RecordTrueStep DEF EndedTruly

EndedInv == BackedInv /\ EndedTruly

LEMMA EndedInit == Init => EndedInv
BY BackedInit
   DEF Init, EndedInv, EndedTruly, EndsTruly, RecordTrue, Known, Ending, Finalizing,
       NoState, Empty

LEMMA EndedNext == EndedInv /\ [Next]_vars => EndedInv'
<1> SUFFICES ASSUME EndedInv, [Next]_vars PROVE EndedInv'
  OBVIOUS
<1>1. BackedInv' /\ Typed /\ Fresh
  BY BackedNext DEF EndedInv, BackedInv, FencedInv
<1>2. CASE UNCHANGED vars
  BY <1>1, <1>2
     DEF EndedInv, vars, EndedTruly, EndsTruly, RecordTrue, Known, Gone, Open
<1>3. CASE \E p \in Procs : Step(p)
  BY <1>1, <1>3, EndedTrulyStep DEF EndedInv
<1> QED BY <1>2, <1>3 DEF Next, Step

\* A session whose finalization is recorded as complete is not open, whoever ended
\* it, crashed over it or retried, unless a write that compares nothing has brought
\* back a state in which it was open.
THEOREM ClosedEnds == Spec => []ClosedIsEnded
<1>1. EndedInv => ClosedIsEnded
  BY DEF EndedInv, EndedTruly, RecordTrue, ClosedIsEnded, Closed, Active, Gone, Open, FinSteps
<1> QED BY <1>1, EndedInit, EndedNext, PTL DEF Spec

----------------------------------------------------------------------------
(* A complete finalization is true of the registry *)

\* The finalization of s has begun and its row is off; if it comes back, it was
\* written late.
Off(s) == journal[s] # None /\ (row.session = s /\ row.active => late)

UnlistsTruly(p) ==
    /\ pc[p] \in Ending => mem[p].steps = {}
    /\ pc[p] \in Finalizing => journal[mem[p].session] # None
    /\ pc[p] \in Finalizing /\ "lane_unregistered" \in mem[p].steps => Off(mem[p].session)
    /\ pc[p] = "record" /\ {"state_ended", "cleaned"} \subseteq mem[p].steps =>
           Off(mem[p].session)

RecordUnlists(s) ==
    journal[s] # None =>
        /\ "lane_unregistered" \in journal[s].steps => Off(s)
        /\ journal[s].complete => journal[s].steps = FinSteps

UnlistedTruly ==
    /\ \A s \in Sessions : RecordUnlists(s)
    /\ \A p \in Procs : UnlistsTruly(p)

LEMMA StepRow ==
    ASSUME Typed, NEW p \in Procs, Step(p)
    PROVE  \/ UNCHANGED <<row, late>>
           \/ row'.session = mem[p].session /\ late' = (journal[mem[p].session] # None)
           \/ ~row'.active
<1>1. CASE Arrive(p)
  BY <1>1 DEF Arrive, StartLoad, OpBegin, ResetBegin, AnswerLoad, Resume, End, CliEnd,
              RecoverBegun, RecoverOpen, RecoverAgain
<1>2. CASE \/ StartReload(p) \/ StartSave(p) \/ StartRegister(p) \/ OpAdmit(p)
           \/ OpCheck(p) \/ OpCapture(p) \/ AttestRead(p) \/ AttestCommit(p)
           \/ ApplyBlocked(p) \/ OpFinish(p) \/ ResetLoad(p) \/ ResetCheck(p)
           \/ Overwrite(p) \/ ResumeCapture(p) \/ ResumeRotate(p)
  BY <1>2 DEF StartReload, StartSave, StartRegister, OpAdmit, OpCheck, OpCapture,
              AttestRead, AttestCommit, ApplyBlocked, OpFinish, Finish, ResetLoad,
              ResetCheck, Overwrite, ResumeCapture, ResumeRotate
<1>3. CASE FinStep(p)
  BY <1>3 DEF FinStep, EndState, Clean, Unregister, Typed, TypeOK
<1>4. CASE \/ EndLookup(p) \/ FinBegin(p) \/ FinStore(p) \/ FinHeal(p) \/ FinHealed(p)
           \/ FinRecord(p) \/ FinRaised(p) \/ FinComplete(p) \/ Crash(p)
  BY <1>4 DEF EndLookup, FinBegin, FinStore, FinHeal, FinHealed, FinRecord, FinRaised,
              FinComplete, Crash
<1> QED BY <1>1, <1>2, <1>3, <1>4 DEF Step, Proceed

\* A record is replaced, never removed.
LEMMA StoreKeeps ==
    ASSUME Typed, NEW p \in Procs, mem[p].session \in Sessions,
           NEW b \in BOOLEAN, NEW n \in SUBSET FinSteps, Store(p, b, n)
    PROVE  /\ journal'[mem[p].session] # None
           /\ \A s \in Sessions : journal[s] # None => journal'[s] # None
<1>1. [token |-> mem[p].token, complete |-> b, steps |-> n] \in Record
  BY DEF Record, Memory, Typed, Local
<1> QED BY <1>1, NoneIsNoRecord DEF Store, Typed, TypeOK

LEMMA JournalStays ==
    ASSUME Typed, NEW p \in Procs, Step(p)
    PROVE  /\ \A s \in Sessions : journal[s] # None => journal'[s] # None
           /\ FinStore(p) => journal'[mem[p].session] # None
<1>0. mem[p] \in Memory /\ mem[p].steps \in SUBSET FinSteps
  BY DEF Typed, Local, Memory
<1>1. ASSUME ~(FinStore(p) \/ FinHealed(p) \/ FinRecord(p) \/ FinRaised(p) \/ FinComplete(p))
      PROVE  journal' = journal
  <2>1. CASE Arrive(p)
    BY <2>1 DEF Arrive, StartLoad, OpBegin, ResetBegin, AnswerLoad, Resume, End, CliEnd,
                RecoverBegun, RecoverOpen, RecoverAgain
  <2>2. CASE \/ StartReload(p) \/ StartSave(p) \/ StartRegister(p) \/ OpAdmit(p)
             \/ OpCheck(p) \/ OpCapture(p) \/ AttestRead(p) \/ AttestCommit(p)
             \/ ApplyBlocked(p) \/ OpFinish(p) \/ ResetLoad(p) \/ ResetCheck(p)
             \/ Overwrite(p) \/ ResumeCapture(p) \/ ResumeRotate(p)
    BY <2>2 DEF StartReload, StartSave, StartRegister, OpAdmit, OpCheck, OpCapture,
                AttestRead, AttestCommit, ApplyBlocked, OpFinish, Finish, ResetLoad,
                ResetCheck, Overwrite, ResumeCapture, ResumeRotate
  <2>3. CASE EndLookup(p) \/ FinBegin(p) \/ FinHeal(p) \/ FinStep(p) \/ Crash(p)
    BY <2>3 DEF EndLookup, FinBegin, FinHeal, FinStep, Crash
  <2> QED BY <1>1, <2>1, <2>2, <2>3 DEF Step, Proceed
<1>2. ASSUME FinStore(p) \/ FinHealed(p) \/ FinRecord(p) \/ FinRaised(p) \/ FinComplete(p)
      PROVE  /\ mem[p].session \in Sessions
             /\ \E b \in BOOLEAN, n \in SUBSET FinSteps : Store(p, b, n)
  <2>1. NextStep(p) \in FinSteps
    BY DEF NextStep, FinSteps
  <2>2. mem[p].session \in Sessions
    BY <1>2 DEF FinStore, FinHealed, FinRecord, FinRaised, FinComplete, Typed, Local, Settled
  <2> QED BY <1>0, <1>2, <2>1, <2>2 DEF FinStore, FinHealed, FinRecord, FinRaised, FinComplete
<1>3. CASE FinStore(p) \/ FinHealed(p) \/ FinRecord(p) \/ FinRaised(p) \/ FinComplete(p)
  BY <1>2, <1>3, StoreKeeps
<1> QED BY <1>1, <1>3

LEMMA OffStays ==
    ASSUME Typed, NEW p \in Procs, Step(p), NEW s \in Sessions, Off(s)
    PROVE  Off(s)'
<1>1. journal'[s] # None
  BY JournalStays DEF Off
<1>2. row'.session = s /\ row'.active => late'
  BY StepRow DEF Off
<1> QED BY <1>1, <1>2 DEF Off

LEMMA UnlistsTrulyStep ==
    ASSUME Typed, UnlistedTruly, NEW p \in Procs, Step(p)
    PROVE  UnlistsTruly(p)'
<1>0. UnlistsTruly(p)
  BY DEF UnlistedTruly
<1>1. CASE pc'[p] \in Ending
  <2>1. mem'[p].steps = {}
    BY <1>0, <1>1, StepEnding DEF UnlistsTruly
  <2> QED BY <1>1, <2>1 DEF UnlistsTruly, Ending, Finalizing
<1>2. CASE pc'[p] \in Finalizing
  <2>0. mem[p].session \in Sessions \/ pc[p] \notin {"store"} \cup Finalizing
    BY DEF Typed, Local, Settled, Finalizing
  <2>1. CASE /\ pc'[p] = "heal"
             /\ mem'[p].session \in Sessions
             /\ journal[mem'[p].session] # None
             /\ mem'[p].steps = journal[mem'[p].session].steps
    BY <2>1, JournalStays, OffStays DEF UnlistedTruly, RecordUnlists, UnlistsTruly, Ending
  <2>2. CASE FinStore(p) /\ pc'[p] = "heal"
    BY <1>0, <2>2, JournalStays DEF FinStore, UnlistsTruly, Ending
  <2>3. CASE /\ FinHeal(p) /\ pc'[p] \in {"healed", "step"}
             /\ mem'[p].session = mem[p].session
             /\ mem'[p].steps \subseteq mem[p].steps
    BY <1>0, <2>0, <2>3, JournalStays, OffStays DEF FinHeal, UnlistsTruly, Finalizing, Ending
  <2>4. CASE FinHealed(p) /\ pc'[p] = "step"
    BY <1>0, <2>0, <2>4, JournalStays, OffStays DEF FinHealed, UnlistsTruly, Finalizing, Ending
  <2>5. CASE FinStep(p) /\ pc'[p] \in {"record", "raised"}
    <3>1. mem' = mem /\ pc[p] = "step" /\ journal' = journal
      BY <2>5 DEF FinStep
    <3>2. /\ journal[mem[p].session] # None
          /\ "lane_unregistered" \in mem[p].steps => Off(mem[p].session)
      BY <1>0, <3>1 DEF UnlistsTruly, Finalizing
    <3>3. ASSUME {"state_ended", "cleaned"} \subseteq mem[p].steps
          PROVE  Off(mem[p].session)'
      <4>1. NextStep(p) = "lane_unregistered"
        BY <3>3 DEF NextStep
      <4>2. Unregister(p)
        BY <2>5, <4>1 DEF FinStep, EndState, Clean
      <4>3. ~(row'.session = mem[p].session /\ row'.active)
        BY <4>2 DEF Unregister, Typed, TypeOK
      <4> QED BY <3>1, <3>2, <4>3 DEF Off
    <3> QED BY <2>0, <2>5, <3>1, <3>2, <3>3, OffStays DEF UnlistsTruly, Ending, Finalizing
  <2>6. CASE /\ FinRecord(p) /\ pc'[p] = "step"
             /\ mem'[p].session = mem[p].session
             /\ mem'[p].steps = mem[p].steps \cup {NextStep(p)}
    <3>1. ASSUME "lane_unregistered" \in mem'[p].steps PROVE Off(mem[p].session)
      BY <1>0, <2>6, <3>1 DEF FinRecord, UnlistsTruly, Finalizing, NextStep
    <3> QED BY <1>0, <2>0, <2>6, <3>1, JournalStays, OffStays
            DEF FinRecord, UnlistsTruly, Finalizing, Ending
  <2> QED BY <1>2, <2>1, <2>2, <2>3, <2>4, <2>5, <2>6, StepFinalizing
<1> QED BY <1>1, <1>2 DEF UnlistsTruly, Finalizing, Ending

LEMMA RecordUnlistsStep ==
    ASSUME Typed, UnlistedTruly, NEW p \in Procs, Step(p), NEW s \in Sessions
    PROVE  RecordUnlists(s)'
<1>1. CASE journal'[s] = journal[s]
  BY <1>1, OffStays DEF UnlistedTruly, RecordUnlists
<1>2. CASE journal'[s] # journal[s]
  <2>1. UnlistsTruly(p) /\ s = mem[p].session
    BY <1>2, StepJournal DEF UnlistedTruly
  <2>2. "lane_unregistered" \in journal'[s].steps => Off(s)
    <3>1. NextStep(p) = "lane_unregistered" => {"state_ended", "cleaned"} \subseteq mem[p].steps
      BY DEF NextStep
    <3>2. CASE FinStore(p) /\ journal'[s].steps = {}
      BY <3>2
    <3>3. CASE pc[p] = "record" /\ journal'[s].steps = mem[p].steps \cup {NextStep(p)}
      BY <2>1, <3>1, <3>3 DEF UnlistsTruly, Finalizing
    <3>4. CASE pc[p] \in {"healed", "raised"} /\ journal'[s].steps = mem[p].steps
      BY <2>1, <3>4 DEF UnlistsTruly, Finalizing
    <3>5. CASE pc[p] = "step" /\ mem[p].steps = FinSteps
      BY <2>1, <3>5 DEF UnlistsTruly, Finalizing, FinSteps
    <3> QED BY <1>2, <3>2, <3>3, <3>4, <3>5, StepJournal
  <2>3. journal'[s].complete => journal'[s].steps = FinSteps
    BY <1>2, StepJournal
  <2> QED BY <2>2, <2>3, OffStays DEF RecordUnlists
<1> QED BY <1>1, <1>2

LEMMA UnlistedTrulyStep ==
    ASSUME Typed, UnlistedTruly, NEW p \in Procs, Step(p)
    PROVE  UnlistedTruly'
<1>1. ASSUME NEW q \in Procs, q # p PROVE UnlistsTruly(q)'
  <2>1. pc'[q] = pc[q] /\ mem'[q] = mem[q] /\ UnlistsTruly(q)
    BY <1>1, StepLocal DEF UnlistedTruly
  <2>2. pc[q] \in Finalizing => mem[q].session \in Sessions
    BY DEF Typed, Local, Settled, Finalizing
  <2> QED BY <2>1, <2>2, JournalStays, OffStays DEF UnlistsTruly, Finalizing
<1>2. ASSUME NEW q \in Procs PROVE UnlistsTruly(q)'
  BY <1>1, UnlistsTrulyStep
<1> QED BY <1>2, RecordUnlistsStep DEF UnlistedTruly

UnlistedInv == Typed /\ UnlistedTruly

LEMMA UnlistedInit == Init => UnlistedInv
BY TypeInit
   DEF Init, UnlistedInv, UnlistedTruly, UnlistsTruly, RecordUnlists, Ending, Finalizing

LEMMA UnlistedNext == UnlistedInv /\ [Next]_vars => UnlistedInv'
<1> SUFFICES ASSUME UnlistedInv, [Next]_vars PROVE UnlistedInv'
  OBVIOUS
<1>1. Typed' /\ Typed
  BY TypeStep DEF UnlistedInv
<1>2. CASE UNCHANGED vars
  BY <1>1, <1>2
     DEF UnlistedInv, vars, UnlistedTruly, UnlistsTruly, RecordUnlists, Off
<1>3. CASE \E p \in Procs : Step(p)
  BY <1>1, <1>3, UnlistedTrulyStep DEF UnlistedInv
<1> QED BY <1>2, <1>3 DEF Next, Step

\* A complete finalization leaves no row that lists the session as the lane's,
\* unless the row was written after the finalization had begun, however sessions
\* are ended and whatever is written back.
THEOREM ClosedUnlists == Spec => []ClosedIsUnlisted
<1>1. UnlistedInv => ClosedIsUnlisted
  BY DEF UnlistedInv, UnlistedTruly, RecordUnlists, ClosedIsUnlisted, Closed, Off, FinSteps
<1> QED BY <1>1, UnlistedInit, UnlistedNext, PTL DEF Spec

----------------------------------------------------------------------------
(* The lane refines LaneOwnership, but for two steps *)

\* A start that ended nothing has read the state of a lane without an owner, and
\* it is that state which its compare-and-swap finds or none.
ReadTruly(p) ==
    pc[p] = "open" =>
        /\ Active(mem[p].copy) => mem[p].session # NoSession
        /\ mem[p].copy.rev <= state.rev
        /\ mem[p].copy.rev = state.rev => mem[p].copy = state

LEMMA ReadTrulyStep ==
    ASSUME Typed, NEW p \in Procs, Step(p), NEW q \in Procs, ReadTruly(q)
    PROVE  ReadTruly(q)'
<1>0. /\ state.rev \in Nat /\ mem[q] \in Memory /\ mem[q].copy.rev \in Nat
      /\ mem \in [Procs -> Memory]
  BY DEF Typed, TypeOK, Local, State, Memory
<1>1. CASE q # p
  BY <1>0, <1>1, StepLocal, StepState DEF ReadTruly
<1>2. CASE q = p
  <2> SUFFICES ASSUME pc'[p] = "open"
               PROVE  /\ mem'[p].copy = state /\ state' = state
                      /\ Active(state) => mem'[p].session # NoSession
    BY <1>0, <1>2 DEF ReadTruly
  <2>1. CASE StartLoad(p)
    <3>1. ~Active(state)
      BY <2>1 DEF StartLoad, Goto, Typed, Local
    <3>2. mem'[p] = [Empty EXCEPT !.copy = state]
      BY <1>0, <2>1, <3>1 DEF StartLoad, Hold
    <3> QED BY <2>1, <3>1, <3>2 DEF StartLoad, Empty
  <2>2. CASE StartReload(p)
    <3>1. Reaches(mem[p].session) /\ pc[p] = "reload"
      BY <2>2 DEF StartReload, Return, Goto, Typed, Local
    <3>2. mem'[p] = [mem[p] EXCEPT !.copy = state]
      BY <1>0, <2>2, <3>1 DEF StartReload, Hold
    <3>3. mem[p].session \in Sessions
      BY <3>1 DEF Typed, Local, Settled
    <3> QED BY <1>0, <1>2, <2>2, <3>2, <3>3, LaneConstants DEF StartReload, Memory
  <2> QED BY <2>1, <2>2, StepTo
<1> QED BY <1>1, <1>2

ReadInv == EndedInv /\ \A p \in Procs : ReadTruly(p)

LEMMA ReadInit == Init => ReadInv
BY EndedInit DEF Init, ReadInv, ReadTruly

LEMMA ReadNext == ReadInv /\ [Next]_vars => ReadInv'
<1> SUFFICES ASSUME ReadInv, [Next]_vars PROVE ReadInv'
  OBVIOUS
<1>1. EndedInv' /\ Typed
  BY EndedNext DEF ReadInv, EndedInv, BackedInv, FencedInv
<1>2. CASE UNCHANGED vars
  BY <1>1, <1>2 DEF ReadInv, vars, ReadTruly, Active
<1>3. CASE \E p \in Procs : Step(p)
  BY <1>1, <1>3, ReadTrulyStep DEF ReadInv
<1> QED BY <1>2, <1>3 DEF Next, Step

\* The steps of the lane that OneOwner allows.
LaneStep ==
    \/ Lane!Next
    \/ Lane!Return /\ \E p \in Procs : Restores(p)
    \/ (\E s \in Sessions : Lane!Take(s)) /\ \E p \in Procs : Replaces(p)

LEMMA OwnerStep == ReadInv /\ [Next]_vars => [LaneStep]_(Lane!vars)
<1> SUFFICES ASSUME ReadInv, [Next]_vars PROVE [LaneStep]_(Lane!vars)
  OBVIOUS
<1> DEFINE owner == IF Active(state) THEN state.session ELSE NoSession
<1>0. Typed /\ EndedTruly /\ state \in State
  BY DEF ReadInv, EndedInv, BackedInv, FencedInv, Typed, TypeOK
<1>1. CASE UNCHANGED vars
  BY <1>1 DEF vars, Lane!vars, Active
<1>2. ASSUME NEW p \in Procs, Step(p) PROVE [LaneStep]_(Lane!vars)
  <2>1. CASE /\ state'.session = state.session /\ state'.ended = state.ended
             /\ opened' = opened
    BY <2>1 DEF Active, Lane!vars
  <2>2. CASE state'.session = state.session /\ state'.ended /\ opened' = opened
    <3>1. owner' = NoSession
      BY <2>2 DEF Active
    <3> QED BY <2>2, <3>1 DEF Lane!vars, Lane!Next, Lane!Close, LaneStep
  <2>3. CASE /\ StartSave(p)
             /\ Unchanged(mem[p].copy.session, mem[p].copy.rev)
             /\ pc'[p] = "register"
             /\ state'.session \in Sessions \ opened
             /\ ~state'.ended
             /\ opened' = opened \cup {state'.session}
    <3>1. pc[p] = "open" /\ mem[p].copy = state /\ (Active(state) => mem[p].session # NoSession)
      BY <2>3 DEF StartSave, Unchanged, ReadInv, ReadTruly
    <3>2. owner' = state'.session
      BY <2>3, LaneConstants DEF Active
    <3>3. CASE Active(state)
      <4>1. owner # NoSession
        BY <3>3 DEF Active
      <4>2. Lane!Take(state'.session)
        BY <2>3, <3>2, <4>1 DEF Lane!Take
      <4>3. Replaces(p)
        BY <2>3, <3>1, <3>3 DEF Replaces
      <4> QED BY <2>3, <4>2, <4>3 DEF LaneStep
    <3>4. CASE ~Active(state)
      BY <2>3, <3>2, <3>4 DEF Lane!Next, Lane!Open, LaneStep
    <3> QED BY <3>3, <3>4
  <2>4. CASE /\ Overwrite(p) /\ pc'[p] # "overwrite"
             /\ state'.session = mem[p].copy.session
             /\ opened' = opened
    <3>1. owner' \in opened \cup {NoSession}
      BY <1>0, <2>4 DEF Active, EndedTruly, Known
    <3>2. Restores(p)
      BY <2>4 DEF Overwrite, Restores
    <3> QED BY <2>4, <3>1, <3>2 DEF Lane!Return, LaneStep
  <2> QED BY <1>0, <1>2, <2>1, <2>2, <2>3, <2>4, StepOwner
<1> QED BY <1>1, <1>2 DEF Next, Step

\* Whatever calls interleave, the lane has one owner at a time, each session owns
\* it once, and it is given up before a new session takes it, but for two steps of
\* the code: a write that compares nothing may bring back a session that had the
\* lane, and a start that has ended a failed session may take the lane from another
\* that was opened meanwhile.
THEOREM LaneRefined == Spec => OneOwner
<1>1. Init => Lane!Init
  BY DEF Init, Lane!Init, NoState, Active
<1>2. ReadInv /\ [Next]_vars =>
          [\/ Lane!Next
           \/ Lane!Return /\ \E p \in Procs : Restores(p)
           \/ (\E s \in Sessions : Lane!Take(s)) /\ \E p \in Procs : Replaces(p)]_(Lane!vars)
  BY OwnerStep DEF LaneStep
<1> QED BY <1>1, <1>2, ReadInit, ReadNext, PTL DEF Spec, OneOwner
=============================================================================
