---------------------------- MODULE SessionLane ----------------------------
(***************************************************************************)
(* The life of governed sessions on one lane: session_state.json and its   *)
(* compare-and-swap, the lane's registry row, the finalization journal,    *)
(* and the calls of several processes over them: start, a bound operation  *)
(* (apply, verify, attest, rollback), resume, recover, end.                *)
(*                                                                         *)
(* Each file is rewritten under its own lock, so one read-check-write is   *)
(* one step; everything between two of them can interleave, and a process  *)
(* may die there.  What an operation does to the sources is not modelled:  *)
(* it ends with the result that it records.                                *)
(***************************************************************************)
EXTENDS Naturals, FiniteSets

CONSTANTS
    Procs,      \* processes that serve calls
    Makes,      \* Makes[p]: the calls process p serves
    WorkOps,    \* operations a bound call performs
    Sessions,   \* governed session ids, drawn at random and never reused
    Tokens,     \* capability tokens, drawn at random and never reused
    NoSession, NoToken, None,
    MaxCalls,   \* MaxCalls[p]: bound on the calls of process p
    MaxFaults   \* bound on crashes and on cleanup steps that raise

Calls   == {"start", "op", "end", "cli_end", "resume", "recover", "reset", "answer"}
AllOps  == {"apply", "verify", "attest", "rollback"}
Phases  == {"idle", "apply", "verify", "complete", "blocked"}

ASSUME LaneConstants ==
    /\ Makes \in [Procs -> SUBSET Calls]
    /\ WorkOps \subseteq AllOps
    /\ NoSession \notin Sessions
    /\ NoToken \notin Tokens
    /\ MaxCalls \in [Procs -> Nat]
    /\ MaxFaults \in Nat

VARIABLES
    state,    \* session_state.json
    row,      \* the lane's row in lane_registry.json
    journal,  \* finalizations.json: a record, or None, for each session
    ledger,   \* sessions with a signed attestation in the ledger
    unsigned, \* sessions whose saved apply progress holds a failed signature
    issued,   \* capabilities handed to callers, who may present any of them
    opened,   \* history: session ids drawn
    drawn,    \* history: tokens drawn
    restored, \* history: the lane is open because an old state was written back
    late,     \* history: the row was written after its session's finalization began
    pc,       \* where the call of a process stands
    mem,      \* what that call holds in memory
    calls,    \* calls a process has served
    faults    \* crashes and raised errors so far

vars == <<state, row, journal, ledger, unsigned, issued, opened, drawn, restored, late,
          pc, mem, calls, faults>>
History == <<opened, drawn, restored, late>>

FinSteps == {"state_ended", "cleaned", "lane_unregistered"}

State   == [session : Sessions \cup {NoSession}, ended : BOOLEAN, phase : Phases,
            failed : BOOLEAN, attested : BOOLEAN,
            token : Tokens \cup {NoToken}, rev : Nat]
Record  == [token : Tokens \cup {NoToken}, complete : BOOLEAN, steps : SUBSET FinSteps]
Cap     == [session : Sessions, token : Tokens]
Points  == {"idle", "admit", "check", "capture", "work", "read", "commit", "sealed",
            "unsealed", "open", "register", "reload", "end", "begin", "store", "heal",
            "healed", "step", "record", "raised", "resume", "rotate", "reset", "cursor",
            "overwrite"}
Memory  == [op : AllOps \cup {"none"}, session : Sessions \cup {NoSession},
            token : Tokens \cup {NoToken}, rev : Nat, copy : State,
            steps : SUBSET FinSteps, then : {"idle", "reload", "admit"}]

ASSUME NoneIsNoRecord == None \notin Record

NoState == [session |-> NoSession, ended |-> FALSE, phase |-> "idle", failed |-> FALSE,
            attested |-> FALSE, token |-> NoToken, rev |-> 0]
Empty   == [op |-> "none", session |-> NoSession, token |-> NoToken, rev |-> 0,
            copy |-> NoState, steps |-> {}, then |-> "idle"]

----------------------------------------------------------------------------
(* State and lifecycle *)

Active(st) == st.session # NoSession /\ ~st.ended

\* The lifecycle a phase stands for; a recorded failure comes before it.
PhaseLifecycle ==
    [idle |-> "draft", apply |-> "applying", verify |-> "verifying",
     complete |-> "committed", blocked |-> "failed"]

Lifecycle(st) ==
    IF st.ended THEN "ended"
    ELSE IF st.failed THEN "failed"
    ELSE IF st.attested /\ st.phase = "complete" THEN "attested"
    ELSE PhaseLifecycle[st.phase]

\* The lifecycles an operation is admitted in when enforcement is on.  A saved
\* checkpoint admits a rollback in each of them.
Allowed ==
    [apply    |-> {"draft", "applying", "failed"},
     verify   |-> {"applying", "verifying", "committed", "attested", "ended"},
     attest   |-> {"verifying", "committed"},
     rollback |-> {"draft", "applying", "verifying", "committed", "failed",
                   "attested", "ended"}]

\* A call bound to a session finds the lane through the session's row; once
\* the row names another session, what it reads and writes is no lane's file.
Reaches(s) == row.session = s

\* capture_session_binding: the session the caller names owns the lane, and the
\* token it presents, if it presents one, is the session's token.
Bound(s, t) ==
    /\ row.session = s
    /\ state.session = s
    /\ ~state.ended
    /\ t \in {NoToken, state.token}

\* save_session_state: every write advances the revision.
Save(st) == state' = [st EXCEPT !.rev = state.rev + 1]

\* Its compare-and-swap: the session and the revision are the ones expected.
Unchanged(s, r) == state.session = s /\ state.rev = r

Goto(p, point)    == pc' = [pc EXCEPT ![p] = point]
Hold(p, m)        == mem' = [mem EXCEPT ![p] = m]
Return(p)         == Goto(p, "idle") /\ Hold(p, Empty)
Call(p, c) ==
    /\ c \in Makes[p]
    /\ pc[p] = "idle"
    /\ calls[p] < MaxCalls[p]
    /\ calls' = [calls EXCEPT ![p] = @ + 1]
Fault == faults < MaxFaults /\ faults' = faults + 1

----------------------------------------------------------------------------
(* session_start *)

\* Fault: a failed session is replaced without being ended.
StartLoadUnended(p) ==
    /\ Call(p, "start")
    /\ Active(state) => Lifecycle(state) = "failed"
    /\ Goto(p, "open")
    /\ Hold(p, [Empty EXCEPT !.copy = state])
    /\ UNCHANGED <<state, row, journal, ledger, unsigned, issued, History, faults>>

\* Over an open session: a failed one is ended first, another is a conflict.
StartLoad(p) ==
    /\ Call(p, "start")
    /\ IF Active(state)
       THEN /\ Lifecycle(state) = "failed"
            /\ Goto(p, "end")
            /\ Hold(p, [Empty EXCEPT !.session = state.session, !.then = "reload"])
       ELSE /\ Goto(p, "open")
            /\ Hold(p, [Empty EXCEPT !.copy = state])
    /\ UNCHANGED <<state, row, journal, ledger, unsigned, issued, History, faults>>

\* After ending the failed session the state is read again, through its row.
\* A call whose row is gone opens its session in the lane named "ambiguous".
StartReload(p) ==
    /\ pc[p] = "reload"
    /\ IF Reaches(mem[p].session)
       THEN Goto(p, "open") /\ Hold(p, [mem[p] EXCEPT !.copy = state])
       ELSE Return(p)
    /\ UNCHANGED <<state, row, journal, ledger, unsigned, issued, History, calls, faults>>

StartSaved(p, s, t) ==
    /\ state' = [session |-> s, ended |-> FALSE, phase |-> "idle", failed |-> FALSE,
                 attested |-> FALSE, token |-> t, rev |-> state.rev + 1]
    /\ opened' = opened \cup {s}
    /\ drawn' = drawn \cup {t}
    /\ restored' = FALSE
    /\ Goto(p, "register")
    /\ Hold(p, [Empty EXCEPT !.session = s, !.token = t])

\* Fault: the state is replaced whatever became of the one that was read.
StartSaveUnguarded(p) ==
    /\ pc[p] = "open"
    /\ \E s \in Sessions \ opened, t \in Tokens \ drawn : StartSaved(p, s, t)
    /\ UNCHANGED <<row, journal, ledger, unsigned, issued, late, calls, faults>>

StartSave(p) ==
    /\ pc[p] = "open"
    /\ IF Unchanged(mem[p].copy.session, mem[p].copy.rev)
       THEN \E s \in Sessions \ opened, t \in Tokens \ drawn : StartSaved(p, s, t)
       ELSE Return(p) /\ UNCHANGED <<state, opened, drawn, restored>>
    /\ UNCHANGED <<row, journal, ledger, unsigned, issued, late, calls, faults>>

\* The row is written apart from the state; then the caller gets its capability.
StartRegister(p) ==
    /\ pc[p] = "register"
    /\ row' = [session |-> mem[p].session, active |-> TRUE]
    /\ late' = (journal[mem[p].session] # None)
    /\ issued' = issued \cup {[session |-> mem[p].session, token |-> mem[p].token]}
    /\ Return(p)
    /\ UNCHANGED <<state, journal, ledger, unsigned, opened, drawn, restored, calls, faults>>

----------------------------------------------------------------------------
(* A bound operation *)

OpBegin(p) ==
    /\ Call(p, "op")
    /\ \E c \in issued, o \in WorkOps :
           /\ Bound(c.session, c.token)
           /\ Goto(p, "admit")
           /\ Hold(p, [Empty EXCEPT !.op = o, !.session = c.session, !.token = c.token])
    /\ UNCHANGED <<state, row, journal, ledger, unsigned, issued, History, faults>>

\* A failed signature is settled by hand.  The kind of a recorded failure is
\* not modelled: it may be one of signing.
Blockable(st) == st.failed \/ st.session \in unsigned

\* What reconciliation makes of an open session's state.  A failed signature
\* blocks it; an attestation in the ledger completes it, if the search, which
\* asks for another tool id than attest signs with, finds it; otherwise the
\* verify job and the apply progress, which are not modelled, may speak for any
\* phase of work, or for nothing.
Reconciled(st) ==
    (IF Blockable(st) THEN {[st EXCEPT !.phase = "blocked"]} ELSE {})
    \cup
    (IF st.session \in unsigned THEN {}
     ELSE (IF st.session \in ledger
           THEN {[st EXCEPT !.attested = TRUE, !.phase = "complete", !.failed = FALSE]}
           ELSE {})
          \cup
          (IF st.attested
           THEN {[st EXCEPT !.phase = "complete", !.failed = FALSE]}
           ELSE {st} \cup {[st EXCEPT !.phase = ph, !.failed = FALSE] :
                               ph \in {"apply", "verify", "complete"}}))

\* assert_operation reconciles first.  The write is a compare-and-swap of the
\* state just read: either it is one step with the read, or the call is rejected.
OpAdmit(p) ==
    /\ pc[p] = "admit"
    /\ IF Reaches(mem[p].session) /\ Active(state)
       THEN \/ Goto(p, "check") /\ UNCHANGED mem /\ \E st \in Reconciled(state) : Save(st)
            \/ Goto(p, "check") /\ UNCHANGED mem /\ state \in Reconciled(state) /\ UNCHANGED state
            \/ Return(p) /\ UNCHANGED state
       ELSE Goto(p, "check") /\ UNCHANGED <<mem, state>>
    /\ UNCHANGED <<row, journal, ledger, unsigned, issued, History, calls, faults>>

OpCheck(p) ==
    /\ pc[p] = "check"
    /\ IF Reaches(mem[p].session) /\ Lifecycle(state) \in Allowed[mem[p].op]
       THEN Goto(p, "capture") /\ UNCHANGED mem
       ELSE Return(p)
    /\ UNCHANGED <<state, row, journal, ledger, unsigned, issued, History, calls, faults>>

\* The binding is captured again, after the reconciling write.
OpCapture(p) ==
    /\ pc[p] = "capture"
    /\ IF Bound(mem[p].session, mem[p].token)
       THEN /\ Goto(p, IF mem[p].op = "attest" THEN "read" ELSE "work")
            /\ Hold(p, [mem[p] EXCEPT !.rev = state.rev])
       ELSE Return(p)
    /\ UNCHANGED <<state, row, journal, ledger, unsigned, issued, History, calls, faults>>

\* attest reads the state it is about to attest, and signs what it read.
AttestRead(p) ==
    /\ pc[p] = "read"
    /\ Goto(p, "commit")
    /\ Hold(p, [mem[p] EXCEPT !.copy = IF Reaches(mem[p].session) THEN state ELSE NoState])
    /\ UNCHANGED <<state, row, journal, ledger, unsigned, issued, History, calls, faults>>

\* Fault: the result counts as committed although nothing was signed.
AttestCommitUnsigned(p) ==
    /\ pc[p] = "commit"
    /\ Goto(p, "sealed")
    /\ UNCHANGED <<state, row, journal, ledger, unsigned, issued, History, mem, calls, faults>>

\* Signed or refused.  That a workspace without a chain directory counts as
\* signed is left out: the helper creates the directory before it is asked.
AttestCommit(p) ==
    /\ pc[p] = "commit"
    /\ \/ ledger' = ledger \cup ({mem[p].copy.session} \ {NoSession}) /\ Goto(p, "sealed")
       \/ UNCHANGED ledger /\ Goto(p, "unsealed")
    /\ UNCHANGED <<state, row, journal, unsigned, issued, History, mem, calls, faults>>

\* A chunk whose signature fails leaves that in the apply progress, before the
\* result reaches the state.
ApplyBlocked(p) ==
    /\ pc[p] = "work"
    /\ mem[p].op = "apply"
    /\ unsigned' = unsigned \cup {mem[p].session}
    /\ Goto(p, "unsealed")
    /\ UNCHANGED <<state, row, journal, ledger, issued, History, mem, calls, faults>>

\* The results an operation ends with, as they are merged into the state.
Outcomes(p) ==
    LET with(ph) == [state EXCEPT !.phase = ph, !.failed = FALSE]
        failed   == [state EXCEPT !.phase = "blocked", !.failed = TRUE]
    IN IF pc[p] = "sealed" THEN {[with("complete") EXCEPT !.attested = TRUE]}
       ELSE IF pc[p] = "unsealed" THEN {failed}
       ELSE IF mem[p].op = "apply" THEN {with("apply"), with("verify"), failed}
       ELSE IF mem[p].op = "verify" THEN {with("verify"), with("complete"), failed}
       ELSE {with("idle"), failed}

\* _finish: recorded only if the state is still the one the call captured; a
\* result that changes nothing is not written.  Reading the state and swapping
\* it are one step: the revision decides both.
Finish(p, current) ==
    /\ pc[p] \in {"work", "sealed", "unsealed"}
    /\ IF Reaches(mem[p].session) /\ current
       THEN \E st \in Outcomes(p) : IF st = state THEN UNCHANGED state ELSE Save(st)
       ELSE UNCHANGED state
    /\ Return(p)
    /\ UNCHANGED <<row, journal, ledger, unsigned, issued, History, calls, faults>>

\* Fault: the session is compared, the revision is not.
OpFinishUnversioned(p) == Finish(p, state.session = mem[p].session)

OpFinish(p) == Finish(p, Unchanged(mem[p].session, mem[p].rev))

----------------------------------------------------------------------------
(* Writes that compare nothing *)

\* apply_session(reset=true) moves the phase back before it is admitted: bound,
\* it keeps the state it reads, discards the apply progress of the session it
\* read there, looks at the lifecycle, and saves the copy.
ResetBegin(p) ==
    /\ Call(p, "reset")
    /\ \E c \in issued :
           /\ Bound(c.session, c.token)
           /\ Goto(p, "reset")
           /\ Hold(p, [Empty EXCEPT !.op = "apply", !.session = c.session, !.token = c.token])
    /\ UNCHANGED <<state, row, journal, ledger, unsigned, issued, History, faults>>

ResetLoad(p) ==
    /\ pc[p] = "reset"
    /\ IF Reaches(mem[p].session) /\ Active(state)
       THEN /\ Goto(p, "cursor")
            /\ Hold(p, [mem[p] EXCEPT !.copy = [state EXCEPT !.phase = "apply", !.failed = FALSE],
                                      !.then = "admit"])
       ELSE Goto(p, "admit") /\ UNCHANGED mem
    /\ UNCHANGED <<state, row, journal, ledger, unsigned, issued, History, calls, faults>>

ResetCheck(p) ==
    /\ pc[p] = "cursor"
    /\ IF Reaches(mem[p].session)
       THEN /\ Goto(p, IF Lifecycle(state) \in {"verifying", "committed"}
                       THEN "overwrite" ELSE "admit")
            /\ unsigned' = unsigned \ {mem[p].copy.session}
       ELSE Goto(p, "admit") /\ UNCHANGED unsigned
    /\ UNCHANGED <<state, row, journal, ledger, issued, History, mem, calls, faults>>

\* A tool's answer without a state_update is given one by the server, which
\* merges the result into the state it reads and saves it with no expectation.
AnswerLoad(p) ==
    /\ Call(p, "answer")
    /\ \E s \in {row.session, NoSession}, ph \in Phases :
           LET merged == [state EXCEPT !.phase = ph, !.failed = ph = "blocked"]
           IN /\ merged # state
              /\ Goto(p, "overwrite")
              /\ Hold(p, [Empty EXCEPT !.session = s, !.copy = merged])
    /\ UNCHANGED <<state, row, journal, ledger, unsigned, issued, History, faults>>

\* The lane is open again by a state that was read while it was open.
Reopens == Active(state') /\ ~(Active(state) /\ state'.session = state.session)

Overwrite(p) ==
    /\ pc[p] = "overwrite"
    /\ IF mem[p].session = NoSession \/ Reaches(mem[p].session)
       THEN Save(mem[p].copy) /\ restored' = (Active(state') /\ (restored \/ Reopens))
       ELSE UNCHANGED <<state, restored>>
    /\ IF mem[p].then = "admit"
       THEN Goto(p, "admit") /\ Hold(p, [mem[p] EXCEPT !.copy = NoState, !.then = "idle"])
       ELSE Return(p)
    /\ UNCHANGED <<row, journal, ledger, unsigned, issued, opened, drawn, late, calls, faults>>

----------------------------------------------------------------------------
(* resume_session *)

\* The caller names the session only: it resumes because it lost its token.
Resume(p) ==
    /\ Call(p, "resume")
    /\ \E s \in opened :
           /\ Bound(s, NoToken)
           /\ Goto(p, "rotate")
           /\ Hold(p, [Empty EXCEPT !.session = s, !.rev = state.rev])
    /\ UNCHANGED <<state, row, journal, ledger, unsigned, issued, History, faults>>

\* recover_session resumes in a second call, which captures the binding anew.
ResumeCapture(p) ==
    /\ pc[p] = "resume"
    /\ IF Bound(mem[p].session, NoToken)
       THEN Goto(p, "rotate") /\ Hold(p, [mem[p] EXCEPT !.rev = state.rev])
       ELSE Return(p)
    /\ UNCHANGED <<state, row, journal, ledger, unsigned, issued, History, calls, faults>>

\* The token is replaced.  A pending signature keeps the failure it recorded.
Rotated(t) ==
    {[state EXCEPT !.token = t, !.phase = ph, !.failed = FALSE] : ph \in {"apply", "verify"}}
    \cup (IF Blockable(state) THEN {[state EXCEPT !.token = t, !.phase = "blocked"]} ELSE {})

\* Fault: the token changes and the revision does not.
ResumeRotateKept(p) ==
    /\ pc[p] = "rotate"
    /\ IF Reaches(mem[p].session) /\ Unchanged(mem[p].session, mem[p].rev)
       THEN \E t \in Tokens \ drawn : \E st \in Rotated(t) :
                /\ drawn' = drawn \cup {t}
                /\ state' = st
                /\ issued' = issued \cup {[session |-> mem[p].session, token |-> t]}
       ELSE UNCHANGED <<state, issued, drawn>>
    /\ Return(p)
    /\ UNCHANGED <<row, journal, ledger, unsigned, opened, restored, late, calls, faults>>

ResumeRotate(p) ==
    /\ pc[p] = "rotate"
    /\ IF Reaches(mem[p].session) /\ Unchanged(mem[p].session, mem[p].rev)
       THEN \E t \in Tokens \ drawn : \E st \in Rotated(t) :
                /\ drawn' = drawn \cup {t}
                /\ Save(st)
                /\ issued' = issued \cup {[session |-> mem[p].session, token |-> t]}
       ELSE UNCHANGED <<state, issued, drawn>>
    /\ Return(p)
    /\ UNCHANGED <<row, journal, ledger, unsigned, opened, restored, late, calls, faults>>

----------------------------------------------------------------------------
(* session_end and recovery *)

\* The end of a finalization: session_start goes on, another call returns.
Ended(p) ==
    IF mem[p].then = "reload"
    THEN Goto(p, "reload") /\ Hold(p, [Empty EXCEPT !.session = mem[p].session])
    ELSE Return(p)

End(p) ==
    /\ Call(p, "end")
    /\ \E c \in issued :
           Goto(p, "end") /\ Hold(p, [Empty EXCEPT !.session = c.session, !.token = c.token])
    /\ UNCHANGED <<state, row, journal, ledger, unsigned, issued, History, faults>>

\* A record begun earlier is taken up, unless the lane has a new open session;
\* otherwise the session must be bound to the lane for one to be begun.
EndLookup(p) ==
    LET s == mem[p].session
        t == mem[p].token
    IN /\ pc[p] = "end"
       /\ IF journal[s] # None
          THEN IF ~(Active(state) /\ state.session # s) /\ t \in {NoToken, journal[s].token}
               THEN /\ Goto(p, "heal")
                    /\ Hold(p, [mem[p] EXCEPT !.token = journal[s].token,
                                              !.steps = journal[s].steps])
               ELSE Ended(p)
          ELSE IF Bound(s, t)
               THEN Goto(p, "begin") /\ Hold(p, [mem[p] EXCEPT !.token = state.token])
               ELSE Ended(p)
       /\ UNCHANGED <<state, row, journal, ledger, unsigned, issued, History, calls, faults>>

\* Ended from a terminal with no session named: whichever is open on the lane.
CliEnd(p) ==
    /\ Call(p, "cli_end")
    /\ Active(state)
    /\ Goto(p, "begin")
    /\ Hold(p, [Empty EXCEPT !.session = state.session, !.token = state.token])
    /\ UNCHANGED <<state, row, journal, ledger, unsigned, issued, History, faults>>

TakeUp(p, s) ==
    /\ journal[s] # None
    /\ Goto(p, "heal")
    /\ Hold(p, [Empty EXCEPT !.session = s, !.token = journal[s].token,
                             !.steps = journal[s].steps])

RecoverBegun(p) ==
    /\ Call(p, "recover")
    /\ \E s \in opened : TakeUp(p, s)
    /\ UNCHANGED <<state, row, journal, ledger, unsigned, issued, History, faults>>

\* A caller told that a finalization is incomplete may always try again.
RecoverAgain(p, s) ==
    /\ "recover" \in Makes[p]
    /\ pc[p] = "idle"
    /\ TakeUp(p, s)
    /\ ~journal[s].complete
    /\ UNCHANGED <<state, row, journal, ledger, unsigned, issued, History, calls, faults>>

\* With no record yet: work that is over is finalized, other work is resumed.
RecoverOpen(p) ==
    /\ Call(p, "recover")
    /\ \E s \in opened :
           /\ journal[s] = None
           /\ row.session = s
           /\ state.session = s
           /\ IF state.ended \/ state.attested \/ state.phase = "complete"
              THEN Goto(p, "begin") /\ Hold(p, [Empty EXCEPT !.session = s,
                                                             !.token = state.token])
              ELSE Goto(p, "resume") /\ Hold(p, [Empty EXCEPT !.session = s])
    /\ UNCHANGED <<state, row, journal, ledger, unsigned, issued, History, faults>>

\* begin_finalization: the look for an earlier record, and the storing of a new
\* one, are not one transaction.
FinBegin(p) ==
    LET s == mem[p].session
    IN /\ pc[p] = "begin"
       /\ IF journal[s] # None
          THEN /\ Goto(p, "heal")
               /\ Hold(p, [mem[p] EXCEPT !.token = journal[s].token,
                                         !.steps = journal[s].steps])
          ELSE Goto(p, "store") /\ UNCHANGED mem
       /\ UNCHANGED <<state, row, journal, ledger, unsigned, issued, History, calls, faults>>

\* _store_record replaces the record by the one in the caller's memory.
Store(p, complete, steps) ==
    journal' = [journal EXCEPT ![mem[p].session] =
                   [token |-> mem[p].token, complete |-> complete, steps |-> steps]]

FinStore(p) ==
    /\ pc[p] = "store"
    /\ Store(p, FALSE, {})
    /\ Goto(p, "heal")
    /\ UNCHANGED <<state, row, ledger, unsigned, issued, History, mem, calls, faults>>

\* A record that says "ended" of a session still open is not believed.
FinHeal(p) ==
    LET s == mem[p].session
    IN /\ pc[p] = "heal"
       /\ IF state.session = s /\ ~state.ended /\ "state_ended" \in mem[p].steps
          THEN /\ Goto(p, "healed")
               /\ Hold(p, [mem[p] EXCEPT !.steps = @ \ {"state_ended"}])
          ELSE Goto(p, "step") /\ UNCHANGED mem
       /\ UNCHANGED <<state, row, journal, ledger, unsigned, issued, History, calls, faults>>

FinHealed(p) ==
    /\ pc[p] = "healed"
    /\ Store(p, FALSE, mem[p].steps)
    /\ Goto(p, "step")
    /\ UNCHANGED <<state, row, ledger, unsigned, issued, History, mem, calls, faults>>

\* The steps in order; a step in the record is not run again.
NextStep(p) ==
    IF "state_ended" \notin mem[p].steps THEN "state_ended"
    ELSE IF "cleaned" \notin mem[p].steps THEN "cleaned"
    ELSE "lane_unregistered"

\* Fault: a session is recorded as ended and its state is left open.
EndStateLost(p) ==
    /\ NextStep(p) = "state_ended"
    /\ Goto(p, "record")
    /\ UNCHANGED <<state, row, restored, faults>>

\* Fault: a state that is ended already raises.
EndStateOnce(p) ==
    /\ NextStep(p) = "state_ended"
    /\ IF state.session # mem[p].session \/ state.ended
       THEN Goto(p, "raised") /\ UNCHANGED <<state, restored>>
       ELSE Goto(p, "record") /\ Save([state EXCEPT !.ended = TRUE]) /\ restored' = FALSE
    /\ UNCHANGED <<row, faults>>

\* The state is ended if it is still the session's; if not, the step raises.
EndState(p) ==
    /\ NextStep(p) = "state_ended"
    /\ IF state.session # mem[p].session
       THEN Goto(p, "raised") /\ UNCHANGED <<state, restored>>
       ELSE /\ Goto(p, "record")
            /\ IF state.ended THEN UNCHANGED state ELSE Save([state EXCEPT !.ended = TRUE])
            /\ restored' = FALSE
    /\ UNCHANGED <<row, faults>>

\* Registry references, ephemeral files, the writer lease and history: the four
\* steps between touch nothing on the lane, and may raise.
Clean(p) ==
    /\ NextStep(p) = "cleaned"
    /\ \/ Goto(p, "record") /\ UNCHANGED faults
       \/ Goto(p, "raised") /\ Fault
    /\ UNCHANGED <<state, row, restored>>

\* Fault: the row of another session is taken off, and the own is left.
UnregisterForeign(p) ==
    /\ NextStep(p) = "lane_unregistered"
    /\ row' = IF row.session # mem[p].session THEN [row EXCEPT !.active = FALSE] ELSE row
    /\ Goto(p, "record")
    /\ UNCHANGED <<state, restored, faults>>

\* unregister_lane leaves the row of another session alone.
Unregister(p) ==
    /\ NextStep(p) = "lane_unregistered"
    /\ row' = IF row.session = mem[p].session THEN [row EXCEPT !.active = FALSE] ELSE row
    /\ Goto(p, "record")
    /\ UNCHANGED <<state, restored, faults>>

FinStep(p) ==
    /\ pc[p] = "step"
    /\ mem[p].steps # FinSteps
    /\ EndState(p) \/ Clean(p) \/ Unregister(p)
    /\ UNCHANGED <<journal, ledger, unsigned, issued, opened, drawn, late, mem, calls>>

\* The effect of a step and its record are two writes.
FinRecord(p) ==
    LET steps == mem[p].steps \cup {NextStep(p)}
    IN /\ pc[p] = "record"
       /\ Store(p, FALSE, steps)
       /\ Goto(p, "step")
       /\ Hold(p, [mem[p] EXCEPT !.steps = steps])
       /\ UNCHANGED <<state, row, ledger, unsigned, issued, History, calls, faults>>

FinRaised(p) ==
    /\ pc[p] = "raised"
    /\ Store(p, FALSE, mem[p].steps)
    /\ Ended(p)
    /\ UNCHANGED <<state, row, ledger, unsigned, issued, History, calls, faults>>

FinComplete(p) ==
    /\ pc[p] = "step"
    /\ mem[p].steps = FinSteps
    /\ Store(p, TRUE, mem[p].steps)
    /\ Ended(p)
    /\ UNCHANGED <<state, row, ledger, unsigned, issued, History, calls, faults>>

\* A process dies: what its call held is gone, the files stay.
Crash(p) ==
    /\ pc[p] # "idle"
    /\ Fault
    /\ Return(p)
    /\ UNCHANGED <<state, row, journal, ledger, unsigned, issued, History, calls>>

----------------------------------------------------------------------------
(* The specification *)

Init ==
    /\ state = NoState
    /\ row = [session |-> NoSession, active |-> FALSE]
    /\ journal = [s \in Sessions |-> None]
    /\ ledger = {}
    /\ unsigned = {}
    /\ issued = {}
    /\ opened = {}
    /\ drawn = {}
    /\ restored = FALSE
    /\ late = FALSE
    /\ pc = [p \in Procs |-> "idle"]
    /\ mem = [p \in Procs |-> Empty]
    /\ calls = [p \in Procs |-> 0]
    /\ faults = 0

\* A call begins.
Arrive(p) ==
    \/ StartLoad(p) \/ OpBegin(p) \/ ResetBegin(p) \/ AnswerLoad(p) \/ Resume(p)
    \/ End(p) \/ CliEnd(p) \/ RecoverBegun(p) \/ RecoverOpen(p)
    \/ \E s \in Sessions : RecoverAgain(p, s)

\* A call goes on.
Proceed(p) ==
    \/ StartReload(p) \/ StartSave(p) \/ StartRegister(p)
    \/ OpAdmit(p) \/ OpCheck(p) \/ OpCapture(p) \/ AttestRead(p) \/ AttestCommit(p)
    \/ ApplyBlocked(p) \/ OpFinish(p)
    \/ ResetLoad(p) \/ ResetCheck(p) \/ Overwrite(p)
    \/ ResumeCapture(p) \/ ResumeRotate(p)
    \/ EndLookup(p) \/ FinBegin(p) \/ FinStore(p) \/ FinHeal(p) \/ FinHealed(p)
    \/ FinStep(p) \/ FinRecord(p) \/ FinRaised(p) \/ FinComplete(p)

Next == \E p \in Procs : Arrive(p) \/ Proceed(p) \/ Crash(p)

Spec == Init /\ [][Next]_vars

\* A call that runs goes on running, and whoever is told that a finalization is
\* incomplete (recoverable, "can be retried safely") tries again.
FairSpec ==
    /\ Spec
    /\ \A p \in Procs : WF_vars(Proceed(p))
    /\ \A s \in Sessions : SF_vars(\E p \in Procs : RecoverAgain(p, s))

----------------------------------------------------------------------------
(* Properties *)

\* Every variable keeps its type: a phase stands for a lifecycle, a record and a
\* capability name sessions that can be drawn, and a call stands at a point of
\* the code (domain.py, finalization.py).
TypeOK ==
    /\ state \in State
    /\ row \in [session : Sessions \cup {NoSession}, active : BOOLEAN]
    /\ journal \in [Sessions -> Record \cup {None}]
    /\ ledger \subseteq Sessions
    /\ unsigned \subseteq Sessions
    /\ issued \subseteq Cap
    /\ opened \subseteq Sessions
    /\ drawn \subseteq Tokens
    /\ {restored, late} \subseteq BOOLEAN
    /\ pc \in [Procs -> Points]
    /\ mem \in [Procs -> Memory]
    /\ calls \in [Procs -> Nat]
    /\ faults \in Nat

\* The lane's owner is the open session of its state.
Lane == INSTANCE LaneOwnership
            WITH owner <- IF Active(state) THEN state.session ELSE NoSession,
                 used  <- opened

\* A state that was read earlier is written back, compared with nothing.
Restores(p) == pc[p] = "overwrite" /\ pc'[p] # "overwrite"

\* A start that has ended a failed session replaces the state it read then,
\* although a session is open there.
Replaces(p) ==
    /\ pc[p] = "open" /\ pc'[p] = "register"
    /\ mem[p].session # NoSession /\ Active(mem[p].copy)

\* The lane has one owner at a time, which gives it up before a new session
\* takes it, whatever starts, results and finalizers interleave (session.py
\* start_session, finalization.py end_state).  Two steps of the code do it
\* otherwise, and only they: what compares nothing may bring back a session that
\* had the lane before, and the start after a failed session may take it from
\* another that was opened meanwhile.
OneOwner ==
    /\ Lane!Init
    /\ [][ \/ Lane!Next
           \/ Lane!Return /\ \E p \in Procs : Restores(p)
           \/ (\E s \in Sessions : Lane!Take(s)) /\ \E p \in Procs : Replaces(p)]_(Lane!vars)

\* Without the two exceptions.
NeverReplaced == Lane!Spec

\* A result that an operation records itself is recorded only for a caller whose
\* token is the session's at that moment: once resume_session has replaced the
\* token, the save that ends what the former holder had under way is refused
\* (runtime.py _finish, resume_session).  The restoring write of a reset and the
\* server's merge of an answer check no token, and either may also bring the old
\* token back.
RevokedNeverFinishes ==
    [][\A p \in Procs :
           /\ pc[p] \in {"work", "sealed", "unsealed"}
           /\ pc'[p] # pc[p]
           /\ state' # state
           => state.session = mem[p].session /\ state.token = mem[p].token]_vars

\* The same of every write on behalf of a caller, a reset's included.
RevokedNeverWrites ==
    /\ RevokedNeverFinishes
    /\ [][\A p \in Procs :
              pc[p] = "overwrite" /\ mem[p].then = "admit" /\ state' # state /\ pc'[p] # pc[p]
              => state.session = mem[p].session /\ state.token = mem[p].token]_vars

\* A session that counts as attested has its attestation in the ledger, also
\* after a crash between the signature and the state (runtime.py attest).
AttestedBacked == state.attested => state.session \in ledger

\* An attestation signed by a call is one of the session the call is bound to.
AttestsOwn ==
    [][\A p \in Procs :
           pc[p] = "commit" /\ pc'[p] # pc[p]
           => ledger' \subseteq ledger \cup {mem[p].session}]_vars

Closed(s) == journal[s] # None /\ journal[s].complete

\* A session whose finalization is recorded as complete is not open, whoever
\* ended it, crashed over it or retried (finalization.py finalize_session), unless
\* a state read while it was open was written back since it was last ended.
ClosedIsEnded == \A s \in Sessions : Closed(s) /\ Active(state) /\ state.session = s => restored

\* Nor does the registry list it as the lane's open session, although its row
\* is written apart from the state (lane_context.py register_active_lane), unless
\* the row was written when the finalization had begun, as an end from a terminal
\* makes possible.
ClosedIsUnlisted == \A s \in Sessions : Closed(s) /\ row.session = s /\ row.active => late

\* Without the exception.
ClosedNeverListed == \A s \in Sessions : Closed(s) => ~(row.session = s /\ row.active)

\* A finalization once begun is completed in the end (finalization.py: "safe to
\* call repeatedly after interruption").
Converges == \A s \in Sessions : journal[s] # None ~> Closed(s)
=============================================================================
