------------------------------- MODULE SpecRun -------------------------------
(***************************************************************************)
(* A batch run of one executable spec (src/apatch/spec_run.py over         *)
(* spec_executor.py and runtime/runtime.py): one call takes the spec's     *)
(* requirements in document order through session, needles, verification,  *)
(* attestation and the end of the session; spec_run.json remembers how far *)
(* the run got, apply_session.json which chunks of the needles are done.   *)
(*                                                                         *)
(* One lane and one call at a time; the process dies between any two       *)
(* steps, and verification of a promoted command goes on without it.  The  *)
(* gates in front of a run (lint, coverage, dependencies, interference,    *)
(* drift of the manifest) are left out, as are dry_run and allow_partial;  *)
(* every requirement has its own files, and a verify command passes only   *)
(* over all of its needles.  What happens inside the write of one chunk is *)
(* the subject of SourceEffects.                                           *)
(***************************************************************************)
EXTENDS Naturals, FiniteSetsExt

CONSTANTS
    N,             \* requirements of the spec
    Chunks,        \* chunks the needles of a requirement are applied in
    VerifyOnly,    \* requirements whose list of needles is empty
    StopOnFirst,   \* stop_on_first_failure
    Promotes,      \* may a verification be made a background job
    Aborts,        \* does the client pass abort=true
    MaxFaults,     \* bound on failing steps
    MaxCrashes     \* bound on deaths of the process

ASSUME SpecRunAssumption ==
    /\ N \in Nat \ {0}
    /\ Chunks \in Nat \ {0}
    /\ VerifyOnly \subseteq 1..N
    /\ StopOnFirst \in BOOLEAN /\ Promotes \in BOOLEAN /\ Aborts \in BOOLEAN
    /\ MaxFaults \in Nat /\ MaxCrashes \in Nat

VARIABLES
    run,      \* spec_run.json
    sess,     \* session_state.json: the requirement it is for, its lifecycle
    cur,      \* apply_session.json: the cursor, and whether the session owns it
    disk,     \* what the files hold of each chunk
    att,      \* requirements with an attestation in the ledger
    green,    \* history: the content was verified since it last changed
    call,     \* the spec_run call that is running
    answer,   \* what the last call answered
    faults, crashes

vars == <<run, sess, cur, disk, att, green, call, answer, faults, crashes>>

Reqs     == 1..N
Parts    == 1..Chunks
Contents == {"none", "part", "whole"}
\* A committed session that is signed has the lifecycle attested.
Lives    == {"draft", "applying", "verifying", "committed", "failed"}
Jobs     == {"none", "running", "passed", "failed"}
NoRun    == [on |-> FALSE, idx |-> 1, failed |-> {}, last |-> <<>>]
NoSess   == [rk |-> 0, life |-> "draft", job |-> "none",
             signed |-> FALSE, rolled |-> FALSE]
NoCur    == [rk |-> 0, todo |-> {}, ckpts |-> {},
             base |-> [c \in Parts |-> "none"], mine |-> FALSE]
Idle     == [pc |-> "idle", q |-> 0, left |-> 0, idx |-> 1, failed |-> {},
             skip |-> {}, last |-> <<>>, retry |-> FALSE, undo |-> {}, why |-> "none"]

----------------------------------------------------------------------------
(* What the steps are decided by *)

Whole(r) == r \in VerifyOnly \/ \A c \in Parts : disk[r][c] = "whole"

\* Attested, and its files are still what was attested.
Attested(r) == r \in att /\ Whole(r)

\* A cursor with chunks left; the session's own one, or of a session that ended.
Pending == cur.todo # {}
Own     == cur.rk # 0 /\ cur.mine

\* reconcile_governed_session: the lifecycle the evidence on disk speaks for.  Left
\* out: a signing of effects whose outcome is open, which blocks the session until
\* it is recovered (signing_recovery_required; SourceEffects), and a ledger row that
\* the session does not carry (SessionLane).
Reconciled ==
    CASE sess.signed                               -> "committed"
      [] ~sess.signed /\ sess.job = "passed"       -> "committed"
      [] ~sess.signed /\ sess.job = "running"      -> "verifying"
      [] ~sess.signed /\ sess.job \notin {"passed", "running"} ->
            IF Own /\ Pending THEN "applying"
            ELSE IF Own /\ sess.life \in {"draft", "applying"} THEN "verifying"
            ELSE sess.life

\* assert_operation in enforce mode.
MayApply  == ~sess.signed /\ Reconciled \in {"draft", "applying", "failed"}
MayVerify == Reconciled \in {"applying", "verifying", "committed"}
MayAttest == ~sess.signed /\ Reconciled \in {"verifying", "committed"}

\* Fault: a patch log of another session is used.
LogIsUsed == TRUE

\* A patch log belongs to the session it was generated for.
LogIsOwn == cur.mine

\* A step that fails for a reason outside the model.
Fault == faults < MaxFaults /\ faults' = faults + 1

Fine == UNCHANGED faults

\* The verdict of the command over the files as they are.
Judges(v) ==
    /\ v => Whole(call.q)
    /\ IF v \/ ~Whole(call.q) THEN Fine ELSE Fault

Goto(p) == call' = [call EXCEPT !.pc = p]

\* Every entry into the session's lifecycle replaces the failure it carries.
LifeTo(l) == sess' = [sess EXCEPT !.life = l, !.rolled = FALSE]

\* A "guard" refuses and leaves the session alone; "work" failed.
Blocked(reason) == call' = [call EXCEPT !.pc = "failing", !.why = reason]

\* An operation the lifecycle forbids: reconciliation stays.
Refuse ==
    /\ Blocked("guard")
    /\ IF Reconciled = sess.life THEN UNCHANGED sess ELSE LifeTo(Reconciled)

----------------------------------------------------------------------------
(* spec_run_workspace: the loop over the requirements *)

\* All requirements when chunk_rk_per_call is 0.
Begin(left, reset) ==
    LET old == IF run.on /\ ~reset THEN run ELSE [NoRun EXCEPT !.on = TRUE] IN
    /\ call.pc = "idle"
    /\ IF \A r \in Reqs : Attested(r)
       THEN /\ run' = NoRun /\ answer' = "done"
            /\ IF sess.rk = 0 THEN UNCHANGED sess ELSE LifeTo("applying")
            /\ UNCHANGED call
       ELSE /\ run' = old /\ answer' = "none"
            /\ call' = [Idle EXCEPT !.pc = "next", !.left = left, !.idx = old.idx,
                          !.failed = old.failed, !.last = old.last,
                          !.skip = {r \in Reqs : Attested(r)}]
            /\ UNCHANGED sess
    /\ UNCHANGED <<cur, disk, att, green, faults, crashes>>

\* Fault: one requirement more than the call may take.
MoreByOne == call.idx <= N /\ call.left >= 0

More == call.idx <= N /\ call.left > 0

\* Attested when the call began: counted and passed over.
Skip ==
    /\ call.pc = "next" /\ More /\ call.idx \in call.skip
    /\ call' = [call EXCEPT !.idx = @ + 1, !.left = @ - 1]
    /\ UNCHANGED <<run, sess, cur, disk, att, green, answer, faults, crashes>>

Take ==
    /\ call.pc = "next" /\ More /\ call.idx \notin call.skip
    /\ call' = [call EXCEPT !.pc = "session", !.q = call.idx,
                  !.retry = call.idx \in call.failed, !.failed = @ \ {call.idx},
                  !.undo = {}, !.why = "none"]
    /\ UNCHANGED <<run, sess, cur, disk, att, green, answer, faults, crashes>>

\* Fault: the index is saved one requirement on.
SavedPast == [on |-> TRUE, idx |-> call.idx + 1, failed |-> call.failed, last |-> call.last]

Saved == [on |-> TRUE, idx |-> call.idx, failed |-> call.failed, last |-> call.last]

\* An answer with ok=true puts an open session into the phase apply.
Finish ==
    LET done == call.idx > N \/ \A r \in Reqs : Attested(r) IN
    /\ call.pc = "next" /\ ~More
    /\ run' = IF done THEN NoRun ELSE Saved
    /\ answer' = IF done THEN "done" ELSE "more"
    /\ IF sess.rk = 0 THEN UNCHANGED sess ELSE LifeTo("applying")
    /\ call' = Idle
    /\ UNCHANGED <<cur, disk, att, green, faults, crashes>>

\* The checkpoint a result names, as abort will find it.
Checkpoint(r) == LET c == Max(cur.ckpts) IN <<r, c, cur.base[c]>>

\* The failed requirement is saved first; only a failed chunk names a checkpoint.
SaveFailed ==
    LET last == IF call.why = "chunk" THEN Checkpoint(call.q) ELSE call.last
        failed == call.failed \cup {call.q} IN
    /\ call.pc = "failing"
    /\ run' = [Saved EXCEPT !.failed = failed, !.last = last]
    /\ call' = IF StopOnFirst
               THEN [call EXCEPT !.pc = "report", !.failed = failed, !.last = last]
               ELSE [call EXCEPT !.pc = "next", !.failed = failed, !.last = last,
                                 !.idx = @ + 1, !.left = @ - 1]
    /\ UNCHANGED <<sess, cur, disk, att, green, answer, faults, crashes>>

\* The response is then entered into the session.
Report ==
    /\ call.pc = "report"
    /\ answer' = "blocked" /\ call' = Idle
    /\ sess' = IF sess.rk = 0 \/ call.why = "guard" THEN sess
               ELSE [sess EXCEPT !.life = "failed", !.rolled = call.why = "rolled"]
    /\ UNCHANGED <<run, cur, disk, att, green, faults, crashes>>

----------------------------------------------------------------------------
(* _run_one_requirement: session, needles, verification, attestation *)

OpenSession ==
    /\ call.pc = "session"
    /\ IF sess.rk = 0
       THEN /\ sess' = [NoSess EXCEPT !.rk = call.q] /\ green' = FALSE /\ Goto("cursor")
       ELSE /\ UNCHANGED <<sess, green>>
            /\ IF sess.rk = call.q THEN Goto("cursor") ELSE Blocked("guard")
    /\ UNCHANGED <<run, cur, disk, att, answer, faults, crashes>>

\* run_apply_session: one chunk; the cursor moves on when it failed as well.
WriteChunk(out, onDone, onMore) ==
    LET c == Min(cur.todo) IN
    /\ IF out = "whole" THEN Fine ELSE Fault
    /\ disk' = IF out = "none" THEN disk ELSE [disk EXCEPT ![cur.rk][c] = out]
    /\ cur' = [cur EXCEPT !.todo = @ \ {c}, !.ckpts = @ \cup {c}]
    /\ green' = FALSE
    /\ IF out = "whole"
       THEN IF cur.todo = {c} THEN LifeTo("verifying") /\ Goto(onDone)
                              ELSE LifeTo("applying") /\ Goto(onMore)
       ELSE LifeTo("failed") /\ Blocked("chunk")

ApplyChunk(onDone, onMore) == \E out \in Contents : WriteChunk(out, onDone, onMore)

\* An unfinished cursor goes first, whatever the call brought; but not with
\* another session's patch log, and not when the lifecycle forbids it.
Resumes(onDone, onMore) ==
    IF LogIsOwn /\ MayApply
    THEN ApplyChunk(onDone, onMore)
    ELSE /\ IF LogIsOwn THEN Refuse ELSE Blocked("guard") /\ UNCHANGED sess
         /\ UNCHANGED <<cur, disk, green, faults>>

\* The end of the execute_next call that opened or found the session.
FirstChunk ==
    /\ call.pc = "cursor"
    /\ IF Pending THEN Resumes("check", "check")
       ELSE Goto("check") /\ UNCHANGED <<sess, cur, disk, green, faults>>
    /\ UNCHANGED <<run, att, answer, crashes>>

\* The verify command is run in place.  It decides for a verify-only
\* requirement, and for one whose last attempt failed.
Route(v) ==
    IF call.q \in VerifyOnly
    THEN Goto(IF v THEN "noop" ELSE "drop") /\ green' = v
    ELSE /\ call' = [call EXCEPT !.retry = @ /\ v,
                       !.pc = IF v /\ call.retry THEN "verify" ELSE "needles"]
         /\ UNCHANGED green

Precheck ==
    /\ call.pc = "check"
    /\ \E v \in BOOLEAN : Judges(v) /\ Route(v)
    /\ UNCHANGED <<run, sess, cur, disk, att, answer, crashes>>

SignSession ==
    sess' = [sess EXCEPT !.signed = TRUE, !.life = "committed", !.rolled = FALSE]

CloseSession ==
    /\ sess' = NoSess
    /\ cur' = [cur EXCEPT !.mine = FALSE]

\* A verify-only requirement that fails gives its session up.
Drop ==
    /\ call.pc = "drop"
    /\ CloseSession /\ Blocked("work")
    /\ UNCHANGED <<run, disk, att, green, answer, faults, crashes>>

\* Without a chain directory, if it cannot be created, this and Attest answer ok
\* with no row in the ledger: left out.
NoopAttest ==
    /\ call.pc = "noop"
    /\ \/ /\ att' = att \cup {call.q} /\ Goto("close") /\ Fine
          /\ SignSession
       \/ Goto("drop") /\ Fault /\ LifeTo("failed") /\ UNCHANGED att
    /\ UNCHANGED <<run, cur, disk, green, answer, crashes>>

\* execute_next with the needles: generate, simulate and plan.  A complete
\* cursor is reset, and with it the phase of a session that was past applying;
\* chunks that are applied already are not planned again.
PlanNeedles ==
    LET past == cur.rk # 0 /\ ~sess.signed
                /\ sess.life \in {"verifying", "committed"}
        allowed == /\ ~sess.signed /\ sess.job \notin {"passed", "running"}
                   /\ past \/ sess.life \in {"draft", "applying", "failed"}
        todo == {c \in Parts : disk[call.q][c] # "whole"} IN
    \/ Fault /\ Blocked("work") /\ UNCHANGED <<sess, cur>>
    \/ /\ Fine
       /\ IF allowed /\ todo # {}
          THEN /\ cur' = [rk |-> call.q, todo |-> todo, ckpts |-> {},
                          base |-> disk[call.q], mine |-> TRUE]
               /\ Goto("chunks")
          ELSE /\ cur' = IF Own THEN NoCur ELSE cur
               /\ Blocked(IF allowed THEN "work" ELSE "guard")
       /\ CASE allowed /\ todo = {}          -> LifeTo("failed")
            [] past /\ (todo # {} \/ ~allowed) -> LifeTo("applying")
            [] OTHER                         -> UNCHANGED sess

Needles ==
    /\ call.pc = "needles"
    /\ IF Pending THEN Resumes("verify", "chunks")
       ELSE PlanNeedles /\ UNCHANGED <<disk, green>>
    /\ UNCHANGED <<run, att, answer, crashes>>

MoreChunks ==
    /\ call.pc = "chunks"
    /\ Resumes("verify", "chunks")
    /\ UNCHANGED <<run, att, answer, crashes>>

\* verify_run: in place, or as a job that answers before it has ended.
InPlace(v) ==
    /\ green' = v
    /\ LifeTo(IF v THEN "committed" ELSE "failed")
    /\ CASE v                -> Goto("attest")
         [] ~v /\ call.retry  -> Blocked("work")
         [] ~v /\ ~call.retry -> call' = [call EXCEPT !.pc = "undo", !.undo = cur.ckpts]

Promote ==
    /\ Promotes /\ Fine /\ UNCHANGED green
    /\ sess' = [sess EXCEPT !.life = "verifying", !.job = "running", !.rolled = FALSE]
    /\ Goto("attest")

Verify ==
    /\ call.pc = "verify"
    /\ IF MayVerify
       THEN Promote \/ \E v \in BOOLEAN : Judges(v) /\ InPlace(v)
       ELSE Refuse /\ UNCHANGED <<green, faults>>
    /\ UNCHANGED <<run, cur, disk, att, answer, crashes>>

\* Fault: only the last chunk of the batch is taken back.
UndoLast ==
    LET c == Max(call.undo) IN
    /\ call.pc = "undo" /\ disk[call.q][c] # cur.base[c]
    /\ disk' = [disk EXCEPT ![call.q][c] = cur.base[c]]
    /\ green' = FALSE /\ LifeTo("draft") /\ Blocked("rolled")
    /\ UNCHANGED <<run, cur, att, answer, faults, crashes>>

\* A failed verification takes back the batch, the last chunk first; a backup
\* that holds nothing cannot be restored.
Undo ==
    LET c == Max(call.undo)
        restored == [disk EXCEPT ![call.q][c] = cur.base[c]] IN
    /\ call.pc = "undo"
    /\ \/ /\ restored # disk /\ Fine
          /\ disk' = restored /\ green' = FALSE /\ LifeTo("draft")
          /\ IF call.undo = {c} THEN Blocked("rolled")
             ELSE call' = [call EXCEPT !.undo = @ \ {c}]
       \/ /\ IF restored = disk THEN Fine ELSE Fault
          /\ LifeTo("failed") /\ Blocked("work") /\ UNCHANGED <<disk, green>>
    /\ UNCHANGED <<run, cur, att, answer, crashes>>

Attest ==
    /\ call.pc = "attest"
    /\ IF ~MayAttest THEN Refuse /\ UNCHANGED <<att, faults>>
       ELSE \/ /\ att' = att \cup {call.q} /\ Goto("close") /\ Fine
               /\ SignSession
            \/ LifeTo("failed") /\ Blocked("work") /\ Fault /\ UNCHANGED att
    /\ UNCHANGED <<run, cur, disk, green, answer, crashes>>

\* The session ends and the loop goes on with the next requirement.
Close ==
    /\ call.pc = "close"
    /\ CloseSession
    /\ call' = [call EXCEPT !.pc = "next", !.idx = @ + 1, !.left = @ - 1,
                  !.last = IF call.retry \/ call.q \in VerifyOnly THEN @
                           ELSE Checkpoint(call.q)]
    /\ UNCHANGED <<run, disk, att, green, answer, faults, crashes>>

----------------------------------------------------------------------------
(* The client between two calls, the verify worker, the process *)

AtRest == call.pc = "idle"

\* resume_session: by the failure the session carries and the cursor it owns.
Resume ==
    /\ AtRest /\ sess.rk # 0 /\ (cur.rk # 0 => cur.mine)
    /\ LifeTo(IF (sess.rolled /\ sess.life = "failed") \/ Pending
              THEN "applying" ELSE "verifying")
    /\ UNCHANGED <<run, cur, disk, att, green, call, answer, faults, crashes>>

EndSession ==
    /\ AtRest /\ sess.rk # 0
    /\ CloseSession
    /\ UNCHANGED <<run, disk, att, green, call, answer, faults, crashes>>

\* apatch_rollback of a checkpoint the session's cursor lists.
Rollback ==
    /\ AtRest /\ sess.rk # 0 /\ Own
    /\ \E c \in cur.ckpts :
          /\ disk[cur.rk][c] # cur.base[c]
          /\ disk' = [disk EXCEPT ![cur.rk][c] = cur.base[c]]
    /\ green' = FALSE /\ LifeTo("draft")
    /\ UNCHANGED <<run, cur, att, call, answer, faults, crashes>>

\* spec_run(abort=true): the last checkpoint on record, whoever owns it.
Abort ==
    /\ AtRest /\ Aborts
    /\ run' = NoRun
    /\ disk' = IF run.last = <<>> THEN disk
               ELSE [disk EXCEPT ![run.last[1]][run.last[2]] = run.last[3]]
    /\ green' = (green /\ disk' = disk)
    /\ IF sess.rk = 0 THEN UNCHANGED sess ELSE LifeTo("applying")
    /\ answer' = "none"
    /\ UNCHANGED <<cur, att, call, faults, crashes>>

\* apatch_apply_session(abort=true): no binding is asked for.
ApplyAbort ==
    /\ AtRest /\ Aborts /\ cur.rk # 0
    /\ cur' = NoCur
    /\ disk' = IF cur.ckpts = {} THEN disk
               ELSE [disk EXCEPT ![cur.rk][Max(cur.ckpts)] = cur.base[Max(cur.ckpts)]]
    /\ green' = (green /\ disk' = disk)
    /\ IF sess.rk = 0 THEN UNCHANGED sess ELSE LifeTo("verifying")
    /\ answer' = "none"
    /\ UNCHANGED <<run, att, call, faults, crashes>>

\* The worker of a promoted verification publishes its verdict.
JobEnds ==
    /\ sess.job = "running"
    /\ \E v \in {"passed", "failed"} :
          /\ v = "passed" => Whole(sess.rk)
          /\ sess' = [sess EXCEPT !.job = v]
          /\ green' = (green \/ v = "passed")
    /\ UNCHANGED <<run, cur, disk, att, call, answer, faults, crashes>>

\* The process dies in the middle of a call.
Crash ==
    /\ ~AtRest /\ crashes < MaxCrashes
    /\ crashes' = crashes + 1
    /\ call' = Idle
    /\ UNCHANGED <<run, sess, cur, disk, att, green, answer, faults>>

Init ==
    /\ run = NoRun /\ sess = NoSess /\ cur = NoCur
    /\ disk = [r \in Reqs |-> [c \in Parts |-> "none"]]
    /\ att = {} /\ green = FALSE
    /\ call = Idle /\ answer = "none"
    /\ faults = 0 /\ crashes = 0

Program ==
    \/ Skip \/ Take \/ Finish \/ SaveFailed \/ Report
    \/ OpenSession \/ FirstChunk \/ Precheck \/ Drop \/ NoopAttest
    \/ Needles \/ MoreChunks \/ Verify \/ Undo \/ Attest \/ Close

Client ==
    \/ \E left \in {1, N}, reset \in BOOLEAN : Begin(left, reset)
    \/ Resume \/ EndSession \/ Rollback \/ Abort \/ ApplyAbort

Next == Program \/ Client \/ JobEnds \/ Crash

Spec == Init /\ [][Next]_vars

----------------------------------------------------------------------------
(* Properties *)

Bases    == [Parts -> Contents]
Marks    == {<<>>} \cup (Reqs \X Parts \X Contents)
RunType  == [on : BOOLEAN, idx : 1..(N + 1), failed : SUBSET Reqs, last : Marks]
SessType == [rk : 0..N, life : Lives, job : Jobs, signed : BOOLEAN, rolled : BOOLEAN]
CurType  == [rk : 0..N, todo : SUBSET Parts, ckpts : SUBSET Parts,
             base : Bases, mine : BOOLEAN]
Points   == {"idle", "next", "session", "cursor", "check", "noop", "drop",
             "needles", "chunks", "verify", "undo", "attest", "close",
             "failing", "report"}
Reasons  == {"none", "guard", "work", "chunk", "rolled"}
CallType == [pc : Points, q : 0..N, left : 0..N, idx : 1..(N + 1),
             failed : SUBSET Reqs, skip : SUBSET Reqs, last : Marks,
             retry : BOOLEAN, undo : SUBSET Parts, why : Reasons]

\* The saved run, the session, the cursor and the call keep their shape; the
\* run never points past the end of the spec.
TypeOK ==
    /\ run \in RunType
    /\ sess \in SessType /\ cur \in CurType
    /\ disk \in [Reqs -> Bases]
    /\ att \subseteq Reqs /\ green \in BOOLEAN
    /\ call \in CallType
    /\ answer \in {"none", "more", "done", "blocked"}
    /\ faults \in 0..MaxFaults /\ crashes \in 0..MaxCrashes

\* spec_executor.py:598-624 attests after verify_run: a requirement is attested
\* only when its verify command has passed over the content then on disk,
\* whatever failed, was rolled back or was resumed before.
AttestedVerified ==
    [][att' # att => green]_vars

\* Within a call a chunk is written or taken back only for the requirement
\* whose session is open, also when the cursor was left by an earlier session.
OwnWork ==
    [][\A r \in Reqs : call.pc # "idle" /\ disk'[r] # disk[r] => sess.rk = r]_vars

\* spec_run.py:1478: done is answered only when every requirement has its
\* attestation, however often the run was cut off and taken up again.
DoneMeansAttested ==
    answer = "done" => att = Reqs

\* rollback_performed is reported to the client, and then decides how the
\* session is resumed: the chunks of the batch are as they were before it.
RolledBackClean ==
    sess.rk # 0 /\ sess.rolled /\ Own =>
        \A c \in cur.ckpts : disk[cur.rk][c] = cur.base[c]

\* RFP-009-spec-run.md:38 and :177 answer done when the spec's status is done:
\* every requirement attested, and not stale.
DoneMeansDone ==
    [][answer' = "done" /\ answer # "done" => \A r \in Reqs : Attested(r)]_vars
=============================================================================
