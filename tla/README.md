# A verification model of apatch

apatch runs code changes of AI agents under governance: an agent opens a
*session* on a *lane*, applies, verifies and attests a change, and ends the
session. Several agents, in several processes, may do so at once in one working
copy, and each process may die at any point. What keeps them apart is a set of
small JSON files under `.apatch/`, each rewritten atomically, most of them under
a lock of their own, and a signed ledger. The models here are of the protocols
over those files.

Source paths are relative to `src/`, those of the package to `src/apatch/`.

## Contents

| File | What it is |
| --- | --- |
| `PathLeases.tla` | path-scoped writer leases, their compatibility with version 1 clients, the write fence |
| `LaneOwnership.tla` | what a lane promises: one owner at a time, each owner once |
| `SessionLane.tla` | the life of sessions on a lane: start, bound operations, resume, recover, end |
| `RequestJournal.tla` | requests repeated by a client, the record that decides whether they execute again |
| `SourceEffects.tla` | chunked apply over a patch log: signed intents, backups, the cursor, recovery of an interrupted chunk |
| `VerifyJobs.tla` | detached verification: launcher, worker, polls, reconciliation |
| `OutboxPromise.tla` | what the outbox promises: a request goes with its effect, or with a stand-in |
| `WorkDelivery.tla` | the outbox of governed work: queue, sync, retirement, disconnect, endpoint transition |
| `OneShotPermits.tla` | what call admission promises: each permit is run once or void |
| `CallAdmission.tla` | challenge, answer, claim and run of an MCP tool call |
| `SpecRun.tla` | a batch run of an executable spec over sessions, needles, verification, rollback |
| `PackageDecisions.tla` | what the intake of packages promises: one attempt at a time, decided once |
| `ContractIntake.tla` | intake of an SDD package: approval, installation, completion, cancellation |
| `MC*.tla`, `*.cfg` | small instances for TLC |
| `*_proofs.tla` | the theorems about the module of that name and their proofs; `Evidence_proofs` is about `VerifyJobs` and `ContractIntake` |
| `PROJECT.json` | components, runs, mutants, the map to source lines, findings, hazards, theorems |

Check a run with `tlc -config PathLeasesJoined.cfg MCPathLeases`, proofs with
`tlapm PathLeases_proofs.tla`. No instance takes more than about three minutes; the
longest proof module takes several.

## Inventory

`PROJECT.json` lists every component, also those left out. Those with a
protocol of their own:

**Writer leases** (`path_leases.py`). State: `.apatch/write_leases.json`, the
registry of leases, each with a session, a process, canonical paths and an
expiry; and `.apatch/write_lease.json`, which a version 1 client takes for the
one lease of the workspace. Operations: acquire (join, renew), release by id, by
session or at shutdown, sweep, fence. Hard: two files written one after the
other; process death and pid reuse; expiry with a write under way; a lease lost
and won back; two client generations that lock different files. Correct when no
two owners are let through the fence for overlapping paths, and nobody writes
under a lease that somebody else wrote across.

**Session state** (`session_state.py`, `runtime/domain.py`,
`runtime/state_machine.py`). State: `session_state.json` of a lane with a
revision; the lifecycle is computed from it. Operations: save with an expected
session and revision, or with none; the merge of a tool's answer. Hard: most
writers compare, some do not.

**Sessions** (`runtime/session.py`, `runtime/finalization.py`,
`runtime/recovery.py`). State: besides the above, the lane's row in
`lane_registry.json` and `finalizations.json`, a record of completed steps per
ended session. Operations: start, end, recover. Hard: starts that race; crashes
between an effect and its record; a retry that resumes an old record over
whatever the lane has become. Correct when the lane has one owner at a time, a
completed finalization is true, and each finalization completes.

**Bound operations** (`runtime/runtime.py`, `runtime/session_binding.py`,
`runtime/reconcile.py`, `runtime/attestation.py`, `mcp/server.py`). A call
presents a session and its capability token, is admitted by the lifecycle, does
its work, and records its result if the state is still the one it captured.
Hard: the session is ended, replaced, or resumed by somebody else (which replaces
the token) while the work is under way; an attestation is signed and then the
process dies or the result is rejected.

**Request journal** (`runtime/request_journal.py`). State: one record per
retryable request in `request_journal.json`, with the process that executes it.
Operations: claim (insert, replay, recover, take over, wait), bind to the session
it opened, complete, prune. Hard: a retry that races a late answer; an executor
that died, whose pid is alive again; a record pruned while its request runs.
Correct when a request has its effect once and its client gets an answer.

**Chunked apply and pre-effect intents** (`apply_session.py`, `tui.py`,
`runtime/effects.py`, `notarization_failure.py`, `backup.py`). State: a cursor
over a patch log, the files, backups, and the ledger's intents and receipts.
Operations: plan, apply a chunk, verify, abort, recover. Hard: a crash between an
intent, its file, the receipt and the cursor; two calls with one cursor; a signer
that fails after files were written. Correct when what is written is what was
signed, effects are receipted once, and a rollback takes back what was applied.

**Verify jobs** (`verify_jobs.py`, `verify_worker.py`). State: a record per job,
stored whole without a lock by a launcher, a worker and polls; processes. Hard: a
stale copy stored over a result; a worker declared dead that answers late; a pid
that belongs to somebody else. Correct when a pass is a pass of that command, no
result is lost to a stale copy, and each job settles.

**Call admission** (`mcp/call_admission.py`). State: challenges, markers of used
ones, a journal of runs. Operations: issue, answer, claim, run. Hard: one answer
given to two servers; revocation and expiry between check and claim; a crash
between the claim and the run. Correct when a permit is run at most once and only
with the holder's standing at the time.

**Governed work delivery** (`governed_work_delivery.py`, `governed_work_mcp.py`).
State: an outbox of requests with acknowledgements and retirements beside them,
fences, the connection's configuration, its endpoint transitions. Operations:
queue, sync, retire, publish, disconnect, transition. Hard: an answer that is
lost after the Platform accepted; decisions over a snapshot of the outbox;
requests queued across a disconnect. Correct when nothing is given up that had no
effect, and nothing leaves for an endpoint it was not queued for.

**Spec run** (`spec_run.py`, `spec_executor.py`). State: `spec_run.json` with the
index of the requirement, over the session, cursor and ledger above. Operations:
run (in batches of requirements), resume, abort, rollback of a batch. Hard: each
of a requirement's six phases may fail or be the last one before a crash, and the
next call goes by what four files then say. Correct when a run that is done is
done, and when a rollback leaves nothing behind.

**Contract intake** (`sdd_contract_intake.py`, `sdd_intake_recovery.py`,
`sdd_preparation_io.py`). State: a sealed review of files and of what they replace,
`contract-intake-pending.json`, two receipts in the ledger with selectors,
cancellations beside them. Operations: prepare, approve (sign, install, sign again),
propose a cancellation, cancel, and each of them repeated. Hard: two signatures with
installed files between them, a call that stops anywhere, a cancellation decided over
an older state of the transaction. Correct when the workspace is fenced as long as an
approval is not completed, and when only what was never approved is cancelled.

**Others with state and more than one writer**: remote execution (`remote/`),
write sandbox and watcher (`sandbox.py`, `sandbox_watch.py`), artifact registry
(`artifact_governance.py`, `gc.py`), contribution, avatar and outcome outboxes,
SDD publication and handoffs.

How they interact: the MCP server and the command line call the runtime; the
server admits the call (call admission), looks for a repeated request (request
journal), and calls an operation; the operation resolves the lane (registry row),
binds the call (session state), admits it (lifecycle), takes a lease for the paths
of an apply (leases), does the work (chunks, jobs), signs (ledger) and records the
result (session state). A spec run does all of that for each requirement. The end
of a session releases its leases, its row and its temporary artifacts, step by
step, with a journal. All of it is shared through files; there are no messages
between the processes of a workspace.

How the models meet. Each module takes what lies beside its protocol as a free
choice: `SessionLane` leaves the outcome of an operation open, which
`SourceEffects` and `VerifyJobs` model; `SourceEffects` takes its lease as one
entry that may be lost at any time, which `PathLeases` justifies; `RequestJournal`
leaves the session that a start opens to `SessionLane`; `SpecRun` runs over one
lane's session, cursor and jobs, with a chunk written whole or in part;
`ContractIntake` meets the others only through what it fences: a governed session
that is open refuses an intake, and a pending intake refuses implementation.

## PathLeases

One action of the model is one transaction of `registry_transaction`. It holds
the locks of both files from its first read to its last write, so no current
client sees the middle of it; a version 1 client is kept out too, because the
transaction holds the lock of the file that client reads.
What can be seen of the middle is a process that dies there. `Torn` is that case:
the registry is old or new, and the compatibility file is still as migration left
it.

| Model | Code |
| --- | --- |
| `Migrated`, `Current`, `LegacyMigrated` | `_migrate_legacy`, `_prune` at the beginning of a transaction |
| `Sentinel` | `_compat_capability`, `_sync_compat_sentinel` at its end |
| `Admissible`, `Owned`, `Granted`, `Acquire`, `AcquireConflict` | `acquire_path_lease` |
| `Release`, `ReleaseSession`, `ReleaseAtShutdown`, `SweepStale` | `release_path_leases` and its callers, `sweep_stale_leases` |
| `MayWrite`, `FencedWrite` | `fence_path_write`, passed before each applied edit |
| `cap` | the capability an operation keeps in memory after its admission |
| `V1*` | a version 1 client: external, modelled from the file it shares |

`Crash` kills a process, `Restart` lets its pid come back (`os.kill(pid, 0)` then
answers for the dead one's leases), `Tick` passes time. Paths are the nodes of a
tree; canonicalisation (symlinks, case) is abstracted to the node a name denotes.
Lease ids are `secrets.token_urlsafe` values in the code: drawn once, never
again. `overwritten` is a history variable.

Properties: `WriteExclusion`, `NoForeignOverwrite`, `V1Exclusion`, `NeverMerged`. The
last names its exception: a call outside any session takes any lease of its process for
its own, so in a server that serves two sessions it merges their leases (`Shared`;
`PathLeasesShared.cfg` refutes `NeverMergedAtAll`, which has no exception). No run has
such a caller beside two sessions; the theorem covers them all.

Bounds. Four nodes (root, a directory, its file, a file beside) give every
relation of two paths: equal, above, below, apart. A lease lives one unit and the
clock makes two steps (`MaxTime`), so a lease granted at the start expires, and
another is granted after it. Three operations on two processes are enough for a
lease that moves between processes, for a third party, and for pid reuse. Two or
three lease ids bound the number of leases ever drawn, renewals not counted.
`leases_joined` plans nested paths, so that leases must exclude;
`PathLeasesUngoverned.cfg` plans paths apart, so that leases live side by side.
Deadlock is not checked: with the clock at its bound and all ids drawn there may
be nothing left to do.

## SessionLane

One lane with its four files: `state`, `row`, `journal`, `ledger`. Each is
rewritten under its own lock, and the code locks none across two of them.
So a read-check-write of one file is a step, and everything between two steps can
interleave or crash. `pc[p]` is the point at which the call of process `p` stands,
`mem[p]` what it holds in memory there; a crash forgets both.

| Model | Code |
| --- | --- |
| `StartLoad`, `StartReload`, `StartSave`, `StartRegister` | `start_session` |
| `Bound`, `OpBegin`, `OpCapture` | `capture_session_binding`, before and after admission |
| `OpAdmit`, `Reconciled`, `OpCheck`, `Lifecycle`, `Allowed` | `assert_operation`, `reconcile_governed_session`, `derive_lifecycle` |
| `AttestRead`, `AttestCommit` | `attest`: the state it reads, the signature |
| `ApplyBlocked` | a chunk whose signature failed, in the apply progress |
| `OpFinish`, `Outcomes` | `_finish`: the merge and its compare-and-swap |
| `Resume`, `ResumeCapture`, `ResumeRotate` | `resume_session`, directly or through `recover_session` |
| `ResetBegin`, `ResetLoad`, `ResetCheck`, `AnswerLoad`, `Overwrite` | `_reset_phase_for_reapply`, and the server's merge of an answer: writes that compare nothing |
| `End`, `EndLookup`, `CliEnd`, `RecoverBegun`, `RecoverOpen`, `RecoverAgain` | `session_end`, `recover_session` |
| `Fin*`, `EndState`, `Clean`, `Unregister` | `begin_finalization`, `finalize_session` step by step, `_store_record` after each |
| `Crash` | a process dies at any point |

Abstractions. Reading the state and swapping it are one step where the revision
decides both. What operations do to source files is left out; an operation ends
with one of the results that the code can record, a verify job and an apply
cursor may make reconciliation choose any phase of work, and the kind of a
recorded failure is a free choice. Whether reconciliation finds an attestation that
is in the ledger is open too: `_ledger_has_attestation` (reconcile.py:54-69) asks for
the tool id "apatch" and the action "attest", while `attest` signs as "apatch_attest"
without an action. Left out is the branch by which `attest` counts as successful with
no row when there is no chain directory (`committed or not has_trustchain()`,
runtime.py:873, 970): the helper creates the directory before it is asked. `Reaches` is the resolution of a call's lane
through its row: once the row names another session, the call works on the lane
named "ambiguous", where it finds nothing. A caller presents any capability that
was handed out. Enforcement is on. The phases "plan" and "idle" admit the same
operations and are one; a saved checkpoint is taken to exist. The four cleanup
steps between the end of the state and the row touch nothing on the lane and are
one step that may raise. Session ids and tokens are random, hence never reused.
The pruning of old journal records (256) is not modelled.

`LaneOwnership` is the abstract specification: its owner is the active session of
the state, `Open` needs a lane without owner and a new session, `Close` gives the
lane up. The code does not keep that promise whole (`NeverReplaced`, refuted by
`SessionLaneReset.cfg` and `SessionLaneReplaced.cfg`). `OneOwner` says what it keeps:
every step is one of `LaneOwnership`, except that a write that compares nothing
(`Restores`) may bring back a session that had the lane before or none (`Return`),
and that a start which ended a failed session may take the lane from another one
opened meanwhile (`Replaces`, `Take`).

Two variables record such steps, for the properties about finalizations only:
`restored` says that the lane is open because an old state was written back, `late`
that the present row was written after the finalization of its session had begun.
`ClosedIsEnded` and `ClosedIsUnlisted` excuse these and nothing else.

`RevokedNeverFinishes` is about the save that ends an operation (`_finish`), which
compares session and revision. The write of a reset (runtime.py:592-594) and the
server's merge of an answer check no token, record what they record for whoever asked
before, and may bring the old token back: of every write of a caller the claim is
false (`RevokedNeverWrites`, refuted by `SessionLaneRevoked.cfg`).

Bounds. Two processes, two or three sessions, so that a successor exists to be
harmed; as many tokens as sessions and a resume take; two or three calls for each
process (`MaxCalls`), enough for open, work, end and open again against a call
that overlaps all of it; one fault (`MaxFaults`), a crash at any point or a
cleanup step that raises. Which calls each process serves is `Makes`. Sessions and
tokens are symmetric in the safety runs; the liveness run uses no symmetry.
Deadlock is not checked: calls are bounded, and when they are spent the system
stops.

Fairness (`FairSpec`), used for `Converges` only. Weak fairness of `Proceed`: a
call that has begun goes on unless its process dies, as a thread does. Strong
fairness of `RecoverAgain`, for each session: a caller whose session was not
completely finalized is told so ("recoverable", "safe to call repeatedly after
interruption") and tries again; strong, because another call of the only process
that retries may interrupt the attempt's being possible. Nothing is assumed of new
calls.

## RequestJournal

`run_idempotent_request`: a client repeats a request under one id until it has an
answer. The admission holds the journal's lock; the execution does not, and the
session states that admission searches are under locks of their own.

| Model | Code |
| --- | --- |
| `Submit`, `Scan`, `Standing` | the call; the journal's lock; `_find_request_session` over the lanes' states |
| `Insert`, `Replay`, `Recover`, `TakeOver`, `Wait` | the branches of the admission |
| `Open`, `Bind` | the session start that is executed, `bind_request_session` |
| `Complete`, `Marked`, `Store`, `Prune` | `_complete_record`: also on a record that was pruned meanwhile, which then comes back without its operation and payload (`"bare"`) |
| `Raise`, `RecoverRaises`, `Answer` | an execution that raises (status unknown), a recovery that raises, the answer |
| `Die`, `PidReused`, `ForeignEnds` | external: `_pid_alive` answers for whoever has the pid |
| `EndSession`, `StartPlain` | what others do to the lanes |

The request modelled is a session start, the one kind of request that leaves
something to recover. Which record is pruned first goes by wall-clock times and is
left open, except that the record just written stays.

Properties: `OpensOnce`, `ExecutesOnce`, `ConflictMeansPruned`, `Answered`. The two
excuses in `OpensOnce` (a pruned record, an execution that stopped between opening
and binding) are what the code leaves; `RequestJournalTwice.cfg` shows the second
one, with two lanes.

Bounds: two requests, two servers, one lane, so that a start can be refused; a
journal of one record (`Capacity`) instead of 64, so that pruning happens with the
second request; two faults, so that an execution dies and its taker-over as well.
Fairness: a call goes on and gets the lock in the end (strong, since others take
the lock in between); a client repeats its request until it has an answer, which is
what a request id is for. `Answered` excuses no server being up, and `Blocked`: the
process on record lives, or another has its pid, and does not execute the request;
then the code answers "in progress" for ever. Deadlock is not checked: when all
servers are dead and all lanes closed nothing is left to do.

## SourceEffects

One governed session, its patch log of `N` patches, each of a file of its own, and
calls that apply a chunk or recover one. An apply call is followed patch by patch:
the intent with both images is signed, the fence is entered, the bytes are compared
with the intent, the file is replaced, out of the fence it is compared again, then one
receipt is signed for the chunk and the cursor moves. Others write between any two
of these.

| Model | Code |
| --- | --- |
| `Plan`, `Load`, `LoadComplete`, `Admit`, `ChunkOf` | `run_apply_session` up to its lease |
| `MatchPatch`, `SkipPatch`, `NextPatch` | the loop of `run_apply_loop` over the chunk |
| `Prepare`, `PrepareNothing`, `PrepareRefused`, `SameChunk`, `Intent` | `prepare_effect` |
| `EnterFence`, `Write`, `WriteRefused`, `WrittenEffect`, `Fenced`, `PreimageHolds` | `_commit_write`: `fence_path_write` and `assert_effect_preimage`, `os.replace`, `written_effect` |
| `Unfenced` | the locks of the lease registry, which `fence_path_write` holds to the end of the write |
| `BackUp` | `create_backup`, also over a backup made before |
| `VerifyPasses`, `VerifyFails`, `ClearCursor` | verification of the chunk, rollback, the cursor taken away |
| `SignChunk`, `SignFails`, `RestoreOwn`, `Restorable` | the receipt; what is put back when it cannot be signed |
| `Block`, `Save` | the cursor stored whole |
| `Abort`, `Aborted` | `abort=true`: the rollback, then the lease released and the cursor removed |
| `StartRecovery`, `Complete`, `CheckPostimages`, `SignRecovery`, `RecheckPostimages`, `CompareCursor`, `Advance` | `recover_source_effects` |
| `Edit`, `LeaseExpires`, `Crash` | external |

The lease is one entry; an apply that lost it writes no more. A signature is one
step and may fail. Contents are images told apart by the patch that made them. When a
signature fails, the files are compared and restored in one step (`RestoreOwn`); the
code takes them one by one, each in the fence.

Properties: `ReceiptsLanded` (a signed row stands for writes that took place, by the
history variable `landed`), `RecoveredOnce`, `RollbackRoute`, `RecoveryCovered` (of
steps). Two stronger claims fail. `NotarizedOnce` is that of the docstring; two apply
calls with one cursor break it (`SourceEffectsTwice.cfg`). `ExactPreimage` would have a
write replace exactly the bytes its intent names; the fence keeps out only those who
ask for a lease, so an editor that saves between the comparison and `os.replace`
loses what it saved (`SourceEffectsOverwritten.cfg`).

Bounds: two patches in chunks of two files, or of one when the second patch comes
alone; two calls at a time of three in all (`MaxCalls`, which also bounds aborts), so
that a third recovers what two left; one fault. Calls are symmetric. Deadlock is not
checked: calls are bounded.

## VerifyJobs

| Model | Code |
| --- | --- |
| `Register`, `Spawn`, `LoadLatest`, `PublishPid`, `AnswerLaunch` | `start_verify_job`: the record, the process, the pid written into the newest copy |
| `Handshake`, `FindSettled`, `GiveUp` | `run_verify_job_worker` waits for its pid, at most five seconds |
| `CommandEnds`, `Raise`, `PublishResult`, `WorkerExits` | the command and its verdict (`_complete_job`, `_finalize_shell_result`) |
| `PollLoads`, `PollProbes`, `PollCompletes`, `PollAnswers` | `poll_verify_job`: the copy, the liveness of the pid, the result "lost", the merge into the session |
| `Reconcile`, `Work` | `reconcile_governed_session` for the job's phase; new work in the session |
| `ServerDies`, `WorkerKilled`, `PollDies`, `Reap`, `PidReused`, `ForeignEnds` | external |

Properties: `PassedRan`, `CompleteBacked`, `NeverRegresses`, `Settles`.

Bounds: one job (jobs share nothing but the session's phase), in each baseline
mode, two polls, three faults: a server, its worker and a poll may all die.
Fairness: launcher and worker run; a running job is polled, and not every poll dies.
Nothing makes the command end, for it has no time limit: `Settles` excuses a command
that runs for ever and a foreign process that keeps the worker's pid. Nothing makes
the server collect a worker that exited either: Python does so at the next
`subprocess.Popen` of that process, so `Reap` is a step without fairness, and `Settles`
excuses the zombie of a living server as well. The worker that was killed in its command
under a server that starts no other process is answered as running for ever; the death
of the server ends this, as does the next job it launches. Deadlock is checked.

## WorkDelivery

| Model | Code |
| --- | --- |
| `QueueCall`, `Queue` | `_queue` and the calls that use it |
| `Load`, `ReadPending`, `ReadFences`, `FencedOff` | how `sync_governed_work` and `publish_governed_evidence` begin: the configuration, then in `_assert_sharing_available` the pending entries, then the fences, with no lock over them |
| `PublishQueue` | `publish_governed_evidence`: the queueing; of its two looks at the fences the second decides |
| `Snapshot`, `Post`, `PostRefused`, `PostLost`, `Store`, `Follow`, `Ack`, `SyncEnd` | `sync_governed_work`: a new list of the pending entries, one post after the other, what each answer entails, the acknowledgement last |
| `MayRetire`, `Retire`, `Retired` | `retire_outbox_entry`, `_retirement_is_active` |
| `Disconnect`, `DisconnectRead`, `DisconnectWrite` | `disconnect_governed_work`: the configuration, the pending entries, and the fence are read, read and written one after the other |
| `TransitionSign`, `TransitionWrite` | `transition_platform_url`: the signed document, then the configuration |
| `Crash` | a caller dies |

The Platform is external: it accepts a key once and repeats its answer, or
refuses. A connection generation is the hash of the configuration, of which only
the endpoint changes, so generations are named by endpoints. A directory is read at
one instant: entries are never taken away, and fences are never changed.

Properties: `NothingLost`, `FencesHold`, `EndpointSigned`, and `PromiseKept`, the
refinement of `OutboxPromise`: a request is settled by its effect (the Platform's
answer is stored, and what follows from the request is in the outbox) or because
another of its kind stands in for it that was settled so; nothing that was not queued
has an effect, and nothing is taken back. Posts, lost answers and repetitions are
stutters of it until an answer is stored. `FencesHold` is about the entries that were
in the outbox when a sync read what is pending (the history `barred`): of these it
posts none that it then reads in a fence. An entry queued between the two reads may be
fenced by a disconnect that loaded its configuration before a transition; the sync
reads that fence, finds none of its pending entries in it, and posts the entry from its
later list: `WorkDeliveryRaced.cfg` refutes the property without the restriction
(`FencesHoldAll`). `NeverReused` is what
RFP-047 says of a disconnected generation (CSD-6: it "cannot silently reuse pending
entries from an older generation"); `WorkDeliveryReused.cfg` refutes it, in the
instance that records the endpoint a request was queued under: a fence lists what is pending when it is written, and a request queued later is in none.

Bounds: four requests, one of each role: an acceptance, the source request that
must follow it, a request the Platform refuses, an evidence admission; two callers;
two endpoints and one transition between them; one fault. No delivery is promised
by the code alone (somebody has to call sync), so no liveness is stated. Deadlock is
not checked: everything may have been delivered.

## CallAdmission

| Model | Code |
| --- | --- |
| `IssueOpen`, `IssueWrite`, `IssueRefused`, `Pending`, `Expired`, `Torn` | `issue` under the namespace lock, with its limit and its cleaning up |
| `Answer`, `Validate`, `Recheck`, `Refuse`, `Passport` | `accept` up to the claim: record, policy, signature, registry, then the registry again |
| `Claim`, `ClaimFails`, `ClaimCheck`, `Burn`, `Live` | `_claim`: the marker is created exclusively, then expiry and standing are looked at once more |
| `Admit`, `AdmitFails`, `Deny`, `Invoke` | the journal entry, and `dispatch` |
| `Complete`, `Publish` | `completed`: the receipt and its publication |
| `Tick`, `Revoke`, `Die` | external: clock, registry, process exit (which frees the lock) |

`OneShotPermits` is what a client can count on: an open permit is run once or
becomes void, and neither changes afterwards. `RunOrVoid` is the refinement, with
`PermitOf` the mapping. Further: `RunsAdmitted`, `RevokedNeverRuns`, `Ends`.

Bounds: two servers, two challenges (`Limit` 2, so that a third is refused while
two are pending; a torn record counts), a lifetime of one and a clock of two
(`Horizon`), two faults. Fairness, for `Ends`: a call that has begun goes on and gets
the lock in the end. Deadlock is not checked: challenges are drawn once.

## SpecRun

`spec_run_workspace`: one call takes requirements in document order, each through
session, cursor, precheck, needles, verification, attestation, end. `call.pc` is the
phase, `call.q` the requirement. The call is one thread, and one lane is one spec,
so what is hard is not interleaving but what the next call makes of what a failure,
a rollback, a crash, or a client's `apply abort`, resume or rollback left in four
files.

| Model | Code |
| --- | --- |
| `Begin`, `Skip`, `Take`, `Saved`, `Finish`, `Program` | `spec_run_workspace`: the loop, the index it saves, the answer |
| `OpenSession`, `Route`, `Precheck`, `NoopAttest`, `Drop` | `_run_one_requirement` to the point where the cursor decides |
| `PlanNeedles`, `Needles`, `MoreChunks`, `ApplyChunk`, `WriteChunk`, `Resumes` | `execute_next_workspace`, `apply_session`, chunk after chunk |
| `InPlace`, `Promote`, `Verify`, `JobEnds` | `verify_run`, in place or as a background job |
| `Undo`, `SaveFailed`, `Blocked`, `Report` | a failure: the batch taken back, the run saved, the answer enriched into the session |
| `Attest`, `SignSession`, `Close`, `CloseSession` | `attest`, `close_session` |
| `Resume`, `EndSession`, `Rollback`, `Abort`, `ApplyAbort` | what a client may do between calls |
| `Reconciled`, `MayApply`, `MayVerify`, `MayAttest`, `Refuse` | reconciliation and the admission of an operation |

Left out: the gates before a run (lint, coverage, dependencies, interference, drift
of the manifest), `dry_run`, `allow_partial`, specs that edit themselves, frozen
verification, runs over several specs, `execute_next` called by itself; the branch of
`attest` and `noop_attest` that answers ok with no row when there is no chain directory,
which needs that directory to be impossible to create; the branch of reconciliation that
blocks a session whose signing of effects is open (`signing_recovery_required`), which
stops the run until the recovery that `SourceEffects` models; and a death between the
commit of an attestation and its record, which `SessionLane` models.

Properties: `DoneMeansAttested`, `RolledBackClean`, `OwnWork`. What the code does not
keep: `AttestedVerified` (`spec_verified`: a promoted verification is taken for a
passed one; `SpecRunInPlace.cfg` shows that it holds of verification in place);
`DoneMeansDone` (`SpecRunStale.cfg`: a call that began when an attested requirement
was whole passes it over, whatever the run does to it later);
`DoneMeansAttested` without stop_on_first_failure (`SpecRunDone.cfg`: each later
requirement meets the open session of the failed one, fails, and the run still ends
as done). That a run gets done in the end is not stated: a needle that a crashed
call has applied does not match again, and a cursor whose session was ended blocks
the lane until the client aborts it.

Bounds: two requirements of two chunks each and one that is only verified, so that a
failure has a successor and a chunk a rest; batches of any size; two failing steps
and one death. Deadlock is checked.

## ContractIntake

The freeze lock makes the bodies of `approve_contract_intake` and
`cancel_uncommitted_intake` one after the other, so what matters is where a call
stops and what the next one finds. Each durable write is a step of its own; after any
of them the call may die or raise (`Stop`), which frees the lock and undoes nothing,
and anybody may edit a file between two steps (`Edit`). A step whose condition does
not hold refuses the call (`Permits`, `Refuse`).

| Model | Code |
| --- | --- |
| `Prepare` | `prepare_contract_intake`: the review seals what the paths hold |
| `Approve`, `Save`, `Open` | `approve_contract_intake` to the pending transaction |
| `Mark`, `Sign`, `Select`, `Store` | `_commit`, for the approval and again for the completion |
| `Compare`, `Install`, `Put`, `Outputs`, `Unlink` | the files compared, installed one by one, checked; the end of the transaction |
| `AnswerAgain` | a completed approval repeated (`review_contract_intake`) |
| `Offer` | `review_cancellation`, which takes no lock |
| `Cancel`, `Propose`, `SignCancel`, `Settle`, `Drop` | `cancel_uncommitted_intake` under the lock, from the scan of the ledger to the unlink |
| `CancelAgain` | a settled cancellation repeated |

A pending file has an identity (inode, times), which every write changes: an
*incarnation*. In the model it is the attempt and the stage. Rows of the ledger carry
the incarnation they were signed over; for approvals and completions that is history
only, the code does not look at it. The checks before the lock refuse nothing that
the same checks under it would let pass at that moment, so they are one step with
them. Profile, frozen judges and authority inputs are held still: a review whose
inputs drifted is refused everywhere, as after a `Stop`.

Properties: `UnfinishedFenced` (an approval without a completion keeps its pending
transaction), `DecidedOnce` (an attempt has one signed decision), `EvidenceKept` (the
pending file goes only with a completion of this attempt or a cancellation of exactly
this incarnation), `AnswersStand`, and `OwnerDecides`: the intake implements
`PackageDecisions`, where an attempt is approved or cancelled once, an approval can
only be completed, and a package is approved in one attempt at most. `Attempt` and
`Decided` map to it the pending file and the ledger; marks, selectors, installed files
and all that a call does before it signs are stutters. What the code does not keep, and no document
promises: `CompletedReleases` (`ContractIntakeStuck.cfg`). A death after the receipt of
the completion and before the unlink leaves the pending file; a repeated approval then
answers that the package is prepared, a cancellation is refused, and implementation
stays fenced until somebody removes the file by hand. The same holds, by intention, of
an approval that was signed and not completed.

Bounds: two packages that share a document, one with a second file, so that one
replaces what the other installed and an installation can stop half way; four calls
(approve, cancel, approve again, one repetition), two that stop, one edit. Deadlock is
not checked: the calls may be used up. No liveness: nothing in the code retries.

## Runs

| Run | Shows |
| --- | --- |
| `leases_joined` | one session whose lease moves between two processes, another session, a version 1 client: exclusion, no overwritten write, the version 1 barrier, leases never merged |
| `lane_open` | two processes race to open the lane while an operation is applied or fails, old states are written back, and sessions are ended from the console and recovered, with one crash or raising step: it refines `LaneOwnership` but for the two steps `OneOwner` names, and a completed finalization leaves no row that was not written late |
| `lane_work` | two processes work, resume, reset, answer, recover and end while operations are under way, with one crash or raising step: an operation's save is refused to the holder of a replaced token, no attested state without a signature, and a completed finalization's session is not open unless an old state was written back |
| `lane_converges` | every finalization of a session whose lane is not opened again completes, through a crash, a step that raises, retries, and a reset that writes the open state back |
| `request_journal` | two repeated requests over a journal of one record, deaths and exceptions anywhere: one session, one executor, no false conflict, an answer in the end |
| `source_effects` | three calls apply, verify, abort and recover with one fault anywhere: receipts only for what was written, one recovery, a backup for everything |
| `verify_jobs` | launcher, worker and polls with stale copies and reused pids: a pass is a pass, results stay, jobs settle |
| `work_delivery` | two callers over one outbox, with lost answers and crashes: it refines `OutboxPromise`, fences hold for what was there before they were read, endpoints move along signed documents |
| `call_admission` | two servers, answers sent any number of times, revocation, expiry, deaths: it refines `OneShotPermits`, and every call ends |
| `spec_run` | a spec in any number of calls with failures, rollbacks, aborts, resumes and a death: done is attested, a rollback is complete, work stays in its requirement |
| `contract_intake` | two packages approved, cancelled and repeated by two processes that stop anywhere, with a foreign edit: what is approved is fenced until completed and never cancelled, and it refines `PackageDecisions` |
| `spec_verified` (violation) | a verification made a background job is taken for a passed one, and its requirement attested while the command runs |

The last is a disagreement between the code and a document of the repository, which
`findings` in `PROJECT.json` quotes. Further instances lie beside them, each a
property of the modules above; all but the first and the last refute it:

| Instance | Module | Shows |
| --- | --- | --- |
| `PathLeasesUngoverned.cfg` | `MCPathLeases` | a session and two calls outside any session on paths apart, a version 1 client: the properties hold |
| `PathLeasesShared.cfg` | `MCPathLeases` | a server that serves two sessions and a call with none: that call joins the lease of one session for a path the other holds (`NeverMergedAtAll`; RFP-036, lines 44 and 71) |
| `SessionLaneReplaced.cfg` | `MCSessionLane` | a start that first ended a failed session replaces a session opened meanwhile (`NeverReplaced`) |
| `SessionLaneReset.cfg` | `MCSessionLane` | a reset writes the state of an ended session back (`NeverReplaced`) |
| `SessionLaneAttest.cfg` | `MCSessionLane` | an attestation is signed for the successor of the session that asked (`AttestsOwn`) |
| `SessionLaneStuck.cfg` | `MCSessionLane` | once the lane is opened again, a finalization that crashed early never completes (`Converges`) |
| `SessionLaneUnlisted.cfg` | `MCSessionLane` | a session ended before its row was written stays listed as active (`ClosedNeverListed`) |
| `SessionLaneRevoked.cfg` | `MCSessionLane` | a reset begun before a resume writes on behalf of the former holder (`RevokedNeverWrites`) |
| `RequestJournalTwice.cfg` | `RequestJournal` | a retry looks for the session before the original opens it, and for its process after it died: two sessions of one request (`OneOpenSession`) |
| `SourceEffectsOverwritten.cfg` | `MCSourceEffects` | somebody writes between the comparison with the signed bytes and the replacement, and is overwritten (`ExactPreimage`) |
| `SourceEffectsTwice.cfg` | `MCSourceEffects` | two calls that loaded one cursor sign two receipts for one effect (`NotarizedOnce`) |
| `WorkDeliveryReused.cfg` | `MCWorkDeliveryReused` | a request queued after a disconnect is sent under the generation that a transition made (`NeverReused`) |
| `WorkDeliveryRaced.cfg` | `MCWorkDeliveryReused` | a sync posts an entry that was queued and fenced after it had read what is pending, and before it read the fences (`FencesHoldAll`) |
| `ContractIntakeStuck.cfg` | `MCContractIntake` | a death before the unlink leaves a completed package pending (`CompletedReleases`) |
| `SpecRunDone.cfg` | `SpecRun` | without stop_on_first_failure a run answers done over failed requirements (`DoneMeansAttested`) |
| `SpecRunStale.cfg` | `SpecRun` | done with a requirement that is stale (`DoneMeansDone`) |
| `SpecRunInPlace.cfg` | `SpecRun` | verification in place: `AttestedVerified` holds |

An instance that refutes a property serves only the calls that are needed for it.
`lane_open` and `lane_work` serve all of them between them: starts of both processes,
operations, resets, answers, the console's end and recovery in the one, with three
sessions; an end by the holder and a resume as well in the other, where one process
starts and two sessions exist. `lane_converges` has one session id, so the lane is
not opened again, and no answer, which can write an empty lane over the session (the
kind of write that `SessionLaneReset.cfg` shows).

`TypeOK` is checked where a run lists it; of `PathLeases`, `SessionLane`,
`RequestJournal`, `SourceEffects`, `VerifyJobs`, `WorkDelivery` and `ContractIntake` (`IntakeTypeOK`)
it is proved and not run again. Every property of a passing run has a mutant in `PROJECT.json`: a changed
definition, written beside the original and marked "Fault", under which the run
finds the property violated. `AdmissibleFault`, for example, forgets that a
request for a directory conflicts with a lease below it; `OpFinishUnversioned`
compares the session and not the revision, which a resume then gets past.

## Proofs

All theorems hold for every value of the constants that the modules' `ASSUME`s
allow. Those say that absent values are no values, that paths form a tree, and
that bounds are natural numbers. Where a theorem needs a hypothesis on the calls that
are served, it is a named definition (`OwnersSeparated`, `StopOnFirst`). The theorems of a component share one inductive invariant, `IInv`, or a
chain of them, each resting on the one before (`SessionLane`, `SourceEffects`). The
proof that a step keeps it has one lemma per action, or per conjunct and action where
several disturb it. TLC checked each invariant on the small instances first.

**PathLeases.** `TypeCorrect` and `LeasesNeverMerged` have no hypothesis: leases of two
sessions overlap only if one process serves both and a call outside any session, for
every assignment of operations to processes and sessions. They rest on `SharedInv`,
which holds of every such assignment: `LeaseShape` (below), that a version 1 capability
was drawn (`V1Drawn`), and the property; a grant adds a path that another lease covers
only if its operation counts that lease as its own (`GrantMeets`).

`WritersExcluded`, `NoLostWrite` and `BarrierHolds` have one hypothesis,
`OwnersSeparated`: a call outside any session shares its process with no session. It
holds of one-shot commands; where it does not, the two calls hold one lease and the
fence cannot tell them apart. None of the properties is inductive; `IInv` strengthens
them by what a transaction keeps up:

- `LeaseShape`, `LegacyShape`: whom a lease in the registry stands for, and that
  a version 1 capability shares its id with no lease of a current client;
- `CapShape`: the lease a capability names, while it is in the registry, is still
  its owner's and has only grown. This needs ids that are never reused;
- `LeasesDisjoint`: two leases do not overlap, and an owner has one lease;
- `NothingOverwritten`: as long as the lease is there, nobody else wrote below
  the paths of the capability, because its lease would have overlapped;
- `Barrier`: the compatibility file outlasts each lease somebody can still pass
  the fence with. A torn transaction may leave a lease without its barrier, but
  never one whose process lives: the process that died was the one to use it.

Exclusion then follows from `CapShape` and `LeasesDisjoint`, the version 1
property from `Barrier`.

**SessionLane.** None of its theorems has a hypothesis on who calls what.
`TypeCorrect` needs `Local`: at each point of a call, its memory
holds what the next step uses. `RevokedIsRefused` (`RevokedNeverFinishes`) rests on
`Fenced`: while the revision is the one a call captured, session and token are the
captured ones, since every write advances the revision; and on `Presented`: a call
that acts for a caller has a token that was presented. `AttestationBacked`
(`AttestedBacked`) rests further on `Fresh` (a session being registered is unknown
to row and callers), `Bidden` (a bound call's session was handed out), `Signed` (a
call that goes on as signed has its session in the ledger, or the state or row has
moved on, so that its result will be dropped) and `AllBacked`: every *copy* of the
state held in memory is backed as well. The last is why writes that compare nothing
cannot break it: they restore a state, never an attestation that was not signed.

- `ClosedEnds` (`ClosedIsEnded`): `Gone`, a session that was open and is so no more,
  or is so again by a write that compares nothing, is stable; `EndsTruly` and
  `RecordTrue` say that a call that finalizes, and a record, count the step
  "state_ended" only for a session that is gone. Healing an incomplete record of a
  session whose successor is on the lane is where this is subtle.
- `ClosedUnlists` (`ClosedIsUnlisted`): `Off`, a session whose finalization has begun
  and whose row is off or was written late, is stable, because a record is replaced
  and never removed, so that whoever registers the session from then on is late.
- `LaneRefined` (`OneOwner`): `ReadTruly` says that a start which ended nothing has
  read a lane without an owner, and that the revision read is the present one only if
  the copy *is* the present state, so the compare-and-swap opens a lane that is free;
  `Known` says that the state and all copies of it are of sessions that were opened,
  so what is written back brings no session that never had the lane.

**RequestJournal.** `TypeCorrect`, `Once` (`OpensOnce`), `OneExecutor`
(`ExecutesOnce`), `NoFalseConflict` (`ConflictMeansPruned`). `CallsRun`: a call in
progress has its request and a process that is up; `OwnersExecute`: who executes a
request whose record is kept is the owner on record, so a second executor would have
had to find the first one's process gone; `RecordsKept`: what a call is to write into
is there; `OpenedBound`: a session that was opened is bound in its record or about to
be; `OpensFirst`: who is about to open a session opens the first, save for the two
excused cases.

**SourceEffects.** `TypeCorrect`, `Once` (`RecoveredOnce`), `Covers`
(`RecoveryCovered`). `Framed`: what a call has in memory fits the stage it is in; `FromLedger`: it was read from the ledger or signed by
itself; `Ordered`: an apply call signs the patches in the order of the chunk;
`Serialised`: one recovery at a time; `Whole`: a recovery has all effects of the
chunk, of one apply call; `Agreed`: once it has looked at the files, the images it
goes by are theirs; `Informed`: until it signs, it knows the rows of every other
recovery; `Truthful`, `Backed`: a row signed by a recovery holds the images of its
effects, and the cursor moves over nothing that no row covers.

`Route` (`RollbackRoute`) has an invariant of its own over `IInv`, because a backup is
wiped when a checkpoint is used again, and a call may be about to write what only that
backup could undo. `Numbered`: serials number the admissions, and whoever holds the
lease, or is in the fence, was admitted last. `Newest`: while the call admitted last is an apply call, no
cursor and no recovery names its checkpoint. `KeptOwn`: as long as it is the last, a
call that may still write has its own backup; afterwards it does not pass the fence,
so that its backup may go. `Images`: backups hold files as they were before they were
patched, and nothing that a patch was computed to give is what others have written.
`Routed`: a file that holds what a patch was computed to give, signed yet or not, has
a backup. `RollbackRoute` speaks of signed effects only and is not inductive.

`Landed` (`ReceiptsLanded`) rests on both. `Placed`: what an apply call has signed
intents for has been on disk, but for the patch it is at; `OnDisk`: a file that holds
what a patch was computed to give it holds it because an apply call has put it there,
for nobody else writes such an image and no backup holds one. A recovery looks at the
files, so what it signs for has landed as well.

**VerifyJobs.** `TypeCorrect`, `PassesRan` (`PassedRan`), `PhaseBacked`
(`CompleteBacked`), `ResultStays` (`NeverRegresses`). `ExitAfterCommand`: an exit
code stems from the command; `CopiesRan`: every copy of a verdict, on disk or in a
poll's hands, rests on that exit; `LaunchedFirst`: the command runs only when the
launcher will not store its copy any more; `CompleteBacked` is kept with it. These
theorems are in `Evidence_proofs`, with those of `ContractIntake`.

**WorkDelivery.** `TypeCorrect`, `Lossless` (`NothingLost`), `Fenced` (`FencesHold`),
`Endpoint` (`EndpointSigned`), `PromiseRefined` (`PromiseKept`). `EntriesSound`: what is acknowledged or retired has
had its effects; `CallsSound` joins `Named`, `Progress` (the effects of the steps of a
sync taken so far), `Barred` (what was in the outbox and not pending at a call's first read
never is again; past the fences this covers all of it that they name)
and `Signed` (a transition about to be written has its document). `Grows`, which each step
satisfies, says that no entry becomes pending again. `PromiseRefined` maps each step
to one of `OutboxPromise` or a stutter: queueing to `Put`, the store of an answer (of
an evidence admission the post itself) to `Work`, acknowledgement and retirement to
`Settle`; that an acknowledgement may settle is `Progress`, that a retirement may is
`EntriesSound`.

**CallAdmission.** `TypeCorrect`, `Admitted` (`RunsAdmitted`), `Revoked`
(`RevokedNeverRuns`), and `OneShotRefined`, the refinement of `OneShotPermits`:
`PermitStep` maps each step to one `Turn` or a stutter. `ClaimsSound`: who has claimed
a challenge is alone with it and has not run it yet; `RunsSound`: a challenge is run
once at most, and a call that completes has run it; `StaleStopped`: the answer of a revoked holder gets no
further than the first look at the registry.

**SpecRun.** `TypeCorrect`, `RollbackHolds` (`RolledBackClean`), `WorkIsOwn`
(`OwnWork`), and `DoneHolds` (`DoneMeansAttested`) under the hypothesis
`StopOnFirst`. `Bound`: the requirement in hand is the one the index names, and
session and owned cursor are its; `Batches`: a phase that takes the first or the last
chunk of a batch has one; `Unwound`: while a rollback goes through a batch, the chunks
it has passed are as they were; `Progress`, for `DoneHolds` alone: the index, saved or
in a call, has passed only attested requirements.

**ContractIntake.** `IntakeTypeCorrect` (`IntakeTypeOK`), `FencedUntilDone`
(`UnfinishedFenced`), `OneDecision` (`DecidedOnce`), `AnswersHold` (`AnswersStand`),
`NothingDeleted` (`EvidenceKept`) and `OwnerRefined` (`OwnerDecides`), of one invariant,
`IntakeInv`. Its half `Global` is true between any two steps: `Attempted` (an attempt
is of one review, and the pending attempt is the last), `Receipted` (a completion is
selected before the pending file goes), `CancelsExactly` (of the pending attempt only
the pending incarnation is ever cancelled), `Fences`, `DecidedOnce` and `Told` (the
properties, row by row). The other half is what a call knows: `Approves` (who approves
has its review pending, finds the approval *of this attempt* in the ledger once it
installs, and no completion until it signs one) and `Cancels` (who cancels has the very
incarnation pending that it was called for, and the review is not approved). A
death frees the lock and forgets the call, so the next one has `Global` alone to
learn from: that is why the check under the lock scans the ledger, not the selectors.
`OwnerRefined` maps each step to one of `PackageDecisions` or a stutter: `Open` to
`Begin`, a signature to `Decide` or `Complete`, an unlink to `Close`.

**Only model-checked.** `Converges`, `Settles`, `Answered` and `Ends` are liveness under
fairness, which is out of the prover's reach. Every safety property that a passing run
checks is a theorem. What the instances beside the runs refute (`AttestsOwn`,
`NotarizedOnce`, `CompletedReleases` and others) is claimed of nothing.

## Not modelled

`PROJECT.json` gives a reason for each component. In short: matching, patch
generation, parsing, reports and indexes are functions over text, and the data a
model would abstract is what they are about; most of the code's lines are of this
kind, or pass arguments between a command line, a tool protocol and a function.
Signatures, hash chains and the checkpoint format are an external library's.
Registries rewritten in one transaction with no protocol around it say nothing that a
unit test would not; the task budget is one of them, each update being one step
under one lock. The publication of SDD documents has no caller and no test here
that would fix the states it is called in; of the SDD modules only the intake is
modelled.
Of PathLeases, writes that do not pass the fence (rollback, strip, compile) are
not covered by its properties.

## Plan

Done: the modules above, in the order `PathLeases`, `LaneOwnership` and
`SessionLane`, `RequestJournal`, `SourceEffects`, `VerifyJobs`, `WorkDelivery`
over `OutboxPromise`, `CallAdmission` over `OneShotPermits`, `SpecRun`, `ContractIntake` over
`PackageDecisions`, each with its proofs.

Left, most important first:

1. `execute_next` called by itself between the calls of a spec run, and the gates in
   front of a run as far as they read state that the run changes.
2. The composition of `SessionLane` with `PathLeases`: the release of leases by a
   finalization while an operation of the session still writes.
3. Remote handoff (`remote/`), the write sandbox and its watcher, reference counts of
   the artifact registry, the other outboxes.
4. Abstract specifications for the other components, as `LaneOwnership`,
   `OneShotPermits`, `OutboxPromise` and `PackageDecisions` are for theirs: the writes
   that pass the fence, a request executed once, a run of requirements; and the proof
   that the modules implement them.
