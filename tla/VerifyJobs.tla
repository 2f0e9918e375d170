----------------------------- MODULE VerifyJobs -----------------------------
(***************************************************************************)
(* Asynchronous verify jobs (src/apatch/verify_jobs.py, verify_worker.py): *)
(* a server registers a job and launches a detached worker; the worker     *)
(* waits until its pid is published, runs the verify command and publishes *)
(* the result; clients poll the record; reconciliation moves the session's *)
(* phase from what the record says.                                        *)
(*                                                                         *)
(* The record .apatch/verify_jobs/<id>.json is replaced atomically and     *)
(* under no lock, by three kinds of process, each from the copy it read.   *)
(* What the command prints, the log and all times are left out.            *)
(***************************************************************************)
EXTENDS Naturals

CONSTANTS
    Jobs,      \* job ids, drawn at random
    Pollers,   \* concurrent calls of poll_verify_job, in any process
    OfSession, \* the jobs that carry the session's id
    MaxFaults  \* bound on what dies or fails

ASSUME JobsAssumption ==
    /\ OfSession \subseteq Jobs
    /\ MaxFaults \in Nat

VARIABLES
    jobs,     \* the record: its state and whether the worker's pid is in it
    mode,     \* the baseline mode a job was started with
    launch,   \* where start_verify_job is, for each job
    read,     \* the state in the copy start_verify_job read back
    worker,   \* the worker process of a job, and later its pid
    exit,     \* how the verify command of a job ended
    behind,   \* history: what the verdict in the record rests on
    polls,    \* the calls of poll_verify_job
    phase,    \* the phase of the session
    faults    \* how much died or failed so far

vars == <<jobs, mode, launch, read, worker, exit, behind, polls, phase, faults>>

States   == {"none", "running", "passed", "failed"}
Terminal == {"passed", "failed"}
Modes    == {"off", "compare", "capture"}
Record   == [state : States, pid : BOOLEAN]
Launches == {"idle", "registered", "spawned", "loaded", "published", "done", "dead"}
\* "late" gave up on the handshake; "raising" met an exception.
Live     == {"waiting", "late", "command", "ended", "raising", "written"}
\* An exited child stays a zombie until its parent reaps it or dies; its pid
\* may then be given to a "foreign" process.
Workers  == {"none"} \cup Live \cup {"zombie", "gone", "foreign"}
Exits    == {"none", "zero", "known", "red"}
Phases   == {"work", "verify", "complete", "blocked"}
Idle     == [at |-> "idle"]
Poll     == {Idle} \cup [at : {"probing", "completing"}, job : Jobs]
                   \cup [at : {"answering"}, state : States \ {"none"}]

----------------------------------------------------------------------------
(* Verdicts *)

\* A failure counts as a pass when every failed test was known before; a
\* baseline capture passes whatever happens, a lost worker included.
Accepts(j, how) ==
    \/ how = "zero"
    \/ how = "known" /\ mode[j] = "compare"
    \/ mode[j] = "capture"

\* Fault: exit code 1 with no failed test in its output reads as nothing new.
VerdictUnparsed(j, how) ==
    IF Accepts(j, how) \/ mode[j] = "compare" THEN "passed" ELSE "failed"

Verdict(j, how) == IF Accepts(j, how) THEN "passed" ELSE "failed"

\* _complete_job: the caller's copy becomes terminal and replaces the record,
\* in which nobody looks for a pid any more.
CompleteJob(j, how, basis) ==
    /\ jobs' = [jobs EXCEPT ![j].state = Verdict(j, how)]
    /\ behind' = [behind EXCEPT ![j] = basis]

\* One more process dies, or call fails.
Fault == faults < MaxFaults /\ faults' = faults + 1

\* Fault: no answer of kill means that the process is gone.
AliveAlways(j) == worker[j] # "none"

\* What kill(pid, 0) answers.
Alive(j) == worker[j] \in Live \cup {"zombie", "foreign"}

----------------------------------------------------------------------------
(* The launching server: start_verify_job *)

Register(j) ==
    /\ launch[j] = "idle"
    /\ \E m \in Modes : mode' = [mode EXCEPT ![j] = m]
    /\ launch' = [launch EXCEPT ![j] = "registered"]
    /\ jobs' = [jobs EXCEPT ![j] = [state |-> "running", pid |-> FALSE]]
    /\ UNCHANGED <<read, worker, exit, behind, polls, phase, faults>>

Spawn(j) ==
    /\ launch[j] = "registered"
    /\ launch' = [launch EXCEPT ![j] = "spawned"]
    /\ worker' = [worker EXCEPT ![j] = "waiting"]
    /\ UNCHANGED <<jobs, mode, read, exit, behind, polls, phase, faults>>

LoadLatest(j) ==
    /\ launch[j] = "spawned"
    /\ launch' = [launch EXCEPT ![j] = "loaded"]
    /\ read' = [read EXCEPT ![j] = jobs[j].state]
    /\ UNCHANGED <<jobs, mode, worker, exit, behind, polls, phase, faults>>

\* The copy read back is stored with the worker's pid, over what is there now.
PublishPid(j) ==
    /\ launch[j] = "loaded"
    /\ launch' = [launch EXCEPT ![j] = "published"]
    /\ jobs' = [jobs EXCEPT ![j] = [state |-> read[j], pid |-> TRUE]]
    /\ read' = [read EXCEPT ![j] = "none"]
    /\ behind' = [behind EXCEPT ![j] = IF read[j] = "running" THEN "none" ELSE @]
    /\ UNCHANGED <<mode, worker, exit, polls, phase, faults>>

AnswerLaunch(j) ==
    /\ launch[j] = "published"
    /\ launch' = [launch EXCEPT ![j] = "done"]
    /\ phase' = "verify"
    /\ UNCHANGED <<jobs, mode, read, worker, exit, behind, polls, faults>>

\* The server dies or its call fails; the worker is in a session of its own.
ServerDies(j) ==
    /\ Fault
    /\ launch[j] \notin {"idle", "dead"}
    /\ launch' = [launch EXCEPT ![j] = "dead"]
    /\ worker' = [worker EXCEPT ![j] = IF @ = "zombie" THEN "gone" ELSE @]
    /\ UNCHANGED <<jobs, mode, read, exit, behind, polls, phase>>

----------------------------------------------------------------------------
(* The worker: run_verify_job_worker *)

Exited(j) == IF launch[j] = "dead" THEN "gone" ELSE "zombie"

\* Fault: the worker does not wait for its pid.
MayRunAtOnce(j) == jobs[j].state = "running"

\* The command may start only once the launcher has published this worker.
MayRun(j) == jobs[j].state = "running" /\ jobs[j].pid

Handshake(j) ==
    /\ worker[j] = "waiting"
    /\ MayRun(j)
    /\ worker' = [worker EXCEPT ![j] = "command"]
    /\ UNCHANGED <<jobs, mode, launch, read, exit, behind, polls, phase, faults>>

FindSettled(j) ==
    /\ worker[j] = "waiting"
    /\ jobs[j].state \in Terminal
    /\ worker' = [worker EXCEPT ![j] = Exited(j)]
    /\ UNCHANGED <<jobs, mode, launch, read, exit, behind, polls, phase, faults>>

\* Five seconds pass with no pid in the record.
GiveUp(j) ==
    /\ worker[j] = "waiting"
    /\ jobs[j].state = "running" /\ ~MayRun(j)
    /\ worker' = [worker EXCEPT ![j] = "late"]
    /\ UNCHANGED <<jobs, mode, launch, read, exit, behind, polls, phase, faults>>

CommandEnds(j) ==
    /\ worker[j] = "command"
    /\ worker' = [worker EXCEPT ![j] = "ended"]
    /\ \E how \in Exits \ {"none"} : exit' = [exit EXCEPT ![j] = how]
    /\ UNCHANGED <<jobs, mode, launch, read, behind, polls, phase, faults>>

\* The command cannot be started, or completing the job raises.
Raise(j) ==
    /\ Fault
    /\ worker[j] \in {"command", "ended"}
    /\ worker' = [worker EXCEPT ![j] = "raising"]
    /\ UNCHANGED <<jobs, mode, launch, read, exit, behind, polls, phase>>

PublishResult(j) ==
    /\ worker[j] \in {"late", "ended", "raising"}
    /\ worker' = [worker EXCEPT ![j] = "written"]
    /\ IF worker[j] = "ended"
       THEN CompleteJob(j, exit[j], "command")
       ELSE CompleteJob(j, "red", "fault")
    /\ UNCHANGED <<mode, launch, read, exit, polls, phase, faults>>

WorkerExits(j) ==
    /\ worker[j] = "written"
    /\ worker' = [worker EXCEPT ![j] = Exited(j)]
    /\ UNCHANGED <<jobs, mode, launch, read, exit, behind, polls, phase, faults>>

WorkerKilled(j) ==
    /\ worker[j] \in Live
    /\ Fault
    /\ worker' = [worker EXCEPT ![j] = Exited(j)]
    /\ UNCHANGED <<jobs, mode, launch, read, exit, behind, polls, phase>>

\* The server's next subprocess.Popen collects the children that exited, should
\* it ever start another process.
Reap(j) ==
    /\ worker[j] = "zombie"
    /\ worker' = [worker EXCEPT ![j] = "gone"]
    /\ UNCHANGED <<jobs, mode, launch, read, exit, behind, polls, phase, faults>>

PidReused(j) ==
    /\ worker[j] = "gone"
    /\ Fault
    /\ worker' = [worker EXCEPT ![j] = "foreign"]
    /\ UNCHANGED <<jobs, mode, launch, read, exit, behind, polls, phase>>

ForeignEnds(j) ==
    /\ worker[j] = "foreign"
    /\ worker' = [worker EXCEPT ![j] = "gone"]
    /\ UNCHANGED <<jobs, mode, launch, read, exit, behind, polls, phase, faults>>

----------------------------------------------------------------------------
(* A poll: poll_verify_job, and the answer that moves the session's phase *)

PollLoads(p, j) ==
    /\ polls[p] = Idle
    /\ jobs[j].state # "none"
    /\ polls' = [polls EXCEPT ![p] =
          IF jobs[j].state \in Terminal
          THEN [at |-> "answering", state |-> jobs[j].state]
          ELSE [at |-> IF jobs[j].pid THEN "probing" ELSE "completing", job |-> j]]
    /\ UNCHANGED <<jobs, mode, launch, read, worker, exit, behind, phase, faults>>

\* kill(pid, 0) answers for whatever process has the pid now.
PollProbes(p) ==
    /\ polls[p].at = "probing"
    /\ polls' = [polls EXCEPT ![p] =
          IF Alive(polls[p].job)
          THEN [at |-> "answering", state |-> "running"]
          ELSE [at |-> "completing", job |-> polls[p].job]]
    /\ UNCHANGED <<jobs, mode, launch, read, worker, exit, behind, phase, faults>>

\* The worker is lost, or was never published: the job has failed.
PollCompletes(p) ==
    /\ polls[p].at = "completing"
    /\ CompleteJob(polls[p].job, "red", "fault")
    /\ polls' = [polls EXCEPT ![p] =
          [at |-> "answering", state |-> Verdict(polls[p].job, "red")]]
    /\ UNCHANGED <<mode, launch, read, worker, exit, phase, faults>>

\* Fault: a job that is still running is answered like one that passed.
AnswerPhaseEarly(state) == IF state = "failed" THEN "blocked" ELSE "complete"

AnswerPhase(state) ==
    CASE state = "passed"  -> "complete"
      [] state = "running" -> "verify"
      [] OTHER             -> "blocked"

PollAnswers(p) ==
    /\ polls[p].at = "answering"
    /\ polls' = [polls EXCEPT ![p] = Idle]
    /\ phase' = AnswerPhase(polls[p].state)
    /\ UNCHANGED <<jobs, mode, launch, read, worker, exit, behind, faults>>

PollDies(p) ==
    /\ Fault
    /\ polls[p] # Idle
    /\ polls' = [polls EXCEPT ![p] = Idle]
    /\ UNCHANGED <<jobs, mode, launch, read, worker, exit, behind, phase>>

----------------------------------------------------------------------------
(* The session *)

\* reconcile_governed_session, as far as it goes by the latest job: which job
\* of the session that is, by the times in the records, is left open.
Reconcile(j) ==
    /\ j \in OfSession
    /\ jobs[j].state \in {"running", "passed"}
    /\ phase' = IF jobs[j].state = "passed" THEN "complete" ELSE "verify"
    /\ UNCHANGED <<jobs, mode, launch, read, worker, exit, behind, polls, faults>>

\* The session changes the tree again.
Work ==
    /\ phase' \in {"work", "verify"}
    /\ UNCHANGED <<jobs, mode, launch, read, worker, exit, behind, polls, faults>>

----------------------------------------------------------------------------

Init ==
    /\ jobs = [j \in Jobs |-> [state |-> "none", pid |-> FALSE]]
    /\ mode = [j \in Jobs |-> "off"]
    /\ launch = [j \in Jobs |-> "idle"]
    /\ read = [j \in Jobs |-> "none"]
    /\ worker = [j \in Jobs |-> "none"]
    /\ exit = [j \in Jobs |-> "none"]
    /\ behind = [j \in Jobs |-> "none"]
    /\ polls = [p \in Pollers |-> Idle]
    /\ phase = "work"
    /\ faults = 0

LaunchStep(j) ==
    \/ Register(j) \/ Spawn(j) \/ LoadLatest(j) \/ PublishPid(j)
    \/ AnswerLaunch(j)

WorkerStep(j) ==
    \/ Handshake(j) \/ FindSettled(j) \/ GiveUp(j) \/ PublishResult(j)
    \/ WorkerExits(j)

PollStep(p) ==
    \/ PollProbes(p) \/ PollCompletes(p) \/ PollAnswers(p)

Next ==
    \/ \E j \in Jobs :
          \/ LaunchStep(j) \/ WorkerStep(j) \/ Reap(j)
          \/ ServerDies(j) \/ CommandEnds(j) \/ Raise(j) \/ WorkerKilled(j)
          \/ PidReused(j) \/ ForeignEnds(j) \/ Reconcile(j)
    \/ \E p \in Pollers :
          \/ PollStep(p) \/ PollDies(p)
          \/ \E j \in Jobs : PollLoads(p, j)
    \/ Work

Spec == Init /\ [][Next]_vars

\* Processes run; a client polls a job that runs, and not every poll dies.
\* Nothing makes the command end: it has no time limit.  Nothing makes a server
\* collect a worker that exited, either.
FairSpec ==
    /\ Spec
    /\ \A j \in Jobs :
          /\ WF_vars(Spawn(j) \/ LoadLatest(j) \/ PublishPid(j))
          /\ WF_vars(WorkerStep(j))
          /\ SF_vars(jobs[j].state = "running" /\ \E p \in Pollers : PollLoads(p, j))
    /\ \A p \in Pollers : SF_vars(PollStep(p))

----------------------------------------------------------------------------
(* Properties *)

\* Every variable stays in its type.
TypeOK ==
    /\ jobs \in [Jobs -> Record]
    /\ mode \in [Jobs -> Modes]
    /\ launch \in [Jobs -> Launches]
    /\ read \in [Jobs -> States]
    /\ worker \in [Jobs -> Workers]
    /\ exit \in [Jobs -> Exits]
    /\ behind \in [Jobs -> {"none", "command", "fault"}]
    /\ polls \in [Pollers -> Poll]
    /\ phase \in Phases
    /\ faults \in 0..MaxFaults

\* A record says passed only if the command of that job ran to its end and its
\* result was acceptable, whoever wrote the record last (_complete_job).  Only
\* a baseline capture passes by itself.
PassedRan ==
    \A j \in Jobs :
        jobs[j].state = "passed" /\ mode[j] # "capture" => Accepts(j, exit[j])

\* The session is complete, and may be attested, only if a job did pass: no
\* poll, slow answer or reconciliation makes it so from a job that still runs
\* or was lost (_derive_phase, reconcile_governed_session).
CompleteBacked ==
    phase = "complete" =>
        \E j \in Jobs : launch[j] # "idle" /\ Accepts(j, exit[j])

\* A job whose command has published its result never reads as running again:
\* the launcher's copy is stored before the command may start.
NeverRegresses ==
    [][\A j \in Jobs : behind[j] = "command" => jobs'[j].state \in Terminal]_vars

\* What keeps a worker's pid alive, the worker itself apart.
Hangs(j) == worker[j] \in {"command", "foreign", "zombie"}

\* Whatever dies, a job that was registered is settled for good, unless its
\* command, or a process that got its worker's pid, runs for ever, or the worker
\* died and its server, alive, starts no other process: polls take that zombie
\* for a worker (poll_verify_job).
Settles == \A j \in Jobs : <>[](jobs[j].state # "running" \/ Hangs(j))

=============================================================================
