--------------------------- MODULE Evidence_proofs ---------------------------
(***************************************************************************)
(* What others are told rests on evidence: of VerifyJobs, for every set of *)
(* jobs, pollers and faults, that a job passes only on what its command    *)
(* did, and that what the command did stays; of ContractIntake, for every  *)
(* set of processes, packages, files and faults, that an attempt is        *)
(* decided once, that what was approved stays fenced until it is           *)
(* completed, and that what a caller was told is in the ledger and stays.  *)
(* The two components share nothing.                                       *)
(***************************************************************************)
EXTENDS VerifyJobs, ContractIntake, TLAPS

----------------------------------------------------------------------------
(* Verify jobs *)


\* A job some result of which counts as a pass.
Backed == \E j \in Jobs : launch[j] # "idle" /\ Accepts(j, exit[j])

\* The command's end is known only after it was run.
ExitAfterCommand ==
    \A j \in Jobs :
        /\ worker[j] \in {"none", "waiting", "late", "command"} => exit[j] = "none"
        /\ launch[j] \in {"idle", "registered"} => worker[j] = "none"

\* Every copy of a verdict rests on the command, as the record does.
CopiesRan ==
    /\ \A j \in Jobs :
          /\ launch[j] = "idle" => jobs[j].state = "none"
          /\ launch[j] = "idle" => read[j] = "none"
          /\ read[j] = "passed" => Accepts(j, exit[j])
          /\ jobs[j].state = "passed" => Accepts(j, exit[j])
    /\ \A p \in Pollers :
          /\ polls[p].at = "answering" /\ polls[p].state = "passed" => Backed
          /\ polls[p].at \in {"probing", "completing"} =>
                launch[polls[p].job] # "idle"

\* The launcher is done with the record before the command may run.
LaunchedFirst ==
    \A j \in Jobs :
        /\ jobs[j].pid => launch[j] \in {"published", "done", "dead"}
        /\ worker[j] \in {"command", "ended", "raising"} =>
              launch[j] \in {"published", "done", "dead"}
        /\ behind[j] = "command" =>
              /\ jobs[j].state \in Terminal
              /\ launch[j] \in {"published", "done", "dead"}

IInv == TypeOK /\ ExitAfterCommand /\ CopiesRan /\ LaunchedFirst /\ CompleteBacked

----------------------------------------------------------------------------

THEOREM Initially == Init => IInv
BY JobsAssumption DEF Init, IInv, TypeOK, ExitAfterCommand, CopiesRan, LaunchedFirst,
   CompleteBacked, Record, States, Launches, Workers, Live, Exits, Poll, Idle,
   Modes, Phases, Terminal

LEMMA VerdictStates ==
    ASSUME NEW j, NEW how
    PROVE  /\ Verdict(j, how) \in Terminal
           /\ Verdict(j, how) = "passed" => Accepts(j, how)
BY DEF Verdict, Terminal

LEMMA TypeStep ==
    ASSUME TypeOK, [Next]_vars
    PROVE  TypeOK'
<1> USE DEF TypeOK
<1>1. ASSUME NEW j \in Jobs, Register(j) PROVE TypeOK'
  BY <1>1, JobsAssumption, VerdictStates DEF Register, Record, States, Terminal, Launches, Workers, Live, Exits, Modes, Phases, Poll, Idle
<1>2. ASSUME NEW j \in Jobs, Spawn(j) PROVE TypeOK'
  BY <1>2, JobsAssumption, VerdictStates DEF Spawn, Record, States, Terminal, Launches, Workers, Live, Exits, Modes, Phases, Poll, Idle
<1>3. ASSUME NEW j \in Jobs, LoadLatest(j) PROVE TypeOK'
  BY <1>3, JobsAssumption, VerdictStates DEF LoadLatest, Record, States, Terminal, Launches, Workers, Live, Exits, Modes, Phases, Poll, Idle
<1>4. ASSUME NEW j \in Jobs, PublishPid(j) PROVE TypeOK'
  BY <1>4, JobsAssumption, VerdictStates DEF PublishPid, Record, States, Terminal, Launches, Workers, Live, Exits, Modes, Phases, Poll, Idle
<1>5. ASSUME NEW j \in Jobs, AnswerLaunch(j) PROVE TypeOK'
  BY <1>5, JobsAssumption, VerdictStates DEF AnswerLaunch, Record, States, Terminal, Launches, Workers, Live, Exits, Modes, Phases, Poll, Idle
<1>6. ASSUME NEW j \in Jobs, Handshake(j) PROVE TypeOK'
  BY <1>6, JobsAssumption, VerdictStates DEF Handshake, MayRun, Record, States, Terminal, Launches, Workers, Live, Exits, Modes, Phases, Poll, Idle
<1>7. ASSUME NEW j \in Jobs, FindSettled(j) PROVE TypeOK'
  BY <1>7, JobsAssumption, VerdictStates DEF FindSettled, Exited, Record, States, Terminal, Launches, Workers, Live, Exits, Modes, Phases, Poll, Idle
<1>8. ASSUME NEW j \in Jobs, GiveUp(j) PROVE TypeOK'
  BY <1>8, JobsAssumption, VerdictStates DEF GiveUp, MayRun, Record, States, Terminal, Launches, Workers, Live, Exits, Modes, Phases, Poll, Idle
<1>9. ASSUME NEW j \in Jobs, PublishResult(j) PROVE TypeOK'
  <2>1. PICK how \in Exits, basis \in {"command", "fault"} : CompleteJob(j, how, basis)
    BY <1>9 DEF PublishResult, Exits
  <2>2. Verdict(j, how) \in States
    BY VerdictStates DEF Terminal, States
  <2>3. jobs' \in [Jobs -> Record] /\ behind' \in [Jobs -> {"none", "command", "fault"}]
    BY <2>1, <2>2 DEF CompleteJob, Record
  <2> QED BY <1>9, <2>3 DEF PublishResult, Workers, Live
<1>10. ASSUME NEW j \in Jobs, WorkerExits(j) PROVE TypeOK'
  BY <1>10, JobsAssumption, VerdictStates DEF WorkerExits, Exited, Record, States, Terminal, Launches, Workers, Live, Exits, Modes, Phases, Poll, Idle
<1>11. ASSUME NEW j \in Jobs, Reap(j) PROVE TypeOK'
  BY <1>11, JobsAssumption, VerdictStates DEF Reap, Record, States, Terminal, Launches, Workers, Live, Exits, Modes, Phases, Poll, Idle
<1>12. ASSUME NEW j \in Jobs, ServerDies(j) PROVE TypeOK'
  BY <1>12, JobsAssumption, VerdictStates DEF ServerDies, Fault, Record, States, Terminal, Launches, Workers, Live, Exits, Modes, Phases, Poll, Idle
<1>13. ASSUME NEW j \in Jobs, CommandEnds(j) PROVE TypeOK'
  BY <1>13, JobsAssumption, VerdictStates DEF CommandEnds, Record, States, Terminal, Launches, Workers, Live, Exits, Modes, Phases, Poll, Idle
<1>14. ASSUME NEW j \in Jobs, Raise(j) PROVE TypeOK'
  BY <1>14, JobsAssumption, VerdictStates DEF Raise, Fault, Record, States, Terminal, Launches, Workers, Live, Exits, Modes, Phases, Poll, Idle
<1>15. ASSUME NEW j \in Jobs, WorkerKilled(j) PROVE TypeOK'
  BY <1>15, JobsAssumption, VerdictStates DEF WorkerKilled, Fault, Exited, Record, States, Terminal, Launches, Workers, Live, Exits, Modes, Phases, Poll, Idle
<1>16. ASSUME NEW j \in Jobs, PidReused(j) PROVE TypeOK'
  BY <1>16, JobsAssumption, VerdictStates DEF PidReused, Fault, Record, States, Terminal, Launches, Workers, Live, Exits, Modes, Phases, Poll, Idle
<1>17. ASSUME NEW j \in Jobs, ForeignEnds(j) PROVE TypeOK'
  BY <1>17, JobsAssumption, VerdictStates DEF ForeignEnds, Record, States, Terminal, Launches, Workers, Live, Exits, Modes, Phases, Poll, Idle
<1>18. ASSUME NEW j \in Jobs, Reconcile(j) PROVE TypeOK'
  BY <1>18, JobsAssumption, VerdictStates DEF Reconcile, Record, States, Terminal, Launches, Workers, Live, Exits, Modes, Phases, Poll, Idle
<1>19. ASSUME NEW p \in Pollers, PollProbes(p) PROVE TypeOK'
  BY <1>19, JobsAssumption, VerdictStates DEF PollProbes, Alive, Record, States, Terminal, Launches, Workers, Live, Exits, Modes, Phases, Poll, Idle
<1>20. ASSUME NEW p \in Pollers, PollCompletes(p) PROVE TypeOK'
  <2> DEFINE k == polls[p].job
  <2>1. k \in Jobs /\ CompleteJob(k, "red", "fault")
    BY <1>20 DEF PollCompletes, Poll, Idle
  <2>2. Verdict(k, "red") \in States \ {"none"}
    BY VerdictStates DEF Terminal, States
  <2>3. jobs' \in [Jobs -> Record] /\ behind' \in [Jobs -> {"none", "command", "fault"}]
    BY <2>1, <2>2 DEF CompleteJob, Record
  <2>4. polls' \in [Pollers -> Poll]
    BY <1>20, <2>2 DEF PollCompletes, Poll
  <2> QED BY <1>20, <2>3, <2>4 DEF PollCompletes
<1>21. ASSUME NEW p \in Pollers, PollAnswers(p) PROVE TypeOK'
  BY <1>21, JobsAssumption, VerdictStates DEF PollAnswers, AnswerPhase, Record, States, Terminal, Launches, Workers, Live, Exits, Modes, Phases, Poll, Idle
<1>22. ASSUME NEW p \in Pollers, PollDies(p) PROVE TypeOK'
  BY <1>22, JobsAssumption, VerdictStates DEF PollDies, Fault, Record, States, Terminal, Launches, Workers, Live, Exits, Modes, Phases, Poll, Idle
<1>23. ASSUME NEW p \in Pollers, NEW j \in Jobs, PollLoads(p, j) PROVE TypeOK'
  BY <1>23, JobsAssumption, VerdictStates DEF PollLoads, Record, States, Terminal, Launches, Workers, Live, Exits, Modes, Phases, Poll, Idle
<1>24. CASE Work
  BY <1>24, JobsAssumption, VerdictStates DEF Work, Record, States, Terminal, Launches, Workers, Live, Exits, Modes, Phases, Poll, Idle
<1>25. CASE UNCHANGED vars
  BY <1>25, JobsAssumption, VerdictStates DEF vars, Record, States, Terminal, Launches, Workers, Live, Exits, Modes, Phases, Poll, Idle
<1> QED
  BY <1>1, <1>2, <1>3, <1>4, <1>5, <1>6, <1>7, <1>8, <1>9, <1>10, <1>11, <1>12, <1>13, <1>14, <1>15, <1>16, <1>17, <1>18, <1>19, <1>20, <1>21, <1>22, <1>23, <1>24, <1>25 DEF Next, LaunchStep, WorkerStep, PollStep

\* What once counts as a pass does so for good.
LEMMA AcceptsStays ==
    ASSUME IInv, [Next]_vars
    PROVE  \A k \in Jobs : launch[k] # "idle" /\ Accepts(k, exit[k]) =>
               launch'[k] # "idle" /\ Accepts(k, exit[k])'
<1> USE DEF IInv, TypeOK, ExitAfterCommand, Accepts
<1>1. ASSUME NEW j \in Jobs, Register(j) 
     PROVE  \A k \in Jobs : launch[k] # "idle" /\ Accepts(k, exit[k]) =>
               launch'[k] # "idle" /\ Accepts(k, exit[k])'
  BY <1>1 DEF Register, Launches
<1>2. ASSUME NEW j \in Jobs, Spawn(j) 
     PROVE  \A k \in Jobs : launch[k] # "idle" /\ Accepts(k, exit[k]) =>
               launch'[k] # "idle" /\ Accepts(k, exit[k])'
  BY <1>2 DEF Spawn, Launches
<1>3. ASSUME NEW j \in Jobs, LoadLatest(j) 
     PROVE  \A k \in Jobs : launch[k] # "idle" /\ Accepts(k, exit[k]) =>
               launch'[k] # "idle" /\ Accepts(k, exit[k])'
  BY <1>3 DEF LoadLatest, Launches
<1>4. ASSUME NEW j \in Jobs, PublishPid(j) 
     PROVE  \A k \in Jobs : launch[k] # "idle" /\ Accepts(k, exit[k]) =>
               launch'[k] # "idle" /\ Accepts(k, exit[k])'
  BY <1>4 DEF PublishPid, Launches
<1>5. ASSUME NEW j \in Jobs, AnswerLaunch(j) 
     PROVE  \A k \in Jobs : launch[k] # "idle" /\ Accepts(k, exit[k]) =>
               launch'[k] # "idle" /\ Accepts(k, exit[k])'
  BY <1>5 DEF AnswerLaunch, Launches
<1>6. ASSUME NEW j \in Jobs, Handshake(j) 
     PROVE  \A k \in Jobs : launch[k] # "idle" /\ Accepts(k, exit[k]) =>
               launch'[k] # "idle" /\ Accepts(k, exit[k])'
  BY <1>6 DEF Handshake, MayRun, Launches
<1>7. ASSUME NEW j \in Jobs, FindSettled(j) 
     PROVE  \A k \in Jobs : launch[k] # "idle" /\ Accepts(k, exit[k]) =>
               launch'[k] # "idle" /\ Accepts(k, exit[k])'
  BY <1>7 DEF FindSettled, Exited, Launches
<1>8. ASSUME NEW j \in Jobs, GiveUp(j) 
     PROVE  \A k \in Jobs : launch[k] # "idle" /\ Accepts(k, exit[k]) =>
               launch'[k] # "idle" /\ Accepts(k, exit[k])'
  BY <1>8 DEF GiveUp, MayRun, Launches
<1>9. ASSUME NEW j \in Jobs, PublishResult(j) 
     PROVE  \A k \in Jobs : launch[k] # "idle" /\ Accepts(k, exit[k]) =>
               launch'[k] # "idle" /\ Accepts(k, exit[k])'
  BY <1>9 DEF PublishResult, CompleteJob, Launches
<1>10. ASSUME NEW j \in Jobs, WorkerExits(j) 
     PROVE  \A k \in Jobs : launch[k] # "idle" /\ Accepts(k, exit[k]) =>
               launch'[k] # "idle" /\ Accepts(k, exit[k])'
  BY <1>10 DEF WorkerExits, Exited, Launches
<1>11. ASSUME NEW j \in Jobs, Reap(j) 
     PROVE  \A k \in Jobs : launch[k] # "idle" /\ Accepts(k, exit[k]) =>
               launch'[k] # "idle" /\ Accepts(k, exit[k])'
  BY <1>11 DEF Reap, Launches
<1>12. ASSUME NEW j \in Jobs, ServerDies(j) 
     PROVE  \A k \in Jobs : launch[k] # "idle" /\ Accepts(k, exit[k]) =>
               launch'[k] # "idle" /\ Accepts(k, exit[k])'
  BY <1>12 DEF ServerDies, Fault, Launches
<1>13. ASSUME NEW j \in Jobs, CommandEnds(j) 
     PROVE  \A k \in Jobs : launch[k] # "idle" /\ Accepts(k, exit[k]) =>
               launch'[k] # "idle" /\ Accepts(k, exit[k])'
  BY <1>13 DEF CommandEnds, Launches
<1>14. ASSUME NEW j \in Jobs, Raise(j) 
     PROVE  \A k \in Jobs : launch[k] # "idle" /\ Accepts(k, exit[k]) =>
               launch'[k] # "idle" /\ Accepts(k, exit[k])'
  BY <1>14 DEF Raise, Fault, Launches
<1>15. ASSUME NEW j \in Jobs, WorkerKilled(j) 
     PROVE  \A k \in Jobs : launch[k] # "idle" /\ Accepts(k, exit[k]) =>
               launch'[k] # "idle" /\ Accepts(k, exit[k])'
  BY <1>15 DEF WorkerKilled, Fault, Exited, Launches
<1>16. ASSUME NEW j \in Jobs, PidReused(j) 
     PROVE  \A k \in Jobs : launch[k] # "idle" /\ Accepts(k, exit[k]) =>
               launch'[k] # "idle" /\ Accepts(k, exit[k])'
  BY <1>16 DEF PidReused, Fault, Launches
<1>17. ASSUME NEW j \in Jobs, ForeignEnds(j) 
     PROVE  \A k \in Jobs : launch[k] # "idle" /\ Accepts(k, exit[k]) =>
               launch'[k] # "idle" /\ Accepts(k, exit[k])'
  BY <1>17 DEF ForeignEnds, Launches
<1>18. ASSUME NEW j \in Jobs, Reconcile(j) 
     PROVE  \A k \in Jobs : launch[k] # "idle" /\ Accepts(k, exit[k]) =>
               launch'[k] # "idle" /\ Accepts(k, exit[k])'
  BY <1>18 DEF Reconcile, Launches
<1>19. ASSUME NEW p \in Pollers, PollProbes(p) 
     PROVE  \A k \in Jobs : launch[k] # "idle" /\ Accepts(k, exit[k]) =>
               launch'[k] # "idle" /\ Accepts(k, exit[k])'
  BY <1>19 DEF PollProbes, Alive, Launches
<1>20. ASSUME NEW p \in Pollers, PollCompletes(p) 
     PROVE  \A k \in Jobs : launch[k] # "idle" /\ Accepts(k, exit[k]) =>
               launch'[k] # "idle" /\ Accepts(k, exit[k])'
  BY <1>20 DEF PollCompletes, CompleteJob, Launches
<1>21. ASSUME NEW p \in Pollers, PollAnswers(p) 
     PROVE  \A k \in Jobs : launch[k] # "idle" /\ Accepts(k, exit[k]) =>
               launch'[k] # "idle" /\ Accepts(k, exit[k])'
  BY <1>21 DEF PollAnswers, AnswerPhase, Launches
<1>22. ASSUME NEW p \in Pollers, PollDies(p) 
     PROVE  \A k \in Jobs : launch[k] # "idle" /\ Accepts(k, exit[k]) =>
               launch'[k] # "idle" /\ Accepts(k, exit[k])'
  BY <1>22 DEF PollDies, Fault, Launches
<1>23. ASSUME NEW p \in Pollers, NEW j \in Jobs, PollLoads(p, j) 
     PROVE  \A k \in Jobs : launch[k] # "idle" /\ Accepts(k, exit[k]) =>
               launch'[k] # "idle" /\ Accepts(k, exit[k])'
  BY <1>23 DEF PollLoads, Launches
<1>24. CASE Work
  BY <1>24 DEF Work, Launches
<1>25. CASE UNCHANGED vars
  BY <1>25 DEF vars, Launches
<1> QED
  BY <1>1, <1>2, <1>3, <1>4, <1>5, <1>6, <1>7, <1>8, <1>9, <1>10, <1>11, <1>12, <1>13, <1>14, <1>15, <1>16, <1>17, <1>18, <1>19, <1>20, <1>21, <1>22, <1>23, <1>24, <1>25 DEF Next, LaunchStep, WorkerStep, PollStep

\* A verdict reached without the command holds whatever the command did.
LEMMA RedAccepts ==
    ASSUME NEW j, Accepts(j, "red")
    PROVE  \A how : Accepts(j, how)
BY DEF Accepts

Rest == ExitAfterCommand /\ CopiesRan /\ LaunchedFirst /\ CompleteBacked

LEMMA RestStep ==
    ASSUME IInv, [Next]_vars
    PROVE  Rest'
<1>a. \A k \in Jobs : launch[k] # "idle" /\ Accepts(k, exit[k]) =>
          launch'[k] # "idle" /\ Accepts(k, exit[k])'
  BY AcceptsStays
<1>b. Backed => Backed'
  BY <1>a DEF Backed
<1> USE DEF IInv, TypeOK, Rest, ExitAfterCommand, CopiesRan, LaunchedFirst,
            CompleteBacked, Record, Launches, Terminal
<1>1. ASSUME NEW j \in Jobs, Register(j) PROVE Rest'
  BY <1>1, <1>a, <1>b DEF Register, Poll, Idle
<1>2. ASSUME NEW j \in Jobs, Spawn(j) PROVE Rest'
  BY <1>2, <1>a, <1>b DEF Spawn, Poll, Idle
<1>3. ASSUME NEW j \in Jobs, LoadLatest(j) PROVE Rest'
  BY <1>3, <1>a, <1>b DEF LoadLatest, Poll, Idle
<1>4. ASSUME NEW j \in Jobs, PublishPid(j) PROVE Rest'
  BY <1>4, <1>a, <1>b DEF PublishPid, Poll, Idle
<1>5. ASSUME NEW j \in Jobs, AnswerLaunch(j) PROVE Rest'
  BY <1>5, <1>a, <1>b DEF AnswerLaunch, Poll, Idle
<1>6. ASSUME NEW j \in Jobs, Handshake(j) PROVE Rest'
  BY <1>6, <1>a, <1>b DEF Handshake, MayRun, Poll, Idle
<1>7. ASSUME NEW j \in Jobs, FindSettled(j) PROVE Rest'
  BY <1>7, <1>a, <1>b DEF FindSettled, Exited, Poll, Idle
<1>8. ASSUME NEW j \in Jobs, GiveUp(j) PROVE Rest'
  BY <1>8, <1>a, <1>b DEF GiveUp, MayRun, Poll, Idle
<1>9. ASSUME NEW j \in Jobs, PublishResult(j) PROVE Rest'
  <2>1. PICK how \in Exits, basis \in {"command", "fault"} :
            /\ CompleteJob(j, how, basis)
            /\ Accepts(j, how) => Accepts(j, exit[j])
            /\ basis = "command" => worker[j] = "ended"
    BY <1>9, RedAccepts DEF PublishResult, Exits
  <2>2. Verdict(j, how) \in Terminal /\ (Verdict(j, how) = "passed" => Accepts(j, exit[j]))
    BY <2>1, VerdictStates
  <2> QED BY <1>9, <2>1, <2>2, <1>a, <1>b DEF PublishResult, CompleteJob, Poll, Idle
<1>10. ASSUME NEW j \in Jobs, WorkerExits(j) PROVE Rest'
  BY <1>10, <1>a, <1>b DEF WorkerExits, Exited, Poll, Idle
<1>11. ASSUME NEW j \in Jobs, Reap(j) PROVE Rest'
  BY <1>11, <1>a, <1>b DEF Reap, Poll, Idle
<1>12. ASSUME NEW j \in Jobs, ServerDies(j) PROVE Rest'
  BY <1>12, <1>a, <1>b DEF ServerDies, Poll, Idle
<1>13. ASSUME NEW j \in Jobs, CommandEnds(j) PROVE Rest'
  BY <1>13, <1>a, <1>b DEF CommandEnds, Poll, Idle
<1>14. ASSUME NEW j \in Jobs, Raise(j) PROVE Rest'
  BY <1>14, <1>a, <1>b DEF Raise, Poll, Idle
<1>15. ASSUME NEW j \in Jobs, WorkerKilled(j) PROVE Rest'
  BY <1>15, <1>a, <1>b DEF WorkerKilled, Exited, Live, Poll, Idle
<1>16. ASSUME NEW j \in Jobs, PidReused(j) PROVE Rest'
  BY <1>16, <1>a, <1>b DEF PidReused, Poll, Idle
<1>17. ASSUME NEW j \in Jobs, ForeignEnds(j) PROVE Rest'
  BY <1>17, <1>a, <1>b DEF ForeignEnds, Poll, Idle
<1>18. ASSUME NEW j \in Jobs, Reconcile(j) PROVE Rest'
  BY <1>18, <1>a, <1>b DEF Reconcile, Poll, Idle, Backed
<1>19. ASSUME NEW p \in Pollers, PollProbes(p) PROVE Rest'
  BY <1>19, <1>a, <1>b DEF PollProbes, Alive, Poll, Idle, Backed
<1>20. ASSUME NEW p \in Pollers, PollCompletes(p) PROVE Rest'
  <2> DEFINE k == polls[p].job
  <2>1. k \in Jobs /\ launch[k] # "idle" /\ CompleteJob(k, "red", "fault")
    BY <1>20 DEF PollCompletes, Poll, Idle
  <2>2. Verdict(k, "red") \in Terminal
        /\ (Verdict(k, "red") = "passed" => Backed /\ Accepts(k, exit[k]))
    BY <2>1, VerdictStates, RedAccepts DEF Backed
  <2> QED BY <1>20, <2>1, <2>2, <1>a, <1>b DEF PollCompletes, CompleteJob, Poll, Idle
<1>21. ASSUME NEW p \in Pollers, PollAnswers(p) PROVE Rest'
  BY <1>21, <1>a, <1>b DEF PollAnswers, AnswerPhase, Poll, Idle, Backed
<1>22. ASSUME NEW p \in Pollers, PollDies(p) PROVE Rest'
  BY <1>22, <1>a, <1>b DEF PollDies, Poll, Idle, Backed
<1>23. ASSUME NEW p \in Pollers, NEW j \in Jobs, PollLoads(p, j) PROVE Rest'
  BY <1>23, <1>a, <1>b DEF PollLoads, Poll, Idle, Backed
<1>24. CASE Work
  BY <1>24, <1>a, <1>b DEF Work, Poll, Idle
<1>25. CASE UNCHANGED vars
  BY <1>25, <1>a, <1>b DEF vars, Poll, Idle
<1> QED
  BY <1>1, <1>2, <1>3, <1>4, <1>5, <1>6, <1>7, <1>8, <1>9, <1>10, <1>11, <1>12, <1>13, <1>14, <1>15, <1>16, <1>17, <1>18, <1>19, <1>20, <1>21, <1>22, <1>23, <1>24, <1>25
  DEF Next, LaunchStep, WorkerStep, PollStep

----------------------------------------------------------------------------

LEMMA Inductive == Spec => []IInv
<1>1. IInv /\ [Next]_vars => IInv'
  BY TypeStep, RestStep DEF IInv, Rest
<1> QED BY Initially, <1>1, PTL DEF Spec

\* The records, the processes and the polls keep their types.
THEOREM TypeCorrect == Spec => []TypeOK
BY Inductive, PTL DEF IInv

\* A job that is not a baseline capture passes only by what its command did,
\* whichever process wrote its record and however old its copy was.
THEOREM PassesRan == Spec => []PassedRan
<1>1. IInv => PassedRan
  BY DEF IInv, CopiesRan, PassedRan
<1> QED BY Inductive, <1>1, PTL

\* The session's phase says complete only if some job did pass.
THEOREM PhaseBacked == Spec => []CompleteBacked
BY Inductive, PTL DEF IInv

\* No copy read before the command ran is stored after its result, but one
\* that is terminal.
THEOREM ResultStays == Spec => NeverRegresses
<1>1. IInv /\ [Next]_vars => [\A j \in Jobs : behind[j] = "command" => jobs'[j].state \in Terminal]_vars
  <2> SUFFICES ASSUME IInv, Next, NEW k \in Jobs, behind[k] = "command"
               PROVE  jobs'[k].state \in Terminal
    BY DEF IInv, LaunchedFirst, vars
  <2> USE DEF IInv, TypeOK, LaunchedFirst
  <2>1. CASE UNCHANGED jobs
    BY <2>1
  <2>2. ASSUME NEW j \in Jobs, Register(j) PROVE jobs'[k].state \in Terminal
    BY <2>2 DEF Register
  <2>3. ASSUME NEW j \in Jobs, PublishPid(j) PROVE jobs'[k].state \in Terminal
    BY <2>3 DEF PublishPid
  <2>4. ASSUME NEW j \in Jobs, PublishResult(j) PROVE jobs'[k].state \in Terminal
    BY <2>4, VerdictStates DEF PublishResult, CompleteJob, Record
  <2>5. ASSUME NEW p \in Pollers, PollCompletes(p) PROVE jobs'[k].state \in Terminal
    BY <2>5, VerdictStates DEF PollCompletes, CompleteJob, Record
  <2> QED
    BY <2>1, <2>2, <2>3, <2>4, <2>5
    DEF Next, LaunchStep, WorkerStep, PollStep, Spawn, LoadLatest, AnswerLaunch,
        Handshake, FindSettled, GiveUp, WorkerExits, Reap, ServerDies, CommandEnds,
        Raise, WorkerKilled, PidReused, ForeignEnds, Reconcile, PollProbes,
        PollAnswers, PollDies, PollLoads, Work
<1> QED BY Inductive, <1>1, PTL DEF Spec, NeverRegresses

----------------------------------------------------------------------------
(* The intake of a package *)

\* The ledger has a row of stage s about the review.
Has(r, s) == \E i \in DOMAIN ledger : ledger[i].review = r /\ ledger[i].stage = s

\* It has one about the pending attempt.
SignedFor(s) ==
    \E i \in DOMAIN ledger :
        /\ ledger[i].review = pending.review /\ ledger[i].stage = s
        /\ ledger[i].of.try = pending.try

\* The incarnations that the state speaks of.
Attempts == offered \cup {ledger[i].of : i \in DOMAIN ledger} \cup ({pending} \ {None})

\* An attempt is of one review, and the pending attempt is the last.
Attempted ==
    /\ \A a \in Attempts : a.try <= tries
    /\ \A a, b \in Attempts : a.try = b.try => a.review = b.review
    /\ pending # None => pending.try = tries
    /\ \A i \in DOMAIN ledger : ledger[i].review = ledger[i].of.review

\* A completion is selected before the pending transaction is taken away.
Receipted ==
    \A r \in Reviews : Has(r, "completed") => Selected(r, "completed") \/ Pends(r)

\* Only the pending incarnation of the pending attempt is ever cancelled.
CancelsExactly ==
    \A i \in DOMAIN ledger :
        ledger[i].stage = "cancelled" /\ pending # None /\ ledger[i].of.try = pending.try
        => ledger[i].of = pending

\* UnfinishedFenced and AnswersStand, row by row.
Fences ==
    \A r \in Reviews :
        /\ (\E p \in Paths : disk[p] = r) => Has(r, "approved")
        /\ Has(r, "approved") /\ ~Has(r, "completed") => Pends(r)
Told ==
    /\ \A r \in prepared : Has(r, "approved") /\ Has(r, "completed")
    /\ \A inc \in cancelled :
           /\ pending # None => pending.try # inc.try
           /\ \A i \in DOMAIN ledger :
                  ledger[i].of.try = inc.try => ledger[i].stage = "cancelled"

\* Who approves has the review pending once it is written, and finds the
\* approval of this attempt in the ledger, but no completion of the review,
\* until it has signed one; an attempt it goes on with is not cancelled.
Approves(p) ==
    LET r == call[p].review
        s == call[p].stage
    IN  /\ pc[p] \in {"save", "open"} =>
               pending = None /\ s = "approved" /\ ~Has(r, "approved") /\ ~Has(r, "completed")
        /\ pc[p] \in Committing \cup Installing \cup {"unlink"} =>
               /\ Pends(r)
               /\ s \in {"approved", "completed"}
               /\ \A i \in DOMAIN ledger :
                      ledger[i].of.try = pending.try => ledger[i].stage # "cancelled"
               /\ s = "completed" \/ pc[p] \in Installing => SignedFor("approved")
               /\ s = "approved" \/ pc[p] \in {"mark", "sign"} => ~Has(r, "completed")
        /\ pc[p] \in {"mark", "sign"} => ~Has(r, s)
        /\ pc[p] \in {"select", "store"} => \E i \in DOMAIN ledger : ledger[i] = NewRow(p)
        /\ pc[p] = "store" => Selected(r, s)
        /\ pc[p] \in Installing => s = "approved"
        /\ pc[p] = "unlink" =>
               /\ s = "completed"
               /\ Selected(r, "completed")
               /\ SignedFor("completed")

\* Who cancels has the incarnation it was called for pending, and the review
\* is not approved; it settles what is signed.
Cancels(p) ==
    LET r   == call[p].review
        inc == call[p].inc
    IN  /\ pc[p] \in Cancelling =>
               /\ inc = pending /\ inc \in offered
               /\ r = inc.review
               /\ ~Has(r, "approved") /\ ~Has(r, "completed")
        /\ pc[p] = "cancel" => ~Signed(inc)
        /\ pc[p] \in {"settle", "drop"} => Signed(inc)

\* What is true between any two steps, whoever takes them.
Global == Attempted /\ Receipted /\ CancelsExactly /\ Fences /\ DecidedOnce /\ Told

\* All three: the types, what is true of ledger and pending file whoever acts,
\* and what each call knows.
IntakeInv ==
    /\ IntakeTypeOK
    /\ Global
    /\ \A p \in Procs : Approves(p) /\ Cancels(p)

----------------------------------------------------------------------------

THEOREM IntakeInitially == IntakeInit => IntakeInv
<1> SUFFICES ASSUME IntakeInit PROVE IntakeInv
  OBVIOUS
<1>1. IntakeTypeOK
  BY IntakeAssumption, AbsenceAssumption DEF IntakeInit, IntakeTypeOK, Contents, Points, Call,
     NoCall, Range
<1>2. Global
  BY AbsenceAssumption DEF IntakeInit, Global, Attempted, Attempts, Receipted, CancelsExactly,
     Fences, DecidedOnce, Told, Has
<1>3. \A p \in Procs : Approves(p) /\ Cancels(p)
  BY DEF IntakeInit, Approves, Cancels, Committing, Installing, Cancelling
<1> QED BY <1>1, <1>2, <1>3 DEF IntakeInv

----------------------------------------------------------------------------

\* One call at a time holds the lock.
LEMMA Alone ==
    ASSUME IntakeTypeOK, NEW p \in Procs, NEW q \in Procs, pc[p] # "idle", q # p
    PROVE  pc[q] = "idle"
BY DEF IntakeTypeOK

LEMMA FreeMeansIdle ==
    ASSUME IntakeTypeOK, NEW p \in Procs, lock = None
    PROVE  pc[p] = "idle"
BY AbsenceAssumption DEF IntakeTypeOK

\* What a call holds while it goes on.
LEMMA Holding ==
    ASSUME IntakeTypeOK, NEW p \in Procs, pc[p] # "idle"
    PROVE  /\ call[p].review \in Reviews
           /\ call[p].at \in DOMAIN Files[call[p].review]
           /\ call[p].at \in Nat
           /\ Path(p) \in Paths
           /\ call[p].stage \in {"approved", "completed", "cancelled"}
           /\ call[p].inc \in Incarnation \cup {None}
           /\ call[p] = [review |-> call[p].review, stage |-> call[p].stage,
                         at |-> call[p].at, inc |-> call[p].inc]
BY IntakeAssumption DEF IntakeTypeOK, Call, Path

LEMMA Appended ==
    ASSUME ledger \in Seq(Row), NEW x \in Row, ledger' = Append(ledger, x)
    PROVE  /\ ledger' \in Seq(Row)
           /\ DOMAIN ledger' = DOMAIN ledger \cup {Len(ledger) + 1}
           /\ Len(ledger) + 1 \notin DOMAIN ledger
           /\ \A i \in DOMAIN ledger : ledger'[i] = ledger[i]
           /\ ledger'[Len(ledger) + 1] = x
           /\ Range(ledger') = Range(ledger) \cup {x}
<1>1. /\ ledger' \in Seq(Row)
      /\ DOMAIN ledger' = DOMAIN ledger \cup {Len(ledger) + 1}
      /\ Len(ledger) + 1 \notin DOMAIN ledger
      /\ \A i \in DOMAIN ledger : ledger'[i] = ledger[i]
      /\ ledger'[Len(ledger) + 1] = x
  OBVIOUS
<1>2. Range(ledger') = Range(ledger) \cup {x}
  <2>1. ASSUME NEW y PROVE y \in Range(ledger') <=> y \in Range(ledger) \cup {x}
    BY <1>1 DEF Range
  <2> QED BY <2>1
<1> QED BY <1>1, <1>2

LEMMA RowTyped ==
    ASSUME IntakeTypeOK, NEW i \in DOMAIN ledger
    PROVE  ledger[i] \in Row /\ ledger[i].of \in Incarnation
<1>1. ledger[i] \in Row
  BY DEF IntakeTypeOK
<1> QED BY <1>1 DEF Row

\* A selector names a row of the ledger.
LEMMA SelectedHas ==
    ASSUME IntakeTypeOK, NEW r, NEW s, Selected(r, s)
    PROVE  Has(r, s)
BY DEF IntakeTypeOK, Selected, Has, Range

\* So no approval and no completion is in the ledger of who may be cancelled.
LEMMA UndecidedHas ==
    ASSUME NEW r, Undecided(r)
    PROVE  ~Has(r, "approved") /\ ~Has(r, "completed")
BY DEF Undecided, Has, Range

LEMMA SignedRow ==
    ASSUME NEW inc
    PROVE  Signed(inc) <=> \E i \in DOMAIN ledger :
                              ledger[i].stage = "cancelled" /\ ledger[i].of = inc
BY DEF Signed, Matching

----------------------------------------------------------------------------
(* Types *)

LEMMA IntakeTypeStep ==
    ASSUME IntakeInv, [IntakeNext]_intakeVars
    PROVE  IntakeTypeOK'
<1> IntakeTypeOK /\ Attempted /\ \A p \in Procs : Approves(p) /\ Cancels(p)
  BY DEF IntakeInv, Global
<1>1. CASE UNCHANGED intakeVars
  BY <1>1 DEF intakeVars, content, evidence, answers, counts, IntakeTypeOK
<1>2. ASSUME NEW r \in Reviews, Prepare(r) PROVE IntakeTypeOK'
  BY <1>2 DEF Prepare, content, evidence, answers, counts, IntakeTypeOK
<1>3. ASSUME NEW p \in Procs, NEW r \in Reviews, Approve(p, r) PROVE IntakeTypeOK'
  <2>1. /\ pc' = [pc EXCEPT ![p] = "save"] /\ lock' = p /\ lock = None
        /\ call' = [call EXCEPT ![p] = [NoCall EXCEPT !.review = r]]
    BY <1>3 DEF Approve, Takes
  <2>2. [NoCall EXCEPT !.review = r] = [review |-> r, stage |-> "approved", at |-> 1, inc |-> None]
    BY DEF NoCall
  <2>3. pc' \in [Procs -> Points] /\ call' \in [Procs -> Call]
    BY <2>1, <2>2 DEF IntakeTypeOK, Points, Call
  <2>4. 1 \in DOMAIN Files[r]
    BY IntakeAssumption
  <2>5. \A q \in Procs :
           /\ pc'[q] # "idle" <=> lock' = q
           /\ pc'[q] # "idle" => call'[q].review \in Reviews
                                 /\ call'[q].at \in DOMAIN Files[call'[q].review]
    <3> TAKE q \in Procs
    <3>1. CASE q = p
      BY <3>1, <2>1, <2>2, <2>4 DEF IntakeTypeOK
    <3>2. CASE q # p
      BY <3>2, <2>1, FreeMeansIdle DEF IntakeTypeOK
    <3> QED BY <3>1, <3>2
  <2> QED BY <1>3, <2>1, <2>3, <2>5 DEF Approve, Counted, content, evidence, answers, IntakeTypeOK
<1>4. ASSUME NEW p \in Procs, NEW r \in Reviews, AnswerAgain(p, r) PROVE IntakeTypeOK'
  BY <1>4 DEF AnswerAgain, Counted, content, evidence, IntakeTypeOK
<1>5. ASSUME NEW p \in Procs, NEW inc \in offered, Cancel(p, inc) PROVE IntakeTypeOK'
  <2> DEFINE c == [review |-> inc.review, stage |-> "cancelled", at |-> 1, inc |-> inc]
  <2>1. /\ pc' = [pc EXCEPT ![p] = "propose"] /\ lock' = p /\ lock = None
        /\ call' = [call EXCEPT ![p] = c]
    BY <1>5 DEF Cancel, Takes
  <2>2. c.review = inc.review /\ c.at = 1
    OBVIOUS
  <2>3. inc \in Incarnation /\ inc.review \in Reviews
    BY DEF IntakeTypeOK, Incarnation
  <2>4. pc' \in [Procs -> Points] /\ call' \in [Procs -> Call]
    BY <2>1, <2>2, <2>3 DEF IntakeTypeOK, Points, Cancelling, Call
  <2>5. 1 \in DOMAIN Files[inc.review]
    BY <2>3, IntakeAssumption
  <2>6. \A q \in Procs :
           /\ pc'[q] # "idle" <=> lock' = q
           /\ pc'[q] # "idle" => call'[q].review \in Reviews
                                 /\ call'[q].at \in DOMAIN Files[call'[q].review]
    <3> TAKE q \in Procs
    <3>1. CASE q = p
      BY <3>1, <2>1, <2>2, <2>3, <2>5 DEF IntakeTypeOK
    <3>2. CASE q # p
      BY <3>2, <2>1, FreeMeansIdle DEF IntakeTypeOK
    <3> QED BY <3>1, <3>2
  <2> QED BY <1>5, <2>1, <2>4, <2>6 DEF Cancel, Counted, content, evidence, answers, IntakeTypeOK
<1>6. ASSUME NEW p \in Procs, NEW inc \in offered, CancelAgain(p, inc) PROVE IntakeTypeOK'
  BY <1>6 DEF CancelAgain, Counted, content, evidence, IntakeTypeOK
<1>7. ASSUME Offer PROVE IntakeTypeOK'
  BY <1>7 DEF Offer, content, answers, counts, IntakeTypeOK
<1>8. ASSUME NEW q \in Paths, NEW c \in {"absent", "other"}, Edit(q, c) PROVE IntakeTypeOK'
  BY <1>8 DEF Edit, evidence, answers, counts, IntakeTypeOK, Contents
<1>9. ASSUME NEW p \in Procs, Proceed(p) \/ Stop(p) PROVE IntakeTypeOK'
  <2>1. pc[p] # "idle"
    BY <1>9 DEF Proceed, Save, Open, Mark, Sign, Select, Store, Compare, Install, Put, Outputs,
       Unlink, Propose, SignCancel, Settle, Drop, Refuse, Stop, Step
  <2> DEFINE Goes == /\ \E to \in Points \ {"idle"} : pc' = [pc EXCEPT ![p] = to]
                     /\ lock' = lock
             Typed(c) == /\ call' = [call EXCEPT ![p] = c] /\ c \in Call
                         /\ c.review \in Reviews /\ c.at \in DOMAIN Files[c.review]
             Placed == /\ pc' \in [Procs -> Points] /\ call' \in [Procs -> Call]
                       /\ lock' \in Procs \cup {None}
                       /\ \A q \in Procs :
                             /\ pc'[q] # "idle" <=> lock' = q
                             /\ pc'[q] # "idle" =>
                                   /\ call'[q].review \in Reviews
                                   /\ call'[q].at \in DOMAIN Files[call'[q].review]
  <2>2. ASSUME Goes, call' = call PROVE Placed
    BY <2>1, <2>2 DEF IntakeTypeOK
  <2>3. ASSUME Goes, NEW c, Typed(c) PROVE Placed
    <3>1. PICK to \in Points \ {"idle"} : pc' = [pc EXCEPT ![p] = to]
      BY <2>3
    <3>2. pc' \in [Procs -> Points] /\ call' \in [Procs -> Call]
      BY <2>3, <3>1 DEF IntakeTypeOK
    <3> QED BY <2>1, <2>3, <3>1, <3>2 DEF IntakeTypeOK
  <2>4. ASSUME Over(p) PROVE Placed
    <3>1. NoCall \in Call
      BY DEF NoCall, Call
    <3>2. pc' \in [Procs -> Points] /\ call' \in [Procs -> Call]
      BY <2>4, <3>1 DEF Over, IntakeTypeOK, Points
    <3> QED BY <2>1, <2>4, <3>2, Alone, AbsenceAssumption DEF Over, IntakeTypeOK
  <2>5. /\ call[p].review \in Reviews /\ Path(p) \in Paths
        /\ call[p].stage \in {"approved", "completed", "cancelled"}
    BY <2>1, Holding
  <2>6. CASE Save(p)
    <3>1. Goes BY <2>6 DEF Save, Step, Points
    <3> QED BY <2>2, <2>5, <2>6, <3>1 DEF Save, content, answers, counts, IntakeTypeOK
  <2>7. CASE Open(p)
    <3>1. Goes BY <2>7 DEF Open, Step, Points, Committing
    <3>2. pending' \in Incarnation
      BY <2>5, <2>7 DEF Open, Incarnation, Stages, IntakeTypeOK
    <3>3. Placed
      BY <2>2, <2>7, <3>1 DEF Open
    <3> QED BY <2>7, <3>2, <3>3 DEF Open, content, evidence, answers, IntakeTypeOK
  <2>8. CASE Mark(p)
    <3>1. Goes BY <2>8 DEF Mark, Step, AfterCommit, Points, Committing, Installing
    <3>2. pending \in Incarnation /\ call[p].stage \in {"approved", "completed"}
      BY <2>1, <2>8 DEF Mark, Step, Approves, Committing, IntakeTypeOK, Pends
    <3>3. Signing[call[p].stage] \in Stages
      BY <3>2 DEF Signing, Stages
    <3>4. pending' \in Incarnation
      BY <2>8, <3>2, <3>3 DEF Mark, Incarnation
    <3> QED BY <2>2, <2>8, <3>1, <3>4 DEF Mark, content, evidence, answers, counts, IntakeTypeOK
  <2>9. CASE Sign(p)
    <3>1. Goes BY <2>9 DEF Sign, Step, Points, Committing
    <3>2. pending \in Incarnation /\ call[p].stage \in {"approved", "completed"}
      BY <2>9 DEF Sign, Step, Approves, Committing, IntakeTypeOK, Pends
    <3>3. NewRow(p) \in Row
      BY <2>5, <3>2 DEF NewRow, Row
    <3>4. ledger' \in Seq(Row) /\ Range(ledger) \subseteq Range(ledger')
      BY <2>9, <3>3, Appended DEF Sign, IntakeTypeOK
    <3> QED BY <2>2, <2>9, <3>1, <3>4 DEF Sign, content, answers, counts, IntakeTypeOK
  <2>10. CASE Select(p)
    <3>1. Goes BY <2>10 DEF Select, Step, Points, Committing
    <3>2. NewRow(p) \in Range(ledger)
      BY <2>10 DEF Select, Step, Approves, Range
    <3> QED BY <2>2, <2>10, <3>1, <3>2 DEF Select, content, answers, counts, IntakeTypeOK
  <2>11. CASE Store(p)
    <3>1. Goes
      <4>1. AfterCommit(p) \in Points \ {"idle"}
        BY DEF AfterCommit, Points, Installing
      <4> QED BY <2>11, <4>1 DEF Store, Step
    <3>2. pending \in Incarnation /\ call[p].stage \in {"approved", "completed"}
      BY <2>11 DEF Store, Step, Approves, Committing, IntakeTypeOK, Pends
    <3>3. pending' \in Incarnation
      BY <2>11, <3>2 DEF Store, Incarnation, Stages
    <3> QED BY <2>2, <2>11, <3>1, <3>3 DEF Store, content, evidence, answers, counts, IntakeTypeOK
  <2>12. CASE Compare(p)
    <3>1. Goes BY <2>12 DEF Compare, Step, Points, Installing
    <3> QED BY <2>2, <2>12, <3>1 DEF Compare, content, evidence, answers, counts, IntakeTypeOK
  <2>13. CASE Install(p)
    <3>1. Goes BY <2>13 DEF Install, Step, Points, Installing
    <3> QED BY <2>2, <2>13, <3>1 DEF Install, content, evidence, answers, counts, IntakeTypeOK
  <2>14. CASE Put(p)
    <3> DEFINE at == IF Last(p) THEN call[p].at ELSE call[p].at + 1
               c  == [call[p] EXCEPT !.at = at]
    <3>1. Goes BY <2>14 DEF Put, Step, Points, Installing
    <3>2. Files[call[p].review] \in Seq(Paths)
      BY <2>5, IntakeAssumption
    <3>3. call[p].at \in DOMAIN Files[call[p].review] /\ call[p].at \in Nat
      BY <2>1, Holding
    <3>4. at \in DOMAIN Files[call[p].review] /\ at \in Nat
      BY <3>2, <3>3 DEF Last
    <3>5. c \in Call /\ c.review = call[p].review /\ c.at = at
      BY <3>4 DEF IntakeTypeOK, Call
    <3>6. call' = [call EXCEPT ![p] = c]
      BY <2>14 DEF Put
    <3>7. Placed
      BY <2>3, <2>5, <3>1, <3>4, <3>5, <3>6
    <3>8. disk' \in [Paths -> Contents]
      BY <2>5, <2>14 DEF Put, IntakeTypeOK, Contents
    <3> QED BY <2>14, <3>7, <3>8 DEF Put, evidence, answers, counts, IntakeTypeOK
  <2>15. CASE Outputs(p)
    <3> DEFINE c == [call[p] EXCEPT !.stage = "completed"]
    <3>1. Goes BY <2>15 DEF Outputs, Step, Points, Committing
    <3>2. c \in Call /\ c.review = call[p].review /\ c.at = call[p].at
      BY DEF IntakeTypeOK, Call
    <3>3. call' = [call EXCEPT ![p] = c]
      BY <2>15 DEF Outputs
    <3>4. Placed
      BY <2>1, <2>3, <3>1, <3>2, <3>3, Holding
    <3> QED BY <2>15, <3>4 DEF Outputs, content, evidence, answers, counts, IntakeTypeOK
  <2>16. CASE Unlink(p)
    BY <2>4, <2>5, <2>16 DEF Unlink, content, evidence, counts, IntakeTypeOK
  <2>17. CASE Propose(p)
    <3>1. Goes BY <2>17 DEF Propose, Step, Points, Cancelling
    <3>2. call[p].inc \in offered
      BY <2>17 DEF Propose, Step, Cancels, Cancelling
    <3> QED BY <2>2, <2>17, <3>1, <3>2 DEF Propose, content, answers, counts, IntakeTypeOK
  <2>18. CASE SignCancel(p)
    <3>1. Goes BY <2>18 DEF SignCancel, Step, Points, Cancelling
    <3>2. call[p].inc \in Incarnation
      BY <2>18 DEF SignCancel, Step, Cancels, Cancelling, IntakeTypeOK
    <3>3. CancelRow(p) \in Row
      BY <2>5, <3>2 DEF CancelRow, Row
    <3>4. ledger' \in Seq(Row) /\ Range(ledger) \subseteq Range(ledger')
      BY <2>18, <3>3, Appended DEF SignCancel, IntakeTypeOK
    <3> QED BY <2>2, <2>18, <3>1, <3>4 DEF SignCancel, content, answers, counts, IntakeTypeOK
  <2>19. CASE Settle(p)
    <3>1. Goes BY <2>19 DEF Settle, Step, Points, Cancelling
    <3>2. PICK i \in DOMAIN ledger : ledger[i].stage = "cancelled" /\ ledger[i].of = call[p].inc
      BY <2>19, SignedRow DEF Settle, Step, Cancels
    <3>3. ledger[i] = CancelRow(p)
      <4>1. ledger[i] \in Row /\ ledger[i].review = call[p].review
        BY <2>19, <3>2 DEF IntakeTypeOK, Attempted, Settle, Step, Cancels, Cancelling
      <4> QED BY <3>2, <4>1 DEF Row, CancelRow
    <3>4. CancelRow(p) \in Range(ledger)
      BY <3>3 DEF Range
    <3> QED BY <2>2, <2>19, <3>1, <3>4 DEF Settle, content, answers, counts, IntakeTypeOK
  <2>20. CASE Drop(p)
    <3>1. call[p].inc \in offered
      BY <2>20 DEF Drop, Cancels, Cancelling
    <3> QED BY <2>4, <2>20, <3>1 DEF Drop, content, evidence, counts, IntakeTypeOK
  <2>21. CASE Refuse(p)
    BY <2>4, <2>21 DEF Refuse, content, evidence, answers, counts, IntakeTypeOK
  <2>22. CASE Stop(p)
    BY <2>4, <2>22 DEF Stop, content, evidence, answers, IntakeTypeOK
  <2> QED BY <1>9, <2>6, <2>7, <2>8, <2>9, <2>10, <2>11, <2>12, <2>13, <2>14, <2>15, <2>16,
             <2>17, <2>18, <2>19, <2>20, <2>21, <2>22 DEF Proceed
<1> QED BY <1>1, <1>2, <1>3, <1>4, <1>5, <1>6, <1>7, <1>8, <1>9 DEF IntakeNext

----------------------------------------------------------------------------
(* What all calls rely on *)

\* A step that writes neither the ledger nor the pending file.
LEMMA QuietStep ==
    ASSUME IntakeInv, IntakeTypeOK',
           UNCHANGED <<ledger, pending, tries>>, receipts \subseteq receipts',
           offered' \subseteq Attempts,
           \A q \in Paths, r \in Reviews : disk'[q] = r => disk[q] = r \/ Has(r, "approved"),
           \A r \in prepared' \ prepared : Has(r, "approved") /\ Has(r, "completed"),
           \A inc \in cancelled' \ cancelled :
               pending = None /\ inc \in Attempts /\ Undecided(inc.review)
    PROVE  Global'
<1> USE DEF Has
<1>1. Attempted'
  <2>1. Attempts' \subseteq Attempts
    BY DEF Attempts
  <2> QED BY <2>1 DEF IntakeInv, Global, Attempted
<1>2. Receipted'
  BY DEF IntakeInv, Global, Receipted, Selected, Pends
<1>3. CancelsExactly' /\ DecidedOnce'
  BY DEF IntakeInv, Global, CancelsExactly, DecidedOnce
<1>4. Fences'
  BY DEF IntakeInv, Global, Fences, Pends
<1>5. Told'
  <2>1. ASSUME NEW inc \in cancelled' \ cancelled, NEW i \in DOMAIN ledger,
               ledger[i].of.try = inc.try
        PROVE  ledger[i].stage = "cancelled"
    <3>1. ledger[i] \in Row /\ ledger[i] \in Range(ledger)
      BY DEF IntakeInv, IntakeTypeOK, Range
    <3>2. ledger[i].review = inc.review
      <4>1. ledger[i].of \in Attempts /\ inc \in Attempts
        BY <2>1 DEF Attempts
      <4> QED BY <2>1, <4>1 DEF IntakeInv, Global, Attempted
    <3> QED BY <2>1, <3>1, <3>2 DEF Undecided
  <2> QED BY <2>1 DEF IntakeInv, Global, Told
<1> QED BY <1>1, <1>2, <1>3, <1>4, <1>5 DEF Global

\* A row about the pending attempt is appended.
LEMMA RowStep ==
    ASSUME IntakeInv, NEW x \in Row, ledger' = Append(ledger, x),
           UNCHANGED <<disk, receipts, pending, offered, answers, tries>>,
           pending # None, x.of = pending, x.review = pending.review,
           \/ x.stage = "completed"
           \/ \A i \in DOMAIN ledger :
                 ledger[i].of.try = pending.try => ledger[i].stage = "completed",
           x.stage = "cancelled" \/ \A inc \in cancelled : inc.try # pending.try
    PROVE  Global'
<1> DEFINE n == Len(ledger) + 1
<1>1. /\ DOMAIN ledger' = DOMAIN ledger \cup {n}
      /\ n \notin DOMAIN ledger
      /\ \A i \in DOMAIN ledger : ledger'[i] = ledger[i]
      /\ ledger'[n] = x
  BY Appended DEF IntakeInv, IntakeTypeOK
<1> HIDE DEF n
<1>2. \A r, s : Has(r, s)' <=> Has(r, s) \/ (x.review = r /\ x.stage = s)
  BY <1>1 DEF Has
<1>3. Attempted'
  <2>1. Attempts' \subseteq Attempts
    BY <1>1 DEF Attempts
  <2> QED BY <1>1, <2>1 DEF IntakeInv, Global, Attempted
<1>4. Receipted'
  BY <1>2 DEF IntakeInv, Global, Receipted, Selected, Pends
<1>5. CancelsExactly'
  BY <1>1 DEF IntakeInv, Global, CancelsExactly
<1>6. DecidedOnce'
  <2> SUFFICES ASSUME NEW i \in DOMAIN ledger', NEW j \in DOMAIN ledger',
                      ledger'[i].stage # "completed", ledger'[j].stage # "completed",
                      ledger'[i].of.try = ledger'[j].of.try
               PROVE  i = j
    BY DEF DecidedOnce
  <2>1. CASE i \in DOMAIN ledger /\ j \in DOMAIN ledger
    BY <1>1, <2>1 DEF IntakeInv, Global, DecidedOnce
  <2>2. CASE i = n /\ j \in DOMAIN ledger
    BY <1>1, <2>2
  <2>3. CASE j = n /\ i \in DOMAIN ledger
    BY <1>1, <2>3
  <2> QED BY <1>1, <2>1, <2>2, <2>3
<1>7. Fences'
  BY <1>2 DEF IntakeInv, Global, Fences, Pends
<1>8. Told'
  BY <1>1, <1>2 DEF IntakeInv, Global, Told, answers
<1> QED BY <1>3, <1>4, <1>5, <1>6, <1>7, <1>8 DEF Global

\* The pending file is written for a new attempt.
LEMMA OpenStep ==
    ASSUME IntakeInv, NEW p \in Procs, Open(p)
    PROVE  Global'
<1> DEFINE inc == [review |-> call[p].review, stage |-> "prepared", try |-> tries + 1]
<1>1. /\ pending' = inc /\ tries' = tries + 1 /\ tries \in Nat
      /\ UNCHANGED <<disk, ledger, receipts, offered, answers>>
      /\ pending = None
  BY DEF Open, Step, evidence, content, IntakeInv, Approves, IntakeTypeOK
<1>2. \A a \in Attempts : a.try <= tries /\ a.try \in Nat
  <2>1. Attempts \subseteq Incarnation
    <3>1. \A i \in DOMAIN ledger : ledger[i].of \in Incarnation
      BY RowTyped DEF IntakeInv
    <3> QED BY <3>1 DEF Attempts, IntakeInv, IntakeTypeOK
  <2> QED BY <2>1 DEF IntakeInv, Global, Attempted, Incarnation
<1>3. Attempted'
  <2>1. \A a \in Attempts' : a \in Attempts \/ a = inc
    BY <1>1 DEF Attempts
  <2>2. inc.try = tries + 1
    OBVIOUS
  <2> HIDE DEF inc
  <2> QED BY <1>1, <1>2, <2>1, <2>2 DEF IntakeInv, Global, Attempted
<1>4. \A i \in DOMAIN ledger : ledger[i].of.try # pending'.try
  BY <1>1, <1>2 DEF Attempts
<1>5. CancelsExactly' /\ DecidedOnce'
  BY <1>1, <1>4 DEF IntakeInv, Global, CancelsExactly, DecidedOnce
<1>6. Fences' /\ Receipted'
  BY <1>1 DEF IntakeInv, Global, Fences, Receipted, Has, Selected, Pends
<1>7. Told'
  BY <1>1, <1>2 DEF IntakeInv, Global, Told, Has, answers, Attempts, IntakeTypeOK
<1> QED BY <1>3, <1>5, <1>6, <1>7 DEF Global

\* The stage of the pending attempt moves on.
LEMMA StageStep ==
    ASSUME IntakeInv, UNCHANGED <<disk, ledger, receipts, offered, answers, tries>>,
           pending # None, pending' # None,
           pending'.review = pending.review, pending'.try = pending.try,
           \A i \in DOMAIN ledger :
               ledger[i].of.try = pending.try => ledger[i].stage # "cancelled"
    PROVE  Global'
<1>1. Attempted'
  <2>1. \A a \in Attempts' : \E b \in Attempts : a.try = b.try /\ a.review = b.review
    BY DEF Attempts
  <2> QED BY <2>1 DEF IntakeInv, Global, Attempted
<1>2. CancelsExactly' /\ DecidedOnce'
  BY DEF IntakeInv, Global, CancelsExactly, DecidedOnce
<1>3. Fences' /\ Receipted'
  BY DEF IntakeInv, Global, Fences, Receipted, Has, Selected, Pends
<1>4. Told'
  BY DEF IntakeInv, Global, Told, Has, answers
<1> QED BY <1>1, <1>2, <1>3, <1>4 DEF Global

\* The pending file is taken away: no approval of its review is left open.
LEMMA ReleaseStep ==
    ASSUME IntakeInv, UNCHANGED <<disk, ledger, receipts, offered, tries>>,
           pending # None, pending' = None,
           Has(pending.review, "approved") => Has(pending.review, "completed"),
           Has(pending.review, "completed") => Selected(pending.review, "completed"),
           \A r \in prepared' \ prepared : Has(r, "approved") /\ Has(r, "completed"),
           \A inc \in cancelled' \ cancelled : inc = pending /\ ~Has(inc.review, "approved")
                                               /\ ~Has(inc.review, "completed")
    PROVE  Global'
<1>1. Attempted'
  <2>1. Attempts' \subseteq Attempts
    BY DEF Attempts
  <2> QED BY <2>1 DEF IntakeInv, Global, Attempted
<1>2. CancelsExactly' /\ DecidedOnce'
  BY DEF IntakeInv, Global, CancelsExactly, DecidedOnce
<1>3. Fences' /\ Receipted'
  BY DEF IntakeInv, Global, Fences, Receipted, Has, Selected, Pends
<1>4. Told'
  <2>1. ASSUME NEW inc \in cancelled' \ cancelled, NEW i \in DOMAIN ledger,
               ledger[i].of.try = inc.try
        PROVE  ledger[i].stage = "cancelled"
    <3>1. ledger[i] \in Row
      BY DEF IntakeInv, IntakeTypeOK
    <3>2. ledger[i].review = inc.review
      <4>1. ledger[i].of \in Attempts /\ inc \in Attempts
        BY <2>1 DEF Attempts
      <4> QED BY <2>1, <4>1 DEF IntakeInv, Global, Attempted
    <3> QED BY <2>1, <3>1, <3>2 DEF Has, Row
  <2> QED BY <2>1 DEF IntakeInv, Global, Told, Has
<1> QED BY <1>1, <1>2, <1>3, <1>4 DEF Global

LEMMA GlobalStep ==
    ASSUME IntakeInv, [IntakeNext]_intakeVars, IntakeTypeOK'
    PROVE  Global'
<1> USE DEF content, evidence, answers, counts
<1>1. CASE UNCHANGED intakeVars
  BY <1>1, QuietStep DEF intakeVars, Attempts
<1>2. ASSUME NEW r \in Reviews, Prepare(r) PROVE Global'
  BY <1>2, QuietStep DEF Prepare, Attempts
<1>3. ASSUME NEW p \in Procs, NEW r \in Reviews, Approve(p, r) PROVE Global'
  BY <1>3, QuietStep DEF Approve, Attempts
<1>4. ASSUME NEW p \in Procs, NEW r \in Reviews, AnswerAgain(p, r) PROVE Global'
  <2>1. Has(r, "approved") /\ Has(r, "completed")
    BY <1>4, SelectedHas DEF AnswerAgain, Completed, IntakeInv
  <2> QED BY <1>4, <2>1, QuietStep DEF AnswerAgain, Attempts
<1>5. ASSUME NEW p \in Procs, NEW inc \in offered, Cancel(p, inc) PROVE Global'
  BY <1>5, QuietStep DEF Cancel, Attempts
<1>6. ASSUME NEW p \in Procs, NEW inc \in offered, CancelAgain(p, inc) PROVE Global'
  BY <1>6, QuietStep DEF CancelAgain, Cancellable, Attempts
<1>7. ASSUME Offer PROVE Global'
  BY <1>7, QuietStep DEF Offer, Attempts
<1>8. ASSUME NEW q \in Paths, NEW c \in {"absent", "other"}, Edit(q, c) PROVE Global'
  <2>1. \A b \in Paths, r \in Reviews : disk'[b] = r => disk[b] = r
    BY <1>8, AbsenceAssumption DEF Edit, IntakeInv, IntakeTypeOK
  <2> QED BY <1>8, <2>1, QuietStep DEF Edit, Attempts
<1>9. ASSUME NEW p \in Procs, Proceed(p) \/ Stop(p) PROVE Global'
  <2>1. Approves(p) /\ Cancels(p) /\ IntakeTypeOK
    BY DEF IntakeInv
  <2>2. CASE Save(p)
    BY <2>2, QuietStep DEF Save, Attempts
  <2>3. CASE Open(p)
    BY <2>3, OpenStep
  <2>4. CASE Mark(p)
    <3>1. ~Has(call[p].review, call[p].stage) /\ Pends(call[p].review)
          /\ \A i \in DOMAIN ledger :
                ledger[i].of.try = pending.try => ledger[i].stage # "cancelled"
      BY <2>1, <2>4 DEF Mark, Step, Approves, Committing
    <3>2. pending' = [pending EXCEPT !.stage = Signing[call[p].stage]]
      BY <2>1, <2>4, <3>1, SelectedHas DEF Mark
    <3>3. pending \in Incarnation /\ pending # None
      BY <2>1, <3>1 DEF Pends, IntakeTypeOK
    <3>4. pending' \in Incarnation
      <4>1. call[p].stage \in {"approved", "completed"}
        BY <2>1, <2>4 DEF Mark, Step, Approves, Committing
      <4>2. Signing[call[p].stage] \in Stages
        BY <4>1 DEF Signing, Stages
      <4> QED BY <3>2, <3>3, <4>2 DEF Incarnation
    <3>5. pending'.review = pending.review /\ pending'.try = pending.try /\ pending' # None
      BY <3>2, <3>3, <3>4, AbsenceAssumption DEF Incarnation
    <3> QED BY <2>4, <3>5, <3>1, <3>3, <3>4, StageStep DEF Mark
  <2>5. CASE Sign(p)
    <3> DEFINE x == NewRow(p)
    <3>1. /\ Pends(call[p].review) /\ ~Has(call[p].review, call[p].stage)
          /\ call[p].stage \in {"approved", "completed"}
          /\ ~Has(call[p].review, "completed")
          /\ \A i \in DOMAIN ledger :
                ledger[i].of.try = pending.try => ledger[i].stage # "cancelled"
      BY <2>1, <2>5 DEF Sign, Step, Approves, Committing
    <3>2. /\ x \in Row /\ x.of = pending /\ x.review = pending.review
          /\ x.stage = call[p].stage
      <4>1. pending \in Incarnation /\ call[p].review \in Reviews
        BY <2>1, <2>5, <3>1, Holding DEF Pends, IntakeTypeOK, Sign, Step
      <4> QED BY <3>1, <4>1 DEF NewRow, Row, Pends
    <3>3. ASSUME call[p].stage = "approved", NEW i \in DOMAIN ledger,
                 ledger[i].of.try = pending.try
          PROVE  ledger[i].stage = "completed"
      <4>1. ledger[i] \in Row /\ ledger[i].review = pending.review
        <5>1. ledger[i].of \in Attempts /\ pending \in Attempts
          BY <3>1 DEF Attempts, Pends
        <5> QED BY <2>1, <3>3, <5>1 DEF IntakeInv, Global, Attempted, IntakeTypeOK
      <4> QED BY <3>1, <3>3, <4>1 DEF Has, Row, Pends
    <3>4. \A inc \in cancelled : inc.try # pending.try
      BY <3>1 DEF IntakeInv, Global, Told, Pends
    <3>5. ledger' = Append(ledger, x)
      BY <2>5 DEF Sign
    <3> HIDE DEF x
    <3> QED BY <2>5, <3>1, <3>2, <3>3, <3>4, <3>5, RowStep DEF Sign, Pends
  <2>6. CASE Select(p)
    BY <2>6, QuietStep DEF Select, Attempts
  <2>7. CASE Store(p)
    <3>1. /\ Pends(call[p].review)
          /\ \A i \in DOMAIN ledger :
                ledger[i].of.try = pending.try => ledger[i].stage # "cancelled"
      BY <2>1, <2>7 DEF Store, Step, Approves, Committing
    <3>2. pending' = [pending EXCEPT !.stage = call[p].stage]
      BY <2>7 DEF Store
    <3>3. pending \in Incarnation /\ pending # None
      BY <2>1, <3>1 DEF Pends, IntakeTypeOK
    <3>4. pending' \in Incarnation
      <4>1. call[p].stage \in {"approved", "completed"}
        BY <2>1, <2>7 DEF Store, Step, Approves, Committing
      <4> QED BY <3>2, <3>3, <4>1 DEF Incarnation, Stages
    <3>5. pending'.review = pending.review /\ pending'.try = pending.try /\ pending' # None
      BY <3>2, <3>3, <3>4, AbsenceAssumption DEF Incarnation
    <3> QED BY <2>7, <3>5, <3>1, <3>3, <3>4, StageStep DEF Store
  <2>8. CASE Compare(p) \/ Install(p) \/ Outputs(p) \/ Refuse(p) \/ Stop(p)
    BY <2>8, QuietStep DEF Compare, Install, Outputs, Refuse, Stop, Attempts
  <2>9. CASE Put(p)
    <3>1. Has(call[p].review, "approved")
      BY <2>1, <2>9 DEF Put, Step, Approves, Installing, SignedFor, Has, Pends
    <3>2. \A q \in Paths, r \in Reviews : disk'[q] = r => disk[q] = r \/ Has(r, "approved")
      BY <2>1, <2>9, <3>1 DEF Put, IntakeTypeOK
    <3> QED BY <2>9, <3>2, QuietStep DEF Put, Attempts
  <2>10. CASE Unlink(p)
    <3>1. /\ Pends(call[p].review) /\ Has(call[p].review, "approved")
          /\ Selected(call[p].review, "completed")
      BY <2>1, <2>10 DEF Unlink, Approves, SignedFor, Has, Pends
    <3>2. Has(call[p].review, "completed")
      BY <2>1, <3>1, SelectedHas
    <3> QED BY <2>10, <3>1, <3>2, ReleaseStep DEF Unlink, Pends
  <2>11. CASE Propose(p)
    BY <2>1, <2>11, QuietStep DEF Propose, Attempts
  <2>12. CASE SignCancel(p)
    <3> DEFINE x == CancelRow(p)
    <3>1. /\ call[p].inc = pending /\ call[p].inc \in offered
          /\ call[p].review = pending.review
          /\ ~Has(pending.review, "approved") /\ ~Signed(pending)
      BY <2>1, <2>12 DEF SignCancel, Step, Cancels, Cancelling
    <3>2. pending \in Incarnation /\ pending # None
      BY <2>1, <3>1, AbsenceAssumption DEF IntakeTypeOK
    <3>3. /\ x \in Row /\ x.of = pending /\ x.review = pending.review
          /\ x.stage = "cancelled"
      BY <3>1, <3>2 DEF CancelRow, Row, Incarnation
    <3>4. ASSUME NEW i \in DOMAIN ledger, ledger[i].of.try = pending.try
          PROVE  ledger[i].stage = "completed"
      <4>1. ledger[i] \in Row /\ ledger[i].review = pending.review
        <5>1. ledger[i].of \in Attempts /\ pending \in Attempts
          BY <3>2 DEF Attempts
        <5> QED BY <2>1, <3>4, <5>1 DEF IntakeInv, Global, Attempted, IntakeTypeOK
      <4>2. ledger[i].stage # "cancelled"
        BY <3>1, <3>2, <3>4, SignedRow DEF IntakeInv, Global, CancelsExactly
      <4> QED BY <3>1, <4>1, <4>2 DEF Has, Row
    <3>5. ledger' = Append(ledger, x)
      BY <2>12 DEF SignCancel
    <3> HIDE DEF x
    <3> QED BY <2>12, <3>2, <3>3, <3>4, <3>5, RowStep DEF SignCancel
  <2>13. CASE Settle(p)
    BY <2>13, QuietStep DEF Settle, Attempts
  <2>14. CASE Drop(p)
    <3>1. /\ call[p].inc = pending /\ call[p].inc \in offered
          /\ ~Has(pending.review, "approved") /\ ~Has(pending.review, "completed")
      BY <2>1, <2>14 DEF Drop, Cancels, Cancelling
    <3>2. pending # None
      BY <2>1, <3>1, AbsenceAssumption DEF IntakeTypeOK
    <3> QED BY <2>14, <3>1, <3>2, ReleaseStep DEF Drop
  <2> QED BY <1>9, <2>2, <2>3, <2>4, <2>5, <2>6, <2>7, <2>8, <2>9, <2>10, <2>11, <2>12,
             <2>13, <2>14 DEF Proceed
<1> QED BY <1>1, <1>2, <1>3, <1>4, <1>5, <1>6, <1>7, <1>8, <1>9 DEF IntakeNext

----------------------------------------------------------------------------
(* What a call knows *)

LEMMA Kept ==
    ASSUME NEW p, Approves(p), Cancels(p), pc'[p] = pc[p], call'[p] = call[p],
           UNCHANGED <<ledger, pending>>, receipts \subseteq receipts',
           offered \subseteq offered'
    PROVE  Approves(p)' /\ Cancels(p)'
<1>1. Approves(p)'
  BY DEF Approves, Has, SignedFor, Pends, Selected, NewRow
<1>2. Cancels(p)'
  BY DEF Cancels, Has, Signed, Matching
<1> QED BY <1>1, <1>2

LEMMA IdleKnowsNothing ==
    ASSUME NEW p, pc'[p] = "idle"
    PROVE  Approves(p)' /\ Cancels(p)'
BY DEF Approves, Cancels, Committing, Installing, Cancelling

\* The call that takes a step of its own knows afterwards what it has to know.
LEMMA OwnStep ==
    ASSUME IntakeInv, NEW p \in Procs, Proceed(p) \/ Stop(p), IntakeTypeOK', Global'
    PROVE  Approves(p)' /\ Cancels(p)'
<1> USE DEF content, evidence, answers, counts, Committing, Installing, Cancelling
<1>1. Approves(p) /\ Cancels(p) /\ IntakeTypeOK
  BY DEF IntakeInv
<1> DEFINE Ready(from, to) == pc[p] = from /\ pc'[p] = to
<1>2. CASE Save(p)
  <2>1. Ready("save", "open") /\ UNCHANGED <<ledger, pending, call>>
    BY <1>1, <1>2 DEF Save, Step, IntakeTypeOK
  <2> QED BY <1>1, <2>1 DEF Approves, Cancels, Has
<1>3. CASE Open(p)
  <2>1. Ready("open", "mark") /\ UNCHANGED <<ledger, receipts, call>>
    BY <1>1, <1>3 DEF Open, Step, IntakeTypeOK
  <2>2. /\ pending' = [review |-> call[p].review, stage |-> "prepared", try |-> tries + 1]
        /\ tries \in Nat
    BY <1>1, <1>3 DEF Open, IntakeTypeOK
  <2>3. call[p].review \in Reviews
    BY <1>1, <2>1, Holding
  <2>4. pending' # None /\ pending'.review = call[p].review /\ pending'.try = tries + 1
    BY <2>2, <2>3, AbsenceAssumption DEF Incarnation, Stages
  <2>5. \A i \in DOMAIN ledger : ledger[i].of.try # tries + 1
    <3>1. ASSUME NEW i \in DOMAIN ledger
          PROVE  ledger[i].of.try <= tries /\ ledger[i].of.try \in Nat
      <4>1. ledger[i].of \in Attempts
        BY DEF Attempts
      <4>2. ledger[i].of \in Incarnation
        BY <1>1, RowTyped
      <4> QED BY <4>1, <4>2 DEF IntakeInv, Global, Attempted, Incarnation
    <3> QED BY <2>2, <3>1
  <2> QED BY <1>1, <2>1, <2>4, <2>5 DEF Approves, Cancels, Has, SignedFor, Pends
<1>4. CASE Mark(p)
  <2>1. pc[p] = "mark"
    BY <1>4 DEF Mark, Step
  <2>2. ~Selected(call[p].review, call[p].stage)
    BY <1>1, <2>1, SelectedHas DEF Approves
  <2>3. Ready("mark", "sign") /\ UNCHANGED <<ledger, receipts, call>>
    BY <1>1, <1>4, <2>2 DEF Mark, Step, IntakeTypeOK
  <2>4. pending' = [pending EXCEPT !.stage = Signing[call[p].stage]]
    BY <1>4, <2>2 DEF Mark
  <2>5. call[p].stage \in {"approved", "completed"} /\ pending \in Incarnation
    BY <1>1, <2>1 DEF Approves, Pends, IntakeTypeOK
  <2>6. Signing[call[p].stage] \in Stages
    BY <2>5 DEF Signing, Stages
  <2>7. pending' # None /\ pending'.review = pending.review /\ pending'.try = pending.try
    BY <2>4, <2>5, <2>6, AbsenceAssumption DEF Incarnation
  <2> QED BY <1>1, <2>3, <2>7 DEF Approves, Cancels, Has, SignedFor, Pends
<1>5. CASE Sign(p)
  <2>1. Ready("sign", "select") /\ UNCHANGED <<receipts, pending, call>>
        /\ ledger' = Append(ledger, NewRow(p))
    BY <1>1, <1>5 DEF Sign, Step, IntakeTypeOK
  <2>2. /\ Pends(call[p].review) /\ call[p].stage \in {"approved", "completed"}
        /\ call[p].review \in Reviews /\ pending \in Incarnation
    BY <1>1, <2>1, Holding DEF Approves, Pends, IntakeTypeOK
  <2>3. NewRow(p) \in Row
    BY <2>2 DEF NewRow, Row
  <2>4. /\ DOMAIN ledger' = DOMAIN ledger \cup {Len(ledger) + 1}
        /\ \A i \in DOMAIN ledger : ledger'[i] = ledger[i]
        /\ ledger'[Len(ledger) + 1] = NewRow(p)
    BY <1>1, <2>1, <2>3, Appended DEF IntakeTypeOK
  <2>5. /\ NewRow(p).stage = call[p].stage /\ NewRow(p).review = call[p].review
        /\ NewRow(p)' = NewRow(p)
    BY <2>1 DEF NewRow
  <2>6. \A r, s : Has(r, s)' <=> Has(r, s) \/ (r = call[p].review /\ s = call[p].stage)
    BY <2>4, <2>5 DEF Has
  <2>7. \A i \in DOMAIN ledger' :
           ledger'[i].of.try = pending.try => ledger'[i].stage # "cancelled"
    BY <1>1, <2>1, <2>2, <2>4, <2>5 DEF Approves
  <2>8. \E i \in DOMAIN ledger' : ledger'[i] = NewRow(p)'
    BY <2>4, <2>5
  <2>9. Pends(call[p].review)'
    BY <2>1, <2>2 DEF Pends
  <2>10. ~Has(call[p].review, "completed")
         /\ (call[p].stage = "completed" => SignedFor("approved"))
    BY <1>1, <2>1 DEF Approves
  <2>11. SignedFor("approved") => SignedFor("approved")'
    BY <2>1, <2>4 DEF SignedFor
  <2> QED BY <2>1, <2>2, <2>6, <2>7, <2>8, <2>9, <2>10, <2>11 DEF Approves, Cancels
<1>6. CASE Select(p)
  <2>1. Ready("select", "store") /\ UNCHANGED <<ledger, pending, call>>
        /\ receipts' = receipts \cup {NewRow(p)}
    BY <1>1, <1>6 DEF Select, Step, IntakeTypeOK
  <2>2. Selected(call[p].review, call[p].stage)'
    <3>1. NewRow(p).review = call'[p].review /\ NewRow(p).stage = call'[p].stage
      BY <2>1 DEF NewRow
    <3> QED BY <2>1, <3>1 DEF Selected
  <2> QED BY <1>1, <2>1, <2>2 DEF Approves, Cancels, Has, SignedFor, Pends, NewRow
<1>7. CASE Store(p)
  <2>1. /\ pc[p] = "store" /\ pc'[p] = AfterCommit(p) /\ UNCHANGED <<ledger, receipts, call>>
        /\ pending' = [pending EXCEPT !.stage = call[p].stage]
    BY <1>1, <1>7 DEF Store, Step, IntakeTypeOK
  <2>2. /\ Pends(call[p].review) /\ call[p].stage \in {"approved", "completed"}
        /\ pending \in Incarnation /\ Selected(call[p].review, call[p].stage)
    BY <1>1, <2>1 DEF Approves, Pends, IntakeTypeOK
  <2>3. pending' # None /\ pending'.review = pending.review /\ pending'.try = pending.try
    BY <2>1, <2>2, AbsenceAssumption DEF Incarnation, Stages
  <2>4. PICK i \in DOMAIN ledger : ledger[i] = NewRow(p)
    BY <1>1, <2>1 DEF Approves
  <2>5. /\ ledger[i].stage = call[p].stage /\ ledger[i].review = call[p].review
        /\ ledger[i].of.try = pending.try
    BY <2>4 DEF NewRow
  <2>6. CASE call[p].stage = "approved"
    <3>1. pc'[p] = "compare"
      BY <2>1, <2>6 DEF AfterCommit
    <3>2. SignedFor("approved")'
      BY <2>1, <2>2, <2>3, <2>5, <2>6 DEF SignedFor, Pends
    <3> QED BY <1>1, <2>1, <2>2, <2>3, <2>6, <3>1, <3>2 DEF Approves, Cancels, Has, SignedFor, Pends
  <2>7. CASE call[p].stage = "completed"
    <3>1. pc'[p] = "unlink"
      BY <2>1, <2>7 DEF AfterCommit
    <3> QED BY <1>1, <2>1, <2>2, <2>3, <2>5, <2>7, <3>1
         DEF Approves, Cancels, Has, SignedFor, Pends, Selected
  <2> QED BY <2>2, <2>6, <2>7
<1>8. CASE Compare(p)
  <2>1. Ready("compare", "install") /\ UNCHANGED <<ledger, pending, receipts, call>>
    BY <1>1, <1>8 DEF Compare, Step, IntakeTypeOK
  <2> QED BY <1>1, <2>1 DEF Approves, Cancels, Has, SignedFor, Pends
<1>9. CASE Install(p)
  <2>1. Ready("install", "put") /\ UNCHANGED <<ledger, pending, receipts, call>>
    BY <1>1, <1>9 DEF Install, Step, IntakeTypeOK
  <2> QED BY <1>1, <2>1 DEF Approves, Cancels, Has, SignedFor, Pends
<1>10. CASE Put(p)
  <2>1. /\ pc[p] = "put" /\ pc'[p] \in {"install", "outputs"}
        /\ UNCHANGED <<ledger, pending, receipts>>
    BY <1>1, <1>10 DEF Put, Step, IntakeTypeOK
  <2>2. call'[p].review = call[p].review /\ call'[p].stage = call[p].stage
    BY <1>1, <1>10 DEF Put, IntakeTypeOK, Call
  <2> QED BY <1>1, <2>1, <2>2 DEF Approves, Cancels, Has, SignedFor, Pends
<1>11. CASE Outputs(p)
  <2>1. Ready("outputs", "mark") /\ UNCHANGED <<ledger, pending, receipts>>
    BY <1>1, <1>11 DEF Outputs, Step, IntakeTypeOK
  <2>2. call'[p].review = call[p].review /\ call'[p].stage = "completed"
    BY <1>1, <1>11 DEF Outputs, IntakeTypeOK, Call
  <2> QED BY <1>1, <2>1, <2>2 DEF Approves, Cancels, Has, SignedFor, Pends
<1>12. CASE Unlink(p) \/ Drop(p) \/ Refuse(p) \/ Stop(p)
  <2>1. pc'[p] = "idle"
    BY <1>1, <1>12 DEF Unlink, Drop, Refuse, Stop, Over, IntakeTypeOK
  <2> QED BY <2>1, IdleKnowsNothing
<1>13. CASE Propose(p)
  <2>1. /\ pc[p] = "propose" /\ UNCHANGED <<ledger, pending, receipts, offered, call>>
        /\ pc'[p] = IF Signed(call[p].inc) THEN "settle" ELSE "cancel"
    BY <1>1, <1>13 DEF Propose, Step, IntakeTypeOK
  <2> QED BY <1>1, <2>1 DEF Approves, Cancels, Has, Signed, Matching
<1>14. CASE SignCancel(p)
  <2>1. /\ Ready("cancel", "settle") /\ UNCHANGED <<pending, receipts, offered, call>>
        /\ ledger' = Append(ledger, CancelRow(p))
    BY <1>1, <1>14 DEF SignCancel, Step, IntakeTypeOK
  <2>2. CancelRow(p) \in Row
    <3>1. call[p].inc \in Incarnation /\ call[p].review \in Reviews
      BY <1>1, <2>1, Holding DEF Cancels, IntakeTypeOK
    <3> QED BY <3>1 DEF CancelRow, Row
  <2>3. /\ DOMAIN ledger' = DOMAIN ledger \cup {Len(ledger) + 1}
        /\ \A i \in DOMAIN ledger : ledger'[i] = ledger[i]
        /\ ledger'[Len(ledger) + 1] = CancelRow(p)
    BY <1>1, <2>1, <2>2, Appended DEF IntakeTypeOK
  <2>4. Signed(call[p].inc)'
    BY <2>1, <2>3 DEF Signed, Matching, CancelRow
  <2>5. \A r, s : Has(r, s)' <=> Has(r, s) \/ (r = call[p].review /\ s = "cancelled")
    BY <2>3 DEF Has, CancelRow
  <2> QED BY <1>1, <2>1, <2>4, <2>5 DEF Approves, Cancels
<1>15. CASE Settle(p)
  <2>1. Ready("settle", "drop") /\ UNCHANGED <<ledger, pending, offered, call>>
    BY <1>1, <1>15 DEF Settle, Step, IntakeTypeOK
  <2> QED BY <1>1, <2>1 DEF Approves, Cancels, Has, Signed, Matching
<1> QED BY <1>2, <1>3, <1>4, <1>5, <1>6, <1>7, <1>8, <1>9, <1>10, <1>11, <1>12, <1>13, <1>14,
           <1>15 DEF Proceed

LEMMA CallsKnow ==
    ASSUME IntakeInv, [IntakeNext]_intakeVars, IntakeTypeOK', Global', NEW p \in Procs
    PROVE  Approves(p)' /\ Cancels(p)'
<1> USE DEF content, evidence, answers, counts
<1>1. Approves(p) /\ Cancels(p) /\ IntakeTypeOK
  BY DEF IntakeInv
<1>2. CASE \/ UNCHANGED intakeVars
           \/ \E r \in Reviews : Prepare(r)
           \/ \E q \in Procs, r \in Reviews : AnswerAgain(q, r)
           \/ \E q \in Procs : \E inc \in offered : CancelAgain(q, inc)
           \/ Offer
           \/ \E q \in Paths, c \in {"absent", "other"} : Edit(q, c)
  <2>1. UNCHANGED <<ledger, pending, pc, call, receipts>> /\ offered \subseteq offered'
    BY <1>2 DEF intakeVars, Prepare, AnswerAgain, CancelAgain, Offer, Edit
  <2> QED BY <1>1, <2>1, Kept
<1>3. ASSUME NEW q \in Procs, NEW r \in Reviews, Approve(q, r) PROVE Approves(p)' /\ Cancels(p)'
  <2>1. /\ lock = None /\ pc' = [pc EXCEPT ![q] = "save"]
        /\ call' = [call EXCEPT ![q] = [NoCall EXCEPT !.review = r]]
        /\ UNCHANGED <<ledger, pending, receipts, offered>>
    BY <1>3 DEF Approve, Takes
  <2>2. CASE p # q
    BY <1>1, <2>1, <2>2, Kept DEF IntakeTypeOK
  <2>3. CASE p = q
    <3>1. pc'[p] = "save" /\ call'[p].review = r /\ call'[p].stage = "approved"
      BY <1>1, <2>1, <2>3 DEF IntakeTypeOK, NoCall
    <3>2. pending = None /\ ~Has(r, "completed")
      BY <1>3 DEF Approve, IntakeInv, Global, Receipted, Pends
    <3>3. ~Has(r, "approved")
      BY <3>2 DEF IntakeInv, Global, Fences, Pends
    <3> QED BY <2>1, <3>1, <3>2, <3>3 DEF Approves, Cancels, Has, Committing, Installing, Cancelling
  <2> QED BY <2>2, <2>3
<1>4. ASSUME NEW q \in Procs, NEW inc \in offered, Cancel(q, inc) PROVE Approves(p)' /\ Cancels(p)'
  <2>1. /\ lock = None /\ pc' = [pc EXCEPT ![q] = "propose"]
        /\ call' = [call EXCEPT ![q] =
                       [review |-> inc.review, stage |-> "cancelled", at |-> 1, inc |-> inc]]
        /\ UNCHANGED <<ledger, pending, receipts, offered>>
    BY <1>4 DEF Cancel, Takes
  <2>2. CASE p # q
    BY <1>1, <2>1, <2>2, Kept DEF IntakeTypeOK
  <2>3. CASE p = q
    <3>1. pc'[p] = "propose" /\ call'[p].review = inc.review /\ call'[p].inc = inc
      BY <1>1, <2>1, <2>3 DEF IntakeTypeOK
    <3>2. pending = inc /\ ~Has(inc.review, "approved") /\ ~Has(inc.review, "completed")
      BY <1>4, UndecidedHas DEF Cancel, Held, Cancellable
    <3> QED BY <2>1, <3>1, <3>2 DEF Approves, Cancels, Has, Committing, Installing, Cancelling
  <2> QED BY <2>2, <2>3
<1>5. ASSUME NEW q \in Procs, Proceed(q) \/ Stop(q) PROVE Approves(p)' /\ Cancels(p)'
  <2>1. CASE p = q
    BY <1>5, <2>1, OwnStep
  <2>2. CASE p # q
    <3>1. pc[q] # "idle" /\ \E to \in Points : pc' = [pc EXCEPT ![q] = to]
      BY <1>5 DEF Proceed, Save, Open, Mark, Sign, Select, Store, Compare, Install, Put, Outputs,
         Unlink, Propose, SignCancel, Settle, Drop, Refuse, Stop, Step, Over, AfterCommit, Points,
         Committing, Installing, Cancelling
    <3>2. pc[p] = "idle"
      BY <1>1, <2>2, <3>1, Alone
    <3>3. pc'[p] = "idle"
      BY <1>1, <2>2, <3>1, <3>2 DEF IntakeTypeOK
    <3> QED BY <3>3, IdleKnowsNothing
  <2> QED BY <2>1, <2>2
<1> QED BY <1>2, <1>3, <1>4, <1>5 DEF IntakeNext

LEMMA IntakeInductive == IntakeInv /\ [IntakeNext]_intakeVars => IntakeInv'
<1> SUFFICES ASSUME IntakeInv, [IntakeNext]_intakeVars PROVE IntakeInv'
  OBVIOUS
<1>1. IntakeTypeOK'
  BY IntakeTypeStep
<1>2. Global'
  BY <1>1, GlobalStep
<1>3. \A p \in Procs : Approves(p)' /\ Cancels(p)'
  BY <1>1, <1>2, CallsKnow
<1> QED BY <1>1, <1>2, <1>3 DEF IntakeInv

LEMMA IntakeInvariant == IntakeSpec => []IntakeInv
BY IntakeInitially, IntakeInductive, PTL DEF IntakeSpec

----------------------------------------------------------------------------

\* Every variable keeps its type, and a call that goes on holds the freeze lock.
THEOREM IntakeTypeCorrect == IntakeSpec => []IntakeTypeOK
<1>1. IntakeInv => IntakeTypeOK
  BY DEF IntakeInv
<1> QED BY <1>1, IntakeInvariant, PTL

\* A package of which a file is in place, or whose approval is signed, fences
\* implementation until its completion is signed, wherever a call died.
THEOREM FencedUntilDone == IntakeSpec => []UnfinishedFenced
<1>1. IntakeInv => UnfinishedFenced
  BY DEF IntakeInv, Global, Fences, UnfinishedFenced, Has, Range
<1> QED BY <1>1, IntakeInvariant, PTL

\* The owner decides an attempt once.
THEOREM OneDecision == IntakeSpec => []DecidedOnce
<1>1. IntakeInv => DecidedOnce
  BY DEF IntakeInv, Global
<1> QED BY <1>1, IntakeInvariant, PTL

\* What a caller was told about an approval or a cancellation stays true.
THEOREM AnswersHold == IntakeSpec => []AnswersStand
<1>1. IntakeInv => AnswersStand
  BY DEF IntakeInv, Global, Told, AnswersStand, Has, Range
<1> QED BY <1>1, IntakeInvariant, PTL

\* The pending transaction is taken away only with the evidence in the ledger.
THEOREM NothingDeleted == IntakeSpec => EvidenceKept
<1> DEFINE Evidence ==
      pending # None /\ pending' = None
      => \E x \in Range(ledger) :
             /\ x.of.try = pending.try
             /\ \/ x.stage = "completed"
                \/ x.stage = "cancelled" /\ x.of = pending
<1>1. ASSUME IntakeInv, [IntakeNext]_intakeVars PROVE Evidence
  <2> SUFFICES ASSUME pending # None, pending' = None
               PROVE  \E i \in DOMAIN ledger :
                          /\ ledger[i].of.try = pending.try
                          /\ \/ ledger[i].stage = "completed"
                             \/ ledger[i].stage = "cancelled" /\ ledger[i].of = pending
    BY DEF Range
  <2>1. PICK p \in Procs : Open(p) \/ Mark(p) \/ Store(p) \/ Unlink(p) \/ Drop(p)
    BY <1>1 DEF IntakeNext, intakeVars, content, evidence, answers, counts, Prepare, Approve,
       AnswerAgain, Cancel, CancelAgain, Offer, Edit, Proceed, Stop, Save, Sign, Select, Compare,
       Install, Put, Outputs, Propose, SignCancel, Settle, Refuse
  <2>2. Approves(p) /\ Cancels(p) /\ IntakeTypeOK
    BY <1>1 DEF IntakeInv
  <2>3. CASE Unlink(p)
    BY <2>2, <2>3 DEF Unlink, Approves, SignedFor
  <2>4. CASE Drop(p)
    BY <2>2, <2>4, SignedRow DEF Drop, Cancels, Cancelling
  <2>5. CASE Open(p)
    BY <2>2, <2>5 DEF Open, Step, Approves
  <2>6. CASE Mark(p) \/ Store(p)
    <3>1. pending \in Incarnation /\ call[p].stage \in {"approved", "completed"}
      BY <2>2, <2>6 DEF Mark, Store, Step, Approves, Pends, Committing, IntakeTypeOK
    <3>2. Signing[call[p].stage] \in Stages /\ call[p].stage \in Stages
      BY <3>1 DEF Signing, Stages
    <3>3. pending' \in Incarnation
      BY <2>6, <3>1, <3>2 DEF Mark, Store, Incarnation
    <3> QED BY <3>3, AbsenceAssumption
  <2> QED BY <2>1, <2>3, <2>4, <2>5, <2>6
<1> QED BY <1>1, IntakeInvariant, PTL DEF IntakeSpec, EvidenceKept

----------------------------------------------------------------------------
(* The intake refines PackageDecisions *)

\* What a row tells the owner.
Tells(x) == [review |-> x.review, try |-> x.of.try, stage |-> x.stage]

LEMMA DecidedRow ==
    ASSUME NEW d
    PROVE  d \in Decided <=> \E i \in DOMAIN ledger : d = Tells(ledger[i])
BY DEF Decided, Tells, Range

\* A signature adds what it tells.
LEMMA DecidedMore ==
    ASSUME ledger \in Seq(Row), NEW x \in Row, ledger' = Append(ledger, x)
    PROVE  Decided' = Decided \cup {Tells(x)}
<1>1. Range(ledger') = Range(ledger) \cup {x}
  BY Appended
<1> QED BY <1>1 DEF Decided, Tells

\* The owner sees nothing of a step that signs nothing and keeps the attempt.
LEMMA OwnerSleeps ==
    ASSUME UNCHANGED ledger,
           \/ UNCHANGED pending
           \/ /\ pending # None /\ pending' # None
              /\ pending'.review = pending.review /\ pending'.try = pending.try
    PROVE  UNCHANGED <<Attempt, Decided>>
BY DEF Attempt, Decided

\* A row about the pending attempt is a decision about it.
LEMMA DecidesAs ==
    ASSUME IntakeTypeOK, NEW x \in Row, ledger' = Append(ledger, x), UNCHANGED pending,
           pending # None, x.of = pending, x.review = pending.review
    PROVE  /\ Attempt # None /\ UNCHANGED Attempt
           /\ Decided' = Decided \cup {Owner!Decision(x.stage)}
<1>1. Attempt # None /\ UNCHANGED Attempt
  BY AbsenceAssumption DEF Attempt, IntakeTypeOK, Incarnation
<1>2. Decided' = Decided \cup {Tells(x)}
  BY DecidedMore DEF IntakeTypeOK
<1> QED BY <1>1, <1>2 DEF Tells, Attempt, Owner!Decision

\* Rows of one attempt are of one review.
LEMMA SameAttempt ==
    ASSUME IntakeInv, NEW i \in DOMAIN ledger, pending # None,
           ledger[i].of.try = pending.try
    PROVE  ledger[i].review = pending.review
<1>1. ledger[i].of \in Attempts /\ pending \in Attempts
  BY DEF Attempts
<1> QED BY <1>1 DEF IntakeInv, Global, Attempted

\* Each step of the intake is one of the owner's, or none.
LEMMA OwnerStep ==
    ASSUME IntakeInv, [IntakeNext]_intakeVars, IntakeInv'
    PROVE  Owner!Next \/ UNCHANGED <<Attempt, Decided>>
<1> USE DEF content, evidence, answers, counts
<1>1. IntakeTypeOK /\ Global /\ IntakeTypeOK'
  BY DEF IntakeInv
<1>2. CASE \/ UNCHANGED intakeVars
           \/ \E r \in Reviews : Prepare(r)
           \/ \E p \in Procs, r \in Reviews : Approve(p, r) \/ AnswerAgain(p, r)
           \/ \E p \in Procs : \E inc \in offered : Cancel(p, inc) \/ CancelAgain(p, inc)
           \/ \E p \in Procs : Stop(p)
           \/ Offer
           \/ \E p \in Paths, c \in {"absent", "other"} : Edit(p, c)
  <2>1. UNCHANGED <<ledger, pending>>
    BY <1>2 DEF intakeVars, Prepare, Approve, AnswerAgain, Cancel, CancelAgain, Offer, Edit, Stop
  <2> QED BY <2>1, OwnerSleeps
<1>3. ASSUME NEW p \in Procs, Proceed(p) PROVE Owner!Next \/ UNCHANGED <<Attempt, Decided>>
  <2>1. Approves(p) /\ Cancels(p)
    BY DEF IntakeInv
  <2>2. CASE Save(p) \/ Select(p) \/ Compare(p) \/ Install(p) \/ Put(p) \/ Outputs(p)
             \/ Propose(p) \/ Settle(p) \/ Refuse(p)
    <3>1. UNCHANGED <<ledger, pending>>
      BY <2>2 DEF Save, Select, Compare, Install, Put, Outputs, Propose, Settle, Refuse
    <3> QED BY <3>1, OwnerSleeps
  <2>3. CASE Open(p)
    <3>1. /\ pending = None /\ UNCHANGED ledger /\ tries \in Nat
          /\ pending' = [review |-> call[p].review, stage |-> "prepared", try |-> tries + 1]
          /\ pending' # None /\ call[p].review \in Reviews
      BY <1>1, <2>1, <2>3, Holding, AbsenceAssumption
         DEF Open, Step, Approves, IntakeTypeOK, Incarnation, Stages
    <3>2. Attempt = None /\ Attempt' = [review |-> call[p].review, try |-> tries + 1]
      BY <3>1 DEF Attempt
    <3>3. ASSUME NEW d \in Decided PROVE d.try # Attempt'.try
      <4>1. PICK i \in DOMAIN ledger : d = Tells(ledger[i])
        BY DecidedRow
      <4>2. ledger[i].of \in Attempts
        BY DEF Attempts
      <4>3. ledger[i].of \in Incarnation
        BY <1>1, RowTyped
      <4>4. ledger[i].of.try <= tries /\ ledger[i].of.try \in Nat
        BY <1>1, <4>2, <4>3 DEF Global, Attempted, Incarnation
      <4> QED BY <3>1, <3>2, <4>1, <4>4 DEF Tells
    <3>4. Attempt' \in [review : Reviews, try : Nat]
      BY <3>1, <3>2
    <3>5. UNCHANGED Decided
      BY <3>1 DEF Decided
    <3> QED BY <3>2, <3>3, <3>4, <3>5 DEF Owner!Next, Owner!Begin
  <2>4. CASE Mark(p) \/ Store(p)
    <3>1. pending \in Incarnation /\ pending # None /\ call[p].stage \in {"approved", "completed"}
      BY <1>1, <2>1, <2>4 DEF Mark, Store, Step, Approves, Pends, Committing, IntakeTypeOK
    <3>2. Signing[call[p].stage] \in Stages /\ call[p].stage \in Stages
      BY <3>1 DEF Signing, Stages
    <3>3. \/ UNCHANGED pending
          \/ pending' = [pending EXCEPT !.stage = Signing[call[p].stage]]
          \/ pending' = [pending EXCEPT !.stage = call[p].stage]
      BY <2>4 DEF Mark, Store
    <3>4. \/ UNCHANGED pending
          \/ /\ pending' \in Incarnation
             /\ pending'.review = pending.review /\ pending'.try = pending.try
      BY <3>1, <3>2, <3>3 DEF Incarnation
    <3> QED BY <2>4, <3>1, <3>4, OwnerSleeps, AbsenceAssumption DEF Mark, Store
  <2>5. CASE Sign(p)
    <3> DEFINE x == NewRow(p)
    <3>1. /\ Pends(call[p].review) /\ call[p].stage \in {"approved", "completed"}
          /\ ~Has(pending.review, call[p].stage) /\ ~Has(pending.review, "completed")
          /\ call[p].stage = "completed" => SignedFor("approved")
          /\ \A i \in DOMAIN ledger :
                ledger[i].of.try = pending.try => ledger[i].stage # "cancelled"
          /\ ledger' = Append(ledger, x) /\ UNCHANGED pending
      BY <2>1, <2>5 DEF Sign, Step, Approves, Committing, Pends
    <3>2. /\ pending \in Incarnation /\ pending # None
          /\ x \in Row /\ x.of = pending /\ x.review = pending.review
          /\ x.stage = call[p].stage
      BY <1>1, <3>1, AbsenceAssumption DEF Pends, IntakeTypeOK, NewRow, Row, Incarnation
    <3> HIDE DEF x
    <3>3. /\ Attempt # None /\ UNCHANGED Attempt
          /\ Decided' = Decided \cup {Owner!Decision(call[p].stage)}
      BY <1>1, <3>1, <3>2, DecidesAs
    <3>4. CASE call[p].stage = "completed"
      <4>1. Owner!Decision("approved") \in Decided
        BY <3>1, <3>2, <3>4, DecidedRow DEF SignedFor, Tells, Owner!Decision, Attempt
      <4> QED BY <3>3, <3>4, <4>1 DEF Owner!Next, Owner!Complete
    <3>5. CASE call[p].stage = "approved"
      <4>1. ASSUME NEW d \in Decided
            PROVE  d.try # Attempt.try /\ (d.review = Attempt.review => d.stage = "cancelled")
        <5>1. PICK i \in DOMAIN ledger : d = Tells(ledger[i])
          BY DecidedRow
        <5>2. ledger[i].of.try = pending.try => ledger[i].review = pending.review
          BY <3>2, SameAttempt
        <5>3. ledger[i].stage \in {"approved", "completed", "cancelled"}
          BY <1>1, RowTyped DEF Row
        <5> QED BY <3>1, <3>2, <3>5, <5>1, <5>2, <5>3 DEF Has, Tells, Attempt
      <4> QED BY <3>3, <3>5, <4>1 DEF Owner!Next, Owner!Decide
    <3> QED BY <3>1, <3>4, <3>5
  <2>6. CASE SignCancel(p)
    <3> DEFINE x == CancelRow(p)
    <3>1. /\ call[p].inc = pending /\ call[p].inc \in offered
          /\ call[p].review = pending.review
          /\ ~Has(pending.review, "approved") /\ ~Has(pending.review, "completed")
          /\ ~Signed(pending)
          /\ ledger' = Append(ledger, x) /\ UNCHANGED pending
      BY <2>1, <2>6 DEF SignCancel, Step, Cancels, Cancelling
    <3>2. /\ pending \in Incarnation /\ pending # None
          /\ x \in Row /\ x.of = pending /\ x.review = pending.review
          /\ x.stage = "cancelled"
      BY <1>1, <3>1, AbsenceAssumption DEF IntakeTypeOK, CancelRow, Row, Incarnation
    <3> HIDE DEF x
    <3>3. /\ Attempt # None /\ UNCHANGED Attempt
          /\ Decided' = Decided \cup {Owner!Decision("cancelled")}
      BY <1>1, <3>1, <3>2, DecidesAs
    <3>4. ASSUME NEW d \in Decided PROVE d.try # Attempt.try
      <4>1. PICK i \in DOMAIN ledger : d = Tells(ledger[i])
        BY DecidedRow
      <4>2. ledger[i].of.try = pending.try => ledger[i].review = pending.review
        BY <3>2, SameAttempt
      <4>3. ledger[i].stage \in {"approved", "completed", "cancelled"}
        BY <1>1, RowTyped DEF Row
      <4>4. ledger[i].of.try = pending.try => ledger[i].stage # "cancelled"
        BY <1>1, <3>1, <3>2, SignedRow DEF Global, CancelsExactly
      <4> QED BY <3>1, <3>2, <4>1, <4>2, <4>3, <4>4 DEF Has, Tells, Attempt
    <3> QED BY <3>3, <3>4 DEF Owner!Next, Owner!Decide
  <2>7. CASE Unlink(p)
    <3>1. /\ pending' = None /\ pending # None /\ UNCHANGED ledger /\ SignedFor("completed")
      BY <2>1, <2>7 DEF Unlink, Approves, Pends
    <3>2. Owner!Decision("completed") \in Decided
      BY <3>1, DecidedRow DEF SignedFor, Tells, Owner!Decision, Attempt
    <3> QED BY <3>1, <3>2 DEF Owner!Next, Owner!Close, Attempt, Decided
  <2>8. CASE Drop(p)
    <3>1. /\ pending' = None /\ pending \in Incarnation /\ pending # None /\ UNCHANGED ledger
          /\ Signed(pending)
      BY <1>1, <2>1, <2>8, AbsenceAssumption DEF Drop, Cancels, Cancelling, IntakeTypeOK
    <3>2. PICK i \in DOMAIN ledger : ledger[i].stage = "cancelled" /\ ledger[i].of = pending
      BY <3>1, SignedRow
    <3>3. ledger[i].review = pending.review
      BY <1>1, <3>2 DEF Global, Attempted
    <3>4. Owner!Decision("cancelled") \in Decided
      BY <3>1, <3>2, <3>3, DecidedRow DEF Tells, Owner!Decision, Attempt
    <3> QED BY <3>1, <3>4 DEF Owner!Next, Owner!Close, Attempt, Decided
  <2> QED BY <1>3, <2>2, <2>3, <2>4, <2>5, <2>6, <2>7, <2>8 DEF Proceed
<1> QED BY <1>2, <1>3 DEF IntakeNext

\* The intake of packages implements the promise of PackageDecisions, for any
\* number of processes, packages, deaths and edits.
THEOREM OwnerRefined == IntakeSpec => OwnerDecides
<1>1. IntakeInit => Owner!Init
  BY DEF IntakeInit, Owner!Init, Attempt, Decided, Range
<1>2. ASSUME IntakeInv, [IntakeNext]_intakeVars, IntakeInv' PROVE [Owner!Next]_(Owner!vars)
  BY <1>2, OwnerStep DEF Owner!vars
<1> QED BY <1>1, <1>2, IntakeInvariant, PTL DEF IntakeSpec, OwnerDecides, Owner!Spec
=============================================================================
