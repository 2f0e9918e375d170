--------------------------- MODULE RequestJournal ---------------------------
(***************************************************************************)
(* The request journal (src/apatch/runtime/request_journal.py): a client   *)
(* repeats a request, after a timeout or a crash of the server, under one  *)
(* request id; the journal decides whether the repetition executes,        *)
(* replays a result, recovers the session that the interrupted original    *)
(* opened, or has to wait.                                                 *)
(*                                                                         *)
(* The request modelled is a session start, the one whose execution writes *)
(* its hash into a lane's state and its session into the record.  Which    *)
(* lane it gets, and what recover_session does, is SessionLane's matter.   *)
(***************************************************************************)
EXTENDS Naturals, FiniteSets

CONSTANTS
    Requests,  \* request ids, each used by its client with one payload
    Procs,     \* server processes, named by their pids
    Lanes,     \* lanes, each with a session state file
    NoRequest, NoProc,
    Capacity,  \* _MAX_RECORDS
    MaxFaults  \* bound on deaths and exceptions

ASSUME JournalConstants ==
    /\ NoRequest \notin Requests
    /\ NoProc \notin Procs
    /\ Capacity \in Nat \ {0} /\ MaxFaults \in Nat

VARIABLES
    record,   \* request_journal.json
    held,     \* the process in the journal's file lock
    lanes,    \* the request whose session a lane's state file names
    procs,    \* what has the pid of a server process
    pc,       \* where the call of a process stands
    req,      \* the request of that call
    found,    \* whether its scan of the state files found the request
    opened,   \* history: sessions opened for a request, counted to two
    pruned,   \* history: requests whose record was pruned
    orphaned, \* history: requests that left a session which was never bound
    answered, \* requests whose client has its answer
    faults

vars == <<record, held, lanes, procs, pc, req, found, opened, pruned, orphaned, answered, faults>>

None   == [status |-> "none", owner |-> NoProc, session |-> FALSE]
Record == [status : {"none", "started", "completed", "unknown", "bare"}, owner : Procs \cup {NoProc}, session : BOOLEAN]
Lane   == [request : Requests \cup {NoRequest}, open : BOOLEAN]
Points == {"idle", "admit", "decide", "open", "bind", "finish", "recover", "answer"}
Executing == {"open", "bind", "finish"}

----------------------------------------------------------------------------
(* Helpers *)

\* Fault: a pid is looked up in a table that is never cleaned.
AliveForever(p) == p \in Procs

\* What _pid_alive answers: a pid may be alive in another process.
Alive(p) == p \in Procs /\ procs[p] # "gone"

\* Some lane's state file carries the hash of the request.
Standing(r) == \E l \in Lanes : lanes[l].request = r

Exists(r) == record[r].status # "none"

\* _prune: with too many records the ones updated longest ago go.  The times
\* are the wall clock's and not modelled: it may be any but the one written.
Prune(rec, r) ==
    LET kept == {k \in Requests : rec[k].status # "none"}
        over == {g \in SUBSET (kept \ {r}) : Cardinality(kept \ g) = Capacity}
    IN  IF Cardinality(kept) <= Capacity THEN {rec}
        ELSE {[k \in Requests |-> IF k \in g THEN None ELSE rec[k]] : g \in over}

Store(r, rec) ==
    /\ record' \in Prune([record EXCEPT ![r] = rec], r)
    /\ pruned' = pruned \cup
          {k \in Requests : k # r /\ Exists(k) /\ record'[k].status = "none"}

\* Fault: only a record that is still started can be written to.
MarkedStarted(r, status) == IF record[r].status = "started" THEN status ELSE "bare"

\* A later writer recreates a record that was pruned, without the operation
\* and the payload: such a record matches no request any more.
Marked(r, status) == IF Exists(r) /\ record[r].status # "bare" THEN status ELSE "bare"

Goto(p, point) ==
    /\ pc' = [pc EXCEPT ![p] = point]
    /\ req' = [req EXCEPT ![p] = IF point = "idle" THEN NoRequest ELSE @]
    /\ found' = [found EXCEPT ![p] = FALSE]
Fault == faults < MaxFaults /\ faults' = faults + 1

----------------------------------------------------------------------------
(* run_idempotent_request: admission, under the journal's lock *)

\* A client sends a request, or repeats one it has no answer to.
Submit(p, r) ==
    /\ procs[p] = "up" /\ pc[p] = "idle"
    /\ r \notin answered
    /\ req' = [req EXCEPT ![p] = r]
    /\ pc' = [pc EXCEPT ![p] = "admit"]
    /\ UNCHANGED <<record, held, lanes, procs, found, opened, pruned,
                   orphaned, answered, faults>>

\* The lock is taken, and the state files are searched; the journal's lock
\* does not keep other processes from writing them.
Scan(p) ==
    /\ pc[p] = "admit" /\ held = NoProc
    /\ held' = p
    /\ found' = [found EXCEPT ![p] = Standing(req[p])]
    /\ pc' = [pc EXCEPT ![p] = "decide"]
    /\ UNCHANGED <<record, lanes, procs, req, opened, pruned, orphaned,
                   answered, faults>>

Decide(p, point) ==
    /\ pc[p] = "decide"
    /\ held' = NoProc
    /\ Goto(p, point)
    /\ UNCHANGED <<lanes, procs, opened, orphaned, answered, faults>>

Insert(p) ==
    /\ Decide(p, "open")
    /\ ~Exists(req[p])
    /\ Store(req[p], [status |-> "started", owner |-> p, session |-> FALSE])

\* REQUEST_ID_CONFLICT for a record of another operation, or of none; a result
\* that is completed is replayed.
Replay(p) ==
    /\ Decide(p, "answer")
    /\ record[req[p]].status \in {"bare", "completed"}
    /\ UNCHANGED <<record, pruned>>

Pending(r) == record[r].status \in {"started", "unknown"}

Recover(p) ==
    /\ Decide(p, "recover")
    /\ Pending(req[p])
    /\ found[p] \/ record[req[p]].session
    /\ UNCHANGED <<record, pruned>>

\* Fault: a request without a session is taken over at once.
MayTakeOverAtOnce(p) ==
    Pending(req[p]) /\ ~found[p] /\ ~record[req[p]].session

\* Nothing was opened and the process that executed the request is gone.
MayTakeOver(p) ==
    /\ Pending(req[p])
    /\ ~found[p] /\ ~record[req[p]].session
    /\ ~Alive(record[req[p]].owner)

TakeOver(p) ==
    /\ Decide(p, "open")
    /\ MayTakeOver(p)
    /\ record' = [record EXCEPT ![req[p]].status = "started", ![req[p]].owner = p]
    /\ UNCHANGED pruned

\* REQUEST_IN_PROGRESS or REQUEST_OUTCOME_UNKNOWN: the client tries again.
Wait(p) ==
    /\ Decide(p, "idle")
    /\ Pending(req[p])
    /\ ~found[p] /\ ~record[req[p]].session
    /\ Alive(record[req[p]].owner)
    /\ UNCHANGED <<record, pruned>>

----------------------------------------------------------------------------
(* The execution of a session start, outside the lock *)

\* The compare-and-swap of the lane's state: it opens a session there, with
\* the hash of the request, or answers SESSION_CONFLICT.  A start may also be
\* refused before.
Open(p) ==
    /\ pc[p] = "open"
    /\ \/ \E l \in Lanes :
             /\ ~lanes[l].open
             /\ lanes' = [lanes EXCEPT ![l] = [request |-> req[p], open |-> TRUE]]
          /\ opened' = [opened EXCEPT ![req[p]] = IF @ = 0 THEN 1 ELSE 2]
          /\ Goto(p, "bind")
       \/ Goto(p, "finish") /\ UNCHANGED <<lanes, opened>>
    /\ UNCHANGED <<record, held, procs, pruned, orphaned, answered, faults>>

\* Fault: the session is not written into the record of its request.
BindNothing(p) ==
    /\ pc[p] = "bind" /\ held = NoProc
    /\ Goto(p, "finish")
    /\ UNCHANGED <<record, held, lanes, procs, opened, pruned, orphaned,
                   answered, faults>>

\* bind_request_session: only into a record that is still there.
Bind(p) ==
    /\ pc[p] = "bind" /\ held = NoProc
    /\ IF Exists(req[p])
       THEN record' = [record EXCEPT ![req[p]].session = TRUE]
       ELSE UNCHANGED record
    /\ Goto(p, "finish")
    /\ UNCHANGED <<held, lanes, procs, opened, pruned, orphaned, answered,
                   faults>>

\* The start raises, before or after its session was opened.
Raise(p) ==
    /\ Fault
    /\ pc[p] \in Executing /\ held = NoProc
    /\ record' = [record EXCEPT ![req[p]].status = Marked(req[p], "unknown")]
    /\ orphaned' = IF pc[p] = "bind" THEN orphaned \cup {req[p]} ELSE orphaned
    /\ Goto(p, "idle")
    /\ UNCHANGED <<held, lanes, procs, opened, pruned, answered>>

\* _complete_record, with the result of the start or of the recovery; a failed
\* start may name the session it met.
Complete(p) ==
    /\ pc[p] \in {"finish", "recover"} /\ held = NoProc
    /\ \E named \in BOOLEAN :
          Store(req[p], [record[req[p]] EXCEPT !.status = Marked(req[p], "completed"),
                                               !.session = IF named THEN TRUE ELSE @])
    /\ Goto(p, "answer")
    /\ UNCHANGED <<held, lanes, procs, opened, orphaned, answered, faults>>

\* The recovery of the session raises: the record stays as it is.
RecoverRaises(p) ==
    /\ Fault
    /\ pc[p] = "recover"
    /\ Goto(p, "idle")
    /\ UNCHANGED <<record, held, lanes, procs, opened, pruned, orphaned,
                   answered>>

Answer(p) ==
    /\ pc[p] = "answer"
    /\ answered' = answered \cup {req[p]}
    /\ Goto(p, "idle")
    /\ UNCHANGED <<record, held, lanes, procs, opened, pruned, orphaned,
                   faults>>

----------------------------------------------------------------------------
(* Processes and lanes *)

\* A process dies wherever its call stands; the lock goes with it.
Die(p) ==
    /\ Fault
    /\ procs[p] = "up"
    /\ procs' = [procs EXCEPT ![p] = "gone"]
    /\ held' = IF held = p THEN NoProc ELSE held
    /\ orphaned' = IF pc[p] = "bind" THEN orphaned \cup {req[p]} ELSE orphaned
    /\ Goto(p, "idle")
    /\ UNCHANGED <<record, lanes, opened, pruned, answered>>

PidReused(p) ==
    /\ procs[p] = "gone"
    /\ procs' = [procs EXCEPT ![p] = "foreign"]
    /\ UNCHANGED <<record, held, lanes, pc, req, found, opened, pruned,
                   orphaned, answered, faults>>

ForeignEnds(p) ==
    /\ procs[p] = "foreign"
    /\ procs' = [procs EXCEPT ![p] = "gone"]
    /\ UNCHANGED <<record, held, lanes, pc, req, found, opened, pruned,
                   orphaned, answered, faults>>

\* The session of a lane is ended, by whoever holds its capability.
EndSession(l) ==
    /\ lanes[l].open
    /\ lanes' = [lanes EXCEPT ![l].open = FALSE]
    /\ UNCHANGED <<record, held, procs, pc, req, found, opened, pruned,
                   orphaned, answered, faults>>

\* A session is started in its place without a request id; that it may stand
\* in the way of a start is left to Open, which may always be refused.
StartPlain(l) ==
    /\ lanes[l].request # NoRequest /\ ~lanes[l].open
    /\ lanes' = [lanes EXCEPT ![l].request = NoRequest]
    /\ UNCHANGED <<record, held, procs, pc, req, found, opened, pruned,
                   orphaned, answered, faults>>

----------------------------------------------------------------------------

Init ==
    /\ record = [r \in Requests |-> None]
    /\ held = NoProc
    /\ lanes = [l \in Lanes |-> [request |-> NoRequest, open |-> FALSE]]
    /\ procs = [p \in Procs |-> "up"]
    /\ pc = [p \in Procs |-> "idle"]
    /\ req = [p \in Procs |-> NoRequest]
    /\ found = [p \in Procs |-> FALSE]
    /\ opened = [r \in Requests |-> 0]
    /\ pruned = {} /\ orphaned = {} /\ answered = {}
    /\ faults = 0

Step(p) ==
    \/ Scan(p) \/ Insert(p) \/ Replay(p) \/ Recover(p) \/ TakeOver(p) \/ Wait(p)
    \/ Open(p) \/ Bind(p) \/ Complete(p) \/ Answer(p)

Next ==
    \/ \E p \in Procs :
          \/ Step(p) \/ Raise(p) \/ RecoverRaises(p)
          \/ Die(p) \/ PidReused(p) \/ ForeignEnds(p)
          \/ \E r \in Requests : Submit(p, r)
    \/ \E l \in Lanes : EndSession(l) \/ StartPlain(l)

Spec == Init /\ [][Next]_vars

\* A process goes on with its call and gets the lock in the end; a client
\* repeats its request until it has an answer.
FairSpec ==
    /\ Spec
    /\ \A p \in Procs : SF_vars(Step(p))
    /\ \A r \in Requests : SF_vars(r \notin answered /\ \E p \in Procs : Submit(p, r))

----------------------------------------------------------------------------
(* Properties *)

\* Every variable stays in its type.
TypeOK ==
    /\ record \in [Requests -> Record]
    /\ held \in Procs \cup {NoProc}
    /\ lanes \in [Lanes -> Lane]
    /\ procs \in [Procs -> {"up", "gone", "foreign"}]
    /\ pc \in [Procs -> Points]
    /\ req \in [Procs -> Requests \cup {NoRequest}]
    /\ found \in [Procs -> BOOLEAN]
    /\ opened \in [Requests -> 0..2]
    /\ pruned \subseteq Requests
    /\ orphaned \subseteq Requests /\ answered \subseteq Requests
    /\ faults \in 0..MaxFaults

\* However often a request is repeated, while its original runs or after it
\* died, it opens one session (run_idempotent_request: "Run once per request
\* id").  Two things excuse a second one: the record was pruned, or an
\* execution stopped between opening its session and binding it.
OpensOnce ==
    \A r \in Requests : opened[r] > 1 => r \in pruned \/ r \in orphaned

\* One process at most executes a request, as long as its record is kept.
ExecutesOnce ==
    \A p, q \in Procs :
        /\ pc[p] \in Executing /\ pc[q] \in Executing
        /\ req[p] = req[q] /\ req[p] \notin pruned
        => p = q

\* What the docstring of run_idempotent_request says, "Run once per request id
\* and make client-timeout retries deterministic": as long as its record is
\* kept, a request has one open session at most.  The code does not keep it: a
\* retry may look for the session just before the original opens one, and for
\* the process of the original just after it died.
OneOpenSession ==
    \A r \in Requests \ pruned :
        Cardinality({l \in Lanes : lanes[l].request = r /\ lanes[l].open}) <= 1

\* A client that repeats its own request is not told that it belongs to
\* another operation, unless the record was pruned under it.
ConflictMeansPruned ==
    \A r \in Requests : record[r].status = "bare" => r \in pruned

\* The original raised, or lost its pid to another process, and what has the
\* pid lives on: the outcome is unknown and stays so.
Blocked(r) ==
    /\ Pending(r)
    /\ record[r].owner \in Procs /\ procs[record[r].owner] # "gone"
    /\ ~(pc[record[r].owner] \in Executing /\ req[record[r].owner] = r)

\* A client that keeps repeating its request has an answer in the end, while
\* there is a server to ask.
Answered ==
    \A r \in Requests :
        <>(r \in answered \/ Blocked(r) \/ \A p \in Procs : procs[p] # "up")

=============================================================================
