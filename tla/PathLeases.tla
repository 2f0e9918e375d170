---------------------------- MODULE PathLeases ----------------------------
(***************************************************************************)
(* Path-scoped writer leases (src/apatch/path_leases.py): the registry     *)
(* .apatch/write_leases.json, the compatibility file                       *)
(* .apatch/write_lease.json that a version 1 client reads, the admission   *)
(* transaction over both, and the fence each applied edit passes.          *)
(*                                                                         *)
(* An operation (Ops) is one mutating call of one process; it acts for a   *)
(* governed session or for none.  A transaction holds both file locks, so  *)
(* it is one step; what two steps can see of it is a process that dies     *)
(* inside it, between the two files it writes.  Paths are nodes of a tree: *)
(* what canonicalisation makes of a name is abstracted to the node.        *)
(***************************************************************************)
EXTENDS Integers, FiniteSets

CONSTANTS
    Ops,        \* mutating operations
    Procs,      \* process ids of current clients
    V1Procs,    \* process ids of version 1 clients, which know one file only
    Sessions,   \* governed session ids
    NoSession,  \* an operation outside any governed session
    V1Session,  \* the session id a version 1 client writes under
    Paths,      \* canonical paths
    Root,       \* the workspace root, the path "."
    Ancestors,  \* Ancestors[p]: the directories above p, and p
    Requests,   \* write sets operations plan, each not empty
    LeaseIds,   \* lease ids, drawn at random by the code and so never reused
    ProcOf,     \* the process an operation runs in
    SessionOf,  \* the session an operation acts for
    TTL,        \* seconds a lease lives (lease_max_seconds)
    MaxTime,    \* bound on the clock
    None        \* an absent record

ASSUME ConstantsAssumption ==
    /\ ProcOf \in [Ops -> Procs]
    /\ SessionOf \in [Ops -> Sessions \cup {NoSession}]
    /\ Procs \cap V1Procs = {}
    /\ NoSession \notin Sessions
    /\ V1Session \notin Sessions \cup {NoSession}
    /\ Requests \subseteq (SUBSET Paths) \ {{}}
    /\ TTL \in Nat
    /\ MaxTime \in Nat

\* Directories form a tree: what lies above one path lies on one branch.
ASSUME PathsAssumption ==
    /\ Root \in Paths
    /\ Ancestors \in [Paths -> SUBSET Paths]
    /\ \A p \in Paths : {p, Root} \subseteq Ancestors[p]
    /\ \A p \in Paths : \A q \in Ancestors[p] : Ancestors[q] \subseteq Ancestors[p]
    /\ \A p \in Paths : \A q, r \in Ancestors[p] :
           q \in Ancestors[r] \/ r \in Ancestors[q]

VARIABLES
    now,        \* the clock
    alive,      \* processes that exist: what kill(pid, 0) answers
    registry,   \* write_leases.json, a lease or None for each id
    legacy,     \* the capability in write_lease.json, or None
    cap,        \* the lease an operation was handed, kept in its memory
    drawn,      \* lease ids drawn so far
    overwritten \* history: paths a foreign fenced write hit since cap was handed

vars == <<now, alive, registry, legacy, cap, drawn, overwritten>>

Times == 0..(MaxTime + TTL)
Owners == Sessions \cup {NoSession, V1Session}
Pids == Procs \cup V1Procs

Lease == [session : Owners, pid : Pids, paths : SUBSET Paths,
          exp : Times, migrated : BOOLEAN]
Guard == [kind : {"guard"}, exp : Times]
V1Cap == [kind : {"v1"}, id : LeaseIds, pid : V1Procs, exp : Times]
Cap   == [id : LeaseIds, session : Owners, pid : Pids, paths : SUBSET Paths]

ASSUME NoneAssumption == None \notin Lease \cup Guard \cup V1Cap \cup Cap

----------------------------------------------------------------------------
(* Paths and validity *)

Covers(held, p)  == \E g \in held : g \in Ancestors[p]
Overlap(p, q)    == p \in Ancestors[q] \/ q \in Ancestors[p]
Clash(P, Q)      == \E p \in P, q \in Q : Overlap(p, q)

\* A lease counts until the clock passes its expiry or its process is gone.
Valid(l) == l # None /\ now <= l.exp /\ l.pid \in alive

IsV1(c)    == c # None /\ c.kind = "v1"
V1Valid(c) == IsV1(c) /\ now <= c.exp /\ c.pid \in alive

\* The barrier for version 1 clients names no process: only time ends it.
GuardValid(c) == c # None /\ c.kind = "guard" /\ now <= c.exp

----------------------------------------------------------------------------
(* The admission transaction *)

\* A live version 1 capability is carried in the registry as a lease of the
\* whole workspace; leases migrated earlier from any other one are dropped.
Migrated ==
    [i \in LeaseIds |->
        IF V1Valid(legacy) /\ i = legacy.id
        THEN [session |-> V1Session, pid |-> legacy.pid, paths |-> {Root},
              exp |-> legacy.exp, migrated |-> TRUE]
        ELSE IF registry[i] # None /\ registry[i].migrated THEN None
        ELSE registry[i]]

\* What a transaction works on: migrated, then pruned of leases not valid.
Current ==
    [i \in LeaseIds |-> IF Valid(Migrated[i]) THEN Migrated[i] ELSE None]

\* Fault: the barrier is taken for a version 1 capability and removed too.
LegacyMigratedFault == IF ~V1Valid(legacy) THEN None ELSE legacy

\* Migration has removed a version 1 capability that is no longer valid.
LegacyMigrated == IF IsV1(legacy) /\ ~V1Valid(legacy) THEN None ELSE legacy

Held(reg) == {i \in LeaseIds : reg[i] # None}

\* Fault: the barrier expires at once, not with the latest lease.
LatestExpiryNow(reg) == now

LatestExpiry(reg) ==
    LET live == {i \in LeaseIds : Valid(reg[i])}
    IN IF live = {} THEN now
       ELSE reg[CHOOSE i \in live : \A j \in live : reg[j].exp <= reg[i].exp].exp

\* A live version 1 owner keeps its capability; otherwise any lease raises the
\* barrier, until the latest expiry, and an empty registry clears the file.
Sentinel(reg) ==
    IF \E i \in Held(reg) : reg[i].migrated
    THEN LET i == CHOOSE i \in Held(reg) : reg[i].migrated
         IN [kind |-> "v1", id |-> i, pid |-> reg[i].pid, exp |-> reg[i].exp]
    ELSE IF Held(reg) # {}
    THEN [kind |-> "guard", exp |-> LatestExpiry(reg)]
    ELSE None

\* Both locks held: the registry is written, then the compatibility file.
Commit(reg) == registry' = reg /\ legacy' = Sentinel(reg)

\* The holder of the locks dies before, or between, the two writes.
Torn(reg) == registry' \in {registry, reg} /\ legacy' = LegacyMigrated

Die(p) ==
    /\ alive' = alive \ {p}
    /\ cap' = [o \in Ops |-> IF ProcOf[o] = p THEN None ELSE cap[o]]
    /\ overwritten' = [o \in Ops |-> IF ProcOf[o] = p THEN {} ELSE overwritten[o]]

----------------------------------------------------------------------------
(* Acquire and release *)

\* Leases an operation may extend: its session's, or, for an operation of no
\* session, any lease of its process.
Owned(o, reg) ==
    {i \in Held(reg) :
        IF SessionOf[o] # NoSession THEN reg[i].session = SessionOf[o]
                                    ELSE reg[i].pid = ProcOf[o]}

\* Fault: a request above a held path is not seen to conflict with it.
AdmissibleFault(o, P, reg) ==
    \A i \in Held(reg) \ Owned(o, reg) : \A p \in P : ~Covers(reg[i].paths, p)

Admissible(o, P, reg) ==
    \A i \in Held(reg) \ Owned(o, reg) : ~Clash(P, reg[i].paths)

\* The lease is extended in place, or drawn anew when the operation owns none.
Granted(o, P, i, reg) ==
    [session  |-> IF SessionOf[o] = NoSession /\ reg[i] # None
                  THEN reg[i].session ELSE SessionOf[o],
     pid      |-> ProcOf[o],
     paths    |-> IF reg[i] # None THEN reg[i].paths \cup P ELSE P,
     exp      |-> now + TTL,
     migrated |-> reg[i] # None /\ reg[i].migrated]

Target(o, i, reg) ==
    IF Owned(o, reg) # {} THEN i \in Owned(o, reg) ELSE i \in LeaseIds \ drawn

AfterAcquire(o, P, i) == [Current EXCEPT ![i] = Granted(o, P, i, Current)]

Acquire(o, P) ==
    /\ ProcOf[o] \in alive
    /\ Admissible(o, P, Current)
    /\ \E i \in LeaseIds :
        LET reg == AfterAcquire(o, P, i) IN
        /\ Target(o, i, Current)
        /\ drawn' = drawn \cup {i}
        /\ \/ /\ Commit(reg)
              /\ cap' = [cap EXCEPT ![o] =
                    [id |-> i, session |-> reg[i].session, pid |-> reg[i].pid,
                     paths |-> reg[i].paths]]
              /\ overwritten' = [overwritten EXCEPT ![o] = {}]
              /\ UNCHANGED alive
           \/ Torn(reg) /\ Die(ProcOf[o])
    /\ UNCHANGED now

\* A conflict adds nothing, but leaves the migrated and pruned registry behind.
AcquireConflict(o, P) ==
    /\ ProcOf[o] \in alive
    /\ ~Admissible(o, P, Current)
    /\ Commit(Current)
    /\ UNCHANGED <<now, alive, cap, drawn, overwritten>>

\* A transaction of process p that only takes the leases in gone away.
Remove(p, gone) ==
    LET reg == [i \in LeaseIds |-> IF i \in gone THEN None ELSE Current[i]]
    IN \/ Commit(reg) /\ UNCHANGED <<alive, cap, overwritten>>
       \/ Torn(reg) /\ Die(p)

\* release_path_leases by id: of the caller's session when it has one, of its
\* own process when it has none.
Release(o) ==
    /\ ProcOf[o] \in alive
    /\ cap[o] # None
    /\ LET i == cap[o].id
           own == /\ Current[i] # None
                  /\ IF SessionOf[o] # NoSession
                     THEN Current[i].session = SessionOf[o]
                     ELSE Current[i].pid = ProcOf[o]
       IN Remove(ProcOf[o], IF own THEN {i} ELSE {})
    /\ UNCHANGED <<now, drawn>>

\* Finalization releases everything its session holds, whatever the process.
ReleaseSession(p, s) ==
    /\ p \in alive
    /\ Remove(p, {i \in Held(Current) : Current[i].session = s})
    /\ UNCHANGED <<now, drawn>>

\* At shutdown a process releases its own leases, one transaction each.
ReleaseAtShutdown(p, i) ==
    /\ p \in alive
    /\ Valid(registry[i])
    /\ registry[i].pid = p
    /\ Remove(p, {i})
    /\ UNCHANGED <<now, drawn>>

\* sweep_stale_leases is a transaction with an empty body.
SweepStale(p) ==
    /\ p \in alive
    /\ Remove(p, {})
    /\ UNCHANGED <<now, drawn>>

----------------------------------------------------------------------------
(* Writing *)

\* Fault: the fence does not ask whether the lease it finds is still valid.
MayWriteExpired(o, p) ==
    /\ ProcOf[o] \in alive
    /\ cap[o] # None
    /\ registry[cap[o].id] # None
    /\ registry[cap[o].id].session = cap[o].session
    /\ registry[cap[o].id].pid = ProcOf[o]
    /\ Covers(cap[o].paths, p)

\* Fault: any lease of the same session and process passes, whatever its id.
MayWriteAnyLease(o, p) ==
    /\ ProcOf[o] \in alive
    /\ cap[o] # None
    /\ \E i \in LeaseIds :
        /\ Valid(registry[i])
        /\ registry[i].session = cap[o].session
        /\ registry[i].pid = ProcOf[o]
        /\ Covers(registry[i].paths, p)

\* Fault: a grant covers what lies above it (paths_overlap used for coverage).
MayWriteAbove(o, p) ==
    /\ ProcOf[o] \in alive
    /\ cap[o] # None
    /\ LET l == registry[cap[o].id] IN
        /\ Valid(l)
        /\ l.session = cap[o].session
        /\ l.pid = ProcOf[o]
        /\ Clash(l.paths, {p})

\* The fence: the registry still carries this very lease, for this process,
\* valid, and both it and the capability in hand cover the path.
MayWrite(o, p) ==
    /\ ProcOf[o] \in alive
    /\ cap[o] # None
    /\ cap[o].pid = ProcOf[o]
    /\ LET l == registry[cap[o].id] IN
        /\ Valid(l)
        /\ l.session = cap[o].session
        /\ l.pid = cap[o].pid
        /\ Covers(cap[o].paths, p)
        /\ Covers(l.paths, p)

SameOwner(o, q) ==
    IF SessionOf[o] # NoSession THEN SessionOf[q] = SessionOf[o]
    ELSE SessionOf[q] = NoSession /\ ProcOf[q] = ProcOf[o]

FencedWrite(o, p) ==
    /\ MayWrite(o, p)
    /\ overwritten' = [q \in Ops |->
          IF SameOwner(o, q) \/ cap[q] = None THEN overwritten[q]
          ELSE overwritten[q] \cup {p}]
    /\ UNCHANGED <<now, alive, registry, legacy, cap, drawn>>

----------------------------------------------------------------------------
(* Version 1 clients, which lock and read write_lease.json only *)

V1Acquire(v) ==
    /\ v \in alive
    /\ ~V1Valid(legacy) /\ ~GuardValid(legacy)
    /\ \E i \in LeaseIds \ drawn :
        /\ drawn' = drawn \cup {i}
        /\ legacy' = [kind |-> "v1", id |-> i, pid |-> v, exp |-> now + TTL]
    /\ UNCHANGED <<now, alive, registry, cap, overwritten>>

V1Holds(v) == V1Valid(legacy) /\ legacy.pid = v

V1Renew(v) ==
    /\ V1Holds(v)
    /\ legacy' = [legacy EXCEPT !.exp = now + TTL]
    /\ UNCHANGED <<now, alive, registry, cap, drawn, overwritten>>

V1Release(v) ==
    /\ V1Holds(v)
    /\ legacy' = None
    /\ UNCHANGED <<now, alive, registry, cap, drawn, overwritten>>

----------------------------------------------------------------------------
(* Processes and time *)

\* A process dies and takes the capabilities in its memory with it.
Crash(p) ==
    /\ p \in alive
    /\ Die(p)
    /\ UNCHANGED <<now, registry, legacy, drawn>>

\* The process id comes back: a stale lease of it looks alive again.
Restart(p) ==
    /\ p \in Pids \ alive
    /\ alive' = alive \cup {p}
    /\ UNCHANGED <<now, registry, legacy, cap, drawn, overwritten>>

Tick ==
    /\ now < MaxTime
    /\ now' = now + 1
    /\ UNCHANGED <<alive, registry, legacy, cap, drawn, overwritten>>

Init ==
    /\ now = 0
    /\ alive = Pids
    /\ registry = [i \in LeaseIds |-> None]
    /\ legacy = None
    /\ cap = [o \in Ops |-> None]
    /\ drawn = {}
    /\ overwritten = [o \in Ops |-> {}]

Next ==
    \/ \E o \in Ops : \/ \E P \in Requests : Acquire(o, P) \/ AcquireConflict(o, P)
                      \/ Release(o)
                      \/ \E p \in Paths : FencedWrite(o, p)
    \/ \E p \in Procs : \/ \E s \in Sessions : ReleaseSession(p, s)
                        \/ \E i \in LeaseIds : ReleaseAtShutdown(p, i)
                        \/ SweepStale(p)
    \/ \E v \in V1Procs : V1Acquire(v) \/ V1Renew(v) \/ V1Release(v)
    \/ \E p \in Pids : Crash(p) \/ Restart(p)
    \/ Tick

Spec == Init /\ [][Next]_vars

----------------------------------------------------------------------------
(* Properties *)

\* Every variable keeps its type: an expiry lies within the clock's reach, and
\* the compatibility file is a barrier, a version 1 capability or absent
\* (path_leases.py _sync_compat_sentinel).
TypeOK ==
    /\ now \in 0..MaxTime
    /\ alive \subseteq Pids
    /\ registry \in [LeaseIds -> Lease \cup {None}]
    /\ legacy \in Guard \cup V1Cap \cup {None}
    /\ cap \in [Ops -> Cap \cup {None}]
    /\ drawn \subseteq LeaseIds
    /\ overwritten \in [Ops -> SUBSET Paths]

\* Two operations of different owners never both pass the fence for paths one
\* of which contains the other, through any crash, pid reuse, expiry, renewal,
\* migration or torn transaction (fence_path_write, acquire_path_lease).
WriteExclusion ==
    \A o, q \in Ops : ~SameOwner(o, q) =>
        \A p, r \in Paths : MayWrite(o, p) /\ MayWrite(q, r) => ~Overlap(p, r)

\* A path an operation may still write was written by nobody else since the
\* operation was admitted: a lease lost and won back never passes for the one
\* that was held (the lease identity fields fence_path_write compares).
NoForeignOverwrite ==
    \A o \in Ops : \A p \in Paths :
        MayWrite(o, p) => \A r \in overwritten[o] : ~Overlap(p, r)

\* While a version 1 client holds the workspace no current client passes the
\* fence: the barrier outlives every lease it stands for (_sync_compat_sentinel).
V1Exclusion ==
    \A v \in V1Procs : V1Holds(v) =>
        \A o \in Ops : \A p \in Paths : ~MayWrite(o, p)

\* Two leases of two sessions have a path in common.
Merged(i, j) ==
    /\ registry[i] # None
    /\ registry[j] # None
    /\ {registry[i].session, registry[j].session} \subseteq Sessions
    /\ registry[i].session # registry[j].session
    /\ Clash(registry[i].paths, registry[j].paths)

\* One process serves both sessions, and a call outside any session, whose own
\* lease is any lease of that process (acquire_path_lease).
Shared(s, t) ==
    \E o, q, r \in Ops :
        /\ SessionOf[o] = NoSession /\ SessionOf[q] = s /\ SessionOf[r] = t
        /\ ProcOf[q] = ProcOf[o] /\ ProcOf[r] = ProcOf[o]

\* The registry carries overlapping leases of two sessions in one case only, when
\* a call outside any session runs in a process that serves both: "a live lease
\* is never merged across sessions or stolen" (docs/RFP-036, lines 44 and 71).
NeverMerged ==
    \A i, j \in LeaseIds :
        Merged(i, j) => Shared(registry[i].session, registry[j].session)

\* What the document says, with no exception: PathLeasesShared.cfg shows how the
\* code merges the leases of two sessions of one process.
NeverMergedAtAll == \A i, j \in LeaseIds : ~Merged(i, j)

----------------------------------------------------------------------------
(* The invariant the proofs use *)

\* An operation outside any session shares its process with no session's: a
\* one-shot command.  The run that drops this shows what it is needed for.
OwnersSeparated ==
    \A o, q \in Ops :
        SessionOf[o] = NoSession /\ SessionOf[q] # NoSession => ProcOf[o] # ProcOf[q]

\* A lease stands for a version 1 client, or for some operation's owner.
LeaseShape ==
    \A i \in LeaseIds : registry[i] # None =>
        /\ i \in drawn
        /\ registry[i].migrated => /\ registry[i].session = V1Session
                                  /\ registry[i].pid \in V1Procs
        /\ ~registry[i].migrated => \E o \in Ops : /\ registry[i].pid = ProcOf[o]
                                                  /\ registry[i].session = SessionOf[o]

\* No lease of a current client has the id of a version 1 capability.
LegacyShape ==
    IsV1(legacy) =>
        /\ legacy.id \in drawn
        /\ registry[legacy.id] # None => registry[legacy.id].migrated
        /\ \A o \in Ops : cap[o] # None => cap[o].id # legacy.id

\* The lease of a capability in hand stays its owner's, and only grows.
CapShape ==
    \A o \in Ops : cap[o] # None =>
        /\ ProcOf[o] \in alive
        /\ cap[o].id \in drawn
        /\ cap[o].pid = ProcOf[o]
        /\ cap[o].session = SessionOf[o]
        /\ registry[cap[o].id] # None =>
              /\ ~registry[cap[o].id].migrated
              /\ registry[cap[o].id].session = SessionOf[o]
              /\ SessionOf[o] = NoSession => registry[cap[o].id].pid = ProcOf[o]
              /\ cap[o].paths \subseteq registry[cap[o].id].paths

\* Each owner has one lease, and no two leases overlap.
LeasesDisjoint ==
    \A i, j \in LeaseIds :
        /\ i # j
        /\ registry[i] # None /\ ~registry[i].migrated
        /\ registry[j] # None /\ ~registry[j].migrated
        => /\ ~Clash(registry[i].paths, registry[j].paths)
           /\ registry[i].session = registry[j].session =>
                 /\ registry[i].session = NoSession
                 /\ registry[i].pid # registry[j].pid

\* As long as its lease is in the registry, nobody wrote under a capability.
NothingOverwritten ==
    \A o \in Ops : cap[o] # None /\ registry[cap[o].id] # None =>
        ~Clash(cap[o].paths, overwritten[o])

\* The barrier covers every lease somebody can still pass the fence with.
Barrier ==
    \A o \in Ops :
        /\ cap[o] # None
        /\ registry[cap[o].id] # None
        /\ registry[cap[o].id].pid = ProcOf[o]
        => \/ registry[cap[o].id].exp < now
           \/ /\ legacy # None /\ legacy.kind = "guard"
              /\ registry[cap[o].id].exp <= legacy.exp

IInv ==
    /\ TypeOK
    /\ LeaseShape
    /\ LegacyShape
    /\ CapShape
    /\ LeasesDisjoint
    /\ NothingOverwritten
    /\ Barrier

=============================================================================
